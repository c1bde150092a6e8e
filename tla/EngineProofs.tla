---------------------------- MODULE EngineProofs ----------------------------
(* The engine of a session, for all machines and settings: what the program *)
(* chose itself runs, and on the machine of the first run it is again what  *)
(* the first run chose.                                                     *)
EXTENDS Engine, WellFoundedInduction, TLAPS

TierRows == {TierTable[tier] : tier \in DOMAIN TierTable}

(* The engine of a start is a function of the configuration and the machine.*)
Chosen(model, m) == Built(SelectBackend(Reconcile(model, Probe(m)).resolved))

(* A table whose every row is listed.                                       *)
LEMMA TierRowsAre ==
  TierRows = {Row("large", "cuda", "float16"), Row("small", "cuda", "int8_float16"),
              Row("base", "cuda", "int8_float16"), Row("large", "mlx", "float16"),
              Row("small", "mlx", "float16"), Row("small", "cpu", "int8"),
              Row("base", "cpu", "int8")}
BY DEF TierRows, TierTable

LEMMA RowsNamed ==
  /\ TierTable["Cpu"] = Row("base", "cpu", "int8")
  /\ TierTable["AppleSilicon"] = Row("small", "cpu", "int8")
BY DEF TierTable

LEMMA ResolvesToATier ==
  ASSUME NEW profile PROVE Resolve(profile) \in TierRows
<1>1. Classify(profile) \in DOMAIN TierTable
  BY DEF Classify, CpuTier, TierTable
<1> QED BY <1>1 DEF Resolve, TierRows

(* cuda_presence.py: "must never claim a GPU CTranslate2 would reject".     *)
LEMMA CudaIsUsable ==
  ASSUME NEW m, m.os \in {"win32", "darwin"}, Probe(m).cuda
  PROVE  UsableCuda(m)
<1>1. m.os = "win32" /\ DecideCudaPresence(NvmlReport(m), m).available
  BY DEF Probe, MacProbe, NvidiaProbe
<1>2. CASE NvmlConfirmsCuda(NvmlReport(m), m.hidden)
  <2>1. ~m.hidden /\ NvmlReport(m).count > 0 /\ NvmlReport(m).version = "good"
    BY <1>2 DEF NvmlConfirmsCuda
  <2>2. m.driver # "silent"
    BY <2>1 DEF NvmlReport, NoReport
  <2>3. m.vram # 0 /\ m.driver = "good"
    BY <2>1, <2>2 DEF NvmlReport
  <2> QED BY <1>1, <2>1, <2>3 DEF UsableCuda
<1>3. CASE ~NvmlConfirmsCuda(NvmlReport(m), m.hidden)
  BY <1>1, <1>3 DEF DecideCudaPresence
<1> QED BY <1>2, <1>3

LEMMA MlxIsUsable ==
  ASSUME NEW m, m.os \in {"win32", "darwin"}, Probe(m).mlx
  PROVE  m.os = "darwin" /\ m.silicon /\ m.major >= 14 /\ m.package
BY DEF Probe, MacProbe, NvidiaProbe, MlxMinMacos

LEMMA BuiltRows ==
  /\ \A row \in TierRows : Built(SelectBackend(row)) = row
  /\ \A row \in TierRows : row.device \in KnownDevices
BY TierRowsAre DEF Built, SelectBackend, Kind, KnownDevices, MlxComputeType, Row

LEMMA SubstituteRuns ==
  ASSUME NEW model, NEW m, Reconcile(model, Probe(m)).reason # "none"
  PROVE  Runnable(Chosen(model, m), m)
<1>1. Reconcile(model, Probe(m)).resolved \in {TierTable["Cpu"], TierTable["AppleSilicon"]}
  BY DEF Reconcile, CpuTier
<1>2. Chosen(model, m) \in {Row("base", "cpu", "int8"), Row("small", "cpu", "int8")}
  BY <1>1, RowsNamed, TierRowsAre, BuiltRows DEF Chosen
<1> QED BY <1>2 DEF Runnable, HalfPrecision, Row

LEMMA TierEngineRuns ==
  ASSUME NEW m, m.os \in {"win32", "darwin"}, NEW model \in TierRows
  PROVE  Runnable(Chosen(model, m), m) \/ LacksRuntime(Chosen(model, m), m)
<1>1. CASE Reconcile(model, Probe(m)).reason # "none"
  BY <1>1, SubstituteRuns
<1>2. CASE Reconcile(model, Probe(m)).reason = "none"
  <2>1. /\ Reconcile(model, Probe(m)).resolved = model
        /\ model.device = "cuda" => Probe(m).cuda
        /\ model.device = "mlx" => Probe(m).mlx
    BY <1>2, TierRowsAre DEF Reconcile, Row
  <2>2. Chosen(model, m) = model
    BY <2>1, BuiltRows DEF Chosen
  <2> QED
    BY <2>1, <2>2, TierRowsAre, CudaIsUsable, MlxIsUsable
       DEF Runnable, LacksRuntime, HalfPrecision, Row
<1> QED BY <1>1, <1>2

LEMMA FallbackRuns == ASSUME NEW m PROVE Runnable(CpuFallbackSelection, m)
BY RowsNamed DEF CpuFallbackSelection, Runnable, HalfPrecision, Row

-----------------------------------------------------------------------------
(* A running session has the engine of its configuration on this machine;   *)
(* what the program wrote or assumed itself is a row of the tier table; and *)
(* as long as nobody edits what the first run wrote, the file and the       *)
(* sessions' configurations stay what it wrote.                             *)
SessionInv ==
  up => /\ engine = Chosen(conf.model, machine)
        /\ reason = Reconcile(conf.model, Probe(machine)).reason
        /\ protected => conf.model \in TierRows

BakedFile == Section(Resolve(Probe(baked.machine)), None, <<>>)
BakedInv ==
  baked.state = "yes" =>
    /\ file = BakedFile
    /\ baked.engine = Chosen(file.model, baked.machine)
    /\ up => conf = file

EngineInv == machine \in Machines /\ SessionInv /\ BakedInv

LEMMA InitEngine == Init => EngineInv
BY DEF Init, EngineInv, SessionInv, BakedInv, NotBaked

(* A step of a clip, by which none of this changes.                         *)
ClipOnly == UNCHANGED <<machine, file, up, conf, protected, reason, engine, policy, baked>>

LEMMA ClipStepIsClipOnly ==
  ASSUME NEW w \in Clips, ClipStep(w) PROVE ClipOnly
BY DEF ClipStep, ClipOnly, session, Begins, Hears, MlxHearsNothing, Chooses, Answers, Routes,
       ConfirmPass, Ends, Fails

LEMMA ClipOnlyKeeps == EngineInv /\ ClipOnly => EngineInv'
BY DEF EngineInv, SessionInv, BakedInv, BakedFile, ClipOnly

LEMMA StartsKeeps == EngineInv /\ Starts => EngineInv'
<1> SUFFICES ASSUME EngineInv, Starts PROVE EngineInv'
  OBVIOUS
<1> USE DEF EngineInv
<1>1. /\ machine' = machine /\ up' = TRUE /\ conf' = Loaded
      /\ protected' = (file = Broken)
      /\ engine' = Chosen(conf'.model, machine)
      /\ reason' = Reconcile(conf'.model, Probe(machine)).reason
  BY DEF Starts, Chosen
<1>2. protected' => conf'.model \in TierRows
  <2>1. file = Broken => file.state # "table"
    BY DEF Broken
  <2>2. BakeFirstRunConfig.model \in TierRows
    BY ResolvesToATier DEF BakeFirstRunConfig, Section
  <2> QED BY <1>1, <2>1, <2>2 DEF Loaded
<1>3. CASE file = Missing
  <2>1. /\ conf' = Section(Resolve(Probe(machine)), None, <<>>) /\ file' = conf'
        /\ baked' = [state |-> "yes", machine |-> machine, engine |-> engine']
    BY <1>3, <1>1 DEF Starts, Loaded, Missing, BakeFirstRunConfig
  <2> QED
    BY <1>1, <1>2, <2>1 DEF SessionInv, BakedInv, BakedFile
<1>4. CASE file # Missing
  <2>1. file' = file /\ baked' = baked
    BY <1>4 DEF Starts
  <2>2. baked.state = "yes" => Loaded = file
    BY DEF BakedInv, BakedFile, Section, Loaded
  <2> QED
    BY <1>1, <1>2, <2>1, <2>2 DEF SessionInv, BakedInv, BakedFile
<1> QED BY <1>3, <1>4

LEMMA EngineInvStep == EngineInv /\ [Next]_vars => EngineInv'
<1> SUFFICES ASSUME EngineInv, [Next]_vars PROVE EngineInv'
  OBVIOUS
<1>1. CASE UNCHANGED vars
  BY <1>1, ClipOnlyKeeps DEF vars, session, ClipOnly
<1>2. CASE MachineChanges
  BY <1>2 DEF MachineChanges, session, EngineInv, SessionInv, BakedInv, BakedFile
<1>3. CASE UserEdits
  BY <1>3 DEF UserEdits, session, EngineInv, SessionInv, BakedInv, NotBaked
<1>4. CASE Starts
  BY <1>4, StartsKeeps
<1>5. CASE Stops
  BY <1>5 DEF Stops, EngineInv, SessionInv, BakedInv, BakedFile
<1>6. CASE SavesSetting
  BY <1>6 DEF SavesSetting, session, EngineInv, SessionInv, BakedInv, BakedFile
<1>7. ASSUME NEW w \in Clips, ClipStep(w) PROVE EngineInv'
  BY <1>7, ClipStepIsClipOnly, ClipOnlyKeeps
<1> QED
  BY <1>1, <1>2, <1>3, <1>4, <1>5, <1>6, <1>7 DEF Next

(* "restore the GPU to use it again": whatever sessions and settings lie in *)
(* between, for all machines.                                               *)
THEOREM TheGpuComesBack == Spec => []GpuComesBack
<1>1. EngineInv => GpuComesBack
  BY DEF EngineInv, SessionInv, BakedInv, GpuComesBack
<1> QED
  BY <1>1, InitEngine, EngineInvStep, PTL DEF Spec

(* ADR-0009: an engine the program chose itself runs on this machine, but   *)
(* for a card that CUDA counts and that lacks the libraries or the half     *)
(* precision it needs.                                                      *)
THEOREM WhatItChoseRuns == Spec => []ChosenEngineRuns
<1>1. EngineInv => ChosenEngineRuns
  <2> SUFFICES ASSUME EngineInv, up, protected \/ reason # "none" \/ baked.state = "yes"
               PROVE  Runnable(Engine, machine) \/ LacksRuntime(Engine, machine)
    BY DEF ChosenEngineRuns
  <2>1. machine.os \in {"win32", "darwin"}
    BY EngineAssumption DEF EngineInv
  <2>2. engine = Chosen(conf.model, machine)
    BY DEF EngineInv, SessionInv
  <2>3. CASE switched
    BY <2>3, FallbackRuns DEF Engine
  <2>4. CASE ~switched /\ reason # "none"
    BY <2>2, <2>4, SubstituteRuns DEF Engine, EngineInv, SessionInv
  <2>5. CASE ~switched /\ protected
    BY <2>1, <2>2, <2>5, TierEngineRuns DEF Engine, EngineInv, SessionInv
  <2>6. CASE ~switched /\ baked.state = "yes"
    <3>1. conf.model \in TierRows
      BY <2>6, ResolvesToATier DEF EngineInv, BakedInv, BakedFile, Section
    <3> QED BY <2>1, <2>2, <2>6, <3>1, TierEngineRuns DEF Engine
  <2> QED BY <2>3, <2>4, <2>5, <2>6
<1> QED
  BY <1>1, InitEngine, EngineInvStep, PTL DEF Spec

-----------------------------------------------------------------------------
(* Folds.  FoldLeft takes the elements of a sequence from the left, as a    *)
(* recursive function on the sets of its indices; by induction that         *)
(* function exists, and a set that is closed under the step holds every     *)
(* value of it.  SetInduction is about a set of numbers, since no prover    *)
(* here can instantiate the library's theorems about a predicate.           *)
LEMMA SetInduction ==
  ASSUME NEW G, 0 \in G, \A n \in Nat : n \in G => n + 1 \in G
  PROVE  Nat \subseteq G
<1> DEFINE Bad == Nat \ G
           less == OpToRel(<, Nat)
<1> SUFFICES ASSUME Bad # {} PROVE FALSE
  OBVIOUS
<1>1. IsWellFoundedOn(less, Nat)
  BY NatLessThanWellFounded
<1>2. Bad \subseteq Nat
  OBVIOUS
<1>3. \E x \in Bad : \A y \in Bad : ~(<<y, x>> \in less)
  <2> HIDE DEF Bad, less
  <2>. QED BY <1>1, <1>2, WFMin
<1>4. PICK x \in Bad : \A y \in Bad : ~(<<y, x>> \in less)
  BY <1>3
<1>5. x # 0 /\ x \in Nat
  OBVIOUS
<1>6. x - 1 \in Nat /\ x - 1 + 1 = x
  BY <1>5
<1>7. <<x - 1, x>> \in less
  BY <1>5, <1>6 DEF OpToRel
<1>8. x - 1 \in G
  BY <1>4, <1>6, <1>7
<1>. QED BY <1>5, <1>6, <1>8

LEMMA MaxOfFirst ==
  ASSUME NEW n \in Nat, NEW s \in SUBSET (1..(n + 1)), n + 1 \in s
  PROVE  Max(s) = n + 1
<1>1. \A y \in s : n + 1 >= y
  OBVIOUS
<1>2. \A x \in s : (\A y \in s : x >= y) => x = n + 1
  OBVIOUS
<1>. QED BY <1>1, <1>2 DEF Max

LEMMA MaxIsIn ==
  ASSUME NEW n \in Nat, NEW s \in SUBSET (1..n), s # {}
  PROVE  Max(s) \in s
<1>1. \E x \in s : \A y \in s : x >= y
  <2> DEFINE G == {m \in Nat : \A r \in SUBSET (1..m) :
                      r # {} => \E x \in r : \A y \in r : x >= y}
  <2>1. 0 \in G
    <3>1. 1..0 = {}
      OBVIOUS
    <3>2. \A r \in SUBSET (1..0) : r = {}
      BY <3>1
    <3>. QED BY <3>2
  <2>2. ASSUME NEW m \in Nat, m \in G PROVE m + 1 \in G
    <3>1. ASSUME NEW r \in SUBSET (1..(m + 1)), r # {}
          PROVE  \E x \in r : \A y \in r : x >= y
      <4>1. CASE m + 1 \in r
        <5>1. \A y \in r : m + 1 >= y
          OBVIOUS
        <5>. QED BY <4>1, <5>1
      <4>2. CASE m + 1 \notin r
        <5>1. r \in SUBSET (1..m)
          BY <4>2
        <5>. QED BY <5>1, <3>1, <2>2
      <4>. QED BY <4>1, <4>2
    <3>. QED BY <3>1
  <2>3. n \in G
    <3> HIDE DEF G
    <3>. QED BY <2>1, <2>2, SetInduction
  <2>. QED BY <2>3
<1>. QED BY <1>1 DEF Max

LEMMA FirstOnes ==
  ASSUME NEW n \in Nat \ {0}
  PROVE  Max(1..n) = n /\ (1..n) \ {n} = 1..(n - 1) /\ 1..n # {}
<1> DEFINE m == n - 1
<1>1. m \in Nat /\ m + 1 = n
  OBVIOUS
<1>2. 1..n \in SUBSET (1..(m + 1)) /\ m + 1 \in 1..n
  OBVIOUS
<1>3. \A i : i \in (1..n) \ {n} <=> i \in 1..(n - 1)
  OBVIOUS
<1>4. Max(1..n) = m + 1
  <2> HIDE DEF m
  <2>. QED BY <1>1, <1>2, MaxOfFirst
<1>. QED BY <1>1, <1>2, <1>3, <1>4

(* g is the recursive function of a fold over the indices 1..n.            *)
Turns(g, base, step, q, n) ==
  \A s \in SUBSET (1..n) :
    g[s] = IF s = {} THEN base ELSE step[<<g[s \ {Max(s)}], q[Max(s)]>>]

LEMMA FoldExists ==
  ASSUME NEW V, NEW E, NEW step \in [V \X E -> V], NEW base \in V, NEW q \in Seq(E)
  PROVE  \E g \in [SUBSET (1..Len(q)) -> V] : Turns(g, base, step, q, Len(q))
<1> DEFINE Ok(n) == \E g \in [SUBSET (1..n) -> V] : Turns(g, base, step, q, n)
           G == {n \in Nat : n <= Len(q) => Ok(n)}
<1>0. Len(q) \in Nat
  OBVIOUS
<1>1. 0 \in G
  <2> DEFINE g == [s \in SUBSET (1..0) |-> base]
  <2>1. 1..0 = {}
    OBVIOUS
  <2>2. \A s \in SUBSET (1..0) : s = {} /\ g[s] = base
    BY <2>1
  <2>3. g \in [SUBSET (1..0) -> V]
    OBVIOUS
  <2> HIDE DEF g
  <2>4. Turns(g, base, step, q, 0)
    BY <2>2 DEF Turns
  <2>5. Ok(0)
    BY <2>3, <2>4
  <2>. QED BY <2>5
<1>2. ASSUME NEW n \in Nat, n \in G PROVE n + 1 \in G
  <2> SUFFICES ASSUME n + 1 <= Len(q) PROVE Ok(n + 1)
    <3> HIDE DEF Ok
    <3>. QED OBVIOUS
  <2>0. Ok(n)
    <3> HIDE DEF Ok
    <3>. QED BY <1>0, <1>2
  <2>1. PICK g \in [SUBSET (1..n) -> V] : Turns(g, base, step, q, n)
    BY <2>0
  <2> DEFINE last == n + 1
             f == [s \in SUBSET (1..last) |->
                     IF last \in s THEN step[<<g[s \ {last}], q[last]>>] ELSE g[s]]
  <2>2. last \in 1..Len(q) /\ q[last] \in E
    BY <1>0
  <2>3. ASSUME NEW s \in SUBSET (1..last)
        PROVE  s \ {last} \in SUBSET (1..n) /\ (last \notin s => s \in SUBSET (1..n))
    OBVIOUS
  <2>4. f \in [SUBSET (1..last) -> V]
    <3>1. ASSUME NEW s \in SUBSET (1..last) PROVE f[s] \in V
      <4>1. CASE last \in s
        <5>1. g[s \ {last}] \in V
          BY <2>3
        <5>. QED BY <4>1, <5>1, <2>2
      <4>2. CASE last \notin s
        BY <4>2, <2>3
      <4>. QED BY <4>1, <4>2
    <3>. QED BY <3>1
  <2>5. ASSUME NEW s \in SUBSET (1..n) PROVE s \in SUBSET (1..last) /\ last \notin s /\ f[s] = g[s]
    OBVIOUS
  <2>6. ASSUME NEW s \in SUBSET (1..last)
        PROVE  f[s] = IF s = {} THEN base ELSE step[<<f[s \ {Max(s)}], q[Max(s)]>>]
    <3>1. CASE last \in s
      <4>1. Max(s) = last
        BY <3>1, MaxOfFirst
      <4>2. f[s] = step[<<g[s \ {last}], q[last]>>]
        BY <3>1
      <4>3. f[s \ {last}] = g[s \ {last}]
        BY <2>3, <2>5
      <4>. QED BY <3>1, <4>1, <4>2, <4>3
    <3>2. CASE last \notin s
      <4>1. s \in SUBSET (1..n)
        BY <3>2, <2>3
      <4>2. s \ {Max(s)} \in SUBSET (1..n)
        BY <4>1
      <4>3. f[s] = g[s] /\ f[s \ {Max(s)}] = g[s \ {Max(s)}]
        BY <4>1, <4>2, <2>5
      <4>. QED BY <4>1, <4>3, <2>1 DEF Turns
    <3>. QED BY <3>1, <3>2
  <2> HIDE DEF f
  <2>7. Turns(f, base, step, q, last)
    BY <2>6 DEF Turns
  <2>. QED BY <2>4, <2>7
<1>3. Len(q) \in G
  <2> HIDE DEF G
  <2>. QED BY <1>0, <1>1, <1>2, SetInduction
<1>4. Ok(Len(q))
  <2> HIDE DEF Ok
  <2>. QED BY <1>0, <1>3
<1>. QED BY <1>4

(* A set that each value of a fold keeps the next one in.                   *)
LEMMA StaysIn ==
  ASSUME NEW V, NEW fun, NEW n \in Nat, fun[{}] \in V,
         \A k \in 1..n : fun[1..(k - 1)] \in V => fun[1..k] \in V
  PROVE  fun[1..n] \in V
<1> DEFINE G == {k \in Nat : k <= n => fun[1..k] \in V}
<1>1. 0 \in G
  <2>1. 1..0 = {}
    OBVIOUS
  <2>. QED BY <2>1
<1>2. ASSUME NEW k \in Nat, k \in G PROVE k + 1 \in G
  <2> SUFFICES ASSUME k + 1 <= n PROVE fun[1..(k + 1)] \in V
    OBVIOUS
  <2>1. fun[1..k] \in V
    BY <1>2
  <2>2. k + 1 \in 1..n /\ (k + 1) - 1 = k
    OBVIOUS
  <2>. QED BY <2>1, <2>2
<1>3. n \in G
  <2> HIDE DEF G
  <2>. QED BY <1>1, <1>2, SetInduction
<1>. QED BY <1>3

(* language_policy: only codes that Whisper knows are preferred.            *)
LEMMA PreferTyped ==
  ASSUME NEW out \in Seq(Codes), NEW v PROVE Prefer(out, v) \in Seq(Codes)
BY DEF Prefer

(* Preferred Languages are codes.                                           *)
LEMMA PreferredTyped ==
  ASSUME NEW languages \in Seq(STRING)
  PROVE  PreferredLanguages(languages) \in Seq(Codes)
<1> DEFINE V == Seq(Codes)
           E == STRING
           base == <<>>
           q == languages
           step == [x \in V \X E |-> Prefer(x[1], x[2])]
           Val(g, s) == IF s = {} THEN base ELSE Prefer(g[s \ {Max(s)}], q[Max(s)])
           fun == CHOOSE g : g = [s \in SUBSET DOMAIN q |-> Val(g, s)]
<1>a. q \in Seq(E) /\ base \in V
  OBVIOUS
<1>b. \A v \in V, e \in E : Prefer(v, e) \in V
  BY PreferTyped
<1>0. Len(q) \in Nat /\ DOMAIN q = 1..Len(q)
  BY <1>a
<1>1. step \in [V \X E -> V]
  <2> HIDE DEF V, E
  <2>. QED BY <1>b
<1>2. PICK g \in [SUBSET (1..Len(q)) -> V] : Turns(g, base, step, q, Len(q))
  <2> HIDE DEF step, V, E, q, base
  <2>. QED BY <1>a, <1>1, FoldExists
<1>3. g = [s \in SUBSET DOMAIN q |-> Val(g, s)]
  <2> HIDE DEF V, E, q, base
  <2>1. ASSUME NEW s \in SUBSET (1..Len(q)) PROVE g[s] = Val(g, s)
    <3>1. CASE s = {}
      BY <1>2, <3>1 DEF Turns
    <3>2. CASE s # {}
      <4>1. Max(s) \in s
        BY <1>0, <3>2, MaxIsIn
      <4>2. g[s \ {Max(s)}] \in V /\ q[Max(s)] \in E
        <5>1. s \ {Max(s)} \in SUBSET (1..Len(q))
          OBVIOUS
        <5>2. g[s \ {Max(s)}] \in V
          BY <5>1, <1>2
        <5>3. Max(s) \in 1..Len(q)
          BY <4>1
        <5>. QED BY <1>a, <5>2, <5>3
      <4>3. g[s] = step[<<g[s \ {Max(s)}], q[Max(s)]>>]
        BY <1>2, <3>2 DEF Turns
      <4>. QED BY <3>2, <4>2, <4>3
    <3>. QED BY <3>1, <3>2
  <2> HIDE DEF Val
  <2>. QED BY <1>0, <1>2, <2>1
<1>4. fun = [s \in SUBSET DOMAIN q |-> Val(fun, s)]
  <2> HIDE DEF Val, q
  <2>. QED BY <1>3
<1>5. ASSUME NEW n \in 1..Len(q), fun[1..(n - 1)] \in V PROVE fun[1..n] \in V
  <2>1. n \in Nat \ {0} /\ 1..n \in SUBSET DOMAIN q /\ q[n] \in E
    <3> HIDE DEF q, E
    <3>. QED BY <1>a, <1>0
  <2>2. Max(1..n) = n /\ (1..n) \ {n} = 1..(n - 1) /\ 1..n # {}
    BY <2>1, FirstOnes
  <2> HIDE DEF fun, V, E, q, base
  <2>3. fun[1..n] = Val(fun, 1..n)
    <3> HIDE DEF Val
    <3>. QED BY <1>4, <2>1
  <2>4. fun[1..n] = Prefer(fun[1..(n - 1)], q[n])
    BY <2>2, <2>3
  <2>. QED BY <1>5, <1>b, <2>1, <2>4
<1>6. fun[{}] \in V
  <2> HIDE DEF fun, V, E, q, base
  <2>1. {} \in SUBSET DOMAIN q
    OBVIOUS
  <2>2. fun[{}] = base
    BY <1>4, <2>1
  <2>. QED BY <1>a, <2>2
<1>7. fun[DOMAIN q] \in V
  <2> HIDE DEF fun, V, E, q, base
  <2>. QED BY <1>0, <1>5, <1>6, StaysIn
<1>8. PreferredLanguages(languages) = fun[DOMAIN q]
  BY DEF FoldLeft, MapThenFoldSet, PreferredLanguages
<1>. QED BY <1>7, <1>8

-----------------------------------------------------------------------------
(* The aliases of the prompt files: a word has one entry.                   *)
Entry == [word : Words, file : STRING \ {Paste}, body : STRING]
Lexicon ==
  {es \in SUBSET Entry : \A d, e \in es : d.word = e.word => d = e}

LEMMA LoadKeeps ==
  ASSUME NEW es \in Lexicon, NEW pf \in PromptFile, NEW word \in Words \union {Blank}
  PROVE  Load(es, pf, word) \in Lexicon
<1> DEFINE new == [word |-> word, file |-> pf.name, body |-> pf.body]
<1>1. CASE word = Blank \/ \E e \in es : e.word = word
  BY <1>1 DEF Load
<1>2. CASE word # Blank /\ ~\E e \in es : e.word = word
  <2>1. new \in Entry /\ new.word = word
    BY <1>2 DEF Entry, PromptFile
  <2>2. Load(es, pf, word) = es \union {new}
    BY <1>2 DEF Load
  <2> HIDE DEF new
  <2>. QED BY <1>2, <2>1, <2>2 DEF Lexicon
<1>. QED BY <1>1, <1>2

(* One file, and all of them.                                               *)
LEMMA LoadedFromKeeps ==
  ASSUME NEW es \in Lexicon, NEW pf \in PromptFile
  PROVE  LoadedFrom(es, pf) \in Lexicon
<1> DEFINE V == Lexicon
           E == Words \union {Blank}
           base == es
           q == pf.aliases
           step == [x \in V \X E |-> Load(x[1], pf, x[2])]
           Val(g, s) == IF s = {} THEN base ELSE Load(g[s \ {Max(s)}], pf, q[Max(s)])
           fun == CHOOSE g : g = [s \in SUBSET DOMAIN q |-> Val(g, s)]
<1>a. q \in Seq(E) /\ base \in V
  BY RecognizerAssumption DEF PromptFile
<1>b. \A v \in V, e \in E : Load(v, pf, e) \in V
  BY LoadKeeps
<1>0. Len(q) \in Nat /\ DOMAIN q = 1..Len(q)
  BY <1>a
<1>1. step \in [V \X E -> V]
  <2> HIDE DEF V, E
  <2>. QED BY <1>b
<1>2. PICK g \in [SUBSET (1..Len(q)) -> V] : Turns(g, base, step, q, Len(q))
  <2> HIDE DEF step, V, E, q, base
  <2>. QED BY <1>a, <1>1, FoldExists
<1>3. g = [s \in SUBSET DOMAIN q |-> Val(g, s)]
  <2> HIDE DEF V, E, q, base
  <2>1. ASSUME NEW s \in SUBSET (1..Len(q)) PROVE g[s] = Val(g, s)
    <3>1. CASE s = {}
      BY <1>2, <3>1 DEF Turns
    <3>2. CASE s # {}
      <4>1. Max(s) \in s
        BY <1>0, <3>2, MaxIsIn
      <4>2. g[s \ {Max(s)}] \in V /\ q[Max(s)] \in E
        <5>1. s \ {Max(s)} \in SUBSET (1..Len(q))
          OBVIOUS
        <5>2. g[s \ {Max(s)}] \in V
          BY <5>1, <1>2
        <5>3. Max(s) \in 1..Len(q)
          BY <4>1
        <5>. QED BY <1>a, <5>2, <5>3
      <4>3. g[s] = step[<<g[s \ {Max(s)}], q[Max(s)]>>]
        BY <1>2, <3>2 DEF Turns
      <4>. QED BY <3>2, <4>2, <4>3
    <3>. QED BY <3>1, <3>2
  <2> HIDE DEF Val
  <2>. QED BY <1>0, <1>2, <2>1
<1>4. fun = [s \in SUBSET DOMAIN q |-> Val(fun, s)]
  <2> HIDE DEF Val, q
  <2>. QED BY <1>3
<1>5. ASSUME NEW n \in 1..Len(q), fun[1..(n - 1)] \in V PROVE fun[1..n] \in V
  <2>1. n \in Nat \ {0} /\ 1..n \in SUBSET DOMAIN q /\ q[n] \in E
    <3> HIDE DEF q, E
    <3>. QED BY <1>a, <1>0
  <2>2. Max(1..n) = n /\ (1..n) \ {n} = 1..(n - 1) /\ 1..n # {}
    BY <2>1, FirstOnes
  <2> HIDE DEF fun, V, E, q, base
  <2>3. fun[1..n] = Val(fun, 1..n)
    <3> HIDE DEF Val
    <3>. QED BY <1>4, <2>1
  <2>4. fun[1..n] = Load(fun[1..(n - 1)], pf, q[n])
    BY <2>2, <2>3
  <2>. QED BY <1>5, <1>b, <2>1, <2>4
<1>6. fun[{}] \in V
  <2> HIDE DEF fun, V, E, q, base
  <2>1. {} \in SUBSET DOMAIN q
    OBVIOUS
  <2>2. fun[{}] = base
    BY <1>4, <2>1
  <2>. QED BY <1>a, <2>2
<1>7. fun[DOMAIN q] \in V
  <2> HIDE DEF fun, V, E, q, base
  <2>. QED BY <1>0, <1>5, <1>6, StaysIn
<1>8. LoadedFrom(es, pf) = fun[DOMAIN q]
  BY DEF FoldLeft, MapThenFoldSet, LoadedFrom
<1>. QED BY <1>7, <1>8

LEMMA OneEntryEach == LoadPrompts \in Lexicon
<1> DEFINE V == Lexicon
           E == PromptFile
           base == {}
           q == PromptFiles
           step == [x \in V \X E |-> LoadedFrom(x[1], x[2])]
           Val(g, s) == IF s = {} THEN base ELSE LoadedFrom(g[s \ {Max(s)}], q[Max(s)])
           fun == CHOOSE g : g = [s \in SUBSET DOMAIN q |-> Val(g, s)]
<1>a. q \in Seq(E) /\ base \in V
  BY RecognizerAssumption DEF Lexicon
<1>b. \A v \in V, e \in E : LoadedFrom(v, e) \in V
  BY LoadedFromKeeps
<1>0. Len(q) \in Nat /\ DOMAIN q = 1..Len(q)
  BY <1>a
<1>1. step \in [V \X E -> V]
  <2> HIDE DEF V, E
  <2>. QED BY <1>b
<1>2. PICK g \in [SUBSET (1..Len(q)) -> V] : Turns(g, base, step, q, Len(q))
  <2> HIDE DEF step, V, E, q, base
  <2>. QED BY <1>a, <1>1, FoldExists
<1>3. g = [s \in SUBSET DOMAIN q |-> Val(g, s)]
  <2> HIDE DEF V, E, q, base
  <2>1. ASSUME NEW s \in SUBSET (1..Len(q)) PROVE g[s] = Val(g, s)
    <3>1. CASE s = {}
      BY <1>2, <3>1 DEF Turns
    <3>2. CASE s # {}
      <4>1. Max(s) \in s
        BY <1>0, <3>2, MaxIsIn
      <4>2. g[s \ {Max(s)}] \in V /\ q[Max(s)] \in E
        <5>1. s \ {Max(s)} \in SUBSET (1..Len(q))
          OBVIOUS
        <5>2. g[s \ {Max(s)}] \in V
          BY <5>1, <1>2
        <5>3. Max(s) \in 1..Len(q)
          BY <4>1
        <5>. QED BY <1>a, <5>2, <5>3
      <4>3. g[s] = step[<<g[s \ {Max(s)}], q[Max(s)]>>]
        BY <1>2, <3>2 DEF Turns
      <4>. QED BY <3>2, <4>2, <4>3
    <3>. QED BY <3>1, <3>2
  <2> HIDE DEF Val
  <2>. QED BY <1>0, <1>2, <2>1
<1>4. fun = [s \in SUBSET DOMAIN q |-> Val(fun, s)]
  <2> HIDE DEF Val, q
  <2>. QED BY <1>3
<1>5. ASSUME NEW n \in 1..Len(q), fun[1..(n - 1)] \in V PROVE fun[1..n] \in V
  <2>1. n \in Nat \ {0} /\ 1..n \in SUBSET DOMAIN q /\ q[n] \in E
    <3> HIDE DEF q, E
    <3>. QED BY <1>a, <1>0
  <2>2. Max(1..n) = n /\ (1..n) \ {n} = 1..(n - 1) /\ 1..n # {}
    BY <2>1, FirstOnes
  <2> HIDE DEF fun, V, E, q, base
  <2>3. fun[1..n] = Val(fun, 1..n)
    <3> HIDE DEF Val
    <3>. QED BY <1>4, <2>1
  <2>4. fun[1..n] = LoadedFrom(fun[1..(n - 1)], q[n])
    BY <2>2, <2>3
  <2>. QED BY <1>5, <1>b, <2>1, <2>4
<1>6. fun[{}] \in V
  <2> HIDE DEF fun, V, E, q, base
  <2>1. {} \in SUBSET DOMAIN q
    OBVIOUS
  <2>2. fun[{}] = base
    BY <1>4, <2>1
  <2>. QED BY <1>a, <2>2
<1>7. fun[DOMAIN q] \in V
  <2> HIDE DEF fun, V, E, q, base
  <2>. QED BY <1>0, <1>5, <1>6, StaysIn
<1>8. LoadPrompts = fun[DOMAIN q]
  BY DEF FoldLeft, MapThenFoldSet, LoadPrompts
<1>. QED BY <1>7, <1>8

LEMMA WordsAreOwn ==
  /\ \A e \in Builtins : e.word \in Words /\ e.action = Paste /\ e.file = Paste
  /\ \A e \in Transforms : e.word \in Words /\ e.file # Paste
  /\ \A d, e \in Builtins \union Transforms : d.word = e.word => d.action = e.action
<1>1. \A e \in Builtins : e.word \in BuiltinAliases /\ e.action = Paste /\ e.file = Paste
  BY DEF Builtins
<1>2. BuiltinAliases \subseteq Words
  <2>1. Range(PasteAliases) \subseteq Words \union {Blank}
    <3>1. PasteAliases \in Seq(Words \union {Blank})
      BY RecognizerAssumption
    <3>2. \A i \in DOMAIN PasteAliases : PasteAliases[i] \in Words \union {Blank}
      BY <3>1
    <3>. QED BY <3>2 DEF Range
  <2>. QED BY <2>1, RecognizerAssumption DEF BuiltinAliases
<1>3. LoadPrompts \subseteq Entry /\ \A d, e \in LoadPrompts : d.word = e.word => d = e
  BY OneEntryEach DEF Lexicon
<1>4. ASSUME NEW t \in Transforms
      PROVE  \E e \in LoadPrompts : /\ t.word = e.word /\ t.action = e.body /\ t.file = e.file
                                    /\ e.word \notin BuiltinAliases
  <2>1. PICK e \in LoadPrompts \ ShadowedBuiltinAliases :
          t = [word |-> e.word, action |-> e.body, file |-> e.file]
    BY DEF Transforms
  <2>. QED BY <2>1 DEF ShadowedBuiltinAliases
<1>5. \A t \in Transforms : t.word \in Words \ BuiltinAliases /\ t.file # Paste
  BY <1>3, <1>4 DEF Entry
<1>6. \A d, e \in Transforms : d.word = e.word => d.action = e.action
  BY <1>3, <1>4
<1>. QED BY <1>1, <1>2, <1>5, <1>6

(* What the fuzzy tier hears in a word, the check at the start warned of.   *)
LEMMA NearIsWarned ==
  ASSUME NEW e \in Transforms, NEW d \in Builtins, d.word \in Long,
         Score(e.word, d.word) >= FUZZY_WEAK_SCORE
  PROVE  Warned(e.word)
<1>1. e.word \in Words /\ d.word \in Words /\ e.file # d.file
  BY WordsAreOwn
<1>2. CASE e.word \notin Long
  BY <1>2 DEF Warned, ExactOnly
<1>3. CASE e.word \in Long
  <2> DEFINE x == Letters[e.word, d.word]
             y == Sounds[e.word, d.word]
  <2>1. x \in 0..100 /\ y \in 0..100
    <3>1. <<e.word, d.word>> \in Words \X Words
      BY <1>1
    <3>2. Letters \in [Words \X Words -> 0..100] /\ Sounds \in [Words \X Words -> 0..100]
      BY RecognizerAssumption DEF Percents
    <3>. QED BY <3>1, <3>2
  <2>2. SameKey(e.word, d.word) \/ Larger(x, y) >= 70
    BY DEF Score, FUZZY_WEAK_SCORE
  <2>3. SameKey(e.word, d.word) \/ Larger(x, y) >= 60
    <3> HIDE DEF x, y
    <3>. QED BY <2>1, <2>2 DEF Larger
  <2>4. SoundAlike(e.word, d.word)
    BY <1>3, <2>3 DEF SoundAlike, COLLISION_SCORE
  <2>5. Collides(e.word)
    BY <1>1, <2>4 DEF Collides
  <2>. QED BY <2>5 DEF Warned
<1>. QED BY <1>2, <1>3

LEMMA FiredIsMeant ==
  ASSUME NEW u \in Utterance, NEW armed \in BOOLEAN, NEW e \in Builtins \union Transforms,
         u.text = <<e.word>>, ~Warned(e.word),
         Decide(u, armed).kind = "fire", NEW action \in Decide(u, armed).actions
  PROVE  action = e.action
<1>1. e.word \in Words
  BY WordsAreOwn
<1>2. CASE Exactly(u, armed) # {}
  <2> DEFINE d == CHOOSE x \in Exactly(u, armed) : TRUE
  <2>1. d \in Exactly(u, armed)
    BY <1>2
  <2>2. d \in Builtins \union Transforms /\ u.text = <<d.word>>
    BY <2>1 DEF Exactly, Eligible
  <2>3. d.word = e.word
    BY <2>2
  <2>4. action = d.action
    BY <1>2 DEF Decide, Fire
  <2> HIDE DEF d
  <2>. QED BY <2>2, <2>3, <2>4, WordsAreOwn
<1>3. CASE Exactly(u, armed) = {}
  <2>1. e \notin Eligible(armed)
    BY <1>3 DEF Exactly
  <2>2. e \in Transforms /\ ~armed /\ Eligible(armed) = Builtins
    BY <2>1 DEF Eligible
  <2>3. u.joined = e.word
    BY <1>1 DEF Utterance
  <2>4. Near(u, armed) = {}
    BY <2>2, <2>3, NearIsWarned DEF Near
  <2>5. Decide(u, armed) = Dictation
    BY <1>3, <2>4 DEF Decide, DecideFuzzy
  <2>. QED BY <2>5 DEF Dictation
<1>. QED BY <1>2, <1>3

-----------------------------------------------------------------------------
(* The decisions of both passes.                                            *)
Meant(c) ==
  c.step = "fires" =>
    /\ \A e \in Builtins \union Transforms :
         c.said.text = <<e.word>> /\ ~Warned(e.word) => c.action = e.action
    /\ c.first # {} => c.action \in c.first
CommandsInv == DOMAIN clip = Clips /\ \A w \in Clips : Meant(clip[w])

LEMMA BecomesMeant ==
  ASSUME CommandsInv, NEW w \in Clips, NEW c, Becomes(w, c), Meant(c)
  PROVE  CommandsInv'
<1>1. DOMAIN clip' = Clips /\ clip'[w] = c /\ \A v \in Clips : v # w => clip'[v] = clip[v]
  BY DEF Becomes, CommandsInv
<1> HIDE DEF Meant
<1>2. \A v \in Clips : clip'[v] \in {c, clip[v]}
  BY <1>1
<1>. QED BY <1>1, <1>2 DEF CommandsInv, Meant

LEMMA FiresIsMeant ==
  ASSUME CommandsInv, NEW w \in Clips, NEW said \in Heard, NEW armed \in BOOLEAN,
         NEW u \in Utterance, u.text = said.text, NEW decision, NEW first,
         decision.kind = "fire", decision = Decide(u, armed),
         first # {} => decision.actions \subseteq first,
         Fires(w, said, decision, first)
  PROVE  CommandsInv'
<1>1. PICK action \in decision.actions :
        Becomes(w, [step |-> "fires", said |-> said, action |-> action, first |-> first])
  BY DEF Fires
<1> DEFINE c == [step |-> "fires", said |-> said, action |-> action, first |-> first]
<1>2. c.said = said /\ c.action = action /\ c.first = first
  OBVIOUS
<1>3. Meant(c)
  <2> HIDE DEF c
  <2>. QED BY <1>2, FiredIsMeant DEF Meant
<1> HIDE DEF c
<1>. QED BY <1>1, <1>3, BecomesMeant DEF c

LEMMA CommandsInit == Init => CommandsInv
BY DEF Init, CommandsInv, Meant, Resting

LEMMA AnswersMeant ==
  ASSUME CommandsInv, NEW w \in Clips, Answers(w) PROVE CommandsInv'
<1>1. CASE Becomes(w, Resting)
  BY <1>1, BecomesMeant DEF Meant, Resting
<1>2. ASSUME NEW said \in Heard, NEW armed \in BOOLEAN, Decide(said, armed).kind = "fire",
             Fires(w, said, Decide(said, armed), {})
      PROVE  CommandsInv'
  BY <1>2, EngineAssumption, FiresIsMeant
<1>3. ASSUME NEW said \in Heard, NEW armed \in BOOLEAN,
             Becomes(w, [step |-> "borderline", alone |-> clip[w].alone,
                         choice |-> clip[w].choice, first |-> Decide(said, armed).actions])
      PROVE  CommandsInv'
  BY <1>3, BecomesMeant DEF Meant
<1>. QED BY <1>1, <1>2, <1>3 DEF Answers

LEMMA EndsMeant ==
  ASSUME CommandsInv, NEW w \in Clips, Ends(w) PROVE CommandsInv'
<1>1. CASE Becomes(w, Resting)
  BY <1>1, BecomesMeant DEF Meant, Resting
<1>2. ASSUME NEW said \in Heard, NEW armed \in BOOLEAN,
             Confirm(clip[w].first, [said EXCEPT !.short = TRUE], armed).kind = "fire",
             Fires(w, said, Confirm(clip[w].first, [said EXCEPT !.short = TRUE], armed),
                   clip[w].first)
      PROVE  CommandsInv'
  <2> DEFINE u == [said EXCEPT !.short = TRUE]
  <2>1. u \in Utterance /\ u.text = said.text
    BY EngineAssumption DEF Utterance
  <2> HIDE DEF u
  <2>2. /\ Confirm(clip[w].first, u, armed) = Decide(u, armed)
        /\ Decide(u, armed).actions \subseteq clip[w].first
    BY <1>2 DEF Confirm, Borderline, u
  <2>. QED BY <1>2, <2>1, <2>2, FiresIsMeant DEF u
<1>. QED BY <1>1, <1>2 DEF Ends

LEMMA CommandsStep == CommandsInv /\ [Next]_vars => CommandsInv'
<1> SUFFICES ASSUME CommandsInv, [Next]_vars PROVE CommandsInv'
  OBVIOUS
<1>1. CASE UNCHANGED clip
  BY <1>1 DEF CommandsInv, Meant
<1>2. CASE Stops
  BY <1>2 DEF Stops, CommandsInv, Meant, Resting
<1>3. ASSUME NEW w \in Clips, ClipStep(w) PROVE CommandsInv'
  <2>1. CASE Begins(w)
    <3>1. DOMAIN clip' = Clips
      BY <2>1 DEF Begins
    <3>2. ASSUME NEW v \in Clips PROVE Meant(clip'[v])
      <4>1. CASE v = w
        BY <2>1, <4>1 DEF Begins, Meant
      <4>2. CASE v # w /\ Under(v)
        <5>1. clip'[v] = [clip[v] EXCEPT !.alone = FALSE]
          BY <2>1, <4>2 DEF Begins
        <5>2. clip'[v].step = clip[v].step
          BY <5>1
        <5>. QED BY <4>2, <5>2 DEF Meant, Under
      <4>3. CASE v # w /\ ~Under(v)
        BY <2>1, <4>3 DEF Begins, CommandsInv
      <4>. QED BY <4>1, <4>2, <4>3
    <3>. QED BY <3>1, <3>2 DEF CommandsInv, Meant
  <2>2. CASE Answers(w)
    BY <2>2, AnswersMeant
  <2>3. CASE Ends(w)
    BY <2>3, EndsMeant
  <2>4. CASE Hears(w)
    <3>1. PICK s, p : Becomes(w, [step |-> "heard", alone |-> clip[w].alone, speech |-> s,
                                  probabilities |-> p])
      BY <2>4 DEF Hears
    <3>. QED BY <3>1, BecomesMeant DEF Meant
  <2>5. CASE MlxHearsNothing(w) \/ Routes(w)
    <3>1. Becomes(w, Resting)
      BY <2>5 DEF MlxHearsNothing, Routes
    <3>. QED BY <3>1, BecomesMeant DEF Meant, Resting
  <2>6. CASE Chooses(w)
    <3>1. PICK choice : Becomes(w, [step |-> "running", alone |-> clip[w].alone, choice |-> choice])
      BY <2>6 DEF Chooses
    <3>. QED BY <3>1, BecomesMeant DEF Meant
  <2>7. CASE ConfirmPass(w)
    <3>1. Becomes(w, [step |-> "confirming", alone |-> clip[w].alone, choice |-> clip[w].choice,
                      first |-> clip[w].first, language |-> ConfirmPassLanguage])
      BY <2>7 DEF ConfirmPass
    <3>. QED BY <3>1, BecomesMeant DEF Meant
  <2>8. CASE Fails(w)
    <3>1. PICK c \in {Resting, Again(clip[w])} : Becomes(w, c)
      BY <2>8 DEF Fails
    <3>2. c.step # "fires"
      BY DEF Resting, Again
    <3>. QED BY <3>1, <3>2, BecomesMeant DEF Meant
  <2>. QED
    BY <1>3, <2>1, <2>2, <2>3, <2>4, <2>5, <2>6, <2>7, <2>8 DEF ClipStep
<1>4. CASE MachineChanges \/ UserEdits \/ Starts \/ SavesSetting \/ UNCHANGED vars
  BY <1>1, <1>4 DEF MachineChanges, UserEdits, Starts, SavesSetting, vars
<1>. QED BY <1>2, <1>3, <1>4 DEF Next

(* A word that is exactly heard and that no warning names runs its own      *)
(* action only, for any lexicon and any similarities of its words; and a    *)
(* command of the second listen is one the first thought possible.          *)
THEOREM CommandsCorrect == Spec => []CommandsAreMeant
<1>1. CommandsInv => CommandsAreMeant
  BY DEF CommandsInv, Meant, CommandsAreMeant
<1>. QED
  BY <1>1, CommandsInit, CommandsStep, PTL DEF Spec

-----------------------------------------------------------------------------
(* The choice of a language.                                                *)
PolicyTyped ==
  /\ policy.pinned \in Codes \union {None} /\ policy.preferred \in Seq(Codes)
  /\ policy.ui \in Codes \union {None}
  /\ policy.preferred # <<>> => policy.pinned = None

(* Tenths have a largest one in every set.                                  *)
LEMMA MostLikely ==
  ASSUME NEW S \in SUBSET Codes, S # {}, NEW p \in [Codes -> 0..10]
  PROVE  \E c \in S : \A d \in S : p[c] >= p[d]
<1> DEFINE G == {n \in Nat : (\E c \in S : p[c] >= 10 - n) =>
                               \E c \in S : \A d \in S : p[c] >= p[d]}
<1>1. 0 \in G
  OBVIOUS
<1>2. ASSUME NEW n \in Nat, n \in G PROVE n + 1 \in G
  <2> SUFFICES ASSUME NEW c \in S, p[c] >= 10 - (n + 1)
               PROVE  \E x \in S : \A d \in S : p[x] >= p[d]
    OBVIOUS
  <2>1. CASE \E x \in S : p[x] >= 10 - n
    BY <1>2, <2>1
  <2>2. CASE \A x \in S : ~(p[x] >= 10 - n)
    <3>1. \A d \in S : p[c] >= p[d]
      BY <2>2
    <3>. QED BY <3>1
  <2>. QED BY <2>1, <2>2
<1>3. 10 \in G
  <2> HIDE DEF G
  <2>. QED BY <1>1, <1>2, SetInduction
<1>4. \E c \in S : p[c] >= 10 - 10
  OBVIOUS
<1>. QED BY <1>3, <1>4

LEMMA FirstOf ==
  ASSUME NEW q, NEW S, Len(q) \in Nat, DOMAIN q = 1..Len(q), \E i \in DOMAIN q : q[i] \in S
  PROVE  SelectInSeq(q, LAMBDA c : c \in S) \in {i \in DOMAIN q : q[i] \in S}
<1> DEFINE I == {i \in 1..Len(q) : q[i] \in S}
<1>1. I # {} /\ I \subseteq Nat
  OBVIOUS
<1>2. \E x \in I : \A y \in I : x <= y
  <2> HIDE DEF I
  <2>1. PICK x \in I : \A y \in I : ~(<<y, x>> \in OpToRel(<, Nat))
    BY <1>1, NatLessThanWellFounded, WFMin
  <2>2. \A y \in I : ~(y < x)
    BY <1>1, <2>1 DEF OpToRel
  <2>. QED BY <1>1, <2>2
<1>3. Min(I) \in I
  <2> HIDE DEF I
  <2>. QED BY <1>2 DEF Min
<1>4. SelectInSeq(q, LAMBDA c : c \in S) = Min(I)
  BY <1>1 DEF SelectInSeq
<1>. QED BY <1>3, <1>4

LEMMA RangeIsCodes ==
  ASSUME NEW q \in Seq(Codes), q # <<>>
  PROVE  Range(q) \subseteq Codes /\ Range(q) # {} /\ Head(q) \in Range(q)
         /\ Len(q) \in Nat /\ DOMAIN q = 1..Len(q)
<1>1. Len(q) \in Nat \ {0} /\ DOMAIN q = 1..Len(q) /\ Head(q) = q[1]
  OBVIOUS
<1>2. \A i \in DOMAIN q : q[i] \in Codes
  OBVIOUS
<1>. QED BY <1>1, <1>2 DEF Range

LEMMA WinnerIsACandidate ==
  ASSUME PolicyTyped, NEW p \in [Codes -> 0..10]
  PROVE  /\ Winner(policy, p) \in Candidates(policy) /\ Candidates(policy) \subseteq Codes
         /\ policy.preferred # <<>> => Candidates(policy) = Range(policy.preferred)
<1>1. /\ Candidates(policy) \subseteq Codes /\ Candidates(policy) # {}
      /\ policy.preferred # <<>> => Candidates(policy) = Range(policy.preferred)
  BY RangeIsCodes, LanguageAssumption DEF Candidates, PolicyTyped
<1> DEFINE best == Likeliest(policy, p)
<1>2. best # {} /\ best \subseteq Candidates(policy)
  BY <1>1, MostLikely DEF Likeliest
<1> HIDE DEF best
<1>3. CASE policy.preferred = <<>>
  BY <1>1, <1>2, <1>3 DEF Winner, best
<1>4. CASE policy.preferred # <<>>
  <2> DEFINE q == policy.preferred
             n == SelectInSeq(q, LAMBDA c : c \in best)
  <2>1. /\ Len(q) \in Nat /\ DOMAIN q = 1..Len(q)
        /\ Candidates(policy) = {q[i] : i \in DOMAIN q}
    BY <1>1, <1>4, RangeIsCodes DEF PolicyTyped, Range
  <2>2. \E i \in DOMAIN q : q[i] \in best
    <3> HIDE DEF q
    <3>. QED BY <1>2, <2>1
  <2>3. n \in {i \in DOMAIN q : q[i] \in best}
    <3> HIDE DEF q
    <3>. QED BY <2>1, <2>2, FirstOf
  <2>4. Winner(policy, p) = q[n]
    BY <1>4 DEF Winner, best
  <2> HIDE DEF q, n
  <2>. QED BY <1>1, <1>2, <2>3, <2>4
<1>. QED BY <1>3, <1>4

(* What is chosen is allowed, whatever was last sure.                       *)
LEMMA ChoiceIsAllowed ==
  ASSUME PolicyTyped, NEW p \in [Codes -> 0..10], NEW speech, NEW last,
         last # None => Allows(policy, last)
  PROVE  LET choice == ChooseLanguage(policy, p, speech, last)
         IN /\ choice.language \in Codes
            /\ policy.preferred # <<>> => choice.language \in Range(policy.preferred)
            /\ choice.reason = "detected" => Allows(policy, choice.language)
            /\ choice.reason = "fallback" /\ last # None => choice.language = last
            /\ ~Detects(policy) => choice.language = policy.pinned
<1> DEFINE choice == ChooseLanguage(policy, p, speech, last)
<1>1. CASE ~Detects(policy)
  <2>1. choice = Choice(policy.pinned, "pinned")
    BY <1>1 DEF ChooseLanguage
  <2>. QED BY <1>1, <2>1 DEF PolicyTyped, Detects, Choice
<1>2. CASE Detects(policy) /\ choice = Choice(Winner(policy, p), "detected")
  <2>1. choice.language = Winner(policy, p) /\ choice.reason = "detected"
    BY <1>2 DEF Choice
  <2> HIDE DEF choice
  <2>2. /\ choice.language \in Codes
        /\ policy.preferred # <<>> => choice.language \in Range(policy.preferred)
    BY <2>1, WinnerIsACandidate
  <2>. QED BY <1>2, <2>1, <2>2 DEF Allows, choice
<1>3. CASE Detects(policy) /\ choice = Choice(FallbackLanguage(policy, last), "fallback")
  <2>1. choice.language = FallbackLanguage(policy, last) /\ choice.reason = "fallback"
    BY <1>3 DEF Choice
  <2> HIDE DEF choice
  <2>2. last # None => FallbackLanguage(policy, last) = last
    BY DEF FallbackLanguage
  <2>3. policy.preferred # <<>> => FallbackLanguage(policy, last) \in Range(policy.preferred)
    BY RangeIsCodes DEF FallbackLanguage, Allows, PolicyTyped
  <2>4. FallbackLanguage(policy, last) \in Codes
    <3>1. CASE policy.preferred # <<>>
      BY <2>3, <3>1, RangeIsCodes DEF PolicyTyped
    <3>2. CASE policy.preferred = <<>>
      BY <3>2, LanguageAssumption DEF FallbackLanguage, Allows, PolicyTyped
    <3>. QED BY <3>1, <3>2
  <2>. QED BY <1>3, <2>1, <2>2, <2>3, <2>4 DEF choice
<1>4. \/ ~Detects(policy)
      \/ Detects(policy) /\ choice = Choice(Winner(policy, p), "detected")
      \/ Detects(policy) /\ choice = Choice(FallbackLanguage(policy, last), "fallback")
  BY DEF ChooseLanguage
<1>. QED BY <1>1, <1>2, <1>3, <1>4

LEMMA PolicyIsTyped ==
  ASSUME NEW language, NEW languages \in Seq(STRING), NEW ui,
         policy' = LanguagePolicy(language, languages, ui)
  PROVE  PolicyTyped'
<1> DEFINE preferred == PreferredLanguages(languages)
<1>1. preferred \in Seq(Codes)
  BY PreferredTyped
<1>2. <<>> \in Seq(Codes)
  OBVIOUS
<1> HIDE DEF preferred
<1>. QED
  BY <1>1, <1>2, LanguageAssumption DEF LanguagePolicy, Policy, PolicyTyped, preferred

-----------------------------------------------------------------------------
(* The selector knows the language last detected with confidence, and the   *)
(* rule of the session allows it; a rule comes from a list of strings; a    *)
(* session begins with all workers at rest; and what a worker that has been *)
(* alone has chosen is what the selector last chose.                        *)
SettingsInv ==
  /\ file.state = "table" => file.languages \in Seq(STRING)
  /\ conf.languages \in Seq(STRING)
SelectorInv ==
  /\ lastConfident = sure
  /\ sure # None => Allows(policy, sure)
Fresh == ~up => sure = None /\ \A w \in Clips : clip[w].step = "idle"
Listened(c) ==
  /\ c.step \in {"idle", "called", "heard", "running", "borderline", "confirming", "fires"}
  /\ c.step \notin {"idle", "fires"} => "alone" \in DOMAIN c
  /\ c.step \in {"running", "borderline", "confirming"} => "choice" \in DOMAIN c
  /\ c.step = "confirming" => "language" \in DOMAIN c
  /\ c.step = "heard" =>
       "probabilities" \in DOMAIN c /\ c.probabilities \in [Codes -> 0..10]
Follows(c, last) ==
  c.step \in {"running", "borderline", "confirming"} =>
    /\ ~Detects(policy) => c.choice.language = policy.pinned
    /\ c.alone => last = c.choice.language /\ last # None
Repeats(c) ==
  c.step = "confirming" /\ c.alone => c.language = c.choice.language
Listening == DOMAIN clip = Clips /\ \A w \in Clips : Listened(clip[w])
Following == \A w \in Clips : Follows(clip[w], lastChoice) /\ Repeats(clip[w])
NobodyElse ==
  \A w, v \in Clips : Under(w) /\ clip[w].alone /\ v # w => ~Under(v)
LanguageInv ==
  PolicyTyped /\ SettingsInv /\ SelectorInv /\ Fresh /\ Listening /\ NobodyElse /\ Following

LEMMA LanguageInvImplies == LanguageInv => LanguageIsKept
<1> SUFFICES ASSUME LanguageInv, NEW w \in Clips
             PROVE  /\ clip[w].step = "heard" =>
                         LET choice == ChooseLanguage(policy, clip[w].probabilities,
                                                      clip[w].speech, lastConfident)
                         IN /\ policy.preferred # <<>> =>
                                 choice.language \in Range(policy.preferred)
                            /\ choice.reason = "fallback" /\ sure # None =>
                                 choice.language = sure
                    /\ clip[w].step = "confirming" /\ clip[w].alone =>
                         clip[w].language = clip[w].choice.language
  BY DEF LanguageIsKept
<1>1. PolicyTyped /\ lastConfident = sure /\ (sure # None => Allows(policy, sure))
  BY DEF LanguageInv, SelectorInv
<1>2. clip[w].step = "heard" => clip[w].probabilities \in [Codes -> 0..10]
  BY DEF LanguageInv, Listening, Listened
<1>3. Repeats(clip[w])
  BY DEF LanguageInv, Following
<1>. QED BY <1>1, <1>2, <1>3, ChoiceIsAllowed DEF Repeats

LEMMA LanguageInit == Init => LanguageInv
<1> SUFFICES ASSUME Init PROVE LanguageInv
  OBVIOUS
<1>0. <<>> \in Seq(Codes) /\ <<>> \in Seq(STRING)
  OBVIOUS
<1>1. PolicyTyped
  BY <1>0, LanguageAssumption DEF Init, PolicyTyped, Policy
<1>2. SettingsInv
  BY <1>0 DEF Init, SettingsInv, Missing, EmptyFile, Section
<1>3. SelectorInv /\ Fresh
  BY DEF Init, SelectorInv, Fresh, Resting
<1>4. Listening /\ NobodyElse /\ Following
  BY DEF Init, Listening, Listened, NobodyElse, Under, Following, Follows, Repeats, Resting
<1>. QED BY <1>1, <1>2, <1>3, <1>4 DEF LanguageInv

(* The daemon goes on or is down: nothing of a clip changes.                *)
LEMMA NoClipKeeps ==
  ASSUME LanguageInv, UNCHANGED <<selector, clip>>,
         \/ UNCHANGED <<policy, up>>
         \/ ~up /\ PolicyTyped',
         SettingsInv', Fresh'
  PROVE  LanguageInv'
<1> USE DEF LanguageInv, selector
<1>1. PolicyTyped'
  BY DEF PolicyTyped
<1>2. SelectorInv'
  BY DEF SelectorInv, Fresh, Allows
<1>3. Listening' /\ NobodyElse'
  BY DEF Listening, Listened, NobodyElse, Under
<1>4. Following'
  <2>1. CASE UNCHANGED policy
    BY <2>1 DEF Following, Follows, Repeats, Detects
  <2>2. CASE ~up
    BY <2>2 DEF Fresh, Following, Follows, Repeats
  <2>. QED BY <2>1, <2>2
<1>. QED BY <1>1, <1>2, <1>3, <1>4

LEMMA SettingsAreLists ==
  /\ Missing.state # "table" /\ Broken.state # "table"
  /\ EmptyFile.languages \in Seq(STRING) /\ BakeFirstRunConfig.languages \in Seq(STRING)
  /\ \A s \in Settings : s.languages \in Seq(STRING)
<1>0. <<>> \in Seq(STRING)
  OBVIOUS
<1>. QED BY <1>0, EngineAssumption DEF Missing, Broken, EmptyFile, BakeFirstRunConfig, Section

LEMMA BetweenClipsKeeps ==
  ASSUME LanguageInv,
         MachineChanges \/ UserEdits \/ Starts \/ Stops \/ SavesSetting \/ UNCHANGED vars
  PROVE  LanguageInv'
<1>1. CASE MachineChanges \/ UNCHANGED vars
  <2>1. UNCHANGED <<file, conf, up, policy, selector, clip>>
    BY <1>1 DEF MachineChanges, vars, session
  <2>2. SettingsInv' /\ Fresh'
    BY <2>1 DEF LanguageInv, SettingsInv, Fresh, selector
  <2>. QED BY <2>1, <2>2, NoClipKeeps
<1>2. CASE UserEdits
  <2>1. UNCHANGED <<conf, up, policy, selector, clip>>
        /\ file' \in Settings \union {Broken, EmptyFile}
    BY <1>2 DEF UserEdits, session
  <2>2. SettingsInv'
    BY <2>1, SettingsAreLists DEF LanguageInv, SettingsInv
  <2>3. Fresh'
    BY <2>1 DEF LanguageInv, Fresh, selector
  <2>. QED BY <2>1, <2>2, <2>3, NoClipKeeps
<1>3. CASE Starts
  <2>1. Loaded.languages \in Seq(STRING)
    BY SettingsAreLists DEF Loaded, LanguageInv, SettingsInv
  <2>2. /\ ~up /\ up' = TRUE /\ conf' = Loaded /\ UNCHANGED <<selector, clip>>
        /\ file' \in {Loaded, file}
    BY <1>3 DEF Starts
  <2>3. PolicyTyped'
    <3>1. PICK ui : policy' = LanguagePolicy(Loaded.language, Loaded.languages, ui)
      BY <1>3 DEF Starts, BuildsPolicy
    <3>. QED BY <2>1, <3>1, PolicyIsTyped
  <2>4. SettingsInv'
    BY <2>1, <2>2 DEF LanguageInv, SettingsInv
  <2>5. Fresh'
    BY <2>2 DEF Fresh
  <2>. QED BY <2>2, <2>3, <2>4, <2>5, NoClipKeeps
<1>4. CASE Stops
  <2>0. <<>> \in Seq(Codes)
    OBVIOUS
  <2>1. PolicyTyped'
    BY <1>4, <2>0, LanguageAssumption DEF Stops, PolicyTyped, Policy
  <2>2. SettingsInv'
    BY <1>4, SettingsAreLists DEF Stops, LanguageInv, SettingsInv
  <2>3. SelectorInv' /\ Fresh'
    BY <1>4 DEF Stops, SelectorInv, Fresh, Resting
  <2>4. Listening' /\ NobodyElse' /\ Following'
    BY <1>4 DEF Stops, Listening, Listened, NobodyElse, Under, Following, Follows, Repeats, Resting
  <2>. QED BY <2>1, <2>2, <2>3, <2>4 DEF LanguageInv
<1>5. CASE SavesSetting
  <2>1. UNCHANGED <<conf, up, policy, selector, clip>> /\ file' = conf
    BY <1>5 DEF SavesSetting, session
  <2>2. SettingsInv'
    BY <2>1 DEF LanguageInv, SettingsInv
  <2>3. Fresh'
    BY <2>1 DEF LanguageInv, Fresh, selector
  <2>. QED BY <2>1, <2>2, <2>3, NoClipKeeps
<1>. QED BY <1>1, <1>2, <1>3, <1>4, <1>5

(* A clip goes on as c, and nobody chooses.                                 *)
LEMMA GoesOn ==
  ASSUME LanguageInv, NEW w \in Clips, clip[w].step # "idle", NEW c, Becomes(w, c),
         UNCHANGED <<file, up, conf, policy, selector>>,
         Listened(c), Follows(c, lastChoice), Repeats(c),
         c.step \notin {"idle", "fires"} => Under(w) /\ c.alone = clip[w].alone
  PROVE  LanguageInv'
<1> USE DEF LanguageInv, selector
<1>0. DOMAIN clip' = Clips /\ clip'[w] = c /\ \A v \in Clips : v # w => clip'[v] = clip[v]
  BY DEF Becomes, Listening
<1>1. PolicyTyped' /\ SettingsInv' /\ SelectorInv'
  BY DEF PolicyTyped, SettingsInv, SelectorInv, Allows
<1>2. up
  BY DEF Fresh
<1>3. Fresh'
  BY <1>2 DEF Fresh
<1>4. Listening'
  BY <1>0 DEF Listening, Listened
<1>5. NobodyElse'
  BY <1>0 DEF NobodyElse, Under
<1>6. Following'
  BY <1>0 DEF Following, Follows, Repeats, Detects
<1>. QED BY <1>1, <1>3, <1>4, <1>5, <1>6

LEMMA BeginsKeeps ==
  ASSUME LanguageInv, NEW w \in Clips, Begins(w) PROVE LanguageInv'
<1> USE DEF LanguageInv, selector, session
<1> DEFINE nobody == \A x \in Clips : ~Under(x)
<1>0. up /\ UNCHANGED <<file, up, conf, policy, selector>>
  BY DEF Begins
<1>1. PolicyTyped' /\ SettingsInv' /\ SelectorInv' /\ Fresh'
  BY <1>0 DEF PolicyTyped, SettingsInv, SelectorInv, Allows, Fresh
<1>2. /\ DOMAIN clip' = Clips
      /\ clip'[w] = [step |-> "called", alone |-> nobody]
      /\ \A v \in Clips : v # w =>
           clip'[v] = IF Under(v) THEN [clip[v] EXCEPT !.alone = FALSE] ELSE clip[v]
  BY DEF Begins
<1>3. clip'[w].step = "called" /\ (clip'[w].alone => nobody)
  BY <1>2
<1>4. ASSUME NEW v \in Clips, v # w
      PROVE  \/ ~Under(v) /\ clip'[v] = clip[v]
             \/ /\ clip'[v].step = clip[v].step /\ ~clip'[v].alone /\ Listened(clip'[v])
                /\ clip[v].step \in {"running", "borderline", "confirming"} =>
                     clip'[v].choice = clip[v].choice
  <2>1. CASE ~Under(v)
    BY <1>2, <1>4, <2>1
  <2>2. CASE Under(v)
    <3> DEFINE c == clip[v]
               d == [c EXCEPT !.alone = FALSE]
    <3>1. Listened(c) /\ c.step \notin {"idle", "fires"}
      BY <2>2 DEF Listening, Under
    <3>2. clip'[v] = d
      BY <1>2, <1>4, <2>2
    <3> HIDE DEF c
    <3>3. "alone" \in DOMAIN c /\ DOMAIN d = DOMAIN c
      BY <3>1 DEF Listened
    <3>4. /\ d.alone = FALSE
          /\ \A f \in DOMAIN c : f # "alone" => d[f] = c[f]
      BY <3>3
    <3>5. d.step = c.step
      OBVIOUS
    <3> HIDE DEF d
    <3>6. c.step \in {"running", "borderline", "confirming"} => d.choice = c.choice
      BY <3>1, <3>4 DEF Listened
    <3>7. c.step = "heard" => d.probabilities = c.probabilities
      BY <3>1, <3>4 DEF Listened
    <3>8. Listened(d)
      BY <3>1, <3>3, <3>5, <3>7 DEF Listened
    <3>. QED BY <3>2, <3>4, <3>5, <3>6, <3>8 DEF c
  <2>. QED BY <2>1, <2>2
<1>5. Listening'
  <2>1. ASSUME NEW v \in Clips PROVE Listened(clip'[v])
    <3>1. CASE v = w
      <4>1. "alone" \in DOMAIN clip'[w]
        BY <1>2
      <4>. QED BY <1>3, <3>1, <4>1 DEF Listened
    <3>2. CASE v # w
      BY <1>4, <3>2 DEF Listening
    <3>. QED BY <3>1, <3>2
  <2>. QED BY <1>2, <2>1 DEF Listening, Listened
<1>6. NobodyElse'
  <2> SUFFICES ASSUME NEW x \in Clips, NEW v \in Clips, v # x, Under(x)', clip'[x].alone
               PROVE  ~(Under(v)')
    BY DEF NobodyElse
  <2>1. CASE x = w
    BY <1>3, <1>4, <2>1 DEF Under
  <2>2. CASE x # w
    BY <1>4, <2>2 DEF Under
  <2>. QED BY <2>1, <2>2
<1>7. Following'
  <2>1. ASSUME NEW v \in Clips PROVE Follows(clip'[v], lastChoice') /\ Repeats(clip'[v])
    BY <1>0, <1>3, <1>4 DEF Following, Follows, Repeats, Under, Detects
  <2>. QED BY <1>0, <2>1 DEF Following, Follows, Repeats, Detects
<1>. QED BY <1>1, <1>5, <1>6, <1>7

LEMMA ChoosesKeeps ==
  ASSUME LanguageInv, NEW w \in Clips, Chooses(w) PROVE LanguageInv'
<1> USE DEF LanguageInv, session
<1> DEFINE choice == ChooseLanguage(policy, clip[w].probabilities, clip[w].speech, lastConfident)
           c == [step |-> "running", alone |-> clip[w].alone, choice |-> choice]
<1>0. /\ clip[w].step = "heard" /\ UNCHANGED <<file, up, conf, policy>>
      /\ lastConfident' = IF choice.reason = "detected" THEN choice.language ELSE lastConfident
      /\ sure' = IF choice.reason = "detected" THEN choice.language ELSE sure
      /\ lastChoice' = choice.language
      /\ Becomes(w, c)
  BY DEF Chooses, Remembers
<1>1. /\ choice.language \in Codes
      /\ choice.reason = "detected" => Allows(policy, choice.language)
      /\ ~Detects(policy) => choice.language = policy.pinned
  BY <1>0, ChoiceIsAllowed DEF Listening, Listened, SelectorInv
<1> HIDE DEF choice
<1>2. /\ c.step = "running" /\ c.alone = clip[w].alone /\ c.choice = choice
      /\ {"alone", "choice"} \subseteq DOMAIN c
  OBVIOUS
<1> HIDE DEF c
<1>3. up
  BY <1>0 DEF Fresh
<1>4. PolicyTyped' /\ SettingsInv' /\ Fresh'
  BY <1>0, <1>3 DEF PolicyTyped, SettingsInv, Fresh
<1>5. SelectorInv'
  BY <1>0, <1>1 DEF SelectorInv, Allows
<1>6. DOMAIN clip' = Clips /\ clip'[w] = c /\ \A v \in Clips : v # w => clip'[v] = clip[v]
  BY <1>0 DEF Becomes, Listening
<1>7. Listening'
  BY <1>2, <1>6 DEF Listening, Listened
<1>8. NobodyElse'
  BY <1>0, <1>2, <1>6 DEF NobodyElse, Under
<1>9. Following'
  <2>1. choice.language # None
    BY <1>1, LanguageAssumption
  <2>2. Follows(c, lastChoice') /\ Repeats(c)
    BY <1>0, <1>1, <1>2, <2>1 DEF Follows, Repeats, Detects
  <2>3. ASSUME NEW v \in Clips, v # w PROVE Follows(clip[v], lastChoice') /\ Repeats(clip[v])
    <3>1. Under(v) => ~clip[v].alone
      BY <1>0, <2>3 DEF NobodyElse, Under
    <3>2. Follows(clip[v], lastChoice) /\ Repeats(clip[v])
      BY DEF Following
    <3>. QED BY <1>0, <3>1, <3>2 DEF Follows, Repeats, Detects, Under
  <2>. QED BY <1>0, <1>6, <2>2, <2>3 DEF Following, Follows, Repeats, Detects
<1>. QED BY <1>4, <1>5, <1>7, <1>8, <1>9

LEMMA ClipStepKeeps ==
  ASSUME LanguageInv, NEW w \in Clips, ClipStep(w) PROVE LanguageInv'
<1> DEFINE Same == UNCHANGED <<file, up, conf, policy, selector>>
<1>0. /\ Listened(Resting) /\ Follows(Resting, lastChoice) /\ Repeats(Resting)
      /\ Resting.step = "idle"
  BY DEF Listened, Follows, Repeats, Resting
<1>a. Follows(clip[w], lastChoice) /\ Repeats(clip[w])
  BY DEF LanguageInv, Following
<1>1. CASE Begins(w)
  BY <1>1, BeginsKeeps
<1>2. CASE Hears(w)
  <2>1. Undetected \in [Codes -> 0..10]
    BY DEF Undetected
  <2>2. PICK speech \in Speech, p \in [Codes -> 0..10] :
          Becomes(w, [step |-> "heard", alone |-> clip[w].alone, speech |-> speech,
                      probabilities |-> p])
    BY <1>2, <2>1, EngineAssumption DEF Hears
  <2> DEFINE c == [step |-> "heard", alone |-> clip[w].alone, speech |-> speech,
                   probabilities |-> p]
  <2>3. /\ c.step = "heard" /\ c.alone = clip[w].alone /\ c.probabilities = p
        /\ {"alone", "probabilities"} \subseteq DOMAIN c
    OBVIOUS
  <2> HIDE DEF c
  <2>4. Listened(c) /\ Follows(c, lastChoice) /\ Repeats(c)
    BY <2>3 DEF Listened, Follows, Repeats
  <2>5. clip[w].step = "called" /\ Same
    BY <1>2 DEF Hears, session
  <2>6. Under(w)
    BY <2>5 DEF Under
  <2>. QED BY <2>2, <2>3, <2>4, <2>5, <2>6, GoesOn DEF c
<1>3. CASE MlxHearsNothing(w) \/ Routes(w)
  <2>1. Becomes(w, Resting) /\ Same /\ clip[w].step # "idle"
    BY <1>3 DEF MlxHearsNothing, Routes, session
  <2>. QED BY <1>0, <2>1, GoesOn
<1>4. CASE Chooses(w)
  BY <1>4, ChoosesKeeps
<1>5. ASSUME NEW said, NEW decision, NEW first, Fires(w, said, decision, first), Same,
             clip[w].step # "idle"
      PROVE  LanguageInv'
  <2>1. PICK action : Becomes(w, [step |-> "fires", said |-> said, action |-> action, first |-> first])
    BY <1>5 DEF Fires
  <2> DEFINE c == [step |-> "fires", said |-> said, action |-> action, first |-> first]
  <2>2. c.step = "fires"
    OBVIOUS
  <2> HIDE DEF c
  <2>3. Listened(c) /\ Follows(c, lastChoice) /\ Repeats(c)
    BY <2>2 DEF Listened, Follows, Repeats
  <2>. QED BY <1>5, <2>1, <2>2, <2>3, GoesOn DEF c
<1>6. ASSUME NEW first,
             Becomes(w, [step |-> "borderline", alone |-> clip[w].alone,
                         choice |-> clip[w].choice, first |-> first]),
             Same, clip[w].step \in {"running", "borderline", "confirming"}
      PROVE  LanguageInv'
  <2> DEFINE c == [step |-> "borderline", alone |-> clip[w].alone,
                   choice |-> clip[w].choice, first |-> first]
  <2>1. /\ c.step = "borderline" /\ c.alone = clip[w].alone /\ c.choice = clip[w].choice
        /\ {"alone", "choice"} \subseteq DOMAIN c
    OBVIOUS
  <2> HIDE DEF c
  <2>2. Listened(c) /\ Follows(c, lastChoice) /\ Repeats(c)
    BY <1>6, <1>a, <2>1 DEF Listened, Follows, Repeats
  <2>3. Under(w) /\ clip[w].step # "idle"
    BY <1>6 DEF Under
  <2>. QED BY <1>6, <2>1, <2>2, <2>3, GoesOn DEF c
<1>7. CASE Answers(w)
  <2>1. Same /\ clip[w].step = "running"
    BY <1>7 DEF Answers, session
  <2>2. CASE Becomes(w, Resting)
    BY <1>0, <2>1, <2>2, GoesOn
  <2>. QED BY <1>5, <1>6, <1>7, <2>1, <2>2 DEF Answers
<1>8. CASE ConfirmPass(w)
  <2>1. /\ Same /\ clip[w].step = "borderline"
        /\ Becomes(w, [step |-> "confirming", alone |-> clip[w].alone, choice |-> clip[w].choice,
                       first |-> clip[w].first, language |-> ConfirmPassLanguage])
    BY <1>8 DEF ConfirmPass, session
  <2> DEFINE c == [step |-> "confirming", alone |-> clip[w].alone, choice |-> clip[w].choice,
                   first |-> clip[w].first, language |-> ConfirmPassLanguage]
  <2>2. /\ c.step = "confirming" /\ c.alone = clip[w].alone /\ c.choice = clip[w].choice
        /\ c.language = ConfirmPassLanguage
        /\ {"alone", "choice", "language"} \subseteq DOMAIN c
    OBVIOUS
  <2> HIDE DEF c
  <2>3. Listened(c) /\ Follows(c, lastChoice)
    BY <1>a, <2>1, <2>2 DEF Listened, Follows
  <2>4. clip[w].alone => ConfirmPassLanguage = clip[w].choice.language
    BY <1>a, <2>1 DEF Follows, ConfirmPassLanguage
  <2>5. Repeats(c)
    BY <2>2, <2>4 DEF Repeats
  <2>6. Under(w) /\ clip[w].step # "idle"
    BY <2>1 DEF Under
  <2>. QED BY <2>1, <2>2, <2>3, <2>5, <2>6, GoesOn DEF c
<1>9. CASE Ends(w)
  <2>1. Same /\ clip[w].step = "confirming"
    BY <1>9 DEF Ends, session
  <2>2. CASE Becomes(w, Resting)
    BY <1>0, <2>1, <2>2, GoesOn
  <2>. QED BY <1>5, <1>9, <2>1, <2>2 DEF Ends
<1>10. CASE Fails(w)
  <2>1. Same /\ Under(w) /\ clip[w].step # "idle"
    BY <1>10 DEF Fails, Under
  <2>2. CASE Becomes(w, Resting)
    BY <1>0, <2>1, <2>2, GoesOn
  <2>3. CASE Becomes(w, Again(clip[w]))
    <3>1. CASE clip[w].step \in {"called", "heard", "running"}
      <4> DEFINE c == [step |-> "called", alone |-> clip[w].alone]
      <4>1. Again(clip[w]) = c
        BY <3>1 DEF Again
      <4>2. c.step = "called" /\ c.alone = clip[w].alone /\ "alone" \in DOMAIN c
        OBVIOUS
      <4> HIDE DEF c
      <4>3. Listened(c) /\ Follows(c, lastChoice) /\ Repeats(c)
        BY <4>2 DEF Listened, Follows, Repeats
      <4>. QED BY <2>1, <2>3, <4>1, <4>2, <4>3, GoesOn
    <3>2. CASE clip[w].step \in {"borderline", "confirming"}
      BY <1>6, <2>1, <2>3, <3>2 DEF Again
    <3>3. clip[w].step \in {"called", "heard", "running", "borderline", "confirming"}
      BY <2>1 DEF LanguageInv, Listening, Listened, Under
    <3>. QED BY <3>1, <3>2, <3>3
  <2>. QED BY <1>10, <2>2, <2>3 DEF Fails
<1>. QED
  BY <1>1, <1>2, <1>3, <1>4, <1>7, <1>8, <1>9, <1>10 DEF ClipStep

LEMMA LanguageStep == LanguageInv /\ [Next]_vars => LanguageInv'
BY BetweenClipsKeeps, ClipStepKeeps DEF Next

(* A clip is heard in a language the session's rule allows, in the one last *)
(* detected when it is in doubt, and the second time in the same one: for   *)
(* any number of workers, codes and lists of Preferred Languages.           *)
THEOREM LanguageCorrect == Spec => []LanguageIsKept
BY LanguageInit, LanguageStep, LanguageInvImplies, PTL DEF Spec

-----------------------------------------------------------------------------
LEMMA Reasons == \A model, profile : Reconcile(model, profile).reason \in {"none", "cuda", "mlx"}
BY DEF Reconcile

LEMMA TypeInit == Init => TypeOK
BY DEF Init, TypeOK

LEMMA TypeStep == TypeOK /\ LanguageInv /\ [Next]_vars => TypeOK'
<1> SUFFICES ASSUME TypeOK, LanguageInv, [Next]_vars PROVE TypeOK'
  OBVIOUS
<1>1. CASE MachineChanges \/ UserEdits \/ SavesSetting \/ UNCHANGED vars
  BY <1>1 DEF MachineChanges, UserEdits, SavesSetting, vars, session, selector, TypeOK
<1>2. CASE Starts
  BY <1>2, Reasons DEF Starts, selector, TypeOK
<1>3. CASE Stops
  BY <1>3 DEF Stops, TypeOK
<1>4. ASSUME NEW w \in Clips, ClipStep(w) PROVE TypeOK'
  <2>1. CASE Chooses(w)
    <3> DEFINE choice == ChooseLanguage(policy, clip[w].probabilities, clip[w].speech,
                                        lastConfident)
    <3>1. /\ clip[w].step = "heard" /\ UNCHANGED <<machine, up, protected, reason, switched, current>>
          /\ lastConfident' = IF choice.reason = "detected" THEN choice.language ELSE lastConfident
          /\ sure' = IF choice.reason = "detected" THEN choice.language ELSE sure
          /\ lastChoice' = choice.language
      BY <2>1 DEF Chooses, Remembers, session
    <3>2. choice.language \in Codes
      BY <3>1, ChoiceIsAllowed DEF LanguageInv, Listening, Listened, SelectorInv
    <3> HIDE DEF choice
    <3>. QED BY <3>1, <3>2 DEF TypeOK
  <2>2. CASE Begins(w)
    BY <2>2 DEF Begins, session, selector, TypeOK
  <2>3. CASE Fails(w)
    BY <2>3 DEF Fails, selector, TypeOK
  <2>4. CASE Hears(w) \/ MlxHearsNothing(w) \/ Answers(w) \/ Routes(w) \/ ConfirmPass(w) \/ Ends(w)
    BY <2>4 DEF Hears, MlxHearsNothing, Answers, Routes, ConfirmPass, Ends, session, selector,
                TypeOK
  <2>. QED BY <1>4, <2>1, <2>2, <2>3, <2>4 DEF ClipStep
<1>. QED BY <1>1, <1>2, <1>3, <1>4 DEF Next

(* The types of the variables; of the languages of the selector it is said  *)
(* that they are codes of Whisper or none.                                  *)
THEOREM TypeCorrect == Spec => []TypeOK
BY LanguageInit, LanguageStep, TypeInit, TypeStep, PTL DEF Spec
=============================================================================
