--------------------------- MODULE PromptsProofs ---------------------------
(***************************************************************************)
(* What the daemon tells the user is neither silent nor a nuisance: proofs *)
(* about Prompts for any cool-downs, any queue of reports and any depth of *)
(* nested dialogs.                                                         *)
(***************************************************************************)
EXTENDS Prompts, WellFoundedInduction, TLAPS

PermissionFrame ==
  [kind : {"startup", "on use"}, items : Seq(Permissions) \ {<<>>}]
UpdateFrame == [kind : {"update"}, items : Seq(Nat) \ {<<>>}]
Dialog == PermissionFrame \union UpdateFrame

Throttle == [open      : SUBSET Permissions,
             dialogAge : [Permissions -> 0..DialogCooldown],
             noteAge   : [Permissions -> 0..NotifyCooldown]]

(* What the prompts are made of.                                           *)
ReportsTyped ==
  /\ missing \subseteq Permissions
  /\ reports \in Seq(Permissions) /\ deferred \in Seq(Permissions)
  /\ unheard \subseteq Permissions /\ abandoned \subseteq Permissions
ThrottleTyped ==
  /\ throttle \in Throttle
  /\ told \in [Permissions -> 0..NotifyCooldown]
  /\ rested \in [Permissions -> 0..DialogCooldown]
DialogsTyped ==
  /\ due \in Seq(Permissions)
  /\ stack \in Seq(Dialog)
PromptsTyped == ReportsTyped /\ ThrottleTyped /\ DialogsTyped

(* A permission is in one place at most: once in the timers that are due,  *)
(* or once in the list of one dialog, or given up with the list it was in. *)
NoRepeats(q) == \A i, j \in DOMAIN q : i # j => q[i] # q[j]
Apart(s) ==
  /\ \A i \in DOMAIN s : IsPermissionFrame(s[i]) => NoRepeats(s[i].items)
  /\ \A i, j \in DOMAIN s :
       i # j /\ IsPermissionFrame(s[i]) /\ IsPermissionFrame(s[j])
         => Range(s[i].items) \cap Range(s[j].items) = {}
OnePlace(s, d, given) ==
  /\ Apart(s) /\ NoRepeats(d)
  /\ Range(d) \cap Listed(s) = {}
  /\ given \cap Coming(s, d) = {}

(* Of the throttle t the observer knows: what is marked open is on its way *)
(* or was given up, his own ages run with the stamps or behind them, and   *)
(* what waits for its dialog had its rest.                                 *)
KnowsTheOpen(t, d, s, given) == t.open = Coming(s, d) \union given
KnowsTheAges(t, ages, rests) ==
  \A p \in Permissions : /\ ages[p] <= t.noteAge[p]
                         /\ t.dialogAge[p] <= rests[p]
Rested(s, d, rests) ==
  \A p \in Permissions :
    p \in Coming(s, d) /\ p \notin Shown(s) => rests[p] >= DialogCooldown

Coherent(t, d, ages, s, given, rests) ==
  /\ OnePlace(s, d, given)
  /\ KnowsTheOpen(t, d, s, given)
  /\ KnowsTheAges(t, ages, rests)
  /\ Rested(s, d, rests)

PromptInv ==
  /\ PromptsTyped
  /\ Coherent(throttle, due, told, stack, abandoned, rested)
  /\ unheard \subseteq abandoned

NoNag ==
  \A p \in Permissions :
    p \in Shown(stack') \ Shown(stack) => rested[p] >= DialogCooldown

(* Hooks and the tray: what the reports and the reporter's queue say is so. *)
HooksTyped ==
  /\ platform \in {"darwin", "win32"}
  /\ {keyboard, mouse} \subseteq {"installing", "live", "off"}
MacHasNoHooks ==
  platform = "darwin" => mouse = "off" /\ failures = <<>> /\ ~surfaced
ReportsTheTap ==
  INPUT_MONITORING \in Range(reports) => platform = "darwin" /\ keyboard = "off"
FailuresAreReal == failures # <<>> \/ surfaced => keyboard = "off" \/ mouse = "off"
SurfacedIsShown == surfaced => hint # "combo"
TrayInv ==
  /\ HooksTyped /\ MacHasNoHooks /\ ReportsTheTap /\ FailuresAreReal /\ SurfacedIsShown
  /\ HintIsHonest

(* Update checks: one at a time is asking, offered or being installed, and *)
(* what is offered is a tag with a later release.                          *)
Confirming(s) == {i \in DOMAIN s : s[i].kind = "update"}
OneCheck ==
  /\ busy <=> \/ checker.step # "idle" \/ upgrading # Unparsable
              \/ Confirming(stack) # {}
  /\ checker.step # "idle" => upgrading = Unparsable /\ Confirming(stack) = {}
  /\ upgrading # Unparsable => Confirming(stack) = {}
  /\ \A i, j \in Confirming(stack) : i = j
Offers == {v \in Latest : IsNewer(v, installed)}
Checker ==
  [step : {"idle", "fetching"}]
    \union [step : {"decided"},
            decision : [kind : {"unknown", "up to date"}]
                         \union [kind : {"available"}, tag : Offers]]
OffersAreNewer ==
  /\ checker \in Checker
  /\ \A i \in Confirming(stack) : stack[i].items \in Offers
  /\ upgrading # Unparsable => upgrading \in Offers
UpdateInv == installed \in Installed /\ OneCheck /\ OffersAreNewer

-----------------------------------------------------------------------------
(***************************************************************************)
(* Folds.  FoldLeft takes the elements of a sequence from the left, as a   *)
(* recursive function on the sets of its indices; that this function       *)
(* exists, and with it the chain of intermediate values, is shown by       *)
(* induction.  SetInduction is about a set of numbers, since no prover     *)
(* here can instantiate the library's theorems about a predicate.          *)
(***************************************************************************)
LEMMA SetInduction ==
  ASSUME NEW G, 0 \in G, \A n \in Nat : n \in G => n + 1 \in G
  PROVE  Nat \subseteq G
<1> DEFINE Bad == Nat \ G
           less == OpToRel(<, Nat)
<1> SUFFICES ASSUME Bad # {} PROVE FALSE
  OBVIOUS
<1>1. IsWellFoundedOn(less, Nat)
  BY NatLessThanWellFounded
<1>2. Bad \subseteq Nat
  OBVIOUS
<1>3. \E x \in Bad : \A y \in Bad : ~(<<y, x>> \in less)
  <2> HIDE DEF Bad, less
  <2>. QED BY <1>1, <1>2, WFMin
<1>4. PICK x \in Bad : \A y \in Bad : ~(<<y, x>> \in less)
  BY <1>3
<1>5. x # 0 /\ x \in Nat
  OBVIOUS
<1>6. x - 1 \in Nat /\ x - 1 + 1 = x
  BY <1>5
<1>7. <<x - 1, x>> \in less
  BY <1>5, <1>6 DEF OpToRel
<1>8. x - 1 \in G
  BY <1>4, <1>6, <1>7
<1>. QED BY <1>5, <1>6, <1>8

LEMMA MaxOfFirst ==
  ASSUME NEW n \in Nat, NEW s \in SUBSET (1..(n + 1)), n + 1 \in s
  PROVE  Max(s) = n + 1
<1>1. \A y \in s : n + 1 >= y
  OBVIOUS
<1>2. \A x \in s : (\A y \in s : x >= y) => x = n + 1
  OBVIOUS
<1>. QED BY <1>1, <1>2 DEF Max

LEMMA MaxIsIn ==
  ASSUME NEW n \in Nat, NEW s \in SUBSET (1..n), s # {}
  PROVE  Max(s) \in s
<1>1. \E x \in s : \A y \in s : x >= y
  <2> DEFINE G == {m \in Nat : \A r \in SUBSET (1..m) :
                      r # {} => \E x \in r : \A y \in r : x >= y}
  <2>1. 0 \in G
    <3>1. 1..0 = {}
      OBVIOUS
    <3>2. \A r \in SUBSET (1..0) : r = {}
      BY <3>1
    <3>. QED BY <3>2
  <2>2. ASSUME NEW m \in Nat, m \in G PROVE m + 1 \in G
    <3>1. ASSUME NEW r \in SUBSET (1..(m + 1)), r # {}
          PROVE  \E x \in r : \A y \in r : x >= y
      <4>1. CASE m + 1 \in r
        <5>1. \A y \in r : m + 1 >= y
          OBVIOUS
        <5>. QED BY <4>1, <5>1
      <4>2. CASE m + 1 \notin r
        <5>1. r \in SUBSET (1..m)
          BY <4>2
        <5>. QED BY <5>1, <3>1, <2>2
      <4>. QED BY <4>1, <4>2
    <3>. QED BY <3>1
  <2>3. n \in G
    <3> HIDE DEF G
    <3>. QED BY <2>1, <2>2, SetInduction
  <2>. QED BY <2>3
<1>. QED BY <1>1 DEF Max

LEMMA FirstOnes ==
  ASSUME NEW n \in Nat \ {0}
  PROVE  Max(1..n) = n /\ (1..n) \ {n} = 1..(n - 1) /\ 1..n # {}
<1> DEFINE m == n - 1
<1>1. m \in Nat /\ m + 1 = n
  OBVIOUS
<1>2. 1..n \in SUBSET (1..(m + 1)) /\ m + 1 \in 1..n
  OBVIOUS
<1>3. \A i : i \in (1..n) \ {n} <=> i \in 1..(n - 1)
  OBVIOUS
<1>4. Max(1..n) = m + 1
  <2> HIDE DEF m
  <2>. QED BY <1>1, <1>2, MaxOfFirst
<1>. QED BY <1>1, <1>2, <1>3, <1>4

(* g is the recursive function of a fold over the indices 1..n.            *)
Turns(g, base, step, q, n) ==
  \A s \in SUBSET (1..n) :
    g[s] = IF s = {} THEN base ELSE step[<<g[s \ {Max(s)}], q[Max(s)]>>]

LEMMA FoldExists ==
  ASSUME NEW V, NEW E, NEW step \in [V \X E -> V], NEW base \in V, NEW q \in Seq(E)
  PROVE  \E g \in [SUBSET (1..Len(q)) -> V] : Turns(g, base, step, q, Len(q))
<1> DEFINE Ok(n) == \E g \in [SUBSET (1..n) -> V] : Turns(g, base, step, q, n)
           G == {n \in Nat : n <= Len(q) => Ok(n)}
<1>0. Len(q) \in Nat
  OBVIOUS
<1>1. 0 \in G
  <2> DEFINE g == [s \in SUBSET (1..0) |-> base]
  <2>1. 1..0 = {}
    OBVIOUS
  <2>2. \A s \in SUBSET (1..0) : s = {} /\ g[s] = base
    BY <2>1
  <2>3. g \in [SUBSET (1..0) -> V]
    OBVIOUS
  <2> HIDE DEF g
  <2>4. Turns(g, base, step, q, 0)
    BY <2>2 DEF Turns
  <2>5. Ok(0)
    BY <2>3, <2>4
  <2>. QED BY <2>5
<1>2. ASSUME NEW n \in Nat, n \in G PROVE n + 1 \in G
  <2> SUFFICES ASSUME n + 1 <= Len(q) PROVE Ok(n + 1)
    <3> HIDE DEF Ok
    <3>. QED OBVIOUS
  <2>0. Ok(n)
    <3> HIDE DEF Ok
    <3>. QED BY <1>0, <1>2
  <2>1. PICK g \in [SUBSET (1..n) -> V] : Turns(g, base, step, q, n)
    BY <2>0
  <2> DEFINE last == n + 1
             f == [s \in SUBSET (1..last) |->
                     IF last \in s THEN step[<<g[s \ {last}], q[last]>>] ELSE g[s]]
  <2>2. last \in 1..Len(q) /\ q[last] \in E
    BY <1>0
  <2>3. ASSUME NEW s \in SUBSET (1..last)
        PROVE  s \ {last} \in SUBSET (1..n) /\ (last \notin s => s \in SUBSET (1..n))
    OBVIOUS
  <2>4. f \in [SUBSET (1..last) -> V]
    <3>1. ASSUME NEW s \in SUBSET (1..last) PROVE f[s] \in V
      <4>1. CASE last \in s
        <5>1. g[s \ {last}] \in V
          BY <2>3
        <5>. QED BY <4>1, <5>1, <2>2
      <4>2. CASE last \notin s
        BY <4>2, <2>3
      <4>. QED BY <4>1, <4>2
    <3>. QED BY <3>1
  <2>5. ASSUME NEW s \in SUBSET (1..n) PROVE s \in SUBSET (1..last) /\ last \notin s /\ f[s] = g[s]
    OBVIOUS
  <2>6. ASSUME NEW s \in SUBSET (1..last)
        PROVE  f[s] = IF s = {} THEN base ELSE step[<<f[s \ {Max(s)}], q[Max(s)]>>]
    <3>1. CASE last \in s
      <4>1. Max(s) = last
        BY <3>1, MaxOfFirst
      <4>2. f[s] = step[<<g[s \ {last}], q[last]>>]
        BY <3>1
      <4>3. f[s \ {last}] = g[s \ {last}]
        BY <2>3, <2>5
      <4>. QED BY <3>1, <4>1, <4>2, <4>3
    <3>2. CASE last \notin s
      <4>1. s \in SUBSET (1..n)
        BY <3>2, <2>3
      <4>2. s \ {Max(s)} \in SUBSET (1..n)
        BY <4>1
      <4>3. f[s] = g[s] /\ f[s \ {Max(s)}] = g[s \ {Max(s)}]
        BY <4>1, <4>2, <2>5
      <4>. QED BY <4>1, <4>3, <2>1 DEF Turns
    <3>. QED BY <3>1, <3>2
  <2> HIDE DEF f
  <2>7. Turns(f, base, step, q, last)
    BY <2>6 DEF Turns
  <2>. QED BY <2>4, <2>7
<1>3. Len(q) \in G
  <2> HIDE DEF G
  <2>. QED BY <1>0, <1>1, <1>2, SetInduction
<1>4. Ok(Len(q))
  <2> HIDE DEF Ok
  <2>. QED BY <1>0, <1>3
<1>. QED BY <1>4

(* The values of a fold one after the other.                               *)
IsHandling(h, base, q, end) ==
  /\ h[0] = base
  /\ \A n \in 1..Len(q) : h[n] = HandleReport(h[n - 1], q[n])
  /\ end = h[Len(q)]

Handling == [throttle : Throttle, due : Seq(Permissions),
             told : [Permissions -> 0..NotifyCooldown]]

LEMMA OpenDialogTyped ==
  ASSUME PromptsAssumption, NEW t \in Throttle, NEW p \in Permissions
  PROVE  /\ OpenDialog(t, p) \in Throttle
         /\ OpenDialog(t, p).open = t.open \union {p}
         /\ OpenDialog(t, p).noteAge = t.noteAge
         /\ \A r \in Permissions :
              OpenDialog(t, p).dialogAge[r] = IF r = p THEN 0 ELSE t.dialogAge[r]
<1>1. t.open \union {p} \in SUBSET Permissions
  BY DEF Throttle
<1>2. [t.dialogAge EXCEPT ![p] = 0] \in [Permissions -> 0..DialogCooldown]
  BY DEF Throttle, PromptsAssumption
<1>3. OpenDialog(t, p) = [open |-> t.open \union {p}, dialogAge |-> [t.dialogAge EXCEPT ![p] = 0],
                          noteAge |-> t.noteAge]
  <2>1. PICK o, d, n : t = [open |-> o, dialogAge |-> d, noteAge |-> n]
    BY DEF Throttle
  <2> DEFINE a == t.open \union {p}
  <2>2. OpenDialog(t, p) = [[t EXCEPT !.open = a] EXCEPT !.dialogAge[p] = 0]
    BY DEF OpenDialog
  <2> HIDE DEF a
  <2>3. [t EXCEPT !.open = a] = [open |-> a, dialogAge |-> d, noteAge |-> n]
    BY <2>1
  <2>4. OpenDialog(t, p) = [open |-> a, dialogAge |-> [d EXCEPT ![p] = 0], noteAge |-> n]
    BY <2>2, <2>3
  <2>. QED BY <2>1, <2>4 DEF a
<1>4. t.noteAge \in [Permissions -> 0..NotifyCooldown] /\ t.dialogAge \in [Permissions -> 0..DialogCooldown]
  BY DEF Throttle
<1>. QED BY <1>1, <1>2, <1>3, <1>4 DEF Throttle

LEMMA ClosedTyped ==
  ASSUME PromptsAssumption, NEW t \in Throttle, NEW p \in Permissions
  PROVE  LET u == DialogClosed(t, p)
         IN  /\ u \in Throttle /\ u.open = t.open \ {p}
             /\ \A r \in Permissions :
                  /\ u.dialogAge[r] = IF r = p THEN 0 ELSE t.dialogAge[r]
                  /\ u.noteAge[r] = IF r = p THEN 0 ELSE t.noteAge[r]
<1> DEFINE u == DialogClosed(t, p)
           a == t.open \ {p}
<1>1. /\ a \in SUBSET Permissions
      /\ t.dialogAge \in [Permissions -> 0..DialogCooldown]
      /\ t.noteAge \in [Permissions -> 0..NotifyCooldown]
      /\ [t.dialogAge EXCEPT ![p] = 0] \in [Permissions -> 0..DialogCooldown]
      /\ [t.noteAge EXCEPT ![p] = 0] \in [Permissions -> 0..NotifyCooldown]
  BY DEF Throttle, PromptsAssumption
<1>2. PICK o, d, n : t = [open |-> o, dialogAge |-> d, noteAge |-> n]
  BY DEF Throttle
<1>3. u = [[[t EXCEPT !.open = a] EXCEPT !.dialogAge[p] = 0] EXCEPT !.noteAge[p] = 0]
  BY DEF DialogClosed
<1> HIDE DEF a
<1>4. [t EXCEPT !.open = a] = [open |-> a, dialogAge |-> d, noteAge |-> n]
  BY <1>2
<1>5. [[open |-> a, dialogAge |-> d, noteAge |-> n] EXCEPT !.dialogAge[p] = 0]
        = [open |-> a, dialogAge |-> [d EXCEPT ![p] = 0], noteAge |-> n]
  OBVIOUS
<1>6. u = [open |-> a, dialogAge |-> [d EXCEPT ![p] = 0], noteAge |-> [n EXCEPT ![p] = 0]]
  <2>1. u = [[open |-> a, dialogAge |-> [d EXCEPT ![p] = 0], noteAge |-> n] EXCEPT !.noteAge[p] = 0]
    <3> HIDE DEF u
    <3>. QED BY <1>3, <1>4, <1>5
  <2> HIDE DEF u
  <2>. QED BY <2>1
<1>7. d = t.dialogAge /\ n = t.noteAge
  BY <1>2
<1> HIDE DEF u
<1>8. /\ u.open = a /\ u.dialogAge = [d EXCEPT ![p] = 0] /\ u.noteAge = [n EXCEPT ![p] = 0]
      /\ u \in Throttle
  BY <1>1, <1>6, <1>7 DEF Throttle
<1>. QED BY <1>1, <1>7, <1>8 DEF a, u

LEMMA HandleReportTyped ==
  ASSUME PromptsAssumption, NEW s \in Handling, NEW p \in Permissions
  PROVE  HandleReport(s, p) \in Handling
<1> DEFINE action == OnUse(s.throttle, p)
<1>1. s.throttle \in Throttle /\ s.due \in Seq(Permissions) /\ s.told \in [Permissions -> 0..NotifyCooldown]
  BY DEF Handling
<1>2. action \in {"DIALOG", "NOTIFY", "NONE"}
  BY DEF OnUse
<1>3. CASE action = "DIALOG"
  <2>1. HandleReport(s, p) = [s EXCEPT !.throttle = OpenDialog(@, p), !.due = Append(@, p)]
    BY <1>3 DEF HandleReport
  <2>2. OpenDialog(s.throttle, p) \in Throttle
    BY <1>1, OpenDialogTyped
  <2>3. Append(s.due, p) \in Seq(Permissions)
    BY <1>1
  <2>. QED BY <2>1, <2>2, <2>3 DEF Handling
<1>4. CASE action = "NOTIFY"
  <2>1. HandleReport(s, p) = [s EXCEPT !.throttle.noteAge[p] = 0, !.told[p] = 0]
    BY <1>4 DEF HandleReport
  <2>2. [s.throttle EXCEPT !.noteAge[p] = 0] \in Throttle
    <3>1. [s.throttle EXCEPT !.noteAge[p] = 0]
            = [open |-> s.throttle.open, dialogAge |-> s.throttle.dialogAge,
               noteAge |-> [s.throttle.noteAge EXCEPT ![p] = 0]]
      <4>1. s.throttle = [open |-> s.throttle.open, dialogAge |-> s.throttle.dialogAge,
                          noteAge |-> s.throttle.noteAge]
        BY <1>1 DEF Throttle
      <4>. QED BY <4>1, SMTT(30)
    <3>2. [s.throttle.noteAge EXCEPT ![p] = 0] \in [Permissions -> 0..NotifyCooldown]
      BY <1>1 DEF Throttle, PromptsAssumption
    <3>. QED BY <1>1, <3>1, <3>2 DEF Throttle
  <2>3. [s.told EXCEPT ![p] = 0] \in [Permissions -> 0..NotifyCooldown]
    BY <1>1 DEF PromptsAssumption
  <2>. QED BY <2>1, <2>2, <2>3 DEF Handling
<1>5. CASE action = "NONE"
  BY <1>5 DEF HandleReport
<1>. QED BY <1>2, <1>3, <1>4, <1>5

LEMMA HandlesInTurn ==
  ASSUME PromptsAssumption, NEW base \in Handling, NEW q \in Seq(Permissions)
  PROVE  \E h : IsHandling(h, base, q, FoldLeft(HandleReport, base, q))
<1> DEFINE step == [x \in Handling \X Permissions |-> HandleReport(x[1], x[2])]
           Val(g, s) == IF s = {} THEN base ELSE HandleReport(g[s \ {Max(s)}], q[Max(s)])
           fun == CHOOSE g : g = [s \in SUBSET DOMAIN q |-> Val(g, s)]
           h == [n \in 0..Len(q) |-> fun[1..n]]
<1>0. Len(q) \in Nat /\ DOMAIN q = 1..Len(q)
  OBVIOUS
<1>1. step \in [Handling \X Permissions -> Handling]
  BY HandleReportTyped
<1>2. PICK g \in [SUBSET (1..Len(q)) -> Handling] : Turns(g, base, step, q, Len(q))
  <2> HIDE DEF step
  <2>. QED BY <1>1, FoldExists
<1>3. g = [s \in SUBSET DOMAIN q |-> Val(g, s)]
  <2>1. ASSUME NEW s \in SUBSET (1..Len(q)) PROVE g[s] = Val(g, s)
    <3>1. CASE s = {}
      BY <1>2, <3>1 DEF Turns
    <3>2. CASE s # {}
      <4>1. Max(s) \in s
        BY <1>0, <3>2, MaxIsIn
      <4>2. g[s \ {Max(s)}] \in Handling /\ q[Max(s)] \in Permissions
        <5>1. s \ {Max(s)} \in SUBSET (1..Len(q))
          OBVIOUS
        <5>2. g[s \ {Max(s)}] \in Handling
          BY <5>1, <1>2
        <5>3. Max(s) \in 1..Len(q)
          BY <4>1
        <5>. QED BY <5>2, <5>3
      <4>3. g[s] = step[<<g[s \ {Max(s)}], q[Max(s)]>>]
        BY <1>2, <3>2 DEF Turns
      <4>. QED BY <3>2, <4>2, <4>3
    <3>. QED BY <3>1, <3>2
  <2> HIDE DEF Val
  <2>. QED BY <1>0, <1>2, <2>1
<1>4. fun = [s \in SUBSET DOMAIN q |-> Val(fun, s)]
  <2> HIDE DEF Val
  <2>. QED BY <1>3
<1>5. ASSUME NEW n \in 1..Len(q) PROVE h[n] = HandleReport(h[n - 1], q[n])
  <2>1. n \in Nat \ {0} /\ 1..n \in SUBSET DOMAIN q
    BY <1>0
  <2>2. Max(1..n) = n /\ (1..n) \ {n} = 1..(n - 1) /\ 1..n # {}
    BY <2>1, FirstOnes
  <2> HIDE DEF fun
  <2>3. fun[1..n] = Val(fun, 1..n)
    <3> HIDE DEF Val
    <3>. QED BY <1>4, <2>1
  <2>4. fun[1..n] = HandleReport(fun[1..(n - 1)], q[n])
    BY <2>2, <2>3
  <2>. QED BY <2>4, <1>0
<1>6. h[0] = base
  <2>1. 1..0 = {} /\ {} \in SUBSET DOMAIN q /\ 0 \in 0..Len(q)
    BY <1>0
  <2> HIDE DEF fun
  <2>2. fun[{}] = base
    BY <1>4, <2>1
  <2>. QED BY <2>1, <2>2
<1>7. FoldLeft(HandleReport, base, q) = fun[DOMAIN q]
  BY DEF FoldLeft, MapThenFoldSet
<1>8. fun[DOMAIN q] = h[Len(q)]
  <2> HIDE DEF fun
  <2>. QED BY <1>0
<1> HIDE DEF h
<1>. QED BY <1>5, <1>6, <1>7, <1>8 DEF IsHandling

(* The same for the dialogs of the startup check.                          *)
IsOpening(h, base, q, end) ==
  /\ h[0] = base
  /\ \A n \in 1..Len(q) : h[n] = OpenDialog(h[n - 1], q[n])
  /\ end = h[Len(q)]

LEMMA OpensInTurn ==
  ASSUME PromptsAssumption, NEW base \in Throttle, NEW q \in Seq(Permissions)
  PROVE  \E h : IsOpening(h, base, q, FoldLeft(OpenDialog, base, q))
<1> DEFINE step == [x \in Throttle \X Permissions |-> OpenDialog(x[1], x[2])]
           Val(g, s) == IF s = {} THEN base ELSE OpenDialog(g[s \ {Max(s)}], q[Max(s)])
           fun == CHOOSE g : g = [s \in SUBSET DOMAIN q |-> Val(g, s)]
           h == [n \in 0..Len(q) |-> fun[1..n]]
<1>0. Len(q) \in Nat /\ DOMAIN q = 1..Len(q)
  OBVIOUS
<1>1. step \in [Throttle \X Permissions -> Throttle]
  BY OpenDialogTyped
<1>2. PICK g \in [SUBSET (1..Len(q)) -> Throttle] : Turns(g, base, step, q, Len(q))
  <2> HIDE DEF step
  <2>. QED BY <1>1, FoldExists
<1>3. g = [s \in SUBSET DOMAIN q |-> Val(g, s)]
  <2>1. ASSUME NEW s \in SUBSET (1..Len(q)) PROVE g[s] = Val(g, s)
    <3>1. CASE s = {}
      BY <1>2, <3>1 DEF Turns
    <3>2. CASE s # {}
      <4>1. Max(s) \in s
        BY <1>0, <3>2, MaxIsIn
      <4>2. g[s \ {Max(s)}] \in Throttle /\ q[Max(s)] \in Permissions
        <5>1. s \ {Max(s)} \in SUBSET (1..Len(q))
          OBVIOUS
        <5>2. g[s \ {Max(s)}] \in Throttle
          BY <5>1, <1>2
        <5>3. Max(s) \in 1..Len(q)
          BY <4>1
        <5>. QED BY <5>2, <5>3
      <4>3. g[s] = step[<<g[s \ {Max(s)}], q[Max(s)]>>]
        BY <1>2, <3>2 DEF Turns
      <4>. QED BY <3>2, <4>2, <4>3
    <3>. QED BY <3>1, <3>2
  <2> HIDE DEF Val
  <2>. QED BY <1>0, <1>2, <2>1
<1>4. fun = [s \in SUBSET DOMAIN q |-> Val(fun, s)]
  <2> HIDE DEF Val
  <2>. QED BY <1>3
<1>5. ASSUME NEW n \in 1..Len(q) PROVE h[n] = OpenDialog(h[n - 1], q[n])
  <2>1. n \in Nat \ {0} /\ 1..n \in SUBSET DOMAIN q
    BY <1>0
  <2>2. Max(1..n) = n /\ (1..n) \ {n} = 1..(n - 1) /\ 1..n # {}
    BY <2>1, FirstOnes
  <2> HIDE DEF fun
  <2>3. fun[1..n] = Val(fun, 1..n)
    <3> HIDE DEF Val
    <3>. QED BY <1>4, <2>1
  <2>4. fun[1..n] = OpenDialog(fun[1..(n - 1)], q[n])
    BY <2>2, <2>3
  <2>. QED BY <2>4, <1>0
<1>6. h[0] = base
  <2>1. 1..0 = {} /\ {} \in SUBSET DOMAIN q /\ 0 \in 0..Len(q)
    BY <1>0
  <2> HIDE DEF fun
  <2>2. fun[{}] = base
    BY <1>4, <2>1
  <2>. QED BY <2>1, <2>2
<1>7. FoldLeft(OpenDialog, base, q) = fun[DOMAIN q]
  BY DEF FoldLeft, MapThenFoldSet
<1>8. fun[DOMAIN q] = h[Len(q)]
  <2> HIDE DEF fun
  <2>. QED BY <1>0
<1> HIDE DEF h
<1>. QED BY <1>5, <1>6, <1>7, <1>8 DEF IsOpening

LEMMA DialogsOpened ==
  ASSUME PromptsAssumption, NEW t \in Throttle, NEW q \in Seq(Permissions)
  PROVE  LET u == FoldLeft(OpenDialog, t, q)
         IN  /\ u \in Throttle
             /\ u.open = t.open \union Range(q) /\ u.noteAge = t.noteAge
             /\ \A p \in Permissions :
                  u.dialogAge[p] = IF p \in Range(q) THEN 0 ELSE t.dialogAge[p]
<1> DEFINE u == FoldLeft(OpenDialog, t, q)
<1>1. PICK h : IsOpening(h, t, q, u)
  <2> HIDE DEF u
  <2>1. \E h : IsOpening(h, t, q, FoldLeft(OpenDialog, t, q))
    BY OpensInTurn
  <2>. QED BY <2>1 DEF u
<1> HIDE DEF u
<1> DEFINE Taken(n) == {q[i] : i \in 1..n}
           Good(n) ==
             /\ h[n] \in Throttle
             /\ h[n].open = t.open \union Taken(n) /\ h[n].noteAge = t.noteAge
             /\ \A p \in Permissions :
                  h[n].dialogAge[p] = IF p \in Taken(n) THEN 0 ELSE t.dialogAge[p]
           G == {n \in Nat : n <= Len(q) => Good(n)}
<1>2. Len(q) \in Nat /\ DOMAIN q = 1..Len(q)
  OBVIOUS
<1>3. 0 \in G
  <2>1. h[0] = t
    BY <1>1 DEF IsOpening
  <2>2. Taken(0) = {}
    <3>1. 1..0 = {}
      OBVIOUS
    <3>. QED BY <3>1
  <2> HIDE DEF Taken
  <2>. QED BY <2>1, <2>2
<1>4. ASSUME NEW n \in Nat, n \in G PROVE n + 1 \in G
  <2> SUFFICES ASSUME n + 1 <= Len(q) PROVE Good(n + 1)
    <3> HIDE DEF Good
    <3>. QED OBVIOUS
  <2>0. Good(n)
    <3> HIDE DEF Good
    <3>. QED BY <1>2, <1>4
  <2>1. n + 1 \in 1..Len(q) /\ n + 1 - 1 = n
    BY <1>2
  <2>2. h[n + 1] = OpenDialog(h[n], q[n + 1]) /\ q[n + 1] \in Permissions
    BY <1>1, <2>1 DEF IsOpening
  <2>3. Taken(n + 1) = Taken(n) \union {q[n + 1]}
    <3>1. 1..(n + 1) = 1..n \union {n + 1}
      OBVIOUS
    <3>. QED BY <3>1
  <2> HIDE DEF Taken
  <2>4. /\ h[n + 1] \in Throttle
        /\ h[n + 1].open = h[n].open \union {q[n + 1]}
        /\ h[n + 1].noteAge = h[n].noteAge
        /\ \A r \in Permissions :
             h[n + 1].dialogAge[r] = IF r = q[n + 1] THEN 0 ELSE h[n].dialogAge[r]
    <3>1. h[n] \in Throttle
      BY <2>0
    <3> HIDE DEF Good
    <3>. QED BY <3>1, <2>2, OpenDialogTyped
  <2>. QED BY <2>0, <2>3, <2>4
<1>5. Good(Len(q))
  <2>1. Len(q) \in G
    <3> HIDE DEF G
    <3>. QED BY <1>2, <1>3, <1>4, SetInduction
  <2> HIDE DEF Good
  <2>. QED BY <1>2, <2>1
<1>6. u = h[Len(q)] /\ Taken(Len(q)) = Range(q)
  BY <1>1, <1>2 DEF IsOpening, Range
<1> HIDE DEF Taken
<1>. QED BY <1>5, <1>6 DEF u

-----------------------------------------------------------------------------
(***************************************************************************)
(* Lists and stacks of them.                                               *)
(***************************************************************************)
LEMMA RangeOfAppend ==
  ASSUME NEW X, NEW q \in Seq(X), NEW e
  PROVE  Range(Append(q, e)) = Range(q) \union {e}
<1>1. DOMAIN Append(q, e) = (1..Len(q)) \union {Len(q) + 1} /\ DOMAIN q = 1..Len(q)
  OBVIOUS
<1>2. \A i \in 1..Len(q) : Append(q, e)[i] = q[i]
  OBVIOUS
<1>3. Append(q, e)[Len(q) + 1] = e
  OBVIOUS
<1> DEFINE r == Append(q, e)
<1> HIDE DEF r
<1>4. Range(r) = {r[i] : i \in 1..Len(q)} \union {r[Len(q) + 1]}
  BY <1>1 DEF Range, r
<1>5. {r[i] : i \in 1..Len(q)} = Range(q)
  BY <1>1, <1>2 DEF Range, r
<1>. QED BY <1>3, <1>4, <1>5 DEF r

LEMMA NoRepeatsAppend ==
  ASSUME NEW X, NEW q \in Seq(X), NEW e, NoRepeats(q), e \notin Range(q)
  PROVE  NoRepeats(Append(q, e))
  BY DEF NoRepeats, Range

LEMMA HeadAndTail ==
  ASSUME NEW X, NEW q \in Seq(X), q # <<>>
  PROVE  /\ Head(q) \in X /\ Tail(q) \in Seq(X)
         /\ Range(q) = {Head(q)} \union Range(Tail(q))
         /\ NoRepeats(q) => NoRepeats(Tail(q)) /\ Head(q) \notin Range(Tail(q))
<1>1. DOMAIN q = 1..Len(q) /\ Len(q) \in Nat \ {0} /\ Head(q) = q[1]
  OBVIOUS
<1>2. DOMAIN Tail(q) = 1..(Len(q) - 1) /\ \A i \in 1..(Len(q) - 1) : Tail(q)[i] = q[i + 1]
  OBVIOUS
<1>3. \A x : x \in Range(Tail(q)) <=> \E i \in 2..Len(q) : x = q[i]
  <2>1. ASSUME NEW x, x \in Range(Tail(q)) PROVE \E i \in 2..Len(q) : x = q[i]
    <3>1. PICK i \in 1..(Len(q) - 1) : x = Tail(q)[i]
      BY <1>2, <2>1 DEF Range
    <3>2. x = q[i + 1] /\ i + 1 \in 2..Len(q)
      BY <1>1, <1>2, <3>1
    <3>. QED BY <3>2
  <2>2. ASSUME NEW i \in 2..Len(q) PROVE q[i] \in Range(Tail(q))
    <3>1. i - 1 \in 1..(Len(q) - 1) /\ i - 1 + 1 = i
      BY <1>1
    <3>2. Tail(q)[i - 1] = q[i]
      BY <1>2, <3>1
    <3>. QED BY <1>2, <3>1, <3>2 DEF Range
  <2>. QED BY <2>1, <2>2
<1>4. \A x : x \in Range(q) <=> x = q[1] \/ \E i \in 2..Len(q) : x = q[i]
  <2>1. 1..Len(q) = {1} \union 2..Len(q)
    BY <1>1
  <2>. QED BY <1>1, <2>1 DEF Range
<1>5. Range(q) = {Head(q)} \union Range(Tail(q))
  BY <1>1, <1>3, <1>4
<1>6. ASSUME NoRepeats(q) PROVE NoRepeats(Tail(q)) /\ Head(q) \notin Range(Tail(q))
  <2>1. ASSUME NEW i \in 1..(Len(q) - 1), NEW j \in 1..(Len(q) - 1), i # j
        PROVE  Tail(q)[i] # Tail(q)[j]
    <3>1. i + 1 \in DOMAIN q /\ j + 1 \in DOMAIN q /\ i + 1 # j + 1
      BY <1>1, <2>1
    <3>. QED BY <1>2, <1>6, <3>1 DEF NoRepeats
  <2>2. \A i \in 2..Len(q) : q[i] # q[1]
    BY <1>1, <1>6 DEF NoRepeats
  <2>. QED BY <1>1, <1>2, <1>3, <2>1, <2>2 DEF NoRepeats
<1>7. Head(q) \in X /\ Tail(q) \in Seq(X)
  OBVIOUS
<1>. QED BY <1>5, <1>6, <1>7

(* The permissions of a frame.                                             *)
Items(f) == IF IsPermissionFrame(f) THEN Range(f.items) ELSE {}
First(f) == IF IsPermissionFrame(f) THEN {Head(f.items)} ELSE {}

LEMMA Pushed ==
  ASSUME NEW s \in Seq(Dialog), NEW f \in Dialog
  PROVE  /\ Append(s, f) \in Seq(Dialog)
         /\ Listed(Append(s, f)) = Listed(s) \union Items(f)
         /\ Shown(Append(s, f)) = Shown(s) \union First(f)
         /\ Apart(Append(s, f))
              <=> /\ Apart(s)
                  /\ IsPermissionFrame(f) => NoRepeats(f.items)
                  /\ Items(f) \cap Listed(s) = {}
<1> DEFINE t == Append(s, f)
           n == Len(s) + 1
<1>1. /\ t \in Seq(Dialog) /\ DOMAIN s = 1..Len(s) /\ Len(s) \in Nat
      /\ DOMAIN t = (1..Len(s)) \union {n} /\ n \notin 1..Len(s)
      /\ t[n] = f /\ \A i \in 1..Len(s) : t[i] = s[i]
  OBVIOUS
<1> HIDE DEF t, n
<1>2. \A p : p \in Listed(s) <=> \E i \in 1..Len(s) : IsPermissionFrame(s[i]) /\ p \in Range(s[i].items)
  BY <1>1 DEF Listed
<1>3. \A p : p \in Listed(t) <=> \E i \in DOMAIN t : IsPermissionFrame(t[i]) /\ p \in Range(t[i].items)
  BY DEF Listed
<1>4. Listed(t) = Listed(s) \union Items(f)
  BY <1>1, <1>2, <1>3 DEF Items
<1>5. \A p : p \in Shown(s) <=> \E i \in 1..Len(s) : IsPermissionFrame(s[i]) /\ p = Head(s[i].items)
  BY <1>1 DEF Shown
<1>6. \A p : p \in Shown(t) <=> \E i \in DOMAIN t : IsPermissionFrame(t[i]) /\ p = Head(t[i].items)
  BY DEF Shown
<1>7. Shown(t) = Shown(s) \union First(f)
  BY <1>1, <1>5, <1>6 DEF First
<1>8. ASSUME Apart(t)
      PROVE  Apart(s) /\ (IsPermissionFrame(f) => NoRepeats(f.items)) /\ Items(f) \cap Listed(s) = {}
  <2>1. Apart(s)
    <3>1. \A i \in DOMAIN s : IsPermissionFrame(s[i]) => NoRepeats(s[i].items)
      BY <1>1, <1>8 DEF Apart
    <3>2. ASSUME NEW i \in DOMAIN s, NEW j \in DOMAIN s, i # j,
                 IsPermissionFrame(s[i]), IsPermissionFrame(s[j])
          PROVE  Range(s[i].items) \cap Range(s[j].items) = {}
      <4>1. i \in DOMAIN t /\ j \in DOMAIN t /\ t[i] = s[i] /\ t[j] = s[j]
        BY <1>1
      <4>. QED BY <4>1, <3>2, <1>8 DEF Apart
    <3>. QED BY <3>1, <3>2 DEF Apart
  <2>2. IsPermissionFrame(f) => NoRepeats(f.items)
    BY <1>1, <1>8 DEF Apart
  <2>3. ASSUME NEW p, p \in Items(f), p \in Listed(s) PROVE FALSE
    <3>1. IsPermissionFrame(f) /\ p \in Range(f.items)
      BY <2>3 DEF Items
    <3>2. PICK i \in 1..Len(s) : IsPermissionFrame(s[i]) /\ p \in Range(s[i].items)
      BY <2>3, <1>2
    <3>3. i \in DOMAIN t /\ n \in DOMAIN t /\ i # n /\ t[i] = s[i] /\ t[n] = f
      BY <1>1
    <3>4. Range(t[i].items) \cap Range(t[n].items) = {}
      BY <1>8, <3>1, <3>2, <3>3 DEF Apart
    <3>. QED BY <3>1, <3>2, <3>3, <3>4
  <2>. QED BY <2>1, <2>2, <2>3
<1>9. ASSUME Apart(s), IsPermissionFrame(f) => NoRepeats(f.items), Items(f) \cap Listed(s) = {}
      PROVE  Apart(t)
  <2>1. \A i \in DOMAIN t : IsPermissionFrame(t[i]) => NoRepeats(t[i].items)
    BY <1>1, <1>9 DEF Apart
  <2>2. ASSUME NEW i \in DOMAIN t, NEW j \in DOMAIN t, i # j,
               IsPermissionFrame(t[i]), IsPermissionFrame(t[j])
        PROVE  Range(t[i].items) \cap Range(t[j].items) = {}
    <3>1. CASE i \in 1..Len(s) /\ j \in 1..Len(s)
      BY <1>1, <1>9, <2>2, <3>1 DEF Apart
    <3>2. CASE i \in 1..Len(s) /\ j = n
      <4>1. \A p \in Range(t[i].items) : p \in Listed(s)
        BY <1>1, <1>2, <2>2, <3>2
      <4>2. Range(t[j].items) = Items(f)
        BY <1>1, <2>2, <3>2 DEF Items
      <4>. QED BY <1>9, <4>1, <4>2
    <3>3. CASE i = n /\ j \in 1..Len(s)
      <4>1. \A p \in Range(t[j].items) : p \in Listed(s)
        BY <1>1, <1>2, <2>2, <3>3
      <4>2. Range(t[i].items) = Items(f)
        BY <1>1, <2>2, <3>3 DEF Items
      <4>. QED BY <1>9, <4>1, <4>2
    <3>. QED BY <1>1, <2>2, <3>1, <3>2, <3>3
  <2>. QED BY <2>1, <2>2 DEF Apart
<1>. QED BY <1>1, <1>4, <1>7, <1>8, <1>9 DEF t

(* The stack is what is below the top, and the top.                        *)
LEMMA Popped ==
  ASSUME NEW s \in Seq(Dialog), s # <<>>
  PROVE  LET b == SubSeq(s, 1, Len(s) - 1)
             f == s[Len(s)]
         IN  b \in Seq(Dialog) /\ f \in Dialog /\ s = Append(b, f)
<1> DEFINE b == SubSeq(s, 1, Len(s) - 1)
           f == s[Len(s)]
<1>1. Len(s) \in Nat \ {0}
  OBVIOUS
<1>2. b \in Seq(Dialog) /\ Len(b) = Len(s) - 1 /\ \A i \in 1..(Len(s) - 1) : b[i] = s[i]
  <2>1. Len(s) - 1 \in 0..Len(s) /\ 1 \in 1..(Len(s) + 1)
    BY <1>1
  <2>2. b = [i \in 1..(Len(s) - 1) |-> s[i]]
    BY <2>1
  <2>3. \A i \in 1..(Len(s) - 1) : s[i] \in Dialog
    BY <1>1
  <2> HIDE DEF b
  <2>4. Len(s) - 1 \in Nat
    BY <1>1
  <2> DEFINE m == Len(s) - 1
  <2> HIDE DEF m
  <2>5. b = [i \in 1..m |-> s[i]] /\ m \in Nat /\ \A i \in 1..m : s[i] \in Dialog
    BY <2>2, <2>3, <2>4 DEF m
  <2>6. b \in Seq(Dialog) /\ Len(b) = m /\ \A i \in 1..m : b[i] = s[i]
    BY <2>5
  <2>. QED BY <2>6 DEF m
<1>3. f \in Dialog
  BY <1>1
<1> HIDE DEF b
<1>4. /\ Append(b, f) \in Seq(Dialog) /\ Len(Append(b, f)) = Len(s)
      /\ \A i \in 1..(Len(s) - 1) : Append(b, f)[i] = b[i]
      /\ Append(b, f)[Len(s)] = f
  BY <1>1, <1>2, <1>3
<1>5. \A i \in 1..Len(s) : Append(b, f)[i] = s[i]
  BY <1>1, <1>2, <1>4
<1>6. Append(b, f) = s
  <2>1. DOMAIN Append(b, f) = 1..Len(s) /\ DOMAIN s = 1..Len(s)
    BY <1>4
  <2> DEFINE a == Append(b, f)
  <2> HIDE DEF a
  <2>2. a = [i \in 1..Len(s) |-> a[i]] /\ s = [i \in 1..Len(s) |-> s[i]]
    BY <1>4, <2>1 DEF a
  <2>. QED BY <1>5, <2>2 DEF a
<1>. QED BY <1>2, <1>3, <1>6 DEF b

-----------------------------------------------------------------------------
(***************************************************************************)
(* Reports.  One that was handled is settled: its dialog is up, coming or  *)
(* was given up, or the user was told a short while ago.                   *)
(***************************************************************************)
Settled(p, s) == p \in s.throttle.open \/ s.told[p] < NotifyCooldown

(* What was settled stays so.                                              *)
Further(s, u) ==
  /\ s.throttle.open \subseteq u.throttle.open
  /\ \A p \in Permissions : u.told[p] <= s.told[p]

LEMMA StaysSettled ==
  ASSUME PromptsAssumption, NEW s \in Handling, NEW u \in Handling, NEW p \in Permissions,
         Settled(p, s), Further(s, u)
  PROVE  Settled(p, u)
<1>1. s.told[p] \in Nat /\ u.told[p] \in Nat /\ NotifyCooldown \in Nat
  BY DEF Handling, PromptsAssumption
<1>2. u.told[p] <= s.told[p] /\ s.throttle.open \subseteq u.throttle.open
  BY DEF Further
<1>. QED BY <1>1, <1>2 DEF Settled

CoherentState(s, stk, given, rests) ==
  Coherent(s.throttle, s.due, s.told, stk, given, rests)

LEMMA ReportHandled ==
  ASSUME PromptsAssumption, NEW s \in Handling, NEW p \in Permissions,
         NEW stk, NEW given, NEW rests \in [Permissions -> 0..DialogCooldown],
         CoherentState(s, stk, given, rests)
  PROVE  LET u == HandleReport(s, p)
         IN  CoherentState(u, stk, given, rests) /\ Settled(p, u) /\ Further(s, u)
<1> DEFINE u == HandleReport(s, p)
           action == OnUse(s.throttle, p)
<1>0. /\ DialogCooldown \in Nat /\ NotifyCooldown \in Nat /\ 0 < NotifyCooldown
      /\ 0 < DialogCooldown
  BY DEF PromptsAssumption
<1>1. s.throttle \in Throttle /\ s.due \in Seq(Permissions) /\ s.told \in [Permissions -> 0..NotifyCooldown]
  BY DEF Handling
<1>2. action \in {"DIALOG", "NOTIFY", "NONE"}
  BY DEF OnUse
<1>3. /\ OnePlace(stk, s.due, given)
      /\ KnowsTheOpen(s.throttle, s.due, stk, given)
      /\ KnowsTheAges(s.throttle, s.told, rests)
      /\ Rested(stk, s.due, rests)
  BY DEF CoherentState, Coherent
<1>4. CASE action = "DIALOG"
  <2> DEFINE t == OpenDialog(s.throttle, p)
  <2>1. u = [s EXCEPT !.throttle = t, !.due = Append(@, p)]
    BY <1>4 DEF HandleReport
  <2>2. u.throttle = t /\ u.due = Append(s.due, p) /\ u.told = s.told
    BY <2>1 DEF Handling
  <2>3. /\ t.open = s.throttle.open \union {p} /\ t.noteAge = s.throttle.noteAge
        /\ \A r \in Permissions : t.dialogAge[r] = IF r = p THEN 0 ELSE s.throttle.dialogAge[r]
    BY <1>1, OpenDialogTyped
  <2>4. p \notin s.throttle.open /\ s.throttle.dialogAge[p] >= DialogCooldown
    BY <1>4 DEF OnUse, DialogDue
  <2>5. p \notin Coming(stk, s.due) /\ p \notin given
    BY <2>4, <1>3 DEF KnowsTheOpen
  <2> HIDE DEF t, u
  <2>6. Range(u.due) = Range(s.due) \union {p}
    BY <1>1, <2>2, RangeOfAppend
  <2>7. Coming(stk, u.due) = Coming(stk, s.due) \union {p}
    BY <2>6 DEF Coming
  <2>8. OnePlace(stk, u.due, given)
    <3>1. NoRepeats(u.due)
      BY <1>1, <1>3, <2>2, <2>5, NoRepeatsAppend DEF OnePlace, Coming
    <3>. QED BY <3>1, <1>3, <2>5, <2>6, <2>7 DEF OnePlace, Coming
  <2>9. KnowsTheOpen(u.throttle, u.due, stk, given)
    BY <1>3, <2>2, <2>3, <2>7 DEF KnowsTheOpen
  <2>10. KnowsTheAges(u.throttle, u.told, rests)
    <3>1. \A r \in Permissions : rests[r] >= 0
      BY <1>0
    <3>. QED BY <3>1, <1>3, <2>2, <2>3 DEF KnowsTheAges
  <2>11. Rested(stk, u.due, rests)
    <3>1. rests[p] >= DialogCooldown
      <4>1. s.throttle.dialogAge[p] <= rests[p]
        BY <1>3 DEF KnowsTheAges
      <4>2. s.throttle.dialogAge[p] \in Nat /\ rests[p] \in Nat
        BY <1>0, <1>1 DEF Throttle
      <4>. QED BY <1>0, <2>4, <4>1, <4>2
    <3>. QED BY <3>1, <1>3, <2>7 DEF Rested
  <2>12. Settled(p, u) /\ Further(s, u)
    <3>1. \A r \in Permissions : s.told[r] <= s.told[r]
      BY <1>0, <1>1
    <3>. QED BY <3>1, <2>2, <2>3 DEF Settled, Further
  <2>. QED BY <2>8, <2>9, <2>10, <2>11, <2>12 DEF CoherentState, Coherent, u
<1>5. CASE action = "NOTIFY"
  <2>1. u = [s EXCEPT !.throttle.noteAge[p] = 0, !.told[p] = 0]
    BY <1>5 DEF HandleReport
  <2>2. /\ u.throttle = [s.throttle EXCEPT !.noteAge[p] = 0]
        /\ u.due = s.due /\ u.told = [s.told EXCEPT ![p] = 0]
    BY <2>1 DEF Handling
  <2>3. /\ u.throttle.open = s.throttle.open /\ u.throttle.dialogAge = s.throttle.dialogAge
        /\ u.throttle.noteAge = [s.throttle.noteAge EXCEPT ![p] = 0]
    BY <1>1, <2>2 DEF Throttle
  <2> HIDE DEF u
  <2>4. \A r \in Permissions :
          /\ u.told[r] = IF r = p THEN 0 ELSE s.told[r]
          /\ u.throttle.noteAge[r] = IF r = p THEN 0 ELSE s.throttle.noteAge[r]
    BY <1>1, <2>2, <2>3 DEF Throttle
  <2>5. KnowsTheOpen(u.throttle, u.due, stk, given)
    BY <1>3, <2>2, <2>3 DEF KnowsTheOpen
  <2>6. KnowsTheAges(u.throttle, u.told, rests)
    BY <1>3, <2>3, <2>4 DEF KnowsTheAges
  <2>7. Settled(p, u)
    BY <1>0, <2>4 DEF Settled
  <2>8. Further(s, u)
    <3>1. \A r \in Permissions : s.told[r] \in Nat
      BY <1>0, <1>1
    <3>. QED BY <3>1, <2>3, <2>4 DEF Further
  <2>. QED BY <1>3, <2>2, <2>5, <2>6, <2>7, <2>8 DEF CoherentState, Coherent, u
<1>6. CASE action = "NONE"
  <2>1. u = s
    BY <1>6 DEF HandleReport
  <2>2. Settled(p, s)
    <3>1. CASE p \in s.throttle.open
      BY <3>1 DEF Settled
    <3>2. CASE p \notin s.throttle.open
      <4>1. ~(s.throttle.noteAge[p] >= NotifyCooldown)
        BY <1>6, <3>2 DEF OnUse
      <4>2. s.told[p] <= s.throttle.noteAge[p]
        BY <1>3 DEF KnowsTheAges
      <4>3. s.told[p] \in Nat /\ s.throttle.noteAge[p] \in Nat
        BY <1>0, <1>1 DEF Throttle
      <4>. QED BY <1>0, <4>1, <4>2, <4>3 DEF Settled
    <3>. QED BY <3>1, <3>2
  <2>3. Further(s, s)
    <3>1. \A r \in Permissions : s.told[r] <= s.told[r]
      BY <1>0, <1>1
    <3>. QED BY <3>1 DEF Further
  <2>. QED BY <2>1, <2>2, <2>3
<1>. QED BY <1>2, <1>4, <1>5, <1>6

(* All the reports of a queue.                                             *)
LEMMA ReportsHandled ==
  ASSUME PromptsAssumption, NEW s \in Handling, NEW q \in Seq(Permissions),
         NEW stk, NEW given, NEW rests \in [Permissions -> 0..DialogCooldown],
         CoherentState(s, stk, given, rests)
  PROVE  LET u == FoldLeft(HandleReport, s, q)
         IN  /\ u \in Handling
             /\ CoherentState(u, stk, given, rests)
             /\ \A p \in Range(q) : Settled(p, u)
<1> DEFINE u == FoldLeft(HandleReport, s, q)
<1>1. PICK h : IsHandling(h, s, q, u)
  <2> HIDE DEF u
  <2>1. \E h : IsHandling(h, s, q, FoldLeft(HandleReport, s, q))
    BY HandlesInTurn
  <2>. QED BY <2>1 DEF u
<1> HIDE DEF u
<1> DEFINE Good(n) == /\ h[n] \in Handling
                      /\ CoherentState(h[n], stk, given, rests)
                      /\ \A i \in 1..n : Settled(q[i], h[n])
           G == {n \in Nat : n <= Len(q) => Good(n)}
<1>2. Len(q) \in Nat /\ DOMAIN q = 1..Len(q) /\ NotifyCooldown \in Nat
  BY DEF PromptsAssumption
<1>3. 0 \in G
  <2>1. h[0] = s
    BY <1>1 DEF IsHandling
  <2>2. 1..0 = {}
    OBVIOUS
  <2>. QED BY <2>1, <2>2
<1>4. ASSUME NEW n \in Nat, n \in G PROVE n + 1 \in G
  <2> SUFFICES ASSUME n + 1 <= Len(q) PROVE Good(n + 1)
    <3> HIDE DEF Good
    <3>. QED OBVIOUS
  <2>0. Good(n)
    <3> HIDE DEF Good
    <3>. QED BY <1>2, <1>4
  <2>1. n + 1 \in 1..Len(q) /\ n + 1 - 1 = n
    BY <1>2
  <2>2. h[n + 1] = HandleReport(h[n], q[n + 1])
    BY <1>1, <2>1 DEF IsHandling
  <2>3. q[n + 1] \in Permissions
    BY <2>1
  <2>4. h[n + 1] \in Handling
    BY <2>0, <2>2, <2>3, HandleReportTyped
  <2>5. /\ CoherentState(h[n + 1], stk, given, rests)
        /\ Settled(q[n + 1], h[n + 1]) /\ Further(h[n], h[n + 1])
    BY <2>0, <2>2, <2>3, ReportHandled
  <2>6. ASSUME NEW i \in 1..(n + 1) PROVE Settled(q[i], h[n + 1])
    <3>1. CASE i = n + 1
      BY <3>1, <2>5
    <3>2. CASE i # n + 1
      <4>1. i \in 1..n /\ q[i] \in Permissions
        BY <3>2, <2>1, <1>2
      <4>2. Settled(q[i], h[n])
        BY <4>1, <2>0
      <4> HIDE DEF Good
      <4>3. h[n] \in Handling
        BY <2>0 DEF Good
      <4>. QED BY <4>1, <4>2, <4>3, <2>4, <2>5, StaysSettled
    <3>. QED BY <3>1, <3>2
  <2>. QED BY <2>4, <2>5, <2>6
<1>5. Len(q) \in G
  <2> HIDE DEF G
  <2>. QED BY <1>2, <1>3, <1>4, SetInduction
<1>6. Good(Len(q)) /\ u = h[Len(q)]
  <2>1. Good(Len(q))
    <3> HIDE DEF Good
    <3>. QED BY <1>2, <1>5
  <2> HIDE DEF Good
  <2>. QED BY <2>1, <1>1 DEF IsHandling
<1>7. \A p \in Range(q) : Settled(p, u)
  BY <1>2, <1>6 DEF Range
<1>. QED BY <1>6, <1>7 DEF u

LEMMA PermissionsAre == Permissions = {ACCESSIBILITY, INPUT_MONITORING} /\ ACCESSIBILITY # INPUT_MONITORING
<1>1. DOMAIN MacPermission = {1, 2} /\ MacPermission[1] = ACCESSIBILITY /\ MacPermission[2] = INPUT_MONITORING
  BY DEF MacPermission
<1>2. Permissions = {MacPermission[i] : i \in {1, 2}}
  BY <1>1 DEF Permissions, Range
<1>. QED BY <1>1, <1>2 DEF ACCESSIBILITY, INPUT_MONITORING

(* The dialogs of the startup check: each once, and none that is open or   *)
(* has not had its rest.                                                   *)
LEMMA StartupList ==
  ASSUME NEW t, NEW lacking
  PROVE  LET list == DueAtStartup(t, lacking)
         IN  /\ list \in Seq(Permissions) /\ NoRepeats(list)
             /\ \A p \in Range(list) : p \notin t.open /\ DialogDue(t, p)
<1> DEFINE Wanted(p) == p \in lacking /\ p \notin t.open /\ DialogDue(t, p)
           a == ACCESSIBILITY
           m == INPUT_MONITORING
           list == DueAtStartup(t, lacking)
<1>1. list = (IF Wanted(a) THEN <<a>> ELSE <<>>) \o (IF Wanted(m) THEN <<m>> ELSE <<>>)
  BY DEF DueAtStartup, MacPermission
<1>2. a \in Permissions /\ m \in Permissions /\ a # m
  BY PermissionsAre
<1>3. \/ list = <<>>
      \/ list = <<a>> /\ Wanted(a)
      \/ list = <<m>> /\ Wanted(m)
      \/ list = <<a, m>> /\ Wanted(a) /\ Wanted(m)
  <2> HIDE DEF list, Wanted, a, m
  <2>1. /\ <<a>> \o <<m>> = <<a, m>>
        /\ <<a>> \o <<>> = <<a>> /\ <<>> \o <<m>> = <<m>> /\ <<>> \o <<>> = <<>>
    <3>1. <<a>> \o <<m>> = <<a, m>>
      <4> DEFINE c == <<a>> \o <<m>>
      <4>1. Len(c) = 2 /\ c \in Seq({a, m}) /\ c[1] = a /\ c[2] = m
        OBVIOUS
      <4> HIDE DEF c
      <4>2. c = <<a, m>>
        BY <4>1
      <4>. QED BY <4>2 DEF c
    <3>2. <<a>> \o <<>> = <<a>>
      OBVIOUS
    <3>3. <<>> \o <<m>> = <<m>>
      OBVIOUS
    <3>4. <<>> \o <<>> = <<>>
      OBVIOUS
    <3>. QED BY <3>1, <3>2, <3>3, <3>4
  <2>2. CASE Wanted(a) /\ Wanted(m)
    BY <1>1, <2>1, <2>2
  <2>3. CASE Wanted(a) /\ ~Wanted(m)
    BY <1>1, <2>1, <2>3
  <2>4. CASE ~Wanted(a) /\ Wanted(m)
    BY <1>1, <2>1, <2>4
  <2>5. CASE ~Wanted(a) /\ ~Wanted(m)
    BY <1>1, <2>1, <2>5
  <2>. QED BY <2>2, <2>3, <2>4, <2>5
<1> HIDE DEF list, a, m, Wanted
<1>4. list \in Seq(Permissions) /\ NoRepeats(list)
  <2>1. CASE list = <<>>
    BY <2>1 DEF NoRepeats
  <2>2. CASE list = <<a>>
    BY <1>2, <2>2 DEF NoRepeats
  <2>3. CASE list = <<m>>
    BY <1>2, <2>3 DEF NoRepeats
  <2>4. CASE list = <<a, m>>
    BY <1>2, <2>4 DEF NoRepeats
  <2>. QED BY <1>3, <2>1, <2>2, <2>3, <2>4
<1>5. \A i \in DOMAIN list : Wanted(list[i])
  <2>1. CASE list = <<a, m>> /\ Wanted(a) /\ Wanted(m)
    BY <2>1
  <2>. QED BY <1>3, <2>1
<1>6. \A p \in Range(list) : Wanted(p)
  BY <1>5 DEF Range
<1>. QED BY <1>4, <1>6 DEF list, Wanted

(* HandleReports with what the observer makes of it.                       *)
LEMMA HandlingKeeps ==
  ASSUME PromptsAssumption, NEW t \in Throttle, due \in Seq(Permissions),
         NEW ages \in [Permissions -> 0..NotifyCooldown],
         NEW rs \in Seq(Permissions),
         NEW stk, NEW given, NEW rests \in [Permissions -> 0..DialogCooldown],
         Coherent(t, due, ages, stk, given, rests), unheard \subseteq given,
         HandleReports(t, ages, rs), Listens(rs, stk)
  PROVE  /\ throttle' \in Throttle /\ due' \in Seq(Permissions)
         /\ told' \in [Permissions -> 0..NotifyCooldown]
         /\ Coherent(throttle', due', told', stk, given, rests)
         /\ unheard' \subseteq given
<1> DEFINE s == [throttle |-> t, due |-> due, told |-> ages]
           u == FoldLeft(HandleReport, s, rs)
<1>1. s \in Handling
  BY DEF Handling
<1>2. CoherentState(s, stk, given, rests)
  BY DEF CoherentState
<1>3. throttle' = u.throttle /\ due' = u.due /\ told' = u.told
  BY DEF HandleReports
<1> HIDE DEF s
<1>4. /\ u \in Handling
      /\ CoherentState(u, stk, given, rests)
      /\ \A p \in Range(rs) : Settled(p, u)
  BY <1>1, <1>2, ReportsHandled
<1> HIDE DEF u
<1>5. /\ throttle' \in Throttle /\ due' \in Seq(Permissions)
      /\ told' \in [Permissions -> 0..NotifyCooldown]
  BY <1>3, <1>4 DEF Handling
<1>6. Coherent(throttle', due', told', stk, given, rests)
  BY <1>3, <1>4 DEF CoherentState
<1>7. ASSUME NEW p \in Range(rs), p \notin Coming(stk, due'), told'[p] >= NotifyCooldown
      PROVE  p \in given
  <2>1. Settled(p, u)
    BY <1>4
  <2>2. p \in Permissions
    BY DEF Range
  <2>3. told'[p] \in Nat /\ NotifyCooldown \in Nat
    BY <1>5, <2>2 DEF PromptsAssumption
  <2>4. p \in throttle'.open
    BY <1>3, <1>7, <2>1, <2>3 DEF Settled
  <2>5. throttle'.open = Coming(stk, due') \union given
    BY <1>6 DEF Coherent, KnowsTheOpen
  <2>. QED BY <1>7, <2>4, <2>5
<1>8. unheard' \subseteq given
  BY <1>7 DEF Listens
<1>. QED BY <1>5, <1>6, <1>8

-----------------------------------------------------------------------------
(***************************************************************************)
(* Dialogs.                                                                *)
(***************************************************************************)
(* A dialog with the permissions q comes up, or is put before the others:  *)
(* they left the timers that are due, or were not open.                    *)
LEMMA DialogShown ==
  ASSUME PromptsAssumption, NEW s \in Seq(Dialog), NEW f \in PermissionFrame,
         NEW t, NEW u, NEW d, NEW e, NEW ages, NEW given, NEW rests,
         Coherent(t, d, ages, s, given, rests),
         NoRepeats(f.items), Range(f.items) \cap (Listed(s) \union given) = {},
         NoRepeats(e), Range(e) \subseteq Range(d), Range(e) \cap Range(f.items) = {},
         Range(d) \subseteq Range(e) \union Range(f.items),
         u.open = t.open \union Range(f.items), KnowsTheAges(u, ages, rests),
         \A p \in Range(f.items) : rests[p] >= DialogCooldown
  PROVE  Coherent(u, e, ages, Append(s, f), given, rests)
<1> DEFINE S == Append(s, f)
           Q == Range(f.items)
<1>1. IsPermissionFrame(f) /\ f \in Dialog
  BY DEF PermissionFrame, Dialog, IsPermissionFrame
<1>2. /\ Listed(S) = Listed(s) \union Q
      /\ Shown(S) = Shown(s) \union {Head(f.items)}
      /\ Apart(S) <=> Apart(s) /\ NoRepeats(f.items) /\ Q \cap Listed(s) = {}
  BY <1>1, Pushed DEF Items, First
<1> HIDE DEF S, Q
<1>3. /\ Apart(s) /\ Range(d) \cap Listed(s) = {}
      /\ given \cap (Listed(s) \union Range(d)) = {}
      /\ t.open = (Listed(s) \union Range(d)) \union given
      /\ \A p \in Permissions : p \in Listed(s) \union Range(d) /\ p \notin Shown(s) => rests[p] >= DialogCooldown
  BY DEF Coherent, OnePlace, KnowsTheOpen, Rested, Coming
<1>4. OnePlace(S, e, given)
  <2>1. Apart(S)
    BY <1>2, <1>3 DEF Q
  <2>2. Range(e) \cap Listed(S) = {}
    BY <1>2, <1>3 DEF Q
  <2>3. given \cap Coming(S, e) = {}
    BY <1>2, <1>3 DEF Coming, Q
  <2>. QED BY <2>1, <2>2, <2>3 DEF OnePlace
<1>5. KnowsTheOpen(u, e, S, given)
  BY <1>2, <1>3 DEF KnowsTheOpen, Coming, Q
<1>6. Rested(S, e, rests)
  BY <1>2, <1>3 DEF Rested, Coming, Q
<1>. QED BY <1>4, <1>5, <1>6 DEF Coherent, S

(* The top dialog is closed: its list goes on, ends, or is given up.       *)
LEMMA DialogGone ==
  ASSUME PromptsAssumption, NEW b \in Seq(Dialog), NEW f \in PermissionFrame,
         NEW t \in Throttle, NEW d \in Seq(Permissions),
         NEW ages \in [Permissions -> 0..NotifyCooldown],
         NEW given \in SUBSET Permissions,
         NEW rests \in [Permissions -> 0..DialogCooldown],
         Coherent(t, d, ages, Append(b, f), given, rests),
         NEW raises \in BOOLEAN
  PROVE  LET p == Head(f.items)
             rest == IF raises THEN <<>> ELSE Tail(f.items)
             S == IF rest = <<>> THEN b ELSE Append(b, Frame(f.kind, rest))
             more == IF raises THEN given \union Range(Tail(f.items)) ELSE given
         IN  /\ p \in Permissions /\ S \in Seq(Dialog) /\ more \in SUBSET Permissions
             /\ DialogClosed(t, p) \in Throttle
             /\ Coherent(DialogClosed(t, p), d, [ages EXCEPT ![p] = 0], S, more,
                         [rests EXCEPT ![p] = 0])
             /\ \A r \in Shown(S) : r \in Shown(Append(b, f)) \/ rests[r] >= DialogCooldown
<1> DEFINE p == Head(f.items)
           tail == Tail(f.items)
           rest == IF raises THEN <<>> ELSE tail
           S == IF rest = <<>> THEN b ELSE Append(b, Frame(f.kind, rest))
           more == IF raises THEN given \union Range(tail) ELSE given
           u == DialogClosed(t, p)
           stk == Append(b, f)
<1>0. /\ DialogCooldown \in Nat \ {0} /\ NotifyCooldown \in Nat \ {0}
  BY DEF PromptsAssumption
<1>1. /\ IsPermissionFrame(f) /\ f \in Dialog /\ f.items \in Seq(Permissions) /\ f.items # <<>>
      /\ f.kind \in {"startup", "on use"}
  BY DEF PermissionFrame, Dialog, IsPermissionFrame
<1>2. /\ p \in Permissions /\ tail \in Seq(Permissions)
      /\ Range(f.items) = {p} \union Range(tail)
      /\ NoRepeats(f.items) => NoRepeats(tail) /\ p \notin Range(tail)
  BY <1>1, HeadAndTail
<1>3. /\ Listed(stk) = Listed(b) \union Range(f.items)
      /\ Shown(stk) = Shown(b) \union {p}
      /\ Apart(stk) <=> Apart(b) /\ NoRepeats(f.items) /\ Range(f.items) \cap Listed(b) = {}
  BY <1>1, Pushed DEF Items, First
<1> HIDE DEF stk, p, tail
<1>4. /\ Apart(stk) /\ NoRepeats(d) /\ Range(d) \cap Listed(stk) = {}
      /\ given \cap (Listed(stk) \union Range(d)) = {}
      /\ t.open = (Listed(stk) \union Range(d)) \union given
      /\ \A r \in Permissions : r \in Listed(stk) \union Range(d) /\ r \notin Shown(stk) => rests[r] >= DialogCooldown
      /\ KnowsTheAges(t, ages, rests)
  BY DEF Coherent, OnePlace, KnowsTheOpen, Rested, Coming, stk
<1>5. Range(rest) \subseteq Range(tail) /\ rest \in Seq(Permissions) /\ NoRepeats(rest)
  <2>1. Range(<<>>) = {} /\ NoRepeats(<<>>)
    BY DEF Range, NoRepeats
  <2>. QED BY <1>2, <1>3, <1>4, <2>1
<1>6. more = given \union (Range(tail) \ Range(rest)) /\ more \in SUBSET Permissions
  <2>1. Range(<<>>) = {} /\ Range(tail) \subseteq Permissions
    BY <1>2 DEF Range
  <2>. QED BY <2>1
<1>7. /\ S \in Seq(Dialog)
      /\ Listed(S) = Listed(b) \union Range(rest)
      /\ Apart(S)
      /\ Shown(S) = Shown(b) \union (IF rest = <<>> THEN {} ELSE {Head(rest)})
      /\ rest # <<>> => Head(rest) \in Range(rest)
  <2>1. CASE rest = <<>>
    <3>1. Range(rest) = {}
      BY <2>1 DEF Range
    <3> HIDE DEF rest
    <3>. QED BY <2>1, <3>1, <1>3, <1>4
  <2>2. CASE rest # <<>>
    <3> DEFINE g == Frame(f.kind, rest)
    <3> HIDE DEF rest
    <3>1. g.kind = f.kind /\ g.items = rest /\ g \in Dialog /\ IsPermissionFrame(g)
      BY <2>2, <1>1, <1>5 DEF Frame, PermissionFrame, Dialog, IsPermissionFrame
    <3>2. S = Append(b, g)
      BY <2>2
    <3> HIDE DEF g, S
    <3>3. /\ S \in Seq(Dialog)
          /\ Listed(S) = Listed(b) \union Range(rest)
          /\ Shown(S) = Shown(b) \union {Head(rest)}
          /\ Apart(S) <=> Apart(b) /\ NoRepeats(rest) /\ Range(rest) \cap Listed(b) = {}
      BY <3>1, <3>2, Pushed DEF Items, First
    <3>4. Head(rest) \in Range(rest)
      BY <2>2, <1>5, HeadAndTail
    <3>. QED BY <2>2, <3>3, <3>4, <1>2, <1>3, <1>4, <1>5
  <2>. QED BY <2>1, <2>2
<1> HIDE DEF rest, S, more
<1>8. OnePlace(S, d, more)
  BY <1>2, <1>3, <1>4, <1>6, <1>7, <1>5 DEF OnePlace, Coming
<1>9. /\ u \in Throttle /\ u.open = t.open \ {p}
      /\ \A r \in Permissions :
           /\ u.dialogAge[r] = IF r = p THEN 0 ELSE t.dialogAge[r]
           /\ u.noteAge[r] = IF r = p THEN 0 ELSE t.noteAge[r]
  BY <1>2, ClosedTyped
<1> HIDE DEF u
<1>10. KnowsTheOpen(u, d, S, more)
  BY <1>2, <1>3, <1>4, <1>5, <1>6, <1>7, <1>9 DEF KnowsTheOpen, Coming
<1>11. KnowsTheAges(u, [ages EXCEPT ![p] = 0], [rests EXCEPT ![p] = 0])
  <2>1. \A r \in Permissions :
          /\ [ages EXCEPT ![p] = 0][r] = IF r = p THEN 0 ELSE ages[r]
          /\ [rests EXCEPT ![p] = 0][r] = IF r = p THEN 0 ELSE rests[r]
    OBVIOUS
  <2>2. \A r \in Permissions : ages[r] <= t.noteAge[r] /\ t.dialogAge[r] <= rests[r]
    BY <1>4 DEF KnowsTheAges
  <2> DEFINE A == [ages EXCEPT ![p] = 0]
             R == [rests EXCEPT ![p] = 0]
  <2> HIDE DEF A, R
  <2>3. ASSUME NEW r \in Permissions PROVE A[r] <= u.noteAge[r] /\ u.dialogAge[r] <= R[r]
    <3>1. CASE r = p
      BY <3>1, <2>1, <1>9 DEF A, R
    <3>2. CASE r # p
      BY <3>2, <2>1, <2>2, <1>9 DEF A, R
    <3>. QED BY <3>1, <3>2
  <2>. QED BY <2>3 DEF KnowsTheAges, A, R
<1>12. Rested(S, d, [rests EXCEPT ![p] = 0])
  <2>1. ASSUME NEW r \in Permissions, r \in Listed(S) \union Range(d), r \notin Shown(S)
        PROVE  r # p /\ rests[r] >= DialogCooldown
    <3>1. r # p
      BY <2>1, <1>2, <1>3, <1>4, <1>5, <1>7
    <3>2. r \in Listed(stk) \union Range(d)
      BY <2>1, <1>2, <1>3, <1>5, <1>7
    <3>3. r \notin Shown(stk)
      BY <2>1, <3>1, <1>3, <1>7
    <3>. QED BY <3>1, <3>2, <3>3, <1>4
  <2>. QED BY <2>1 DEF Rested, Coming
<1>13. ASSUME NEW r \in Shown(S), r \notin Shown(stk) PROVE rests[r] >= DialogCooldown
  <2>1. rest # <<>> /\ r = Head(rest)
    BY <1>13, <1>3, <1>7
  <2>2. r \in Range(tail) /\ r \in Listed(stk) /\ r \in Permissions
    <3>1. Range(tail) \subseteq Permissions
      BY <1>2 DEF Range
    <3>. QED BY <2>1, <3>1, <1>2, <1>3, <1>5, <1>7
  <2>. QED BY <2>2, <1>4, <1>13
<1>. QED BY <1>2, <1>6, <1>7, <1>8, <1>9, <1>10, <1>11, <1>12, <1>13
         DEF Coherent, rest, S, more, u, p, tail, stk

LEMMA ShownIsListed ==
  ASSUME NEW s \in Seq(Dialog) PROVE Shown(s) \subseteq Listed(s)
<1>1. ASSUME NEW i \in DOMAIN s, IsPermissionFrame(s[i]) PROVE Head(s[i].items) \in Range(s[i].items)
  <2>1. s[i].items \in Seq(Permissions) /\ s[i].items # <<>>
    <3>1. s[i] \in Dialog
      OBVIOUS
    <3>. QED BY <3>1, <1>1 DEF Dialog, PermissionFrame, UpdateFrame, IsPermissionFrame
  <2>. QED BY <2>1, HeadAndTail
<1>. QED BY <1>1 DEF Shown, Listed

(* An update's dialog is none of a permission.                             *)
LEMMA UpdateIsApart ==
  ASSUME NEW s \in Seq(Dialog), NEW f \in UpdateFrame,
         NEW t, NEW d, NEW ages, NEW given, NEW rests
  PROVE  /\ Append(s, f) \in Seq(Dialog)
         /\ Shown(Append(s, f)) = Shown(s)
         /\ Coherent(t, d, ages, Append(s, f), given, rests)
              <=> Coherent(t, d, ages, s, given, rests)
<1>1. f \in Dialog /\ ~IsPermissionFrame(f)
  BY DEF Dialog, UpdateFrame, IsPermissionFrame
<1> DEFINE S == Append(s, f)
<1>2. /\ S \in Seq(Dialog) /\ Listed(S) = Listed(s) /\ Shown(S) = Shown(s)
      /\ Apart(S) <=> Apart(s)
  <2>1. Items(f) = {} /\ First(f) = {}
    BY <1>1 DEF Items, First
  <2>2. /\ S \in Seq(Dialog) /\ Listed(S) = Listed(s) \union Items(f)
        /\ Shown(S) = Shown(s) \union First(f)
        /\ Apart(S) <=> /\ Apart(s)
                        /\ IsPermissionFrame(f) => NoRepeats(f.items)
                        /\ Items(f) \cap Listed(s) = {}
    BY <1>1, Pushed
  <2> HIDE DEF S
  <2>. QED BY <1>1, <2>1, <2>2
<1> HIDE DEF S
<1>3. OnePlace(S, d, given) <=> OnePlace(s, d, given)
  BY <1>2 DEF OnePlace, Coming
<1>4. KnowsTheOpen(t, d, S, given) <=> KnowsTheOpen(t, d, s, given)
  BY <1>2 DEF KnowsTheOpen, Coming
<1>5. Rested(S, d, rests) <=> Rested(s, d, rests)
  BY <1>2 DEF Rested, Coming
<1>. QED BY <1>2, <1>3, <1>4, <1>5 DEF Coherent, S

-----------------------------------------------------------------------------
(***************************************************************************)
(* The steps.                                                              *)
(***************************************************************************)
LEMMA PromptInit == PromptsAssumption /\ Init => PromptInv
<1> SUFFICES ASSUME PromptsAssumption, Init PROVE PromptInv
  OBVIOUS
<1>1. Shown(<<>>) = {} /\ Listed(<<>>) = {} /\ Range(<<>>) = {}
  BY DEF Shown, Listed, Range
<1>2. DialogCooldown \in Nat /\ NotifyCooldown \in Nat
  BY DEF PromptsAssumption
<1>3. PromptsTyped
  <2>1. ReportsTyped
    BY DEF Init, ReportsTyped
  <2>2. ThrottleTyped
    BY <1>2 DEF Init, ThrottleTyped, Throttle
  <2>3. DialogsTyped
    BY DEF Init, DialogsTyped
  <2>. QED BY <2>1, <2>2, <2>3 DEF PromptsTyped
<1>4. OnePlace(stack, due, abandoned)
  BY <1>1 DEF Init, OnePlace, Apart, NoRepeats, Coming
<1>5. KnowsTheOpen(throttle, due, stack, abandoned) /\ Rested(stack, due, rested)
  BY <1>1 DEF Init, KnowsTheOpen, Coming, Rested
<1>6. KnowsTheAges(throttle, told, rested)
  BY <1>2 DEF Init, KnowsTheAges
<1>7. unheard \subseteq abandoned
  BY DEF Init
<1>. QED BY <1>3, <1>4, <1>5, <1>6, <1>7 DEF PromptInv, Coherent

LEMMA DrainPrompts ==
  ASSUME PromptsAssumption, PromptInv, DrainPermissionReports
  PROVE  PromptInv' /\ NoNag
<1>1. stack' = stack /\ abandoned' = abandoned /\ rested' = rested /\ missing' = missing /\ reports' = <<>>
  BY DEF DrainPermissionReports, hooks
<1>2. NoNag
  BY <1>1 DEF NoNag
<1>3. CASE check = "done"
  <2>1. HandleReports(throttle, told, reports) /\ Listens(reports, stack) /\ deferred' = deferred
    BY <1>3 DEF DrainPermissionReports
  <2>2. /\ throttle' \in Throttle /\ due' \in Seq(Permissions)
        /\ told' \in [Permissions -> 0..NotifyCooldown]
        /\ Coherent(throttle', due', told', stack, abandoned, rested)
        /\ unheard' \subseteq abandoned
    BY <2>1, HandlingKeeps DEF PromptInv, PromptsTyped, ReportsTyped, ThrottleTyped, DialogsTyped
  <2>3. PromptsTyped'
    BY <1>1, <2>1, <2>2 DEF PromptInv, PromptsTyped, ReportsTyped, ThrottleTyped, DialogsTyped
  <2>. QED BY <1>1, <1>2, <2>2, <2>3 DEF PromptInv
<1>4. CASE check # "done"
  <2>1. /\ deferred' = deferred \o reports
        /\ UNCHANGED <<throttle, due, told, unheard>>
    BY <1>4 DEF DrainPermissionReports
  <2>2. PromptsTyped'
    <3>1. deferred \o reports \in Seq(Permissions)
      BY DEF PromptInv, PromptsTyped, ReportsTyped
    <3>. QED BY <1>1, <2>1, <3>1 DEF PromptInv, PromptsTyped, ReportsTyped, ThrottleTyped, DialogsTyped
  <2>. QED BY <1>1, <1>2, <2>1, <2>2 DEF PromptInv
<1>. QED BY <1>3, <1>4

LEMMA StartupPrompts ==
  ASSUME PromptsAssumption, PromptInv, StartupCheck
  PROVE  PromptInv' /\ NoNag
<1> DEFINE list == DueAtStartup(throttle, missing)
           f == Frame("startup", list)
<1>1. /\ abandoned' = abandoned /\ rested' = rested /\ missing' = missing /\ reports' = reports
  BY DEF StartupCheck, hooks
<1>2. CASE /\ list # <<>>
           /\ throttle' = FoldLeft(OpenDialog, throttle, list)
           /\ stack' = Append(stack, f)
           /\ UNCHANGED <<due, deferred, guideSeen, told, unheard>>
  <2>1. /\ list \in Seq(Permissions) /\ NoRepeats(list)
        /\ \A p \in Range(list) : p \notin throttle.open /\ DialogDue(throttle, p)
    BY StartupList
  <2>2. /\ throttle \in Throttle /\ stack \in Seq(Dialog) /\ due \in Seq(Permissions)
        /\ rested \in [Permissions -> 0..DialogCooldown]
        /\ Coherent(throttle, due, told, stack, abandoned, rested)
    BY DEF PromptInv, PromptsTyped, ThrottleTyped, DialogsTyped
  <2> HIDE DEF list
  <2>3. /\ throttle' \in Throttle
        /\ throttle'.open = throttle.open \union Range(list)
        /\ throttle'.noteAge = throttle.noteAge
        /\ \A p \in Permissions :
             throttle'.dialogAge[p] = IF p \in Range(list) THEN 0 ELSE throttle.dialogAge[p]
    BY <1>2, <2>1, <2>2, DialogsOpened
  <2>4. f \in PermissionFrame /\ f.items = list
    BY <1>2, <2>1 DEF Frame, PermissionFrame
  <2> HIDE DEF f
  <2>5. /\ throttle.open = (Listed(stack) \union Range(due)) \union abandoned
        /\ NoRepeats(due) /\ KnowsTheAges(throttle, told, rested)
    BY <2>2 DEF Coherent, KnowsTheOpen, OnePlace, Coming
  <2>6. KnowsTheAges(throttle', told, rested)
    <3>1. \A p \in Permissions : rested[p] \in Nat
      BY <2>2 DEF PromptsAssumption
    <3>2. ASSUME NEW p \in Permissions
          PROVE told[p] <= throttle'.noteAge[p] /\ throttle'.dialogAge[p] <= rested[p]
      <4>1. told[p] <= throttle.noteAge[p] /\ throttle.dialogAge[p] <= rested[p]
        BY <2>5 DEF KnowsTheAges
      <4>2. throttle'.dialogAge[p] = 0 \/ throttle'.dialogAge[p] = throttle.dialogAge[p]
        BY <2>3
      <4>. QED BY <3>1, <4>1, <4>2, <2>3
    <3>. QED BY <3>2 DEF KnowsTheAges
  <2>7. \A p \in Range(list) : rested[p] >= DialogCooldown
    <3>1. ASSUME NEW p \in Range(list) PROVE rested[p] >= DialogCooldown
      <4>1. p \in Permissions
        BY <2>1 DEF Range
      <4>2. /\ throttle.dialogAge[p] \in Nat /\ rested[p] \in Nat /\ DialogCooldown \in Nat
        BY <4>1, <2>2 DEF Throttle, PromptsAssumption
      <4>3. throttle.dialogAge[p] >= DialogCooldown /\ throttle.dialogAge[p] <= rested[p]
        BY <2>1, <2>5, <4>1 DEF DialogDue, KnowsTheAges
      <4>. QED BY <4>2, <4>3
    <3>. QED BY <3>1
  <2>8. Coherent(throttle', due, told, Append(stack, f), abandoned, rested)
    <3>1. /\ Range(list) \cap (Listed(stack) \union abandoned) = {}
          /\ Range(due) \cap Range(list) = {}
      BY <2>1, <2>5
    <3>. QED BY <2>1, <2>2, <2>3, <2>4, <2>5, <2>6, <2>7, <3>1, DialogShown
  <2>9. stack' \in Seq(Dialog) /\ Shown(stack') = Shown(stack) \union {Head(list)}
    <3>1. f \in Dialog /\ IsPermissionFrame(f)
      BY <2>4 DEF Dialog, PermissionFrame, IsPermissionFrame
    <3>. QED BY <1>2, <2>2, <2>4, <3>1, Pushed DEF First
  <2>10. NoNag
    <3>1. Head(list) \in Range(list)
      BY <1>2, <2>1, HeadAndTail
    <3>. QED BY <3>1, <2>7, <2>9 DEF NoNag
  <2>11. PromptsTyped'
    BY <1>1, <1>2, <2>3, <2>9 DEF PromptInv, PromptsTyped, ReportsTyped, ThrottleTyped, DialogsTyped
  <2>. QED BY <1>1, <1>2, <2>8, <2>10, <2>11 DEF PromptInv
<1>3. CASE /\ UNCHANGED stack
           /\ \E raised \in BOOLEAN : StartupCheckEnds(throttle, told, ~raised /\ missing # {})
           /\ Listens(deferred, stack)
  <2>1. HandleReports(throttle, told, deferred) /\ deferred' = <<>>
    BY <1>3 DEF StartupCheckEnds
  <2>2. /\ throttle' \in Throttle /\ due' \in Seq(Permissions)
        /\ told' \in [Permissions -> 0..NotifyCooldown]
        /\ Coherent(throttle', due', told', stack, abandoned, rested)
        /\ unheard' \subseteq abandoned
    BY <1>3, <2>1, HandlingKeeps DEF PromptInv, PromptsTyped, ReportsTyped, ThrottleTyped, DialogsTyped
  <2>3. PromptsTyped'
    BY <1>1, <1>3, <2>1, <2>2 DEF PromptInv, PromptsTyped, ReportsTyped, ThrottleTyped, DialogsTyped
  <2>4. NoNag
    BY <1>3 DEF NoNag
  <2>. QED BY <1>1, <1>3, <2>2, <2>3, <2>4 DEF PromptInv
<1>. QED BY <1>2, <1>3 DEF StartupCheck

LEMMA DialogIsShownPrompts ==
  ASSUME PromptsAssumption, PromptInv, DialogIsShown
  PROVE  PromptInv' /\ NoNag
<1> DEFINE p == Head(due)
           f == Frame("on use", <<p>>)
<1>1. /\ due # <<>> /\ due' = Tail(due) /\ stack' = Append(stack, f)
      /\ UNCHANGED <<missing, reports, deferred, throttle, told, rested, unheard, abandoned>>
  BY DEF DialogIsShown, hooks, notes
<1>2. /\ stack \in Seq(Dialog) /\ due \in Seq(Permissions)
      /\ Coherent(throttle, due, told, stack, abandoned, rested)
  BY DEF PromptInv, PromptsTyped, DialogsTyped
<1>3. /\ p \in Permissions /\ Tail(due) \in Seq(Permissions)
      /\ Range(due) = {p} \union Range(Tail(due))
      /\ NoRepeats(due) => NoRepeats(Tail(due)) /\ p \notin Range(Tail(due))
  BY <1>1, <1>2, HeadAndTail
<1> HIDE DEF p
<1>4. f \in PermissionFrame /\ f.items = <<p>> /\ Range(f.items) = {p} /\ NoRepeats(f.items) /\ Head(f.items) = p
  BY <1>3 DEF Frame, PermissionFrame, Range, NoRepeats
<1> HIDE DEF f
<1>5. /\ NoRepeats(due) /\ Range(due) \cap Listed(stack) = {}
      /\ abandoned \cap (Listed(stack) \union Range(due)) = {}
      /\ throttle.open = (Listed(stack) \union Range(due)) \union abandoned
      /\ KnowsTheAges(throttle, told, rested)
      /\ \A r \in Permissions : r \in Listed(stack) \union Range(due) /\ r \notin Shown(stack) => rested[r] >= DialogCooldown
  BY <1>2 DEF Coherent, KnowsTheOpen, OnePlace, Coming, Rested
<1>6. rested[p] >= DialogCooldown
  BY <1>2, <1>3, <1>5, ShownIsListed
<1>7. Coherent(throttle, Tail(due), told, Append(stack, f), abandoned, rested)
  <2>1. /\ Range(f.items) \cap (Listed(stack) \union abandoned) = {}
        /\ Range(Tail(due)) \cap Range(f.items) = {}
        /\ throttle.open = throttle.open \union Range(f.items)
    BY <1>3, <1>4, <1>5
  <2>. QED BY <1>2, <1>3, <1>4, <1>5, <1>6, <2>1, DialogShown
<1>8. stack' \in Seq(Dialog) /\ Shown(stack') = Shown(stack) \union {p}
  <2>1. f \in Dialog /\ IsPermissionFrame(f)
    BY <1>4 DEF Dialog, PermissionFrame, IsPermissionFrame
  <2>. QED BY <1>1, <1>2, <1>4, <2>1, Pushed DEF First
<1>9. NoNag
  BY <1>6, <1>8 DEF NoNag
<1>10. PromptsTyped'
  BY <1>1, <1>3, <1>8 DEF PromptInv, PromptsTyped, ReportsTyped, ThrottleTyped, DialogsTyped
<1>. QED BY <1>1, <1>7, <1>9, <1>10 DEF PromptInv

LEMMA DialogEndsPrompts ==
  ASSUME PromptsAssumption, PromptInv, NEW raises \in BOOLEAN, DialogEnds(raises)
  PROVE  PromptInv' /\ NoNag
<1> DEFINE f == Top
           b == Below
           p == Head(f.items)
           rest == IF raises THEN <<>> ELSE Tail(f.items)
           S == IF rest = <<>> THEN b ELSE Append(b, Frame(f.kind, rest))
           more == IF raises THEN abandoned \union Range(Tail(f.items)) ELSE abandoned
           t == DialogClosed(throttle, p)
           ages == [told EXCEPT ![p] = 0]
           rests == [rested EXCEPT ![p] = 0]
<1>1. /\ stack # <<>> /\ IsPermissionFrame(f)
      /\ stack' = S /\ rested' = rests /\ abandoned' = more
      /\ IF f.kind = "startup" /\ rest = <<>>
         THEN StartupCheckEnds(t, ages, TRUE) /\ Listens(deferred, b)
         ELSE throttle' = t /\ told' = ages /\ UNCHANGED <<due, deferred, check, guideSeen, unheard>>
      /\ missing' = missing /\ reports' = reports
  BY DEF DialogEnds, hooks
<1>2. /\ stack \in Seq(Dialog) /\ due \in Seq(Permissions) /\ throttle \in Throttle
      /\ told \in [Permissions -> 0..NotifyCooldown]
      /\ rested \in [Permissions -> 0..DialogCooldown] /\ abandoned \in SUBSET Permissions
      /\ deferred \in Seq(Permissions) /\ unheard \subseteq abandoned
      /\ Coherent(throttle, due, told, stack, abandoned, rested)
  BY DEF PromptInv, PromptsTyped, DialogsTyped, ThrottleTyped, ReportsTyped
<1>3. b \in Seq(Dialog) /\ f \in Dialog /\ stack = Append(b, f)
  BY <1>1, <1>2, Popped DEF Below, Top
<1>4. f \in PermissionFrame
  BY <1>1, <1>3 DEF Dialog, PermissionFrame, UpdateFrame, IsPermissionFrame
<1> HIDE DEF f, b
<1>5. /\ p \in Permissions /\ S \in Seq(Dialog) /\ more \in SUBSET Permissions
      /\ t \in Throttle /\ Coherent(t, due, ages, S, more, rests)
      /\ \A r \in Shown(S) : r \in Shown(Append(b, f)) \/ rested[r] >= DialogCooldown
  BY <1>2, <1>3, <1>4, DialogGone
<1>6. unheard \subseteq more /\ (rest = <<>> => S = b)
  BY <1>2
<1> HIDE DEF p, rest, S, more, t
<1>7. /\ ages \in [Permissions -> 0..NotifyCooldown] /\ rests \in [Permissions -> 0..DialogCooldown]
  BY <1>2, <1>5 DEF PromptsAssumption
<1> HIDE DEF ages, rests
<1>8. NoNag
  BY <1>1, <1>3, <1>5 DEF NoNag
<1>9. CASE f.kind = "startup" /\ rest = <<>>
  <2>1. HandleReports(t, ages, deferred) /\ deferred' = <<>> /\ Listens(deferred, S)
    BY <1>1, <1>6, <1>9 DEF StartupCheckEnds
  <2>2. /\ throttle' \in Throttle /\ due' \in Seq(Permissions)
        /\ told' \in [Permissions -> 0..NotifyCooldown]
        /\ Coherent(throttle', due', told', S, more, rests)
        /\ unheard' \subseteq more
    BY <1>2, <1>5, <1>6, <1>7, <2>1, HandlingKeeps
  <2>3. PromptsTyped'
    <3>1. unheard' \subseteq Permissions
      BY <1>5, <2>2
    <3>. QED BY <1>1, <1>5, <1>7, <2>1, <2>2, <3>1 DEF PromptInv, PromptsTyped, ReportsTyped, ThrottleTyped, DialogsTyped
  <2>. QED BY <1>1, <1>8, <2>2, <2>3 DEF PromptInv
<1>10. CASE ~(f.kind = "startup" /\ rest = <<>>)
  <2>1. throttle' = t /\ told' = ages /\ UNCHANGED <<due, deferred, unheard>>
    BY <1>1, <1>10
  <2>2. PromptsTyped'
    BY <1>1, <1>2, <1>5, <1>7, <2>1 DEF PromptInv, PromptsTyped, ReportsTyped, ThrottleTyped, DialogsTyped
  <2>. QED BY <1>1, <1>5, <1>6, <1>8, <2>1, <2>2 DEF PromptInv
<1>. QED BY <1>9, <1>10

LEMMA TimePassesPrompts ==
  ASSUME PromptsAssumption, PromptInv, TimePasses
  PROVE  PromptInv' /\ NoNag
<1>0. DialogCooldown \in Nat /\ NotifyCooldown \in Nat
  BY DEF PromptsAssumption
<1>1. UNCHANGED <<missing, reports, deferred, due, stack, unheard, abandoned>>
  BY DEF TimePasses, hooks
<1>2. /\ throttle \in Throttle /\ told \in [Permissions -> 0..NotifyCooldown]
      /\ rested \in [Permissions -> 0..DialogCooldown]
      /\ Coherent(throttle, due, told, stack, abandoned, rested)
  BY DEF PromptInv, PromptsTyped, ThrottleTyped
<1>3. PICK o, d, n : throttle = [open |-> o, dialogAge |-> d, noteAge |-> n]
  BY <1>2 DEF Throttle
<1>4. /\ o = throttle.open /\ d = throttle.dialogAge /\ n = throttle.noteAge
      /\ o \in SUBSET Permissions /\ d \in [Permissions -> 0..DialogCooldown]
      /\ n \in [Permissions -> 0..NotifyCooldown]
  BY <1>2, <1>3 DEF Throttle
<1> DEFINE e == [p \in Permissions |-> Older(d[p], DialogCooldown)]
           m == [p \in Permissions |-> Older(n[p], NotifyCooldown)]
<1>5. throttle' = [throttle EXCEPT !.dialogAge = e, !.noteAge = m]
  BY <1>4 DEF TimePasses
<1>6. /\ e \in [Permissions -> 0..DialogCooldown] /\ m \in [Permissions -> 0..NotifyCooldown]
      /\ \A p \in Permissions : e[p] = Older(d[p], DialogCooldown) /\ m[p] = Older(n[p], NotifyCooldown)
  <2>1. ASSUME NEW p \in Permissions
        PROVE  /\ Older(d[p], DialogCooldown) \in 0..DialogCooldown
               /\ Older(n[p], NotifyCooldown) \in 0..NotifyCooldown
    <3>1. d[p] \in 0..DialogCooldown /\ n[p] \in 0..NotifyCooldown
      BY <1>4
    <3>. QED BY <1>0, <3>1 DEF Older
  <2>. QED BY <2>1
<1> HIDE DEF e, m
<1>7. throttle' = [open |-> o, dialogAge |-> e, noteAge |-> m]
  BY <1>3, <1>5
<1>8. throttle' \in Throttle /\ throttle'.open = o /\ throttle'.dialogAge = e /\ throttle'.noteAge = m
  BY <1>4, <1>6, <1>7 DEF Throttle
<1>9. /\ \A p \in Permissions : told'[p] = told[p] \/ told'[p] = Older(told[p], NotifyCooldown)
      /\ \A p \in Permissions : rested'[p] = Older(rested[p], DialogCooldown)
      /\ told' \in [Permissions -> 0..NotifyCooldown]
      /\ rested' \in [Permissions -> 0..DialogCooldown]
  <2>1. ASSUME NEW p \in Permissions
        PROVE  /\ Older(rested[p], DialogCooldown) \in 0..DialogCooldown
               /\ Older(told[p], NotifyCooldown) \in 0..NotifyCooldown
               /\ told[p] \in 0..NotifyCooldown
    <3>1. rested[p] \in 0..DialogCooldown /\ told[p] \in 0..NotifyCooldown
      BY <1>2
    <3>. QED BY <1>0, <3>1 DEF Older
  <2>. QED BY <2>1 DEF TimePasses
<1>10. KnowsTheAges(throttle', told', rested')
  <2>1. ASSUME NEW p \in Permissions PROVE told'[p] <= m[p] /\ e[p] <= rested'[p]
    <3>1. told[p] <= n[p] /\ d[p] <= rested[p]
      BY <1>2, <1>4 DEF Coherent, KnowsTheAges
    <3>2. told[p] \in 0..NotifyCooldown /\ n[p] \in 0..NotifyCooldown
      BY <1>2, <1>4
    <3>3. d[p] \in 0..DialogCooldown /\ rested[p] \in 0..DialogCooldown
      BY <1>2, <1>4
    <3>4. m[p] = Older(n[p], NotifyCooldown) /\ e[p] = Older(d[p], DialogCooldown)
      BY <1>6
    <3>5. told'[p] <= m[p]
      <4>1. told'[p] = told[p] \/ told'[p] = Older(told[p], NotifyCooldown)
        BY <1>9
      <4>. QED BY <1>0, <3>1, <3>2, <3>4, <4>1 DEF Older
    <3>6. e[p] <= rested'[p]
      <4>1. rested'[p] = Older(rested[p], DialogCooldown)
        BY <1>9
      <4>. QED BY <1>0, <3>1, <3>3, <3>4, <4>1 DEF Older
    <3>. QED BY <3>5, <3>6
  <2>. QED BY <2>1, <1>8 DEF KnowsTheAges
<1>11. Rested(stack, due, rested')
  <2>1. ASSUME NEW p \in Permissions, rested[p] >= DialogCooldown PROVE rested'[p] >= DialogCooldown
    <3>1. rested[p] \in Nat /\ rested'[p] = Older(rested[p], DialogCooldown)
      BY <1>0, <1>2, <1>9
    <3>. QED BY <1>0, <2>1, <3>1 DEF Older
  <2>. QED BY <1>2, <2>1 DEF Coherent, Rested
<1>12. Coherent(throttle', due, told', stack, abandoned, rested')
  BY <1>2, <1>4, <1>8, <1>10, <1>11 DEF Coherent, KnowsTheOpen
<1>13. PromptsTyped'
  BY <1>1, <1>8, <1>9 DEF PromptInv, PromptsTyped, ReportsTyped, ThrottleTyped, DialogsTyped
<1>14. NoNag
  BY <1>1 DEF NoNag
<1>. QED BY <1>1, <1>12, <1>13, <1>14 DEF PromptInv

(* The other steps leave the permissions' dialogs alone.                   *)
LEMMA ReporterPrompts ==
  ASSUME PromptsAssumption, PromptInv,
         UNCHANGED <<deferred, throttle, due, stack, told, rested, unheard, abandoned>>,
         missing' \subseteq Permissions, reports' \in Seq(Permissions)
  PROVE  PromptInv' /\ NoNag
  BY DEF PromptInv, PromptsTyped, ReportsTyped, ThrottleTyped, DialogsTyped, NoNag

LEMMA OffersAreVersions ==
  ASSUME PromptsAssumption, NEW v \in Offers
  PROVE  v \in Latest /\ IsNewer(v, installed) /\ v \in Seq(Nat) \ {<<>>}
  BY DEF PromptsAssumption, Offers, IsNewer, Unparsable

LEMMA OnFinishedPushes ==
  ASSUME PromptsAssumption, UpdateInv, OnFinished
  PROVE  \/ stack' = stack /\ busy' = FALSE
         \/ \E f \in UpdateFrame : /\ stack' = Append(stack, f) /\ f.items \in Offers
                                   /\ busy' = busy
<1>1. CASE checker.decision.kind = "available"
  <2>1. checker.step = "decided" /\ checker \in Checker
    BY DEF OnFinished, UpdateInv, OffersAreNewer
  <2>2. checker.decision.tag \in Offers
    BY <1>1, <2>1 DEF Checker
  <2>3. Frame("update", checker.decision.tag) \in UpdateFrame
    BY <2>2, OffersAreVersions DEF Frame, UpdateFrame
  <2>. QED BY <1>1, <2>2, <2>3 DEF OnFinished, Frame
<1>2. CASE checker.decision.kind # "available"
  BY <1>2 DEF OnFinished
<1>. QED BY <1>1, <1>2

LEMMA OnFinishedPrompts ==
  ASSUME PromptsAssumption, PromptInv, UpdateInv, OnFinished
  PROVE  PromptInv' /\ NoNag
<1>1. UNCHANGED <<missing, reports, deferred, throttle, due, told, rested, unheard, abandoned>>
  BY DEF OnFinished, hooks, notes
<1>2. CASE stack' = stack
  BY <1>1, <1>2, ReporterPrompts DEF PromptInv, PromptsTyped, ReportsTyped
<1>3. ASSUME NEW f \in UpdateFrame, stack' = Append(stack, f) PROVE PromptInv' /\ NoNag
  <2>1. /\ stack \in Seq(Dialog) /\ Coherent(throttle, due, told, stack, abandoned, rested)
    BY DEF PromptInv, PromptsTyped, DialogsTyped
  <2>2. /\ stack' \in Seq(Dialog) /\ Shown(stack') = Shown(stack)
        /\ Coherent(throttle, due, told, stack', abandoned, rested)
    BY <1>3, <2>1, UpdateIsApart
  <2>. QED BY <1>1, <2>2 DEF PromptInv, PromptsTyped, ReportsTyped, ThrottleTyped, DialogsTyped, NoNag
<1>. QED BY <1>2, <1>3, OnFinishedPushes

LEMMA UpdateDialogEndsPrompts ==
  ASSUME PromptsAssumption, PromptInv, UpdateDialogEnds
  PROVE  PromptInv' /\ NoNag
<1>1. /\ UNCHANGED <<missing, reports, deferred, throttle, due, told, rested, unheard, abandoned>>
      /\ stack # <<>> /\ Top.kind = "update" /\ stack' = Below
  BY DEF UpdateDialogEnds, hooks, notes
<1>2. /\ stack \in Seq(Dialog) /\ Coherent(throttle, due, told, stack, abandoned, rested)
  BY DEF PromptInv, PromptsTyped, DialogsTyped
<1>3. Below \in Seq(Dialog) /\ Top \in Dialog /\ stack = Append(Below, Top)
  BY <1>1, <1>2, Popped DEF Below, Top
<1>4. Top \in UpdateFrame
  BY <1>1, <1>3 DEF Dialog, PermissionFrame, UpdateFrame
<1>5. Shown(stack) = Shown(stack') /\ Coherent(throttle, due, told, stack', abandoned, rested)
  BY <1>1, <1>2, <1>3, <1>4, UpdateIsApart
<1>. QED BY <1>1, <1>3, <1>5 DEF PromptInv, PromptsTyped, ReportsTyped, ThrottleTyped, DialogsTyped, NoNag

LEMMA PromptStep ==
  ASSUME PromptsAssumption, PromptInv, UpdateInv, [Next]_vars
  PROVE  PromptInv' /\ NoNag
<1>0. missing \subseteq Permissions /\ reports \in Seq(Permissions)
  BY DEF PromptInv, PromptsTyped, ReportsTyped
<1>1. CASE TapRuns
  <2>1. reports' \in Seq(Permissions)
    BY <1>0, <1>1, PermissionsAre DEF TapRuns
  <2>. QED BY <1>0, <1>1, <2>1, ReporterPrompts DEF TapRuns, notes
<1>2. CASE KeyboardHookRuns
  BY <1>0, <1>2, ReporterPrompts DEF KeyboardHookRuns, notes
<1>3. CASE MouseHookRuns
  BY <1>0, <1>3, ReporterPrompts DEF MouseHookRuns, notes
<1>4. CASE PasteIsBlocked
  <2>1. reports' \in Seq(Permissions)
    BY <1>0, <1>4, PermissionsAre DEF PasteIsBlocked
  <2>. QED BY <1>0, <1>4, <2>1, ReporterPrompts DEF PasteIsBlocked, notes, hooks
<1>5. CASE UserGrants
  BY <1>0, <1>5, ReporterPrompts DEF UserGrants, notes
<1>6. CASE DrainPermissionReports
  BY <1>6, DrainPrompts
<1>7. CASE DrainHookFailures
  BY <1>0, <1>7, ReporterPrompts DEF DrainHookFailures, notes
<1>8. CASE StartupCheck
  BY <1>8, StartupPrompts
<1>9. CASE DialogIsShown
  BY <1>9, DialogIsShownPrompts
<1>10. ASSUME NEW raises \in BOOLEAN, DialogEnds(raises) PROVE PromptInv' /\ NoNag
  BY <1>10, DialogEndsPrompts
<1>11. CASE TimePasses
  BY <1>11, TimePassesPrompts
<1>12. CASE Checks
  BY <1>0, <1>12, ReporterPrompts DEF Checks, notes, hooks
<1>13. CASE Fetches
  BY <1>0, <1>13, ReporterPrompts DEF Fetches, notes, hooks
<1>14. CASE OnFinished
  BY <1>14, OnFinishedPrompts
<1>15. CASE UpdateDialogEnds
  BY <1>15, UpdateDialogEndsPrompts
<1>16. CASE UNCHANGED vars
  BY <1>0, <1>16, ReporterPrompts DEF vars, notes, hooks
<1>. QED BY <1>1, <1>2, <1>3, <1>4, <1>5, <1>6, <1>7, <1>8, <1>9, <1>10, <1>11, <1>12,
            <1>13, <1>14, <1>15, <1>16 DEF Next

-----------------------------------------------------------------------------
(***************************************************************************)
(* Update checks.                                                          *)
(***************************************************************************)
LEMMA ConfirmingPushed ==
  ASSUME NEW s \in Seq(Dialog), NEW f \in Dialog
  PROVE  /\ Confirming(s) = Confirming(Append(s, f)) \ {Len(s) + 1}
         /\ Append(s, f)[Len(s) + 1] = f
         /\ Len(s) + 1 \in Confirming(Append(s, f)) <=> f.kind = "update"
         /\ \A i \in Confirming(s) : Append(s, f)[i] = s[i]
<1> DEFINE S == Append(s, f)
           n == Len(s) + 1
<1>1. /\ DOMAIN s = 1..Len(s) /\ Len(s) \in Nat
      /\ DOMAIN S = (1..Len(s)) \union {n} /\ n \notin 1..Len(s)
      /\ S[n] = f /\ \A i \in 1..Len(s) : S[i] = s[i]
  OBVIOUS
<1> HIDE DEF S, n
<1>2. Confirming(s) = Confirming(S) \ {n}
  BY <1>1 DEF Confirming
<1>3. n \in Confirming(S) <=> f.kind = "update"
  BY <1>1 DEF Confirming
<1>4. \A i \in Confirming(s) : S[i] = s[i]
  BY <1>1 DEF Confirming
<1>. QED BY <1>1, <1>2, <1>3, <1>4 DEF S, n

(* Steps that leave the update's dialog where it is.                       *)
SameOffers(s, u) ==
  /\ Confirming(u) = Confirming(s)
  /\ \A i \in Confirming(s) : u[i].items = s[i].items

LEMMA FrameTyped ==
  /\ \A q \in Seq(Permissions) \ {<<>>} : \A kind \in {"startup", "on use"} :
       Frame(kind, q) \in PermissionFrame
  /\ \A p \in Permissions : Frame("on use", <<p>>) \in PermissionFrame
<1>1. \A q \in Seq(Permissions) \ {<<>>} : \A kind \in {"startup", "on use"} :
        Frame(kind, q) \in PermissionFrame
  BY DEF Frame, PermissionFrame
<1>2. \A p \in Permissions : <<p>> \in Seq(Permissions) \ {<<>>}
  OBVIOUS
<1>. QED BY <1>1, <1>2

LEMMA PermissionDialogsKeepOffers ==
  ASSUME PromptsAssumption, PromptInv,
         StartupCheck \/ DialogIsShown \/ \E raises \in BOOLEAN : DialogEnds(raises)
  PROVE  SameOffers(stack, stack')
<1>1. stack \in Seq(Dialog) /\ due \in Seq(Permissions)
  BY DEF PromptInv, PromptsTyped, DialogsTyped
<1>2. ASSUME NEW s \in Seq(Dialog), NEW f \in PermissionFrame PROVE SameOffers(s, Append(s, f))
  <2>1. f \in Dialog /\ f.kind # "update"
    BY DEF Dialog, PermissionFrame
  <2>2. Len(s) + 1 \notin Confirming(Append(s, f))
    BY <2>1, ConfirmingPushed
  <2> DEFINE u == Append(s, f)
             n == Len(s) + 1
  <2>3. /\ Confirming(s) = Confirming(u) \ {n} /\ n \notin Confirming(u)
        /\ \A i \in Confirming(s) : u[i] = s[i]
    BY <2>1, <2>2, ConfirmingPushed
  <2> HIDE DEF u, n
  <2>4. Confirming(u) = Confirming(s) /\ \A i \in Confirming(s) : u[i].items = s[i].items
    BY <2>3
  <2>. QED BY <2>4 DEF SameOffers, u
<1>3. SameOffers(stack, stack)
  BY DEF SameOffers
<1>4. CASE StartupCheck
  <2> DEFINE list == DueAtStartup(throttle, missing)
  <2>1. stack' = stack \/ (list # <<>> /\ stack' = Append(stack, Frame("startup", list)))
    BY <1>4 DEF StartupCheck
  <2>2. list \in Seq(Permissions)
    BY StartupList
  <2> HIDE DEF list
  <2>3. list # <<>> => Frame("startup", list) \in PermissionFrame
    BY <2>2 DEF Frame, PermissionFrame
  <2>. QED BY <1>1, <1>2, <1>3, <2>1, <2>3
<1>5. CASE DialogIsShown
  <2> DEFINE p == Head(due)
  <2>1. stack' = Append(stack, Frame("on use", <<p>>)) /\ due # <<>>
    BY <1>5 DEF DialogIsShown
  <2>2. p \in Permissions
    BY <1>1, <2>1, HeadAndTail
  <2> HIDE DEF p
  <2>3. Frame("on use", <<p>>) \in PermissionFrame
    BY <2>2, FrameTyped
  <2>. QED BY <1>1, <1>2, <2>1, <2>3
<1>6. ASSUME NEW raises \in BOOLEAN, DialogEnds(raises) PROVE SameOffers(stack, stack')
  <2> DEFINE rest == IF raises THEN <<>> ELSE Tail(Top.items)
             g == Frame(Top.kind, rest)
  <2>1. /\ stack # <<>> /\ IsPermissionFrame(Top)
        /\ stack' = IF rest = <<>> THEN Below ELSE Append(Below, g)
    BY <1>6 DEF DialogEnds
  <2>2. Below \in Seq(Dialog) /\ Top \in Dialog /\ stack = Append(Below, Top)
    BY <1>1, <2>1, Popped DEF Below, Top
  <2>3. Top \in PermissionFrame
    BY <2>1, <2>2 DEF Dialog, PermissionFrame, UpdateFrame, IsPermissionFrame
  <2>4. Top.items \in Seq(Permissions) /\ Top.items # <<>> /\ Top.kind \in {"startup", "on use"}
    BY <2>3 DEF PermissionFrame
  <2>5. rest # <<>> => g \in PermissionFrame
    <3>1. rest \in Seq(Permissions)
      <4>1. Tail(Top.items) \in Seq(Permissions) /\ <<>> \in Seq(Permissions)
        <5>1. Tail(Top.items) \in Seq(Permissions)
          BY <2>4, HeadAndTail
        <5>. QED BY <5>1
      <4>. QED BY <4>1
    <3> HIDE DEF rest
    <3>. QED BY <2>4, <3>1, FrameTyped
  <2>6. SameOffers(Below, stack)
    BY <1>2, <2>2, <2>3
  <2> HIDE DEF rest, g
  <2>7. SameOffers(Below, stack')
    <3>1. SameOffers(Below, Below)
      BY DEF SameOffers
    <3>. QED BY <1>2, <2>1, <2>2, <2>5, <3>1
  <2>. QED BY <2>6, <2>7 DEF SameOffers
<1>. QED BY <1>4, <1>5, <1>6

LEMMA UpdateInit == PromptsAssumption /\ Init => UpdateInv
<1> SUFFICES ASSUME PromptsAssumption, Init PROVE UpdateInv
  OBVIOUS
<1>1. Confirming(stack) = {}
  BY DEF Init, Confirming
<1>2. checker \in Checker /\ checker.step = "idle"
  BY DEF Init, Checker
<1>. QED BY <1>1, <1>2 DEF Init, UpdateInv, OneCheck, OffersAreNewer

LEMMA SameOffersKeep ==
  ASSUME UpdateInv, SameOffers(stack, stack'), UNCHANGED <<installed, checker, busy, upgrading>>
  PROVE  UpdateInv'
<1>1. Offers' = Offers /\ Checker' = Checker
  BY DEF Offers, Checker
<1>2. Confirming(stack') = Confirming(stack)
  BY DEF SameOffers
<1>. QED BY <1>1, <1>2 DEF UpdateInv, OneCheck, OffersAreNewer, SameOffers

LEMMA UpdateStep ==
  ASSUME PromptsAssumption, PromptInv, UpdateInv, [Next]_vars
  PROVE  UpdateInv'
<1>0. /\ stack \in Seq(Dialog) /\ checker \in Checker
  BY DEF PromptInv, PromptsTyped, DialogsTyped, UpdateInv, OffersAreNewer
<1>1. CASE stack' = stack /\ UNCHANGED <<installed, checker, busy, upgrading>>
  <2>1. SameOffers(stack, stack')
    BY <1>1 DEF SameOffers
  <2>. QED BY <1>1, <2>1, SameOffersKeep
<1>2. CASE StartupCheck \/ DialogIsShown \/ \E raises \in BOOLEAN : DialogEnds(raises)
  <2>1. UNCHANGED <<installed, checker, busy, upgrading>>
    BY <1>2 DEF StartupCheck, DialogIsShown, DialogEnds, upgrade
  <2>. QED BY <1>2, <2>1, SameOffersKeep, PermissionDialogsKeepOffers
<1>3. CASE Checks
  <2>1. /\ ~busy /\ busy' = TRUE /\ checker' = [step |-> "fetching"]
        /\ UNCHANGED <<stack, installed, upgrading>>
    BY <1>3 DEF Checks
  <2>2. Offers' = Offers /\ Checker' = Checker
    BY <2>1 DEF Offers, Checker
  <2>3. checker' \in Checker /\ checker'.step # "idle"
    BY <2>1 DEF Checker
  <2>4. upgrading = Unparsable /\ Confirming(stack) = {}
    BY <2>1 DEF UpdateInv, OneCheck
  <2>. QED BY <2>1, <2>2, <2>3, <2>4 DEF UpdateInv, OneCheck, OffersAreNewer
<1>4. CASE Fetches
  <2>1. PICK latest \in Latest \union {Unparsable} :
          checker' = [step |-> "decided", decision |-> DecideUpgrade(installed, latest)]
    BY <1>4 DEF Fetches
  <2>2. checker.step = "fetching" /\ UNCHANGED <<stack, installed, busy, upgrading>>
    BY <1>4 DEF Fetches
  <2>3. Offers' = Offers /\ Checker' = Checker
    BY <2>2 DEF Offers, Checker
  <2> DEFINE D == [kind : {"unknown", "up to date"}] \union [kind : {"available"}, tag : Offers]
  <2>4. DecideUpgrade(installed, latest) \in D
    <3>1. CASE latest = Unparsable \/ installed = Unparsable
      BY <3>1 DEF DecideUpgrade
    <3>2. CASE latest # Unparsable /\ installed # Unparsable
      <4>1. CASE IsNewer(latest, installed)
        <5>1. latest \in Offers
          BY <3>2, <4>1 DEF Offers
        <5>2. DecideUpgrade(installed, latest) = [kind |-> "available", tag |-> latest]
          BY <3>2, <4>1 DEF DecideUpgrade
        <5>3. [kind |-> "available", tag |-> latest] \in [kind : {"available"}, tag : Offers]
          BY <5>1
        <5>. QED BY <5>2, <5>3
      <4>2. CASE ~IsNewer(latest, installed)
        BY <3>2, <4>2 DEF DecideUpgrade
      <4>. QED BY <4>1, <4>2
    <3>. QED BY <3>1, <3>2
  <2>5. checker' \in Checker /\ checker'.step # "idle"
    BY <2>1, <2>4 DEF Checker
  <2>6. upgrading = Unparsable /\ Confirming(stack) = {} /\ busy
    BY <2>2 DEF UpdateInv, OneCheck
  <2>. QED BY <2>2, <2>3, <2>5, <2>6 DEF UpdateInv, OneCheck, OffersAreNewer
<1>5. CASE OnFinished
  <2>1. /\ checker.step = "decided" /\ checker' = [step |-> "idle"]
        /\ UNCHANGED <<installed, upgrading>>
    BY <1>5 DEF OnFinished
  <2>2. Offers' = Offers /\ Checker' = Checker /\ checker' \in Checker /\ checker'.step = "idle"
    BY <2>1 DEF Offers, Checker
  <2>3. upgrading = Unparsable /\ Confirming(stack) = {} /\ busy /\ installed \in Installed
    BY <2>1 DEF UpdateInv, OneCheck
  <2>4. CASE stack' = stack /\ busy' = FALSE
    BY <2>1, <2>2, <2>3, <2>4 DEF UpdateInv, OneCheck, OffersAreNewer
  <2>5. ASSUME NEW f \in UpdateFrame, stack' = Append(stack, f), f.items \in Offers, busy' = busy
        PROVE  UpdateInv'
    <3>1. f \in Dialog /\ f.kind = "update"
      BY DEF Dialog, UpdateFrame
    <3>2. Confirming(stack') = {Len(stack) + 1} /\ stack'[Len(stack) + 1] = f
      BY <1>0, <2>3, <2>5, <3>1, ConfirmingPushed
    <3>. QED BY <2>1, <2>2, <2>3, <2>5, <3>2 DEF UpdateInv, OneCheck, OffersAreNewer
  <2>. QED BY <1>5, <2>4, <2>5, OnFinishedPushes
<1>6. CASE UpdateDialogEnds
  <2>1. /\ stack # <<>> /\ Top.kind = "update" /\ stack' = Below
        /\ UNCHANGED <<installed, checker>>
        /\ \/ upgrading' = Top.items /\ busy' = busy
           \/ busy' = FALSE /\ upgrading' = upgrading
    BY <1>6 DEF UpdateDialogEnds
  <2>2. Below \in Seq(Dialog) /\ Top \in Dialog /\ stack = Append(Below, Top)
    BY <1>0, <2>1, Popped DEF Below, Top
  <2> DEFINE n == Len(Below) + 1
  <2>3. Confirming(Below) = Confirming(stack) \ {n} /\ stack[n] = Top /\ n \in Confirming(stack)
    BY <2>1, <2>2, ConfirmingPushed
  <2> HIDE DEF n
  <2>4. Confirming(stack') = {}
    BY <2>1, <2>3 DEF UpdateInv, OneCheck
  <2>5. Top.items \in Offers /\ upgrading = Unparsable /\ checker.step = "idle" /\ busy
    BY <2>3 DEF UpdateInv, OneCheck, OffersAreNewer
  <2>6. Top.items # Unparsable
    BY <2>5, OffersAreVersions DEF Unparsable
  <2>7. Offers' = Offers /\ Checker' = Checker
    BY <2>1 DEF Offers, Checker
  <2>. QED BY <2>1, <2>4, <2>5, <2>6, <2>7 DEF UpdateInv, OneCheck, OffersAreNewer
<1>7. CASE DrainPermissionReports
  BY <1>1, <1>7 DEF DrainPermissionReports, upgrade
<1>8. CASE TapRuns \/ KeyboardHookRuns \/ MouseHookRuns \/ PasteIsBlocked \/ UserGrants \/ DrainHookFailures \/ TimePasses
  BY <1>1, <1>8 DEF TapRuns, KeyboardHookRuns, MouseHookRuns, PasteIsBlocked, UserGrants,
                    DrainHookFailures, TimePasses, upgrade
<1>9. CASE UNCHANGED vars
  BY <1>1, <1>9 DEF vars, upgrade
<1>. QED BY <1>2, <1>3, <1>4, <1>5, <1>6, <1>7, <1>8, <1>9 DEF Next

(* A version as a number: the recursive function of Release exists, and    *)
(* has the values one expects.                                             *)
LEMMA TimesTyped == \A x, y \in Nat : x * y \in Nat
  OBVIOUS

LEMMA NumberExists ==
  ASSUME NEW digit \in [Nat -> Nat], NEW R \in Nat, NEW W \in Nat
  PROVE  \E g \in [0..W -> Nat] :
           \A n \in 0..W : g[n] = IF n = 0 THEN 0 ELSE R * g[n - 1] + digit[n]
<1> DEFINE Is(g, m) == \A n \in 0..m : g[n] = IF n = 0 THEN 0 ELSE R * g[n - 1] + digit[n]
           Ok(m) == \E g \in [0..m -> Nat] : Is(g, m)
           G == {m \in Nat : Ok(m)}
<1>1. 0 \in G
  <2> DEFINE g == [n \in 0..0 |-> 0]
  <2>1. g \in [0..0 -> Nat] /\ Is(g, 0)
    OBVIOUS
  <2> HIDE DEF g, Is
  <2>. QED BY <2>1
<1>2. ASSUME NEW m \in Nat, m \in G PROVE m + 1 \in G
  <2>1. PICK g \in [0..m -> Nat] : Is(g, m)
    BY <1>2
  <2> DEFINE f == [n \in 0..(m + 1) |-> IF n = m + 1 THEN R * g[m] + digit[m + 1] ELSE g[n]]
  <2>2. R * g[m] + digit[m + 1] \in Nat
    <3>1. g[m] \in Nat /\ digit[m + 1] \in Nat
      BY SMTT(30)
    <3>2. R * g[m] \in Nat
      BY <3>1, TimesTyped
    <3> DEFINE x == R * g[m]
    <3>3. x \in Nat
      BY <3>2
    <3> HIDE DEF x
    <3> DEFINE y == digit[m + 1]
    <3>4. y \in Nat
      BY <3>1
    <3> HIDE DEF y
    <3>5. x + y \in Nat
      BY <3>3, <3>4
    <3>. QED BY <3>5 DEF x, y
  <2>3. f \in [0..(m + 1) -> Nat]
    <3>1. ASSUME NEW n \in 0..(m + 1) PROVE f[n] \in Nat
      <4>1. CASE n = m + 1
        BY <4>1, <2>2
      <4>2. CASE n # m + 1
        <5>1. n \in 0..m
          BY <4>2
        <5>. QED BY <4>2, <5>1
      <4>. QED BY <4>1, <4>2
    <3>. QED BY <3>1
  <2>4. /\ f[m + 1] = R * g[m] + digit[m + 1]
        /\ \A n \in 0..m : f[n] = g[n]
    <3>1. m + 1 \in 0..(m + 1) /\ \A n \in 0..m : n \in 0..(m + 1) /\ n # m + 1
      OBVIOUS
    <3>. QED BY <3>1
  <2>5. ASSUME NEW n \in 0..(m + 1)
        PROVE  f[n] = IF n = 0 THEN 0 ELSE R * f[n - 1] + digit[n]
    <3>1. CASE n = m + 1
      <4>1. n # 0 /\ n - 1 = m /\ m \in 0..m
        BY <3>1
      <4> HIDE DEF f
      <4>. QED BY <3>1, <4>1, <2>4
    <3>2. CASE n # m + 1
      <4>1. n \in 0..m /\ (n # 0 => n - 1 \in 0..m)
        BY <3>2
      <4>2. f[n] = g[n] /\ (n # 0 => f[n - 1] = g[n - 1])
        BY <4>1, <2>4
      <4>3. g[n] = IF n = 0 THEN 0 ELSE R * g[n - 1] + digit[n]
        BY <4>1, <2>1
      <4> HIDE DEF f
      <4>. QED BY <4>2, <4>3
    <3>. QED BY <3>1, <3>2
  <2> HIDE DEF f
  <2>6. Is(f, m + 1)
    BY <2>5
  <2> HIDE DEF Is
  <2>7. Ok(m + 1)
    BY <2>3, <2>6
  <2> HIDE DEF Ok
  <2>. QED BY <2>7
<1>3. W \in G
  <2> HIDE DEF G
  <2>. QED BY <1>1, <1>2, SetInduction
<1>. QED BY <1>3

IsNumber(g, v) ==
  /\ g[0] = 0
  /\ \A n \in 1..Width : g[n] = Radix * g[n - 1] + Part(v, n)
  /\ \A n \in 0..Width : g[n] \in Nat
  /\ Release(v) = g[Width]

LEMMA PartTyped ==
  ASSUME NEW v \in Seq(Nat), NEW n \in Nat \ {0} PROVE Part(v, n) \in Nat
  BY DEF Part

LEMMA ReleaseIsANumber ==
  ASSUME PromptsAssumption, NEW v \in Seq(Nat) PROVE \E g : IsNumber(g, v)
<1> DEFINE digit == [n \in Nat |-> IF n = 0 THEN 0 ELSE Part(v, n)]
           Val(g, n) == IF n = 0 THEN 0 ELSE Radix * g[n - 1] + Part(v, n)
           fun == CHOOSE g : g = [n \in 0..Width |-> Val(g, n)]
<1>0. Width \in Nat /\ Radix \in Nat
  BY DEF PromptsAssumption
<1>1. digit \in [Nat -> Nat]
  BY PartTyped
<1>2. PICK g \in [0..Width -> Nat] :
        \A n \in 0..Width : g[n] = IF n = 0 THEN 0 ELSE Radix * g[n - 1] + digit[n]
  <2> HIDE DEF digit
  <2>. QED BY <1>0, <1>1, NumberExists, ZenonT(30)
<1>3. g = [n \in 0..Width |-> Val(g, n)]
  <2>1. \A n \in 0..Width : g[n] = Val(g, n)
    BY <1>0, <1>2
  <2> HIDE DEF Val
  <2>. QED BY <1>2, <2>1
<1>4. fun = [n \in 0..Width |-> Val(fun, n)]
  <2> HIDE DEF Val
  <2>. QED BY <1>3
<1>5. Release(v) = fun[Width]
  BY DEF Release
<1> HIDE DEF fun
<1>6. \A n \in 0..Width : fun[n] = Val(fun, n)
  <2> HIDE DEF Val
  <2>. QED BY <1>4
<1>7. fun[0] = 0 /\ \A n \in 1..Width : fun[n] = Radix * fun[n - 1] + Part(v, n)
  BY <1>0, <1>6
<1>8. \A n \in 0..Width : fun[n] \in Nat
  <2> DEFINE G == {n \in Nat : n <= Width => fun[n] \in Nat}
  <2>1. 0 \in G
    BY <1>7
  <2>2. ASSUME NEW n \in Nat, n \in G PROVE n + 1 \in G
    <3> SUFFICES ASSUME n + 1 <= Width PROVE fun[n + 1] \in Nat
      OBVIOUS
    <3>1. fun[n] \in Nat /\ n + 1 \in 1..Width /\ n + 1 - 1 = n
      BY <1>0, <2>2
    <3>2. fun[n + 1] = Radix * fun[n] + Part(v, n + 1)
      BY <1>7, <3>1
    <3>3. Part(v, n + 1) \in Nat
      BY PartTyped
    <3>4. Radix * fun[n] \in Nat
      BY <1>0, <3>1, TimesTyped
    <3>. QED BY <3>2, <3>3, <3>4
  <2>3. Nat \subseteq G
    <3> HIDE DEF G
    <3>. QED BY <2>1, <2>2, SetInduction
  <2>. QED BY <1>0, <2>3
<1>. QED BY <1>5, <1>7, <1>8 DEF IsNumber

(* One more digit does not change which of two numbers is the greater.     *)
LEMMA OneMoreDigit ==
  ASSUME NEW R \in Nat, NEW x \in Nat, NEW y \in Nat, NEW a \in Nat, NEW b \in Nat,
         x > y, b < R
  PROVE  R * x + a > R * y + b
<1>1. PICK k \in Nat : x = y + 1 + k
  <2>1. x - y - 1 \in Nat /\ x = y + 1 + (x - y - 1)
    OBVIOUS
  <2>. QED BY <2>1
<1>2. R * x = R * y + R + R * k
  BY <1>1
<1>3. R * k \in Nat /\ R * y \in Nat
  OBVIOUS
<1>. QED BY <1>2, <1>3

(* is_newer compares releases.                                             *)
LEMMA NewerIsLater ==
  ASSUME PromptsAssumption, NEW v \in Latest, NEW w \in Installed, IsNewer(v, w)
  PROVE  Release(v) > Release(w)
<1>0. /\ Width \in Nat /\ Radix \in Nat /\ v \in Seq(Nat) /\ w \in Seq(Nat)
      /\ Len(v) <= Width /\ Len(w) <= Width
      /\ \A n \in 1..Len(v) : v[n] < Radix
      /\ \A n \in 1..Len(w) : w[n] < Radix
  BY DEF PromptsAssumption
<1>1. PICK i \in 1..Len(v) :
        /\ Part(v, i) > Part(w, i)
        /\ \A j \in 1..(i - 1) : Part(v, j) = Part(w, j)
  BY DEF IsNewer, ComparesNewer
<1>2. PICK g : IsNumber(g, v)
  BY <1>0, ReleaseIsANumber
<1>3. PICK h : IsNumber(h, w)
  BY <1>0, ReleaseIsANumber
<1>4. i \in Nat \ {0} /\ i <= Width
  BY <1>0
<1>5. \A n \in 1..Width : Part(v, n) \in Nat /\ Part(w, n) \in Nat
  BY <1>0, PartTyped
<1>6. \A n \in 1..Width : Part(w, n) < Radix
  <2>1. 0 < Radix
    <3>1. Part(v, i) = v[i] /\ v[i] < Radix /\ v[i] \in Nat
      BY <1>0, <1>4 DEF Part
    <3>. QED BY <1>0, <3>1
  <2>. QED BY <1>0, <2>1 DEF Part
<1> DEFINE G == {n \in Nat : n <= Width => IF n < i THEN g[n] = h[n] ELSE g[n] > h[n]}
<1>7. 0 \in G
  BY <1>2, <1>3, <1>4 DEF IsNumber
<1>8. ASSUME NEW n \in Nat, n \in G PROVE n + 1 \in G
  <2> SUFFICES ASSUME n + 1 <= Width
               PROVE  IF n + 1 < i THEN g[n + 1] = h[n + 1] ELSE g[n + 1] > h[n + 1]
    OBVIOUS
  <2>1. IF n < i THEN g[n] = h[n] ELSE g[n] > h[n]
    BY <1>0, <1>8
  <2>2. n + 1 \in 1..Width /\ n + 1 - 1 = n /\ n \in 0..Width
    BY <1>0
  <2> DEFINE a == Part(v, n + 1)
             b == Part(w, n + 1)
  <2>3. /\ g[n + 1] = Radix * g[n] + a /\ h[n + 1] = Radix * h[n] + b
        /\ g[n] \in Nat /\ h[n] \in Nat
    BY <1>2, <1>3, <2>2, SMTT(30) DEF IsNumber
  <2>4. a \in Nat /\ b \in Nat /\ b < Radix
    BY <1>5, <1>6, <2>2
  <2>5. CASE n + 1 < i
    <3>1. a = b
      BY <1>1, <1>4, <2>5
    <3>2. n < i
      BY <1>4, <2>5
    <3> HIDE DEF a, b
    <3>. QED BY <2>1, <2>3, <2>5, <3>1, <3>2
  <2>6. CASE n + 1 = i
    <3>1. a > b
      BY <1>1, <2>6
    <3>2. g[n] = h[n]
      BY <1>4, <2>1, <2>6
    <3>3. Radix * g[n] \in Nat
      BY <1>0, <2>3, SMTT(30)
    <3>4. ~(n + 1 < i)
      BY <1>4, <2>6
    <3>5. g[n + 1] > h[n + 1]
      <4> HIDE DEF a, b
      <4>. QED BY <2>3, <2>4, <3>1, <3>2, <3>3
    <3>. QED BY <3>4, <3>5
  <2>7. CASE n + 1 > i
    <3>1. ~(n < i) /\ ~(n + 1 < i)
      BY <1>4, <2>7
    <3>2. g[n] > h[n]
      BY <2>1, <3>1
    <3> HIDE DEF a, b
    <3>3. g[n + 1] > h[n + 1]
      <4>1. Radix * g[n] + a > Radix * h[n] + b
        BY <1>0, <2>3, <2>4, <3>2, OneMoreDigit
      <4>. QED BY <2>3, <4>1
    <3>. QED BY <3>1, <3>3
  <2>. QED BY <1>4, <2>5, <2>6, <2>7
<1>9. Width \in G
  <2> HIDE DEF G
  <2>. QED BY <1>0, <1>7, <1>8, SetInduction
<1>10. g[Width] > h[Width]
  BY <1>0, <1>4, <1>9
<1>. QED BY <1>2, <1>3, <1>10 DEF IsNumber

LEMMA UpdateInvImplies == PromptsAssumption /\ UpdateInv => UpdateChecksEnd
<1> SUFFICES ASSUME PromptsAssumption, UpdateInv PROVE UpdateChecksEnd
  OBVIOUS
<1>1. Confirming(stack) # {} <=> \E i \in DOMAIN stack : stack[i].kind = "update"
  BY DEF Confirming
<1>2. upgrading # Unparsable => Release(upgrading) > Release(installed)
  BY OffersAreVersions, NewerIsLater DEF UpdateInv, OffersAreNewer
<1>. QED BY <1>1, <1>2 DEF UpdateInv, OneCheck, UpdateChecksEnd

-----------------------------------------------------------------------------
(***************************************************************************)
(* The tray.                                                               *)
(***************************************************************************)
LEMMA TrayInit == Init => TrayInv
<1> SUFFICES ASSUME Init PROVE TrayInv
  OBVIOUS
<1>1. Range(<<>>) = {}
  BY DEF Range
<1>. QED BY <1>1 DEF Init, TrayInv, HooksTyped, MacHasNoHooks, ReportsTheTap, FailuresAreReal,
                     SurfacedIsShown, HintIsHonest

LEMMA TrayStep ==
  ASSUME PromptsAssumption, PromptInv, TrayInv, [Next]_vars
  PROVE  TrayInv'
<1> USE DEF TrayInv, HooksTyped, MacHasNoHooks, ReportsTheTap, FailuresAreReal,
            SurfacedIsShown, HintIsHonest
<1>0. reports \in Seq(Permissions) /\ Range(<<>>) = {} /\ ACCESSIBILITY # INPUT_MONITORING
  BY PermissionsAre DEF PromptInv, PromptsTyped, ReportsTyped, Range
<1>1. CASE TapRuns
  <2>1. Range(Append(reports, INPUT_MONITORING)) = Range(reports) \union {INPUT_MONITORING}
    BY <1>0, RangeOfAppend
  <2>. QED BY <1>1, <2>1 DEF TapRuns, tray
<1>2. CASE KeyboardHookRuns
  <2>1. \A x : Append(failures, x) # <<>>
    OBVIOUS
  <2>. QED BY <1>2, <2>1 DEF KeyboardHookRuns, tray
<1>3. CASE MouseHookRuns
  BY <1>3 DEF MouseHookRuns, tray
<1>4. CASE PasteIsBlocked
  <2>1. Range(Append(reports, ACCESSIBILITY)) = Range(reports) \union {ACCESSIBILITY}
    BY <1>0, RangeOfAppend
  <2>. QED BY <1>0, <1>4, <2>1 DEF PasteIsBlocked, hooks, tray
<1>5. CASE UserGrants
  BY <1>5 DEF UserGrants, tray
<1>6. CASE DrainPermissionReports
  <2>1. /\ reports' = <<>> /\ UNCHANGED <<platform, keyboard, mouse, failures, surfaced>>
        /\ IF INPUT_MONITORING \in Range(reports)
           THEN hint' = "allow Input Monitoring" /\ manual' = TRUE
           ELSE UNCHANGED <<hint, manual>>
    BY <1>6 DEF DrainPermissionReports, hooks, tray
  <2>. QED BY <1>0, <2>1
<1>7. CASE DrainHookFailures
  BY <1>7 DEF DrainHookFailures
<1>8. CASE UNCHANGED <<platform, keyboard, mouse, failures, surfaced, reports, hint, manual>>
  BY <1>8
<1>9. CASE StartupCheck \/ DialogIsShown \/ \E raises \in BOOLEAN : DialogEnds(raises)
  BY <1>8, <1>9 DEF StartupCheck, DialogIsShown, DialogEnds, hooks, tray
<1>10. CASE TimePasses \/ Checks \/ Fetches \/ OnFinished \/ UpdateDialogEnds
  BY <1>8, <1>10 DEF TimePasses, Checks, Fetches, OnFinished, UpdateDialogEnds, hooks, tray
<1>11. CASE UNCHANGED vars
  BY <1>8, <1>11 DEF vars, hooks, tray
<1>. QED BY <1>1, <1>2, <1>3, <1>4, <1>5, <1>6, <1>7, <1>9, <1>10, <1>11 DEF Next

-----------------------------------------------------------------------------
LEMMA AllInvariant == Spec => [](PromptInv /\ UpdateInv /\ TrayInv)
<1>1. Init => PromptInv /\ UpdateInv /\ TrayInv
  BY PromptsAssumption, PromptInit, UpdateInit, TrayInit
<1>2. PromptInv /\ UpdateInv /\ TrayInv /\ [Next]_vars => (PromptInv /\ UpdateInv /\ TrayInv)'
  BY PromptsAssumption, PromptStep, UpdateStep, TrayStep
<1>. QED BY <1>1, <1>2, PTL DEF Spec

(* Types, and with them how deep dialogs nest: every permission dialog that *)
(* is open has a permission of its own, and of update dialogs there is one *)
(* (a Qt dialog runs the event loop, and with it timers that open others). *)
THEOREM TypeCorrect == Spec => []TypeOK
<1>1. ASSUME PromptInv, UpdateInv, TrayInv PROVE TypeOK
  <2>1. \A a, b, c \in Permissions : a = b \/ b = c \/ a = c
    BY DEF Permissions, MacPermission, Range
  <2>2. /\ due \in Seq(Permissions) /\ NoRepeats(due)
        /\ stack \in Seq(Dialog) /\ Apart(stack)
    BY <1>1 DEF PromptInv, PromptsTyped, DialogsTyped, Coherent, OnePlace
  <2>a. \A i \in DOMAIN stack : stack[i] \in Dialog
    BY <2>2
  <2>b. ASSUME NEW f \in Dialog
        PROVE  IF IsPermissionFrame(f) THEN f.items \in Seq(Permissions) \ {<<>>}
                                       ELSE f.kind = "update"
    <3>1. CASE f \in PermissionFrame
      BY <3>1 DEF PermissionFrame, IsPermissionFrame
    <3>2. CASE f \in UpdateFrame
      BY <3>2 DEF UpdateFrame, IsPermissionFrame
    <3>. QED BY <3>1, <3>2 DEF Dialog
  <2>3. ~(Len(due) >= 3)
    <3>1. SUFFICES ASSUME Len(due) >= 3 PROVE FALSE
      OBVIOUS
    <3>2. /\ 1 \in DOMAIN due /\ 2 \in DOMAIN due /\ 3 \in DOMAIN due
          /\ due[1] \in Permissions /\ due[2] \in Permissions /\ due[3] \in Permissions
      BY <2>2, <3>1
    <3>3. due[1] # due[2] /\ due[2] # due[3] /\ due[1] # due[3]
      BY <2>2, <3>2 DEF NoRepeats
    <3>. QED BY <2>1, <3>2, <3>3
  <2>4. ASSUME NEW i \in DOMAIN stack, NEW j \in DOMAIN stack, NEW k \in DOMAIN stack,
               i # j, j # k, i # k,
               IsPermissionFrame(stack[i]), IsPermissionFrame(stack[j]),
               IsPermissionFrame(stack[k])
        PROVE FALSE
    <3>1. \A n \in {i, j, k} : /\ stack[n].items[1] \in Permissions
                               /\ stack[n].items[1] \in Range(stack[n].items)
      <4>1. ASSUME NEW n \in {i, j, k} PROVE stack[n].items \in Seq(Permissions) \ {<<>>}
        BY <2>a, <2>b, <2>4
      <4>. QED BY <4>1 DEF Range
    <3>2. /\ stack[i].items[1] # stack[j].items[1]
          /\ stack[j].items[1] # stack[k].items[1]
          /\ stack[i].items[1] # stack[k].items[1]
      BY <2>2, <2>4, <3>1 DEF Apart
    <3>. QED BY <2>1, <3>1, <3>2
  <2>5. \A i, j \in DOMAIN stack :
          ~IsPermissionFrame(stack[i]) /\ ~IsPermissionFrame(stack[j]) => i = j
    <3>1. \A i \in DOMAIN stack : ~IsPermissionFrame(stack[i]) => i \in Confirming(stack)
      BY <2>a, <2>b DEF Confirming
    <3>. QED BY <1>1, <3>1 DEF UpdateInv, OneCheck
  <2>6. ~(Len(stack) >= 4)
    <3>1. SUFFICES ASSUME Len(stack) >= 4 PROVE FALSE
      OBVIOUS
    <3>2. {1, 2, 3, 4} \subseteq DOMAIN stack
      BY <2>2, <3>1
    <3>3. PICK i, j, k \in {1, 2, 3, 4} :
            /\ i # j /\ j # k /\ i # k
            /\ IsPermissionFrame(stack[i]) /\ IsPermissionFrame(stack[j])
            /\ IsPermissionFrame(stack[k])
      <4> DEFINE P(n) == IsPermissionFrame(stack[n])
      <4>1. \A m, n \in {1, 2, 3, 4} : P(m) \/ P(n) \/ m = n
        BY <2>5, <3>2
      <4> HIDE DEF P
      <4>2. \/ P(1) /\ P(2) /\ P(3)
            \/ P(1) /\ P(2) /\ P(4)
            \/ P(1) /\ P(3) /\ P(4)
            \/ P(2) /\ P(3) /\ P(4)
        BY <4>1
      <4>. QED BY <4>2 DEF P
    <3>. QED BY <2>4, <3>2, <3>3
  <2>7. Len(due) \in Nat /\ Len(stack) \in Nat
    BY <2>2
  <2>8. throttle.open \subseteq Permissions
    BY <1>1 DEF PromptInv, PromptsTyped, ThrottleTyped, Throttle
  <2>. QED BY <1>1, <2>3, <2>6, <2>7, <2>8
           DEF TypeOK, PromptInv, PromptsTyped, ReportsTyped, TrayInv, HooksTyped
<1>. QED BY <1>1, AllInvariant, PTL

(* Whenever a report has been handled its dialog is up or coming, or the   *)
(* user saw one, or a notification, within the notification's cool-down,   *)
(* except where the dialog was given up with its list; and the throttle's  *)
(* open mark is exact (reprompt.py: "a repeat failure is still never       *)
(* silent").                                                               *)
THEOREM ReportsCorrect == Spec => []NoReportIsSilent
<1>1. PromptInv => NoReportIsSilent
  BY DEF PromptInv, Coherent, KnowsTheOpen, NoReportIsSilent
<1>. QED BY <1>1, AllInvariant, PTL

LEMMA ApartIsOneEach ==
  ASSUME NEW s \in Seq(Dialog), Apart(s)
  PROVE  OneDialogEach(s)
<1> SUFFICES ASSUME NEW i \in DOMAIN s, NEW j \in DOMAIN s,
                    IsPermissionFrame(s[i]), IsPermissionFrame(s[j]),
                    Head(s[i].items) = Head(s[j].items), i # j
             PROVE  FALSE
  BY DEF OneDialogEach
<1>1. s[i] \in Dialog /\ s[j] \in Dialog
  OBVIOUS
<1>2. /\ s[i].items \in Seq(Permissions) /\ s[i].items # <<>>
      /\ s[j].items \in Seq(Permissions) /\ s[j].items # <<>>
  BY <1>1 DEF Dialog, PermissionFrame, UpdateFrame, IsPermissionFrame
<1>3. Head(s[i].items) \in Range(s[i].items) /\ Head(s[j].items) \in Range(s[j].items)
  BY <1>2, HeadAndTail
<1>4. Range(s[i].items) \cap Range(s[j].items) = {}
  BY DEF Apart
<1>. QED BY <1>3, <1>4

(* No dialog of a permission comes up within its cool-down, or while       *)
(* another of it is up (reprompt.py: "so it never nags on every            *)
(* dictation").                                                            *)
THEOREM RestCorrect == Spec => NeverNags
<1>1. PromptInv' => OneDialogEach(stack')
  BY ApartIsOneEach DEF PromptInv, PromptsTyped, DialogsTyped, Coherent, OnePlace
<1>2. PromptInv /\ UpdateInv /\ TrayInv /\ [Next]_vars =>
        [/\ \A p \in Permissions :
              p \in Shown(stack') \ Shown(stack) => rested[p] >= DialogCooldown
         /\ OneDialogEach(stack')]_vars
  BY <1>1, PromptsAssumption, PromptStep DEF NoNag
<1>. QED BY <1>2, AllInvariant, PTL DEF Spec, NeverNags

(* UpdateChecker's _busy is set exactly while a check is under way, and the *)
(* installer is started only for a later release, whatever the versions.   *)
THEOREM UpdatesCorrect == Spec => []UpdateChecksEnd
<1>1. UpdateInv => UpdateChecksEnd
  BY PromptsAssumption, UpdateInvImplies
<1>. QED BY <1>1, AllInvariant, PTL

(* The tray's hotkey row says that a hook is off when, and only when, one  *)
(* is (hook_failure.py, daemon.py's _drain_permission_reports).            *)
THEOREM HintCorrect == Spec => []HintIsHonest
<1>1. TrayInv => HintIsHonest
  BY DEF TrayInv
<1>. QED BY <1>1, AllInvariant, PTL
=============================================================================
