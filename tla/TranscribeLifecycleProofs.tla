---------------------- MODULE TranscribeLifecycleProofs ----------------------
(***************************************************************************)
(* The safety of TranscribeLifecycle, and of FallbackTranscriber beneath   *)
(* it, for every finite set of workers and every idle timeout.             *)
(*                                                                         *)
(* NeverPulledAway is not inductive: that nothing is freed in use rests on *)
(* _in_flight being exactly the number of threads between the two locked   *)
(* sections of _run_transcription (Counted).  An unload acts only on a     *)
(* count of zero, so nobody is in a call; the last one to finish acts on a *)
(* count of one, which is itself.                                          *)
(***************************************************************************)
EXTENDS FallbackTranscriber, FiniteSetTheorems, TLAPS

Counted == inFlight = Cardinality(Users)

PendingIsOwned == unloadPending => inFlight > 0
DeferredUnloadHasAnOwner == unloadPending => Users # {}

IInv == TypeOK /\ Counted /\ NeverPulledAway /\ LoadsOnlyOnce /\ PendingIsOwned

-----------------------------------------------------------------------------
(* Facts about the count.                                                  *)

LEMMA UsersFinite == IsFiniteSet(Users)
  BY FS_Subset, ThreadsAssumption DEF Users

(* A count of zero means that nobody uses the model.                       *)
LEMMA NobodyUses ==
  ASSUME Counted, inFlight = 0
  PROVE  \A w \in Workers : pc[w] \notin Using
  BY UsersFinite, FS_EmptySet DEF Counted, Users

(* A count of one means that nobody else does.                             *)
LEMMA LastUser ==
  ASSUME Counted, inFlight = 1, NEW w \in Workers, pc[w] \in Using
  PROVE  \A v \in Workers \ {w} : pc[v] \notin Using
<1>1. PICK x : Users = {x}
  BY UsersFinite, FS_Singleton DEF Counted
<1>2. w \in Users
  BY DEF Users
<1> QED
  BY <1>1, <1>2 DEF Users

(* A thread that moves on inside or outside of a transcription leaves the  *)
(* count as it is.                                                         *)
LEMMA MoveKeepsCount ==
  ASSUME TypeOK, Counted, NEW t \in Threads, NEW step \in Step, Goes(t, step),
         t \in Workers => pc[t] \in Using /\ step \in Using,
         inFlight' = inFlight
  PROVE  Counted' /\ pc' \in [Threads -> Step]
<1>1. Users' = Users
  BY DEF Users, TypeOK, Goes, Threads
<1> QED
  BY <1>1 DEF Counted, TypeOK, Goes

LEMMA IdleMoveKeepsCount ==
  ASSUME Counted, UNCHANGED <<pc, inFlight>>
  PROVE  Counted'
  BY DEF Counted, Users

-----------------------------------------------------------------------------
LEMMA InitInductive == Init => IInv
<1> SUFFICES ASSUME Init PROVE IInv
  OBVIOUS
<1>1. TypeOK
  <2>1. pc \in [Threads -> Step] /\ inFlight \in Nat
    BY DEF Init, Step
  <2>2. lastActivity \in Age \union {Never}
    BY ThreadsAssumption DEF Init, Age
  <2>3. loaded \in BOOLEAN /\ isLoading \in BOOLEAN /\ unloadPending \in BOOLEAN
    BY DEF Init
  <2>4. fetch \in [step : {"none", "fetching", "fetched", "failed"}, ok : BOOLEAN,
                   downloading : BOOLEAN, awaiting : BOOLEAN, announced : BOOLEAN]
    BY DEF Init, NoFetch
  <2> QED
    BY <2>1, <2>2, <2>3, <2>4 DEF Init, TypeOK
<1>2. Users = {}
  BY DEF Init, Users, Using, Threads
<1>3. Counted
  BY <1>2, FS_EmptySet DEF Counted, Init
<1>4. NeverPulledAway /\ LoadsOnlyOnce /\ PendingIsOwned
  BY DEF Init, NeverPulledAway, LoadsOnlyOnce, PendingIsOwned, Threads
<1> QED
  BY <1>1, <1>3, <1>4 DEF IInv

(* _ensure_loaded(), in a worker or in the background load.                *)
LEMMA ThreadStepInductive ==
  ASSUME IInv, NEW t \in Threads, ThreadStep(t)
  PROVE  IInv'
<1> USE DEF IInv
<1>1. CASE Ensures(t)
  <2> DEFINE step == IF loaded THEN AfterLoad(t) ELSE "lock"
  <2>1. step \in Step /\ (t \in Workers => pc[t] \in Using /\ step \in Using)
    BY <1>1, ThreadsAssumption DEF Ensures, Step, Using, AfterLoad
  <2>2. Counted' /\ pc' \in [Threads -> Step]
    BY <1>1, <2>1, MoveKeepsCount DEF Ensures, flagVars
  <2>3. TypeOK' /\ PendingIsOwned'
    BY <1>1, <2>2 DEF Ensures, TypeOK, PendingIsOwned, flagVars, modelVars
  <2>4. NeverPulledAway' /\ LoadsOnlyOnce'
    BY <1>1 DEF Ensures, Goes, AfterLoad, TypeOK, NeverPulledAway, LoadsOnlyOnce,
       modelVars, Threads
  <2> QED
    BY <2>2, <2>3, <2>4
<1>2. CASE TakesLock(t)
  <2> DEFINE step == IF loaded THEN AfterLoad(t) ELSE "loading"
  <2>1. step \in Step /\ (t \in Workers => pc[t] \in Using /\ step \in Using)
    BY <1>2, ThreadsAssumption DEF TakesLock, Step, Using, AfterLoad
  <2>2. Counted' /\ pc' \in [Threads -> Step]
    BY <1>2, <2>1, MoveKeepsCount DEF TakesLock, flagVars
  <2>3. TypeOK' /\ PendingIsOwned'
    BY <1>2, <2>2 DEF TakesLock, TypeOK, PendingIsOwned, flagVars, modelVars
  <2>4. NeverPulledAway' /\ LoadsOnlyOnce'
    BY <1>2, ThreadsAssumption DEF TakesLock, Goes, AfterLoad, TypeOK, NeverPulledAway,
       LoadsOnlyOnce, modelVars, Threads
  <2> QED
    BY <2>2, <2>3, <2>4
<1>3. CASE Loads(t)
  <2>1. AfterLoad(t) \in Step
        /\ (t \in Workers => pc[t] \in Using /\ AfterLoad(t) \in Using)
    BY <1>3, ThreadsAssumption DEF Loads, Step, Using, AfterLoad
  <2>2. Counted' /\ pc' \in [Threads -> Step]
    BY <1>3, <2>1, MoveKeepsCount DEF Loads, flagVars
  <2>3. TypeOK' /\ PendingIsOwned'
    BY <1>3, <2>2, ThreadsAssumption DEF Loads, TypeOK, PendingIsOwned, flagVars, Age
  <2>4. NeverPulledAway'
    BY <1>3 DEF Loads, NeverPulledAway
  <2>5. LoadsOnlyOnce'
    BY <1>3, ThreadsAssumption DEF Loads, Goes, AfterLoad, TypeOK, LoadsOnlyOnce, Threads
  <2> QED
    BY <2>2, <2>3, <2>4, <2>5
<1>4. CASE LoadFails(t)
  <2>1. AfterFailure(t) \in Step
        /\ (t \in Workers => pc[t] \in Using /\ AfterFailure(t) \in Using)
    BY <1>4, ThreadsAssumption DEF LoadFails, Step, Using, AfterFailure
  <2>2. Counted' /\ pc' \in [Threads -> Step]
    BY <1>4, <2>1, MoveKeepsCount DEF LoadFails, flagVars
  <2>3. TypeOK' /\ PendingIsOwned'
    BY <1>4, <2>2 DEF LoadFails, TypeOK, PendingIsOwned, flagVars, modelVars
  <2>4. NeverPulledAway' /\ LoadsOnlyOnce'
    BY <1>4, ThreadsAssumption DEF LoadFails, Goes, AfterFailure, TypeOK, NeverPulledAway,
       LoadsOnlyOnce, modelVars, Threads
  <2> QED
    BY <2>2, <2>3, <2>4
<1> QED
  BY <1>1, <1>2, <1>3, <1>4 DEF ThreadStep

-----------------------------------------------------------------------------
(* _run_transcription(): one more in use, one less in use.                 *)
LEMMA BeginsInductive ==
  ASSUME IInv, NEW w \in Workers, Begins(w)
  PROVE  IInv'
<1> USE DEF IInv
<1>1. Users' = Users \union {w} /\ w \notin Users
  BY DEF Begins, Goes, Users, Using, TypeOK, Threads
<1>2. Counted'
  BY <1>1, UsersFinite, FS_AddElement DEF Counted, Begins
<1>3. TypeOK' /\ PendingIsOwned'
  <2>1. pc' \in [Threads -> Step]
    BY DEF Begins, Goes, TypeOK, Step
  <2>2. inFlight' \in Nat
    <3>1. inFlight \in Nat /\ inFlight' = inFlight + 1
      BY DEF Begins, TypeOK
    <3> QED
      BY <3>1
  <2>3. unloadPending' = FALSE
    BY DEF Begins
  <2> QED
    BY <2>1, <2>2, <2>3 DEF Begins, TypeOK, PendingIsOwned, modelVars
<1>4. NeverPulledAway' /\ LoadsOnlyOnce'
  BY DEF Begins, Goes, TypeOK, NeverPulledAway, LoadsOnlyOnce, modelVars, Threads
<1> QED
  BY <1>2, <1>3, <1>4

LEMMA CallsInductive ==
  ASSUME IInv, NEW w \in Workers, Calls(w)
  PROVE  IInv'
<1> USE DEF IInv
<1>1. PICK step \in {"finish", "retry"} : Goes(w, step)
  BY DEF Calls
<1>2. Counted' /\ pc' \in [Threads -> Step]
  BY <1>1, MoveKeepsCount DEF Calls, Step, Using, flagVars, Threads
<1>3. TypeOK' /\ PendingIsOwned'
  BY <1>2 DEF Calls, TypeOK, PendingIsOwned, flagVars, modelVars
<1>4. NeverPulledAway' /\ LoadsOnlyOnce'
  BY <1>1 DEF Calls, Goes, TypeOK, NeverPulledAway, LoadsOnlyOnce, modelVars, Threads
<1> QED
  BY <1>2, <1>3, <1>4

LEMMA FinishesInductive ==
  ASSUME IInv, NEW w \in Workers, Finishes(w)
  PROVE  IInv'
<1> USE DEF IInv
<1>1. Users' = Users \ {w} /\ w \in Users
  BY DEF Finishes, Goes, Users, Using, TypeOK, Threads
<1>2. Counted'
  BY <1>1, UsersFinite, FS_RemoveElement DEF Counted, Finishes
<1>3. inFlight > 0
  BY <1>1, UsersFinite, FS_EmptySet DEF Counted, TypeOK
<1>4. TypeOK'
  <2>1. inFlight' \in Nat
    BY <1>3 DEF Finishes, TypeOK
  <2>2. loaded' \in BOOLEAN /\ unloadPending' \in BOOLEAN
    BY DEF Finishes, TypeOK
  <2>3. lastActivity' \in Age \union {Never}
    BY ThreadsAssumption DEF Finishes, TypeOK, Age, Never
  <2>4. pc' \in [Threads -> Step]
    BY DEF Finishes, TypeOK, Goes, Step
  <2> QED
    BY <2>1, <2>2, <2>3, <2>4 DEF Finishes, TypeOK
<1>5. PendingIsOwned'
  <2>1. CASE inFlight = 1 /\ unloadPending
    BY <2>1 DEF Finishes, PendingIsOwned
  <2>2. CASE inFlight # 1
    <3>1. inFlight' > 0
      BY <1>3, <2>2 DEF Finishes, TypeOK
    <3> QED
      BY <3>1 DEF PendingIsOwned
  <2>3. CASE ~unloadPending
    BY <2>3 DEF Finishes, PendingIsOwned
  <2> QED
    BY <2>1, <2>2, <2>3
<1>6. NeverPulledAway'
  <2>1. CASE inFlight = 1 /\ unloadPending
    <3>1. \A v \in Workers \ {w} : pc[v] \notin Using
      BY <1>1, <2>1, LastUser DEF Users
    <3> QED
      BY <3>1 DEF Finishes, Goes, TypeOK, NeverPulledAway, Using, Threads
  <2>2. CASE ~(inFlight = 1 /\ unloadPending)
    BY <2>2 DEF Finishes, Goes, TypeOK, NeverPulledAway, Threads
  <2> QED
    BY <2>1, <2>2
<1>7. LoadsOnlyOnce'
  BY DEF Finishes, Goes, TypeOK, LoadsOnlyOnce, Threads
<1> QED
  BY <1>2, <1>4, <1>5, <1>6, <1>7

-----------------------------------------------------------------------------
(* preload() and the rest of the background load.                          *)
LEMMA PreloadInductive ==
  ASSUME IInv, Preload \/ Marks \/ Clears
  PROVE  IInv'
<1> USE DEF IInv
<1>1. Preloader \in Threads /\ Preloader \notin Workers
  BY ThreadsAssumption DEF Threads
<1>2. Users' = Users /\ inFlight' = inFlight
  BY <1>1 DEF Preload, Marks, Clears, Goes, Users, TypeOK, flagVars, Threads
<1>3. Counted'
  BY <1>2 DEF Counted
<1>4. pc' \in [Threads -> Step]
  BY DEF Preload, Marks, Clears, Goes, TypeOK, Step
<1>5. TypeOK'
  <2>1. lastActivity' \in Age \union {Never}
    BY ThreadsAssumption DEF Preload, Marks, Clears, TypeOK, Age, modelVars
  <2>2. isLoading' \in BOOLEAN /\ unloadPending' \in BOOLEAN
    BY DEF Preload, Marks, Clears, TypeOK, flagVars
  <2>3. UNCHANGED <<loaded, loadLock, inFlight, fetch>>
    BY DEF Preload, Marks, Clears, modelVars, flagVars
  <2> QED
    BY <1>4, <2>1, <2>2, <2>3 DEF TypeOK
<1>6. PendingIsOwned'
  BY DEF Preload, Marks, Clears, PendingIsOwned, flagVars
<1>7. UNCHANGED <<loaded, loadLock>> /\ \A t \in Threads \ {Preloader} : pc'[t] = pc[t]
  BY DEF Preload, Marks, Clears, Goes, TypeOK, modelVars
<1>8. pc'[Preloader] = "loading" => pc[Preloader] = "loading"
  BY <1>1 DEF Preload, Marks, Clears, Goes, TypeOK
<1>9. NeverPulledAway' /\ LoadsOnlyOnce'
  BY <1>1, <1>7, <1>8 DEF NeverPulledAway, LoadsOnlyOnce, Threads
<1> QED
  BY <1>3, <1>5, <1>6, <1>9

(* unload() and check_idle() free the model on a count of zero only.       *)
LEMMA UnloadInductive ==
  ASSUME IInv, Unload \/ CheckIdle
  PROVE  IInv'
<1> USE DEF IInv
<1>1. Counted'
  BY IdleMoveKeepsCount DEF Unload, CheckIdle, threadVars, flagVars
<1>2. TypeOK'
  <2>1. lastActivity' \in Age \union {Never}
    BY DEF Unload, CheckIdle, UnloadNow, TypeOK
  <2>2. loaded' \in BOOLEAN /\ unloadPending' \in BOOLEAN
    BY DEF Unload, CheckIdle, UnloadNow, TypeOK, flagVars
  <2>3. UNCHANGED <<pc, loadLock, isLoading, inFlight, fetch>>
    BY DEF Unload, CheckIdle, threadVars, flagVars
  <2> QED
    BY <2>1, <2>2, <2>3 DEF TypeOK
<1>3. PendingIsOwned'
  <2>1. CASE Unload /\ inFlight > 0
    BY <2>1 DEF Unload, PendingIsOwned
  <2>2. CASE Unload /\ ~(inFlight > 0)
    BY <2>2 DEF Unload, PendingIsOwned
  <2>3. CASE CheckIdle
    BY <2>3 DEF CheckIdle, PendingIsOwned, flagVars
  <2> QED
    BY <2>1, <2>2, <2>3
<1>4. loaded' # loaded => inFlight = 0
  BY DEF Unload, CheckIdle, TypeOK
<1>5. NeverPulledAway'
  BY <1>4, NobodyUses DEF Unload, CheckIdle, NeverPulledAway, Using, threadVars
<1>6. LoadsOnlyOnce'
  BY DEF Unload, CheckIdle, UnloadNow, TypeOK, LoadsOnlyOnce, threadVars
<1> QED
  BY <1>1, <1>2, <1>3, <1>5, <1>6

(* The download, its poll and the clock leave the model alone.             *)
LEMMA RestInductive ==
  ASSUME IInv,
         \/ PrefetchToDisk \/ Fetches \/ FetchFlags \/ CheckModelDownload
         \/ TimePasses
         \/ UNCHANGED vars
  PROVE  IInv'
<1> USE DEF IInv
<1>1. UNCHANGED <<pc, loaded, loadLock, isLoading, inFlight, unloadPending>>
  BY DEF PrefetchToDisk, Fetches, FetchFlags, CheckModelDownload, TimePasses, vars,
     threadVars, modelVars, flagVars
<1>2. Counted' /\ PendingIsOwned' /\ NeverPulledAway' /\ LoadsOnlyOnce'
  BY <1>1, IdleMoveKeepsCount DEF PendingIsOwned, NeverPulledAway, LoadsOnlyOnce
<1>3. lastActivity' \in Age \union {Never}
  BY ThreadsAssumption DEF PrefetchToDisk, Fetches, FetchFlags, CheckModelDownload,
     TimePasses, vars, modelVars, Older, TypeOK, Age, Never
<1>4. fetch' \in [step : {"none", "fetching", "fetched", "failed"}, ok : BOOLEAN,
                  downloading : BOOLEAN, awaiting : BOOLEAN, announced : BOOLEAN]
  BY DEF PrefetchToDisk, Fetches, FetchFlags, CheckModelDownload, TimePasses, vars, TypeOK
<1> QED
  BY <1>1, <1>2, <1>3, <1>4 DEF TypeOK

-----------------------------------------------------------------------------
LEMMA NextInductive == IInv /\ [Next]_vars => IInv'
<1> SUFFICES ASSUME IInv, [Next]_vars PROVE IInv'
  OBVIOUS
<1>1. ASSUME NEW w \in Workers, Begins(w) \/ WorkerStep(w) PROVE IInv'
  BY <1>1, BeginsInductive, ThreadStepInductive, CallsInductive, FinishesInductive
     DEF WorkerStep, Threads
<1>2. CASE PreloaderStep
  BY <1>2, ThreadStepInductive, PreloadInductive DEF PreloaderStep, Threads
<1>3. CASE Preload
  BY <1>3, PreloadInductive
<1>4. CASE Unload \/ CheckIdle
  BY <1>4, UnloadInductive
<1>5. CASE \/ PrefetchToDisk \/ Fetches \/ FetchFlags \/ CheckModelDownload
           \/ TimePasses \/ UNCHANGED vars
  BY <1>5, RestInductive
<1> QED
  BY <1>1, <1>2, <1>3, <1>4, <1>5 DEF Next

(* The inductive invariant of the model's lifecycle.                       *)
THEOREM LifecycleInvariant == Spec => []IInv
<1>1. Init => IInv
  BY InitInductive
<1>2. IInv /\ [Next]_vars => IInv'
  BY NextInductive
<1> QED
  BY <1>1, <1>2, PTL DEF Spec

(* Every reachable state is well typed.                                    *)
THEOREM LifecycleTypeCorrect == Spec => []TypeOK
<1>1. IInv => TypeOK
  BY DEF IInv
<1> QED
  BY <1>1, LifecycleInvariant, PTL

(* No transcription loses its model while it runs, whatever unloads are    *)
(* asked for by the tray, the idle timer or other transcriptions.          *)
THEOREM NeverPulledAwayHolds == Spec => []NeverPulledAway
<1>1. IInv => NeverPulledAway
  BY DEF IInv
<1> QED
  BY <1>1, LifecycleInvariant, PTL

(* The model is never loaded twice, nor by two threads at a time.          *)
THEOREM LoadsOnlyOnceHolds == Spec => []LoadsOnlyOnce
<1>1. IInv => LoadsOnlyOnce
  BY DEF IInv
<1> QED
  BY <1>1, LifecycleInvariant, PTL

(* A deferred unload always has a transcription that will run it.          *)
THEOREM DeferredUnloadOwned == Spec => []DeferredUnloadHasAnOwner
<1>1. IInv => DeferredUnloadHasAnOwner
  BY UsersFinite, FS_EmptySet DEF IInv, Counted, PendingIsOwned, DeferredUnloadHasAnOwner
<1> QED
  BY <1>1, LifecycleInvariant, PTL

-----------------------------------------------------------------------------
(***************************************************************************)
(* The refinement: users of the model are borrowers of a resource.  In the *)
(* abstract specification there is no counter; that _in_flight is one less *)
(* than one exactly when the last borrower returns is Counted.             *)
(***************************************************************************)
LEMMA InitImplements == IInv /\ Init => Promise!Init
  BY DEF Init, Promise!Init, Users, Inside, Using, Threads

(* What a step of a thread from one place to another does to the borrowers.*)
LEMMA MoveMoves ==
  ASSUME TypeOK, NEW t \in Threads, NEW step, Goes(t, step)
  PROVE  /\ t \notin Workers => Users' = Users /\ Inside' = Inside
         /\ t \in Workers =>
              /\ Users' = IF step \in Using THEN Users \union {t} ELSE Users \ {t}
              /\ Inside' = IF step \in {"call", "retry"} THEN Inside \union {t}
                                                        ELSE Inside \ {t}
  BY DEF TypeOK, Goes, Users, Inside, Threads

LEMMA WorkerImplements ==
  ASSUME IInv, NEW w \in Workers, Begins(w) \/ WorkerStep(w)
  PROVE  Promise!Next \/ UNCHANGED Promise!vars
<1> USE DEF IInv
<1>0. /\ w \in Threads /\ w # Preloader
      /\ w \in Users <=> pc[w] \in Using
      /\ w \in Inside <=> pc[w] \in {"call", "retry"}
  BY ThreadsAssumption DEF Threads, Users, Inside
<1>1. CASE Begins(w)
  <2>1. Users' = Users \union {w} /\ Inside' = Inside /\ w \notin Users
    BY <1>0, <1>1, MoveMoves DEF Begins, Using
  <2>. QED BY <1>1, <2>1 DEF Begins, modelVars, Promise!Next, Promise!Borrow
<1>2. CASE Ensures(w) \/ TakesLock(w)
  <2>1. UNCHANGED <<loaded, unloadPending>> /\ w \in Users \ Inside
    BY <1>0, <1>2 DEF Ensures, TakesLock, modelVars, flagVars, Using
  <2>2. CASE Goes(w, "call") /\ loaded
    <3>1. Users' = Users /\ Inside' = Inside \union {w}
      BY <1>0, <2>1, <2>2, MoveMoves DEF Using
    <3>. QED BY <2>1, <2>2, <3>1 DEF Promise!Next, Promise!Use
  <2>3. CASE Goes(w, "lock") \/ Goes(w, "loading")
    <3>1. Users' = Users /\ Inside' = Inside
      BY <1>0, <2>1, <2>3, MoveMoves DEF Using
    <3>. QED BY <2>1, <3>1 DEF Promise!vars
  <2>. QED BY <1>0, <1>2, <2>2, <2>3 DEF Ensures, TakesLock, AfterLoad
<1>3. CASE Loads(w)
  <2>1. Goes(w, "call") /\ loaded' = TRUE /\ unloadPending' = unloadPending
    BY <1>0, <1>3 DEF Loads, AfterLoad, flagVars
  <2>2. ~loaded /\ w \in Users
    BY <1>0, <1>3 DEF Loads, LoadsOnlyOnce, Using
  <2>3. Users' = Users /\ Inside' = Inside \union {w}
    BY <1>0, <2>1, <2>2, MoveMoves DEF Using
  <2>. QED BY <2>1, <2>2, <2>3 DEF Promise!Next, Promise!Load
<1>4. CASE LoadFails(w)
  <2>1. Goes(w, "finish") /\ w \in Users \ Inside
    BY <1>0, <1>4 DEF LoadFails, AfterFailure, Using
  <2>2. Users' = Users /\ Inside' = Inside
    BY <1>0, <2>1, MoveMoves DEF Using
  <2>. QED BY <1>4, <2>2 DEF LoadFails, modelVars, flagVars, Promise!vars
<1>5. CASE Calls(w)
  <2>1. UNCHANGED <<loaded, unloadPending>> /\ w \in Users /\ w \in Inside
    BY <1>0, <1>5 DEF Calls, modelVars, flagVars, Using
  <2>2. CASE Goes(w, "finish")
    <3>1. Users' = Users /\ Inside' = Inside \ {w}
      BY <1>0, <2>1, <2>2, MoveMoves DEF Using
    <3>. QED BY <2>1, <3>1 DEF Promise!Next, Promise!Stop
  <2>3. CASE Goes(w, "retry")
    <3>1. Users' = Users /\ Inside' = Inside
      BY <1>0, <2>1, <2>3, MoveMoves DEF Using
    <3>. QED BY <2>1, <3>1 DEF Promise!vars
  <2>. QED BY <1>5, <2>2, <2>3 DEF Calls
<1>6. CASE Finishes(w)
  <2>1. Users' = Users \ {w} /\ Inside' = Inside /\ w \in Users \ Inside
    BY <1>0, <1>6, MoveMoves DEF Finishes, Using
  <2>2. inFlight = 1 <=> Users' = {}
    <3>1. Cardinality(Users') = inFlight - 1 /\ IsFiniteSet(Users')
      BY <2>1, UsersFinite, FS_RemoveElement DEF Counted
    <3>. QED BY <3>1, FS_EmptySet DEF TypeOK
  <2>3. IF unloadPending /\ Users' = {} THEN loaded' = FALSE /\ unloadPending' = FALSE
                                         ELSE UNCHANGED <<loaded, unloadPending>>
    BY <1>6, <2>2 DEF Finishes
  <2>. QED BY <2>1, <2>3 DEF Promise!Next, Promise!Return
<1>. QED BY <1>1, <1>2, <1>3, <1>4, <1>5, <1>6 DEF WorkerStep, ThreadStep

LEMMA PreloaderImplements ==
  ASSUME IInv, PreloaderStep \/ Preload
  PROVE  Promise!Next \/ UNCHANGED Promise!vars
<1> USE DEF IInv
<1>0. Preloader \in Threads /\ Preloader \notin Workers
  BY ThreadsAssumption DEF Threads
<1>1. UNCHANGED <<Users, Inside>>
  <2>1. CASE UNCHANGED pc
    BY <2>1 DEF Users, Inside
  <2>2. ASSUME NEW step, Goes(Preloader, step) PROVE UNCHANGED <<Users, Inside>>
    BY <1>0, <2>2, MoveMoves
  <2>. QED BY <2>1, <2>2 DEF PreloaderStep, ThreadStep, Ensures, TakesLock, Loads, LoadFails,
                             Marks, Clears, Preload
<1>2. CASE Loads(Preloader)
  BY <1>0, <1>1, <1>2 DEF Loads, LoadsOnlyOnce, flagVars, Promise!Next, Promise!Load
<1>3. CASE Preload
  BY <1>1, <1>3 DEF Preload, modelVars, Promise!Next, Promise!Keep
<1>4. CASE PreloaderStep /\ ~Loads(Preloader)
  BY <1>1, <1>4 DEF PreloaderStep, ThreadStep, Ensures, TakesLock, LoadFails, Marks, Clears,
                    modelVars, flagVars, Promise!vars
<1>. QED BY <1>2, <1>3, <1>4

LEMMA OthersImplement ==
  ASSUME IInv,
         \/ Unload \/ CheckIdle \/ TimePasses
         \/ PrefetchToDisk \/ Fetches \/ FetchFlags \/ CheckModelDownload
         \/ UNCHANGED vars
  PROVE  Promise!Next \/ UNCHANGED Promise!vars
<1> USE DEF IInv
<1>1. UNCHANGED pc
  BY DEF Unload, CheckIdle, TimePasses, PrefetchToDisk, Fetches, FetchFlags, CheckModelDownload,
         vars, threadVars
<1>2. UNCHANGED <<Users, Inside>>
  BY <1>1 DEF Users, Inside
<1>3. inFlight = 0 <=> Users = {}
  BY UsersFinite, FS_EmptySet DEF Counted
<1>4. CASE Unload
  BY <1>2, <1>3, <1>4 DEF Unload, UnloadNow, TypeOK, Promise!Next, Promise!Ask, Promise!Free
<1>5. CASE CheckIdle
  BY <1>2, <1>3, <1>5 DEF CheckIdle, UnloadNow, flagVars, Promise!Next, Promise!Free
<1>6. CASE ~Unload /\ ~CheckIdle
  BY <1>2, <1>6 DEF TimePasses, PrefetchToDisk, Fetches, FetchFlags, CheckModelDownload,
                    vars, modelVars, flagVars, Promise!vars
<1>. QED BY <1>4, <1>5, <1>6

(* The lifecycle implements ModelMemory: the model is never loaded twice,  *)
(* used without being there or freed while it is borrowed, and an unload   *)
(* that came too early is carried out by the last transcription.           *)
THEOREM LifecycleImplementsModelMemory == Spec => ImplementsModelMemory
<1>1. Init => Promise!Init
  BY InitInductive, InitImplements
<1>2. IInv /\ [Next]_vars => [Promise!Next]_(Promise!vars)
  BY WorkerImplements, PreloaderImplements, OthersImplement DEF Next
<1>. QED BY <1>1, <1>2, LifecycleInvariant, PTL DEF Spec, Promise!Spec, ImplementsModelMemory

-----------------------------------------------------------------------------
(***************************************************************************)
(* What the liveness properties rest on.  That a thread runs on is the     *)
(* fairness of the specification; that there is always something to run on *)
(* is an invariant: a lock that is held has a holder that will release it, *)
(* "Loading" is shown only while the background thread has work left, the  *)
(* success of a download is announced or the daemon still waits for it,    *)
(* and whenever a model is left in memory its idle clock runs.             *)
(***************************************************************************)
LockHasALoader == \A t \in Threads : pc[t] = "loading" <=> loadLock = t

LoadingHasAThread == isLoading <=> pc[Preloader] # "idle"

Fetched == fetch.step \in {"fetched", "failed"}

FetchIsFollowed ==
  /\ fetch.step = "none" => ~fetch.awaiting
  /\ fetch.step = "fetching" \/ fetch.downloading => fetch.awaiting
  /\ fetch.step = "fetching" => fetch.downloading
  /\ Fetched /\ ~fetch.downloading => fetch.ok = (fetch.step = "fetched")
  /\ Fetched /\ ~fetch.awaiting => fetch.announced = (fetch.step = "fetched")

ClockIsStarted ==
  loaded /\ lastActivity = Never => Users # {} \/ pc[Preloader] = "mark"

HopeInv == LockHasALoader /\ LoadingHasAThread /\ FetchIsFollowed /\ ClockIsStarted

(* The steps of one thread.                                                *)
LEMMA ThreadKeepsHope ==
  ASSUME IInv, HopeInv, NEW t \in Threads, ThreadStep(t)
  PROVE  HopeInv'
<1> USE DEF IInv, HopeInv
<1>0. /\ Preloader \in Threads /\ Preloader \notin Workers
      /\ Nobody \notin Threads /\ (t = Preloader \/ t \in Workers)
      /\ pc \in [Threads -> Step]
  BY ThreadsAssumption DEF Threads, TypeOK
<1>1. UNCHANGED <<isLoading, fetch, lastActivity>>
  BY DEF ThreadStep, Ensures, TakesLock, Loads, LoadFails, modelVars, flagVars
<1>2. PICK step \in {"mark", "call", "lock", "loading", "clear", "finish"} :
         /\ Goes(t, step)
         /\ step \in {"mark", "clear"} => t = Preloader
         /\ step \in {"call", "finish"} => t # Preloader
  BY DEF ThreadStep, Ensures, TakesLock, Loads, LoadFails, AfterLoad, AfterFailure
<1>3. pc[t] \in {"ensure", "lock", "loading"}
  BY DEF ThreadStep, Ensures, TakesLock, Loads, LoadFails
<1>4. LockHasALoader'
  <2>1. CASE Ensures(t)
    BY <1>0, <2>1 DEF Ensures, Goes, AfterLoad, LockHasALoader
  <2>2. CASE TakesLock(t)
    BY <1>0, <2>2 DEF TakesLock, Goes, AfterLoad, LockHasALoader
  <2>3. CASE Loads(t) \/ LoadFails(t)
    BY <1>0, <2>3 DEF Loads, LoadFails, Goes, AfterLoad, AfterFailure, LockHasALoader
  <2>. QED BY <2>1, <2>2, <2>3 DEF ThreadStep
<1>5. LoadingHasAThread'
  BY <1>0, <1>1, <1>2, <1>3 DEF Goes, LoadingHasAThread
<1>6. FetchIsFollowed'
  BY <1>1 DEF FetchIsFollowed, Fetched
<1>7. ClockIsStarted'
  <2>1. CASE t \in Workers
    <3>1. t \in Users'
      BY <1>0, <1>2, <2>1, MoveMoves DEF Using
    <3>. QED BY <3>1 DEF ClockIsStarted
  <2>2. CASE t = Preloader
    <3>1. Users' = Users
      BY <1>0, <1>2, <2>2, MoveMoves
    <3>2. CASE Loads(t)
      BY <1>0, <2>2, <3>2 DEF Loads, AfterLoad, Goes, ClockIsStarted
    <3>3. CASE ~Loads(t)
      <4>1. loaded' = loaded
        BY <3>3 DEF ThreadStep, Ensures, TakesLock, LoadFails, modelVars
      <4>. QED BY <1>1, <1>3, <2>2, <3>1, <4>1 DEF ClockIsStarted
    <3>. QED BY <3>2, <3>3
  <2>. QED BY <1>0, <2>1, <2>2
<1>. QED BY <1>4, <1>5, <1>6, <1>7

LEMMA WorkerKeepsHope ==
  ASSUME IInv, HopeInv, NEW w \in Workers, Begins(w) \/ Calls(w) \/ Finishes(w)
  PROVE  HopeInv'
<1> USE DEF IInv, HopeInv
<1>0. /\ w \in Threads /\ Preloader \in Threads /\ w # Preloader /\ pc \in [Threads -> Step]
  BY ThreadsAssumption DEF Threads, TypeOK
<1>1. PICK step \in {"ensure", "finish", "retry", "idle"} :
        Goes(w, step) /\ (step = "idle" <=> Finishes(w))
  BY DEF Begins, Calls, Finishes
<1>2. pc[w] \in {"idle", "call", "retry", "finish"} /\ UNCHANGED <<isLoading, loadLock, fetch>>
  BY DEF Begins, Calls, Finishes, flagVars
<1>3. LockHasALoader' /\ LoadingHasAThread'
  BY <1>0, <1>1, <1>2 DEF Goes, LockHasALoader, LoadingHasAThread
<1>4. FetchIsFollowed'
  BY <1>2 DEF FetchIsFollowed, Fetched
<1>5. ClockIsStarted'
  <2>1. CASE Finishes(w)
    BY <2>1 DEF Finishes, ClockIsStarted, Never
  <2>2. CASE ~Finishes(w)
    <3>1. w \in Users'
      BY <1>0, <1>1, <2>2, MoveMoves DEF Using
    <3>. QED BY <3>1 DEF ClockIsStarted
  <2>. QED BY <2>1, <2>2
<1>. QED BY <1>3, <1>4, <1>5

LEMMA PreloadKeepsHope ==
  ASSUME IInv, HopeInv, Preload \/ Marks \/ Clears
  PROVE  HopeInv'
<1> USE DEF IInv, HopeInv
<1>0. /\ Preloader \in Threads /\ Preloader \notin Workers /\ pc \in [Threads -> Step]
  BY ThreadsAssumption DEF Threads, TypeOK
<1>1. UNCHANGED <<loaded, loadLock, fetch>>
  BY DEF Preload, Marks, Clears, modelVars
<1>2. CASE Preload
  <2>1. CASE isLoading \/ loaded
    BY <1>1, <1>2, <2>1
       DEF Preload, modelVars, LockHasALoader, LoadingHasAThread, FetchIsFollowed, Fetched,
           ClockIsStarted, Users
  <2>2. CASE ~isLoading /\ ~loaded
    <3>1. Goes(Preloader, "ensure") /\ isLoading' = TRUE /\ pc[Preloader] = "idle"
      BY <1>2, <2>2 DEF Preload, LoadingHasAThread
    <3>2. LockHasALoader' /\ LoadingHasAThread'
      BY <1>0, <1>1, <3>1 DEF Goes, LockHasALoader, LoadingHasAThread
    <3>. QED BY <1>1, <2>2, <3>2 DEF FetchIsFollowed, Fetched, ClockIsStarted
  <2>. QED BY <2>1, <2>2
<1>3. CASE Marks
  <2>1. Goes(Preloader, "clear") /\ isLoading' = isLoading /\ pc[Preloader] = "mark"
    BY <1>3 DEF Marks, flagVars
  <2>2. LockHasALoader' /\ LoadingHasAThread'
    BY <1>0, <1>1, <2>1 DEF Goes, LockHasALoader, LoadingHasAThread
  <2>3. lastActivity' # Never
    BY <1>3 DEF Marks, Never
  <2>. QED BY <1>1, <2>2, <2>3 DEF FetchIsFollowed, Fetched, ClockIsStarted
<1>4. CASE Clears
  <2>1. /\ Goes(Preloader, "idle") /\ isLoading' = FALSE /\ pc[Preloader] = "clear"
        /\ lastActivity' = lastActivity
    BY <1>4 DEF Clears, modelVars
  <2>2. LockHasALoader' /\ LoadingHasAThread'
    BY <1>0, <1>1, <2>1 DEF Goes, LockHasALoader, LoadingHasAThread
  <2>3. Users' = Users
    BY <1>0, <2>1, MoveMoves
  <2>. QED BY <1>1, <2>1, <2>2, <2>3 DEF FetchIsFollowed, Fetched, ClockIsStarted
<1>. QED BY <1>2, <1>3, <1>4

LEMMA OthersKeepHope ==
  ASSUME IInv, HopeInv,
         \/ Unload \/ CheckIdle \/ TimePasses
         \/ PrefetchToDisk \/ Fetches \/ FetchFlags \/ CheckModelDownload
         \/ UNCHANGED vars
  PROVE  HopeInv'
<1> USE DEF IInv, HopeInv
<1>1. UNCHANGED <<pc, loadLock, isLoading>>
  BY DEF Unload, CheckIdle, TimePasses, PrefetchToDisk, Fetches, FetchFlags, CheckModelDownload,
         vars, threadVars, flagVars
<1>2. LockHasALoader' /\ LoadingHasAThread' /\ Users' = Users
  BY <1>1 DEF LockHasALoader, LoadingHasAThread, Users
<1>3. FetchIsFollowed'
  <2>1. CASE UNCHANGED fetch
    BY <2>1 DEF FetchIsFollowed, Fetched
  <2>2. CASE PrefetchToDisk \/ Fetches \/ FetchFlags \/ CheckModelDownload
    BY <2>2 DEF PrefetchToDisk, Fetches, FetchFlags, CheckModelDownload, FetchIsFollowed,
                Fetched, TypeOK
  <2>. QED BY <2>1, <2>2 DEF Unload, CheckIdle, TimePasses, vars
<1>4. ClockIsStarted'
  <2>1. CASE Unload \/ CheckIdle
    BY <1>1, <1>2, <2>1 DEF Unload, CheckIdle, UnloadNow, ClockIsStarted
  <2>2. CASE TimePasses
    <3>1. lastActivity' = Never => lastActivity = Never
      BY <2>2, ThreadsAssumption DEF TimePasses, Older, TypeOK, Age, Never
    <3>. QED BY <1>1, <1>2, <2>2, <3>1 DEF TimePasses, ClockIsStarted
  <2>3. CASE UNCHANGED <<loaded, lastActivity>>
    BY <1>1, <1>2, <2>3 DEF ClockIsStarted
  <2>. QED BY <2>1, <2>2, <2>3 DEF PrefetchToDisk, Fetches, FetchFlags, CheckModelDownload,
                                   vars, modelVars
<1>. QED BY <1>2, <1>3, <1>4

LEMMA HopeInvariant == Spec => []HopeInv
<1>1. Init => HopeInv
  <2> SUFFICES ASSUME Init PROVE HopeInv
    OBVIOUS
  <2>1. Nobody \notin Threads /\ Preloader \in Threads
    BY ThreadsAssumption DEF Threads
  <2>. QED BY <2>1 DEF Init, HopeInv, LockHasALoader, LoadingHasAThread, FetchIsFollowed,
                       Fetched, ClockIsStarted, NoFetch
<1>2. IInv /\ HopeInv /\ [Next]_vars => HopeInv'
  <2> SUFFICES ASSUME IInv, HopeInv, [Next]_vars PROVE HopeInv'
    OBVIOUS
  <2>1. ASSUME NEW w \in Workers, Begins(w) \/ WorkerStep(w) PROVE HopeInv'
    BY <2>1, ThreadKeepsHope, WorkerKeepsHope DEF WorkerStep, Threads
  <2>2. CASE PreloaderStep \/ Preload
    BY <2>2, ThreadKeepsHope, PreloadKeepsHope DEF PreloaderStep, Threads
  <2>. QED BY <2>1, <2>2, OthersKeepHope DEF Next
<1>. QED BY <1>1, <1>2, LifecycleInvariant, PTL DEF Spec

(* Nobody waits for something that no thread will bring about: _load_lock  *)
(* is held only by a thread that is loading, the loading state lasts only  *)
(* as long as the background thread, and a finished download is announced  *)
(* unless the daemon's poll is still to look.  The safety behind WorkEnds. *)
SomebodyWillDoIt ==
  /\ loadLock # Nobody => pc[loadLock] = "loading"
  /\ isLoading => pc[Preloader] # "idle"
  /\ fetch.step = "fetched" => fetch.awaiting \/ fetch.announced

THEOREM NobodyWaitsInVain == Spec => []SomebodyWillDoIt
<1>1. IInv /\ HopeInv => SomebodyWillDoIt
  BY DEF IInv, TypeOK, HopeInv, LockHasALoader, LoadingHasAThread, FetchIsFollowed, Fetched,
         SomebodyWillDoIt
<1>. QED BY <1>1, LifecycleInvariant, HopeInvariant, PTL

(* A model that is left in memory with every thread at rest is being timed *)
(* by check_idle(), also when it was only preloaded.  The safety behind    *)
(* IdleModelIsFreed.                                                       *)
THEOREM TheIdleClockRuns == Spec => [](loaded /\ AtRest => lastActivity \in Age)
<1>1. IInv /\ HopeInv => (loaded /\ AtRest => lastActivity \in Age)
  <2> SUFFICES ASSUME IInv, HopeInv, loaded, AtRest PROVE lastActivity # Never
    BY DEF IInv, TypeOK
  <2>1. Users = {} /\ pc[Preloader] = "idle"
    BY DEF AtRest, Users, Using, Threads
  <2>. QED BY <2>1 DEF HopeInv, ClockIsStarted
<1>. QED BY <1>1, LifecycleInvariant, HopeInvariant, PTL

-----------------------------------------------------------------------------
(***************************************************************************)
(* Two engines beneath the lifecycle.  What is kept is, per thread, which  *)
(* places inside the composite go with which step of the lifecycle         *)
(* (Placed), and, per transcription, why it will find a model: before the  *)
(* switch the primary's, since every one of them was counted in when it    *)
(* was loaded; after it the fallback's, which the one that fails loads on  *)
(* its way and later ones find or load (Served).  Those in between are the *)
(* caught ones.                                                            *)
(***************************************************************************)
Placed ==
  \A t \in Threads :
    /\ at[t] # "out" => InCall(t)
    /\ at[t] \in {"build", "load", "run"} => fellBack
    /\ at[t] = "run" => Calling(t)

PreloaderOnlyLoads == pc[Preloader] \notin {"call", "retry", "finish"}

Served ==
  \A w \in Workers : Calling(w) =>
    IF fellBack THEN w \in caught \/ at[w] \in {"build", "load"} \/ fallback = "loaded"
                ELSE primaryLoaded

Overtaken ==
  fellBack => \A w \in Workers : at[w] \in {"primary", "failed"} => w \in caught

Before == ~fellBack => caught = {} /\ ~gaveUp

ToldOnce == toldQueue + told = IF fellBack THEN 1 ELSE 0

Books == /\ TypeOK /\ Counted /\ PendingIsOwned /\ LockHasALoader
         /\ LoadingHasAThread /\ PreloaderOnlyLoads

Answers == Served /\ Overtaken /\ Before /\ OnlyTheCaughtAreLost

FInv == FallbackTypeOK /\ Books /\ Placed /\ Answers /\ ToldOnce

-----------------------------------------------------------------------------
LEMMA FallbackInitInductive == FallbackInit => FInv
<1> SUFFICES ASSUME FallbackInit PROVE FInv
  OBVIOUS
<1>0. /\ IInv /\ Preloader \in Threads /\ Nobody \notin Threads
      /\ \A t \in Threads : pc[t] = "idle" /\ at[t] = "out"
      /\ \A w \in Workers : w \in Threads /\ result[w] = "none"
  BY InitInductive, ThreadsAssumption DEF FallbackInit, Init, Threads
<1>1. Books
  BY <1>0 DEF FallbackInit, Init, Books, IInv, LockHasALoader, LoadingHasAThread,
              PreloaderOnlyLoads
<1>2. FallbackTypeOK
  <2>1. TypeOK /\ loaded = IsLoaded
    BY <1>1 DEF FallbackInit, Init, Books, IsLoaded
  <2>2. at \in [Threads -> Place] /\ result \in [Workers -> {"none", "ok", "error", "lost"}]
    BY DEF FallbackInit, Place
  <2>3. primaryLoaded \in BOOLEAN /\ fellBack \in BOOLEAN /\ gaveUp \in BOOLEAN
    BY DEF FallbackInit
  <2>4. toldQueue \in 0 .. 1 /\ told \in 0 .. 1
    BY DEF FallbackInit
  <2>. QED BY <2>1, <2>2, <2>3, <2>4 DEF FallbackInit, FallbackTypeOK
<1>3. Placed /\ Answers /\ ToldOnce
  BY <1>0 DEF FallbackInit, Placed, Answers, Served, Overtaken, Before, OnlyTheCaughtAreLost,
              ToldOnce, Calling
<1>. QED BY <1>1, <1>2, <1>3 DEF FInv

-----------------------------------------------------------------------------
(* What a step inside the composite does to the lifecycle's own state: it  *)
(* is within the call, or it ends it.                                      *)
LEMMA EngineMoves ==
  ASSUME FInv, NEW t \in Threads, EngineStep(t)
  PROVE  /\ InCall(t) /\ UNCHANGED booksVars
         /\ \/ UNCHANGED threadVars
            \/ \E step \in {"mark", "clear", "call", "retry", "finish"} :
                 /\ Goes(t, step)
                 /\ step \in {"mark", "clear"} <=> t = Preloader
                 /\ step = "retry" => Calling(t)
                 /\ loadLock' = IF pc[t] = "loading" THEN Nobody ELSE loadLock
<1> USE DEF FInv
<1>1. InCall(t)
  BY DEF EngineStep, Enters, PrimaryLoads, PrimaryRuns, PrimaryFails, Latches, Builds,
         FallbackLoads, FallbackRuns, FallbackFails, Placed
<1>2. Calling(t) => t # Preloader
  BY ThreadsAssumption DEF Calling, Books, PreloaderOnlyLoads
<1>3. ASSUME NEW place, StaysInside(t, place)
      PROVE  UNCHANGED <<booksVars, threadVars>>
  BY <1>3 DEF StaysInside
<1>4. ASSUME NEW step, NEW answer, Returns(t, step, answer)
      PROVE  /\ UNCHANGED booksVars /\ Goes(t, step)
             /\ loadLock' = IF pc[t] = "loading" THEN Nobody ELSE loadLock
  BY <1>4 DEF Returns, Goes
<1>5. CASE Enters(t) \/ PrimaryFails(t) \/ Latches(t) \/ Builds(t)
  BY <1>1, <1>3, <1>5 DEF Enters, PrimaryFails, Latches, Builds
<1>6. CASE PrimaryLoads(t)
  BY <1>1, <1>4, <1>6 DEF PrimaryLoads, AfterLoad
<1>7. CASE PrimaryRuns(t)
  BY <1>1, <1>2, <1>4, <1>7 DEF PrimaryRuns
<1>8. CASE FallbackLoads(t)
  BY <1>1, <1>3, <1>4, <1>8 DEF FallbackLoads, AfterLoad
<1>9. CASE FallbackRuns(t)
  BY <1>1, <1>2, <1>4, <1>9 DEF FallbackRuns, Placed
<1>10. CASE FallbackFails(t)
  BY <1>1, <1>2, <1>4, <1>10 DEF FallbackFails, AfterFailure, Calling
<1>. QED BY <1>5, <1>6, <1>7, <1>8, <1>9, <1>10 DEF EngineStep

LEMMA EngineKeepsBooks ==
  ASSUME FInv, NEW t \in Threads, EngineStep(t), loaded' \in BOOLEAN
  PROVE  Books'
<1> USE DEF FInv, Books
<1>0. /\ Preloader \in Threads /\ Preloader \notin Workers /\ Nobody \notin Threads
      /\ (t = Preloader \/ t \in Workers) /\ pc \in [Threads -> Step]
  BY ThreadsAssumption DEF Threads, TypeOK
<1>1. InCall(t) /\ UNCHANGED booksVars
  BY EngineMoves
<1>2. CASE UNCHANGED threadVars
  <2>1. Counted' /\ PendingIsOwned' /\ LockHasALoader' /\ LoadingHasAThread'
        /\ PreloaderOnlyLoads'
    BY <1>1, <1>2, IdleMoveKeepsCount
       DEF threadVars, booksVars, flagVars, PendingIsOwned, LockHasALoader, LoadingHasAThread,
           PreloaderOnlyLoads
  <2>2. TypeOK'
    BY <1>1, <1>2 DEF threadVars, booksVars, flagVars, TypeOK
  <2>. QED BY <2>1, <2>2
<1>3. ASSUME NEW step \in {"mark", "clear", "call", "retry", "finish"}, Goes(t, step),
             step \in {"mark", "clear"} <=> t = Preloader,
             loadLock' = IF pc[t] = "loading" THEN Nobody ELSE loadLock
      PROVE  Books'
  <2>1. Counted' /\ pc' \in [Threads -> Step]
    BY <1>0, <1>1, <1>3, MoveKeepsCount DEF InCall, Using, Step, booksVars, flagVars
  <2>2. TypeOK' /\ PendingIsOwned'
    BY <1>1, <1>3, <2>1 DEF TypeOK, PendingIsOwned, booksVars, flagVars
  <2>3. LockHasALoader'
    BY <1>0, <1>3 DEF Goes, LockHasALoader
  <2>4. LoadingHasAThread' /\ PreloaderOnlyLoads'
    BY <1>0, <1>1, <1>3 DEF InCall, Goes, LoadingHasAThread, PreloaderOnlyLoads, booksVars,
                            flagVars
  <2>. QED BY <2>1, <2>2, <2>3, <2>4
<1>. QED BY <1>2, <1>3, EngineMoves

(* What it does to the composite's own state.                              *)
LEMMA EngineKeepsTypes ==
  ASSUME FInv, NEW t \in Threads, EngineStep(t)
  PROVE  FallbackTypeOK' /\ Books'
<1> USE DEF FInv, FallbackTypeOK
<1>1. /\ primaryLoaded' \in BOOLEAN /\ fellBack' \in BOOLEAN
      /\ fallback' \in {"none", "built", "loaded"} /\ caught' \subseteq Workers
  BY DEF EngineStep, Enters, PrimaryLoads, PrimaryRuns, PrimaryFails, Latches, Builds, Built,
         FallbackLoads, FallbackRuns, FallbackFails, Returns, StaysInside, switchVars, engineVars,
         Caught
<1>2. toldQueue' \in 0 .. 1 /\ told' \in 0 .. 1
  <2>1. CASE UNCHANGED <<toldQueue, told>>
    BY <2>1
  <2>2. CASE Latches(t)
    <3>1. CASE fellBack
      BY <2>2, <3>1 DEF Latches
    <3>2. CASE ~fellBack
      <4>1. toldQueue = 0 /\ toldQueue' = toldQueue + 1 /\ told' = told
        BY <2>2, <3>2 DEF Latches, ToldOnce
      <4>. QED BY <4>1
    <3>. QED BY <3>1, <3>2
  <2>. QED BY <2>1, <2>2 DEF EngineStep, Enters, PrimaryLoads, PrimaryRuns, PrimaryFails, Builds,
                             FallbackLoads, FallbackRuns, FallbackFails, Returns, switchVars
<1>3. ASSUME NEW place \in Place, StaysInside(t, place)
      PROVE  /\ at' \in [Threads -> Place] /\ gaveUp' \in BOOLEAN
             /\ result' \in [Workers -> {"none", "ok", "error", "lost"}]
  BY <1>3 DEF StaysInside, Moves
<1>4. ASSUME NEW step, NEW answer \in {"none", "ok", "error", "lost"}, Returns(t, step, answer)
      PROVE  /\ at' \in [Threads -> Place] /\ gaveUp' \in BOOLEAN
             /\ result' \in [Workers -> {"none", "ok", "error", "lost"}]
  <2>1. at' \in [Threads -> Place]
    BY <1>4 DEF Returns, Moves, Place
  <2>2. gaveUp' \in BOOLEAN
    BY <1>4 DEF Returns
  <2>3. result' \in [Workers -> {"none", "ok", "error", "lost"}]
    BY <1>4 DEF Returns
  <2>. QED BY <2>1, <2>2, <2>3
<1>5. /\ at' \in [Threads -> Place] /\ gaveUp' \in BOOLEAN
      /\ result' \in [Workers -> {"none", "ok", "error", "lost"}]
  <2>1. CASE Enters(t) \/ PrimaryFails(t) \/ Latches(t) \/ Builds(t)
    BY <1>3, <2>1 DEF Enters, PrimaryFails, Latches, Builds, Place
  <2>2. CASE PrimaryLoads(t) \/ PrimaryRuns(t) \/ FallbackRuns(t) \/ FallbackFails(t)
    BY <1>4, <2>2 DEF PrimaryLoads, PrimaryRuns, FallbackRuns, FallbackFails
  <2>3. CASE FallbackLoads(t)
    BY <1>3, <1>4, <2>3 DEF FallbackLoads, Place
  <2>. QED BY <2>1, <2>2, <2>3 DEF EngineStep
<1>6. loaded' = IsLoaded' /\ loaded' \in BOOLEAN
  BY <1>1 DEF EngineStep, IsLoaded
<1>7. Books'
  BY <1>6, EngineKeepsBooks
<1>. QED BY <1>1, <1>2, <1>5, <1>6, <1>7 DEF Books

LEMMA EngineKeepsPlaces ==
  ASSUME FInv, NEW t \in Threads, EngineStep(t)
  PROVE  Placed'
<1> USE DEF FInv, FallbackTypeOK
<1>0. at \in [Threads -> Place] /\ pc \in [Threads -> Step] /\ (fellBack => fellBack')
  <2>1. fellBack' # fellBack => Latches(t)
    BY DEF EngineStep, Enters, PrimaryLoads, PrimaryRuns, PrimaryFails, Builds,
           FallbackLoads, FallbackRuns, FallbackFails, engineVars
  <2>. QED BY <2>1 DEF Latches, TypeOK
<1>1. InCall(t) /\ \A u \in Threads \ {t} : pc'[u] = pc[u]
  BY <1>0, EngineMoves DEF Goes, threadVars
<1>2. ASSUME NEW place, StaysInside(t, place),
             place \in {"build", "load", "run"} => fellBack', place = "run" => Calling(t)
      PROVE  Placed'
  <2>1. \A u \in Threads : pc'[u] = pc[u] /\ at'[u] = IF u = t THEN place ELSE at[u]
    BY <1>0, <1>2 DEF StaysInside, Moves, threadVars
  <2>. QED BY <1>0, <1>1, <1>2, <2>1 DEF Placed, InCall, Calling
<1>3. ASSUME NEW step, NEW answer, Returns(t, step, answer)
      PROVE  Placed'
  <2>1. \A u \in Threads : at'[u] = IF u = t THEN "out" ELSE at[u]
    BY <1>0, <1>3 DEF Returns, Moves
  <2>. QED BY <1>0, <1>1, <2>1 DEF Placed, InCall, Calling
<1>4. CASE Enters(t)
  BY <1>2, <1>4 DEF Enters, engineVars
<1>5. CASE PrimaryFails(t)
  BY <1>2, <1>5 DEF PrimaryFails
<1>6. CASE Latches(t)
  BY <1>2, <1>6 DEF Latches
<1>7. CASE Builds(t)
  BY <1>2, <1>7 DEF Builds, Placed
<1>8. CASE FallbackLoads(t)
  BY <1>2, <1>3, <1>8 DEF FallbackLoads, Placed
<1>9. CASE PrimaryLoads(t) \/ PrimaryRuns(t) \/ FallbackRuns(t) \/ FallbackFails(t)
  BY <1>3, <1>9 DEF PrimaryLoads, PrimaryRuns, FallbackRuns, FallbackFails
<1>. QED BY <1>4, <1>5, <1>6, <1>7, <1>8, <1>9 DEF EngineStep

(* The other transcriptions find what they found before: the composite     *)
(* gains a model and loses none, but for the one that falls back.          *)
LEMMA SwitchKeepsAnswers ==
  ASSUME FInv, NEW t \in Threads, Latches(t), EngineStep(t)
  PROVE  Answers'
<1> USE DEF FInv, Answers, FallbackTypeOK
<1>0. /\ at \in [Threads -> Place] /\ (t = Preloader \/ t \in Workers)
      /\ \A w \in Workers : w \in Threads /\ w # Preloader
      /\ UNCHANGED <<pc, result, gaveUp>> /\ at[t] = "failed"
      /\ \A u \in Threads : at'[u] = IF u = t THEN "build" ELSE at[u]
  BY ThreadsAssumption DEF Threads, Latches, StaysInside, Moves, threadVars
<1>1. CASE fellBack
  <2>1. UNCHANGED engineVars /\ caught' = caught
    BY <1>1 DEF Latches, engineVars
  <2>. QED
    BY <1>0, <1>1, <2>1
    DEF engineVars, Served, Overtaken, Before, OnlyTheCaughtAreLost, Calling
<1>2. CASE ~fellBack
  <2>1. fellBack' /\ caught' = Caught(t)
    BY <1>2 DEF Latches
  <2>2. Served'
    BY <1>0, <2>1 DEF Served, Calling, Caught, Using
  <2>3. Overtaken'
    BY <1>0, <2>1 DEF Overtaken, Placed, InCall, Caught, Using
  <2>4. OnlyTheCaughtAreLost'
    BY <1>0, <1>2 DEF OnlyTheCaughtAreLost, Before
  <2>. QED BY <2>1, <2>2, <2>3, <2>4 DEF Before
<1>. QED BY <1>1, <1>2

LEMMA InsideKeepsAnswers ==
  ASSUME FInv, NEW t \in Threads, EngineStep(t),
         Enters(t) \/ PrimaryFails(t) \/ Builds(t) \/ (FallbackLoads(t) /\ Calling(t))
  PROVE  Answers'
<1> USE DEF FInv, Answers, FallbackTypeOK
<1>0. /\ at \in [Threads -> Place]
      /\ \A w \in Workers : w \in Threads /\ w # Preloader
  BY ThreadsAssumption DEF Threads
<1>1. UNCHANGED <<pc, result, gaveUp, caught, fellBack, primaryLoaded>>
  BY DEF Enters, PrimaryFails, Builds, FallbackLoads, StaysInside,
         threadVars, engineVars, switchVars
<1>2. Before' /\ OnlyTheCaughtAreLost'
  BY <1>1 DEF Before, OnlyTheCaughtAreLost
<1>3. CASE Enters(t)
  <2>1. /\ at[t] = "out" /\ UNCHANGED fallback
        /\ \A u \in Threads \ {t} : at'[u] = at[u]
        /\ fellBack => at'[t] \in {"run", "build"}
    BY <1>0, <1>3 DEF Enters, StaysInside, Moves, engineVars
  <2>. QED BY <1>0, <1>1, <1>2, <2>1 DEF Served, Overtaken, Calling
<1>4. CASE PrimaryFails(t)
  <2>1. /\ at[t] = "primary" /\ UNCHANGED fallback
        /\ \A u \in Threads : at'[u] = IF u = t THEN "failed" ELSE at[u]
    BY <1>0, <1>4 DEF PrimaryFails, StaysInside, Moves, engineVars
  <2>. QED BY <1>0, <1>1, <1>2, <2>1 DEF Served, Overtaken, Calling
<1>5. CASE Builds(t)
  <2>1. /\ at[t] = "build" /\ (fallback = "loaded" => fallback' = "loaded")
        /\ \A u \in Threads : at'[u] = IF u = t THEN "load" ELSE at[u]
    BY <1>0, <1>5 DEF Builds, Built, StaysInside, Moves
  <2>. QED BY <1>0, <1>1, <1>2, <2>1 DEF Served, Overtaken, Calling
<1>6. CASE FallbackLoads(t) /\ Calling(t)
  <2>1. /\ at[t] = "load" /\ fallback' = "loaded"
        /\ \A u \in Threads : at'[u] = IF u = t THEN "run" ELSE at[u]
    BY <1>0, <1>6 DEF FallbackLoads, StaysInside, Moves
  <2>. QED BY <1>0, <1>1, <1>2, <2>1 DEF Served, Overtaken, Calling
<1>. QED BY <1>3, <1>4, <1>5, <1>6

LEMMA ReturnKeepsAnswers ==
  ASSUME FInv, NEW t \in Threads, EngineStep(t),
         \/ PrimaryLoads(t) \/ PrimaryRuns(t) \/ FallbackRuns(t) \/ FallbackFails(t)
         \/ FallbackLoads(t) /\ ~Calling(t)
  PROVE  Answers'
<1> USE DEF FInv, Answers, FallbackTypeOK
<1>0. /\ at \in [Threads -> Place] /\ pc \in [Threads -> Step]
      /\ \A w \in Workers : w \in Threads /\ w # Preloader
      /\ result \in [Workers -> {"none", "ok", "error", "lost"}]
  BY ThreadsAssumption DEF Threads, TypeOK
<1>1. PICK step, answer : Returns(t, step, answer)
  BY DEF PrimaryLoads, PrimaryRuns, FallbackRuns, FallbackFails, FallbackLoads
<1>2. /\ UNCHANGED <<fellBack, caught>>
      /\ \A u \in Threads \ {t} : at'[u] = at[u] /\ pc'[u] = pc[u]
      /\ \A w \in Workers \ {t} : result'[w] = result[w]
      /\ at'[t] = "out"
  BY <1>0, <1>1 DEF PrimaryLoads, PrimaryRuns, FallbackRuns, FallbackFails, FallbackLoads,
                    Returns, Moves, switchVars, engineVars
<1>3. primaryLoaded => primaryLoaded'
  BY DEF PrimaryLoads, PrimaryRuns, FallbackRuns, FallbackFails, FallbackLoads, engineVars
<1>4. fallback = "loaded" => fallback' = "loaded"
  BY DEF PrimaryLoads, PrimaryRuns, FallbackRuns, FallbackFails, FallbackLoads, engineVars, Built
<1>5. Overtaken'
  BY <1>0, <1>2 DEF Overtaken
<1>6. Before'
  BY <1>1, <1>2 DEF Before, Returns, Placed
<1>7. t \in Workers /\ Calling(t)' =>
        IF fellBack THEN t \in caught \/ fallback' = "loaded" ELSE primaryLoaded'
  <2>1. CASE PrimaryLoads(t)
    BY <2>1 DEF PrimaryLoads, Overtaken
  <2>2. CASE PrimaryRuns(t)
    BY <1>0, <2>2 DEF PrimaryRuns, Returns, Calling
  <2>3. CASE FallbackRuns(t)
    BY <1>0, <2>3 DEF FallbackRuns, Returns, Calling
  <2>4. CASE FallbackFails(t)
    <3>1. fellBack
      BY <2>4 DEF FallbackFails, Placed
    <3>2. t \in Workers /\ Calling(t)' => fallback = "loaded"
      BY <1>0, <2>4, ThreadsAssumption DEF FallbackFails, AfterFailure, Returns, Calling
    <3>. QED BY <1>4, <3>1, <3>2
  <2>5. CASE FallbackLoads(t) /\ ~Calling(t)
    BY <2>5 DEF FallbackLoads, Placed
  <2>. QED BY <2>1, <2>2, <2>3, <2>4, <2>5
<1>8. Served'
  BY <1>0, <1>2, <1>3, <1>4, <1>7 DEF Served, Calling
<1>9. t \in Workers /\ result'[t] = "lost" => t \in caught
  <2>1. CASE PrimaryRuns(t)
    BY <1>0, <2>1 DEF PrimaryRuns, Returns, Served, Overtaken
  <2>2. CASE FallbackRuns(t)
    <3>1. Calling(t) /\ fellBack /\ at[t] = "run"
      BY <2>2 DEF FallbackRuns, Placed
    <3>. QED BY <1>0, <2>2, <3>1 DEF FallbackRuns, Returns, Served
  <2>3. CASE PrimaryLoads(t)
    BY <1>0, <2>3 DEF PrimaryLoads, Returns
  <2>4. CASE FallbackFails(t)
    BY <1>0, <2>4 DEF FallbackFails, Returns
  <2>5. CASE FallbackLoads(t) /\ ~Calling(t)
    BY <1>0, <2>5 DEF FallbackLoads, Returns
  <2>. QED BY <2>1, <2>2, <2>3, <2>4, <2>5
<1>10. OnlyTheCaughtAreLost'
  BY <1>2, <1>9 DEF OnlyTheCaughtAreLost
<1>. QED BY <1>5, <1>6, <1>8, <1>10

LEMMA EngineInductive ==
  ASSUME FInv, NEW t \in Threads, EngineStep(t)
  PROVE  FInv'
<1>1. Answers'
  <2>1. CASE Latches(t)
    BY <2>1, SwitchKeepsAnswers
  <2>2. CASE Enters(t) \/ PrimaryFails(t) \/ Builds(t) \/ (FallbackLoads(t) /\ Calling(t))
    BY <2>2, InsideKeepsAnswers
  <2>3. CASE \/ PrimaryLoads(t) \/ PrimaryRuns(t) \/ FallbackRuns(t) \/ FallbackFails(t)
             \/ FallbackLoads(t) /\ ~Calling(t)
    BY <2>3, ReturnKeepsAnswers
  <2>. QED BY <2>1, <2>2, <2>3 DEF EngineStep
<1>2. ToldOnce'
  <2>1. CASE Latches(t)
    <3>1. toldQueue \in Int /\ told \in Int /\ told' = told
      BY <2>1 DEF Latches, FInv, FallbackTypeOK
    <3>2. CASE fellBack
      BY <2>1, <3>1, <3>2 DEF Latches, ToldOnce, FInv
    <3>3. CASE ~fellBack
      <4>1. toldQueue + told = 0 /\ fellBack' = TRUE /\ toldQueue' = toldQueue + 1
        BY <2>1, <3>3 DEF Latches, ToldOnce, FInv
      <4>. QED BY <3>1, <4>1 DEF ToldOnce
    <3>. QED BY <3>2, <3>3
  <2>2. CASE UNCHANGED <<fellBack, toldQueue, told>>
    BY <2>2 DEF ToldOnce, FInv
  <2>. QED BY <2>1, <2>2 DEF EngineStep, Enters, PrimaryLoads, PrimaryRuns, PrimaryFails, Builds,
                 FallbackLoads, FallbackRuns, FallbackFails, Returns, switchVars, engineVars
<1>. QED BY <1>1, <1>2, EngineKeepsTypes, EngineKeepsPlaces DEF FInv

-----------------------------------------------------------------------------
(* The lifecycle's own steps, first what they do to its books.             *)
LEMMA WaitingKeepsBooks ==
  ASSUME Books, NEW t \in Threads, Ensures(t) \/ TakesLock(t)
  PROVE  Books'
<1> USE DEF Books
<1>0. /\ Preloader \in Threads /\ Preloader \notin Workers /\ Nobody \notin Threads
      /\ (t = Preloader \/ t \in Workers) /\ pc \in [Threads -> Step]
      /\ UNCHANGED <<modelVars, flagVars, fetch>>
  BY ThreadsAssumption DEF Threads, TypeOK, Ensures, TakesLock
<1>1. PICK step \in {"mark", "call", "lock", "loading"} :
        /\ Goes(t, step)
        /\ step = "mark" <=> t = Preloader /\ step \notin {"lock", "loading"}
        /\ loadLock' = IF step = "loading" THEN t ELSE loadLock
        /\ step = "loading" => loadLock = Nobody
  BY DEF Ensures, TakesLock, AfterLoad
<1>2. pc[t] \in {"ensure", "lock"}
  BY DEF Ensures, TakesLock
<1>3. Counted' /\ pc' \in [Threads -> Step]
  BY <1>0, <1>1, <1>2, MoveKeepsCount DEF Step, Using, flagVars
<1>4. TypeOK' /\ PendingIsOwned'
  BY <1>0, <1>1, <1>3 DEF TypeOK, PendingIsOwned, modelVars, flagVars
<1>5. LockHasALoader' /\ PreloaderOnlyLoads'
  BY <1>0, <1>1, <1>2 DEF Goes, LockHasALoader, PreloaderOnlyLoads
<1>6. LoadingHasAThread'
  BY <1>0, <1>1, <1>2 DEF Goes, LoadingHasAThread, flagVars
<1>. QED BY <1>3, <1>4, <1>5, <1>6

LEMMA BeginKeepsBooks ==
  ASSUME Books, NEW w \in Workers, Begins(w)
  PROVE  Books'
<1> USE DEF Books
<1>0. w \in Threads /\ w # Preloader /\ Nobody \notin Threads /\ pc \in [Threads -> Step]
  BY ThreadsAssumption DEF Threads, TypeOK
<1>1. Users' = Users \union {w} /\ w \notin Users
  BY <1>0 DEF Begins, Goes, Users, Using
<1>2. Counted'
  BY <1>1, UsersFinite, FS_AddElement DEF Counted, Begins
<1>3. TypeOK' /\ PendingIsOwned'
  <2>1. pc' \in [Threads -> Step]
    BY <1>0 DEF Begins, Goes, Step
  <2>2. inFlight' \in Nat
    <3>1. inFlight \in Nat /\ inFlight' = inFlight + 1
      BY DEF Begins, TypeOK
    <3> QED
      BY <3>1
  <2>. QED BY <2>1, <2>2 DEF Begins, TypeOK, PendingIsOwned, modelVars
<1>4. LockHasALoader' /\ LoadingHasAThread' /\ PreloaderOnlyLoads'
  BY <1>0 DEF Begins, Goes, LockHasALoader, LoadingHasAThread, PreloaderOnlyLoads
<1>. QED BY <1>2, <1>3, <1>4

LEMMA FinishKeepsBooks ==
  ASSUME Books, NEW w \in Workers, Finishes(w)
  PROVE  Books' /\ (inFlight = 1 <=> Users' = {}) /\ loaded' \in {loaded, FALSE}
<1> USE DEF Books
<1>0. w \in Threads /\ w # Preloader /\ Nobody \notin Threads /\ pc \in [Threads -> Step]
  BY ThreadsAssumption DEF Threads, TypeOK
<1>1. Users' = Users \ {w} /\ w \in Users
  BY <1>0 DEF Finishes, Goes, Users, Using
<1>2. Counted' /\ IsFiniteSet(Users')
  BY <1>1, UsersFinite, FS_RemoveElement DEF Counted, Finishes
<1>3. inFlight \in Nat /\ inFlight > 0 /\ inFlight' = inFlight - 1
  BY <1>1, UsersFinite, FS_EmptySet DEF Counted, TypeOK, Finishes
<1>4. inFlight = 1 <=> Users' = {}
  <2>1. Cardinality(Users') = inFlight'
    BY <1>2 DEF Counted
  <2>. QED BY <1>2, <1>3, <2>1, FS_EmptySet
<1>5. TypeOK'
  <2>1. inFlight' \in Nat
    BY <1>3
  <2>2. loaded' \in BOOLEAN /\ unloadPending' \in BOOLEAN
    BY DEF Finishes, TypeOK
  <2>3. lastActivity' \in Age \union {Never}
    BY ThreadsAssumption DEF Finishes, TypeOK, Age, Never
  <2>4. pc' \in [Threads -> Step]
    BY <1>0 DEF Finishes, Goes, Step
  <2>. QED BY <2>1, <2>2, <2>3, <2>4 DEF Finishes, TypeOK
<1>6. PendingIsOwned'
  <2>1. unloadPending' => inFlight # 1
    BY DEF Finishes
  <2>2. inFlight # 1 => inFlight' > 0
    BY <1>3
  <2>. QED BY <2>1, <2>2 DEF PendingIsOwned
<1>7. LockHasALoader' /\ LoadingHasAThread' /\ PreloaderOnlyLoads'
  BY <1>0 DEF Finishes, Goes, LockHasALoader, LoadingHasAThread, PreloaderOnlyLoads
<1>. QED BY <1>2, <1>4, <1>5, <1>6, <1>7 DEF Finishes

LEMMA PreloadKeepsBooks ==
  ASSUME Books, Preload \/ Marks \/ Clears
  PROVE  Books'
<1> USE DEF Books
<1>0. /\ Preloader \in Threads /\ Preloader \notin Workers /\ Nobody \notin Threads
      /\ pc \in [Threads -> Step]
  BY ThreadsAssumption DEF Threads, TypeOK
<1>1. UNCHANGED <<loaded, loadLock, inFlight, fetch>>
  BY DEF Preload, Marks, Clears, modelVars, flagVars
<1>2. /\ UNCHANGED pc \/ \E step \in {"ensure", "clear", "idle"} : Goes(Preloader, step)
      /\ UNCHANGED pc \/ pc[Preloader] # "loading"
  BY DEF Preload, Marks, Clears, LoadingHasAThread
<1>3. Counted' /\ pc' \in [Threads -> Step]
  BY <1>0, <1>1, <1>2, MoveKeepsCount, IdleMoveKeepsCount DEF Step
<1>4. TypeOK'
  <2>1. lastActivity' \in Age \union {Never}
    BY ThreadsAssumption DEF Preload, Marks, Clears, TypeOK, Age, modelVars
  <2>2. isLoading' \in BOOLEAN /\ unloadPending' \in BOOLEAN
    BY DEF Preload, Marks, Clears, TypeOK, flagVars
  <2>. QED BY <1>1, <1>3, <2>1, <2>2 DEF TypeOK
<1>5. PendingIsOwned'
  BY <1>1 DEF Preload, Marks, Clears, PendingIsOwned, flagVars
<1>6. LockHasALoader' /\ PreloaderOnlyLoads'
  BY <1>0, <1>1, <1>2 DEF Goes, LockHasALoader, PreloaderOnlyLoads
<1>7. LoadingHasAThread'
  BY <1>0 DEF Preload, Marks, Clears, Goes, LoadingHasAThread, flagVars
<1>. QED BY <1>3, <1>4, <1>5, <1>6, <1>7

LEMMA OthersKeepBooks ==
  ASSUME Books, Unload \/ CheckIdle \/ TimePasses \/ UNCHANGED vars
  PROVE  Books' /\ UNCHANGED pc
<1> USE DEF Books
<1>1. UNCHANGED <<pc, loadLock, isLoading, inFlight, fetch>>
  BY DEF Unload, CheckIdle, TimePasses, vars, threadVars, flagVars
<1>2. Counted' /\ LockHasALoader' /\ LoadingHasAThread' /\ PreloaderOnlyLoads'
  BY <1>1, IdleMoveKeepsCount DEF LockHasALoader, LoadingHasAThread, PreloaderOnlyLoads
<1>3. PendingIsOwned'
  BY <1>1 DEF Unload, CheckIdle, TimePasses, vars, flagVars, PendingIsOwned
<1>4. TypeOK'
  <2>1. lastActivity' \in Age \union {Never}
    <3>1. CASE Unload \/ CheckIdle \/ UNCHANGED vars
      BY <3>1 DEF Unload, CheckIdle, UnloadNow, vars, modelVars, TypeOK
    <3>2. CASE TimePasses
      BY <3>2, ThreadsAssumption DEF TimePasses, Older, TypeOK, Age, Never
    <3>. QED BY <3>1, <3>2
  <2>2. loaded' \in BOOLEAN /\ unloadPending' \in BOOLEAN
    BY DEF Unload, CheckIdle, UnloadNow, TimePasses, vars, modelVars, flagVars, TypeOK
  <2>. QED BY <1>1, <2>1, <2>2 DEF TypeOK
<1>. QED BY <1>1, <1>2, <1>3, <1>4

(* A step of the lifecycle that leaves both engines alone.  Whoever enters *)
(* a call finds the model that the lifecycle says is loaded.               *)
LEMMA SameKeepsEngines ==
  ASSUME FInv, Books', Same, loaded' = loaded,
         \A t \in Threads :
           \/ pc'[t] = pc[t]
           \/ ~InCall(t) /\ (pc'[t] = "call" => loaded) /\ pc'[t] # "retry"
           \/ at[t] = "out" /\ pc'[t] \notin {"call", "retry"}
  PROVE  FInv'
<1> USE DEF FInv, Books, Answers, FallbackTypeOK
<1>0. /\ UNCHANGED <<primaryLoaded, fellBack, fallback, at, result, gaveUp,
                       toldQueue, told, caught>>
      /\ \A w \in Workers : w \in Threads
  BY DEF Same, engineVars, callVars, switchVars, Threads
<1>1. FallbackTypeOK'
  BY <1>0 DEF IsLoaded
<1>2. Placed'
  BY <1>0 DEF Placed, InCall, Calling
<1>3. Served'
  BY <1>0 DEF Served, Calling, InCall, IsLoaded
<1>4. Overtaken' /\ Before' /\ OnlyTheCaughtAreLost' /\ ToldOnce'
  BY <1>0 DEF Overtaken, Before, OnlyTheCaughtAreLost, ToldOnce
<1>. QED BY <1>1, <1>2, <1>3, <1>4

(* A step that frees the engine in use while nobody is in a call.          *)
LEMMA FreeingKeepsEngines ==
  ASSUME FInv, Books', UnloadModel, loaded' = FALSE,
         \A w \in Workers : pc'[w] \notin Using,
         \A t \in Threads : pc'[t] = pc[t] \/ at[t] = "out"
  PROVE  FInv'
<1> USE DEF FInv, Books, Answers, FallbackTypeOK
<1>0. /\ UNCHANGED <<fellBack, at, result, gaveUp, toldQueue, told, caught>>
      /\ \A w \in Workers : w \in Threads
      /\ \A w \in Workers : pc'[w] \notin {"call", "retry"}
  BY DEF UnloadModel, callVars, switchVars, Threads, Using
<1>1. FallbackTypeOK'
  <2>1. primaryLoaded' \in BOOLEAN /\ fallback' \in {"none", "built", "loaded"}
    BY DEF UnloadModel
  <2>2. loaded' = IsLoaded'
    <3>1. IF fellBack THEN fallback' # "loaded" ELSE primaryLoaded' = FALSE
      BY DEF UnloadModel
    <3>. QED BY <1>0, <3>1 DEF IsLoaded
  <2>. QED BY <1>0, <2>1, <2>2
<1>2. Placed'
  BY <1>0 DEF Placed, InCall, Calling
<1>3. Served'
  BY <1>0 DEF Served, Calling
<1>4. Overtaken' /\ Before' /\ OnlyTheCaughtAreLost' /\ ToldOnce'
  BY <1>0 DEF Overtaken, Before, OnlyTheCaughtAreLost, ToldOnce
<1>. QED BY <1>1, <1>2, <1>3, <1>4

LEMMA WaitingInductive ==
  ASSUME FInv, NEW t \in Threads, LifecycleStep(t)
  PROVE  FInv'
<1>1. Books'
  BY WaitingKeepsBooks DEF LifecycleStep, FInv
<1>2. pc \in [Threads -> Step] /\ loaded' = loaded
  BY DEF FInv, Books, TypeOK, LifecycleStep, Ensures, TakesLock, modelVars
<1>3. /\ ~InCall(t) /\ (pc'[t] = "call" => loaded) /\ pc'[t] # "retry"
      /\ \A u \in Threads \ {t} : pc'[u] = pc[u]
  BY <1>2 DEF LifecycleStep, Ensures, TakesLock, Goes, AfterLoad, InCall
<1>. QED BY <1>1, <1>2, <1>3, SameKeepsEngines DEF LifecycleStep

LEMMA BeginsCallInductive ==
  ASSUME FInv, NEW w \in Workers, BeginsCall(w)
  PROVE  FInv'
<1> USE DEF FInv, Answers, FallbackTypeOK
<1>0. /\ UNCHANGED <<loaded, primaryLoaded, fellBack, fallback, at, gaveUp, toldQueue, told>>
      /\ Begins(w) /\ w \in Threads /\ \A v \in Workers : v \in Threads
      /\ pc[w] = "idle" /\ \A t \in Threads : pc'[t] = IF t = w THEN "ensure" ELSE pc[t]
  BY DEF BeginsCall, Begins, Goes, Books, TypeOK, engineVars, modelVars, Threads
<1>1. Books'
  BY <1>0, BeginKeepsBooks
<1>2. /\ result' \in [Workers -> {"none", "ok", "error", "lost"}] /\ caught' = caught \ {w}
      /\ \A v \in Workers : result'[v] = IF v = w THEN "none" ELSE result[v]
  BY DEF BeginsCall
<1>3. FallbackTypeOK'
  BY <1>0, <1>1, <1>2 DEF IsLoaded, Books
<1>4. Placed'
  BY <1>0 DEF Placed, InCall, Calling
<1>5. Served' /\ Overtaken'
  BY <1>0, <1>2 DEF Served, Overtaken, Calling, Placed, InCall
<1>6. Before' /\ OnlyTheCaughtAreLost' /\ ToldOnce'
  BY <1>0, <1>2 DEF Before, OnlyTheCaughtAreLost, ToldOnce
<1>. QED BY <1>1, <1>3, <1>4, <1>5, <1>6

LEMMA FinishesCallInductive ==
  ASSUME FInv, NEW w \in Workers, FinishesCall(w)
  PROVE  FInv'
<1>0. /\ Finishes(w) /\ w \in Threads /\ pc[w] = "finish" /\ at[w] = "out"
      /\ \A t \in Threads : pc'[t] = IF t = w THEN "idle" ELSE pc[t]
  BY DEF FinishesCall, Finishes, Goes, FInv, Books, TypeOK, Threads, Placed, InCall
<1>1. Books' /\ (inFlight = 1 <=> Users' = {})
  BY <1>0, FinishKeepsBooks DEF FInv
<1>2. CASE inFlight = 1 /\ unloadPending
  <2>1. \A v \in Workers : pc'[v] \notin Using
    BY <1>1, <1>2 DEF Users
  <2>2. UnloadModel /\ loaded' = FALSE
    BY <1>2 DEF FinishesCall, Finishes
  <2>. QED BY <1>0, <1>1, <2>1, <2>2, FreeingKeepsEngines
<1>3. CASE ~(inFlight = 1 /\ unloadPending)
  <2>1. Same /\ loaded' = loaded
    BY <1>3 DEF FinishesCall, Finishes
  <2>. QED BY <1>0, <1>1, <2>1, SameKeepsEngines
<1>. QED BY <1>2, <1>3

LEMMA FreeingInductive ==
  ASSUME FInv, UnloadsEngine \/ ChecksIdleEngine
  PROVE  FInv'
<1>1. Books' /\ UNCHANGED pc
  BY OthersKeepBooks DEF UnloadsEngine, ChecksIdleEngine, FInv
<1>2. CASE inFlight > 0
  <2>1. Same /\ loaded' = loaded
    BY <1>2 DEF UnloadsEngine, Unload, ChecksIdleEngine, CheckIdle
  <2>. QED BY <1>1, <2>1, SameKeepsEngines
<1>3. CASE inFlight = 0
  <2>1. UnloadModel /\ loaded' = FALSE
    BY <1>3 DEF UnloadsEngine, Unload, ChecksIdleEngine, CheckIdle, UnloadNow
  <2>2. \A v \in Workers : pc'[v] \notin Using
    BY <1>1, <1>3, NobodyUses DEF FInv, Books
  <2>. QED BY <1>1, <2>1, <2>2, FreeingKeepsEngines
<1>. QED BY <1>2, <1>3 DEF FInv, Books, TypeOK

LEMMA RestOfFallbackInductive ==
  ASSUME FInv,
         \/ Same /\ (Preload \/ Marks \/ Clears \/ TimePasses)
         \/ CheckNotifications \/ UNCHANGED fallbackVars
  PROVE  FInv'
<1>0. /\ Preloader \in Threads /\ pc \in [Threads -> Step]
  BY DEF Threads, FInv, Books, TypeOK
<1>1. CASE Same /\ (Preload \/ Marks \/ Clears)
  <2>1. Books' /\ loaded' = loaded
    BY <1>1, PreloadKeepsBooks DEF FInv, Preload, Marks, Clears, modelVars
  <2>2. /\ \/ pc'[Preloader] = pc[Preloader]
           \/ ~InCall(Preloader) /\ pc'[Preloader] \in {"ensure", "clear", "idle"}
        /\ \A u \in Threads \ {Preloader} : pc'[u] = pc[u]
    BY <1>0, <1>1 DEF Preload, Marks, Clears, Goes, InCall, FInv, Books, LoadingHasAThread
  <2>. QED BY <1>1, <2>1, <2>2, SameKeepsEngines
<1>2. CASE (Same /\ TimePasses) \/ UNCHANGED fallbackVars
  <2>1. Books' /\ UNCHANGED pc /\ loaded' = loaded /\ Same
    BY <1>2, OthersKeepBooks DEF FInv, TimePasses, fallbackVars, Same, vars, modelVars
  <2>. QED BY <2>1, SameKeepsEngines
<1>3. CASE CheckNotifications
  <2> USE DEF FInv, Answers, FallbackTypeOK
  <2>0. UNCHANGED <<vars, primaryLoaded, fellBack, fallback, at, result, gaveUp, caught>>
    BY <1>3 DEF CheckNotifications, engineVars, callVars
  <2>1. Books' /\ UNCHANGED <<pc, loaded>>
    BY <2>0, OthersKeepBooks DEF vars, modelVars
  <2>2. toldQueue' = 0 /\ told' = told + toldQueue
    BY <1>3 DEF CheckNotifications
  <2>3. ToldOnce' /\ toldQueue' \in 0 .. 1 /\ told' \in 0 .. 1
    <3>1. toldQueue + told \in {0, 1} /\ toldQueue \in Nat /\ told \in Nat
      BY DEF ToldOnce
    <3>. QED BY <2>0, <2>2, <3>1 DEF ToldOnce
  <2>4. FallbackTypeOK'
    BY <2>0, <2>1, <2>3 DEF IsLoaded, Books
  <2>5. Placed' /\ Answers'
    BY <2>0, <2>1 DEF Placed, InCall, Calling, Served, Overtaken, Before, OnlyTheCaughtAreLost
  <2>. QED BY <2>1, <2>3, <2>4, <2>5
<1>. QED BY <1>1, <1>2, <1>3

LEMMA FallbackNextInductive == FInv /\ [FallbackNext]_fallbackVars => FInv'
<1> SUFFICES ASSUME FInv, [FallbackNext]_fallbackVars PROVE FInv'
  OBVIOUS
<1>1. ASSUME NEW w \in Workers, BeginsCall(w) \/ FinishesCall(w) PROVE FInv'
  BY <1>1, BeginsCallInductive, FinishesCallInductive
<1>2. ASSUME NEW t \in Threads, EngineStep(t) \/ LifecycleStep(t) PROVE FInv'
  BY <1>2, EngineInductive, WaitingInductive
<1>3. CASE UnloadsEngine \/ ChecksIdleEngine
  BY <1>3, FreeingInductive
<1>4. CASE \/ Same /\ (Preload \/ Marks \/ Clears \/ TimePasses)
           \/ CheckNotifications \/ UNCHANGED fallbackVars
  BY <1>4, RestOfFallbackInductive
<1>. QED BY <1>1, <1>2, <1>3, <1>4 DEF FallbackNext

(* The inductive invariant of the two engines beneath the lifecycle.       *)
THEOREM FallbackInvariant == FallbackSpec => []FInv
<1>1. FallbackInit => FInv
  BY FallbackInitInductive
<1>2. FInv /\ [FallbackNext]_fallbackVars => FInv'
  BY FallbackNextInductive
<1>. QED BY <1>1, <1>2, PTL DEF FallbackSpec

(* Every reachable state of the composite is well typed, and is_loaded is  *)
(* the answer of the engine in use.                                        *)
THEOREM FallbackTypeCorrect == FallbackSpec => []FallbackTypeOK
<1>1. FInv => FallbackTypeOK
  BY DEF FInv
<1>. QED BY <1>1, FallbackInvariant, PTL

(* A recording is lost to an engine without a model only if it was under   *)
(* way when another thread switched engines.                               *)
THEOREM OnlyTheCaughtAreLostHolds == FallbackSpec => []OnlyTheCaughtAreLost
<1>1. FInv => OnlyTheCaughtAreLost
  BY DEF FInv, Answers
<1>. QED BY <1>1, FallbackInvariant, PTL

(* However many threads fail together, exactly one notice of the switch is *)
(* owed to the user or was shown.  The safety behind SwitchIsFinal.        *)
THEOREM TheUserIsToldOnce == FallbackSpec => []ToldOnce
<1>1. FInv => ToldOnce
  BY DEF FInv
<1>. QED BY <1>1, FallbackInvariant, PTL

(* The engine that failed is not entered again once a call that gave it up *)
(* has returned, also when building its replacement failed.                *)
THEOREM TheFailedEngineIsNotRetried == FallbackSpec => NeverRetried
<1>1. ASSUME FInv, FInv', [FallbackNext]_fallbackVars
      PROVE  [\A t \in Threads : at[t] # "primary" /\ at'[t] = "primary" => ~gaveUp]_fallbackVars
  <2> SUFFICES ASSUME NEW t \in Threads, at[t] # "primary", at'[t] = "primary" PROVE ~gaveUp
    OBVIOUS
  <2>1. UNCHANGED at \/ \E u \in Threads : EngineStep(u)
    BY <1>1 DEF FallbackNext, BeginsCall, FinishesCall, UnloadsEngine, ChecksIdleEngine,
                UnloadModel, Same, LifecycleStep, CheckNotifications, callVars, fallbackVars
  <2>2. PICK u \in Threads : EngineStep(u)
    BY <2>1
  <2>3. at \in [Threads -> Place] /\ (~fellBack => ~gaveUp)
    BY <1>1 DEF FInv, FallbackTypeOK, Answers, Before
  <2>4. ASSUME NEW place, Moves(u, place), place # "primary" PROVE FALSE
    BY <2>3, <2>4 DEF Moves
  <2>5. \A step, answer : ~Returns(u, step, answer)
    BY <2>4 DEF Returns
  <2>6. Enters(u)
    BY <2>2, <2>4, <2>5 DEF EngineStep, PrimaryLoads, PrimaryRuns, PrimaryFails, Latches, Builds,
         FallbackLoads, FallbackRuns, FallbackFails, StaysInside
  <2>. QED BY <2>3, <2>4, <2>6 DEF Enters, StaysInside
<1>. QED BY <1>1, FallbackInvariant, PTL DEF FallbackSpec, NeverRetried

-----------------------------------------------------------------------------
(***************************************************************************)
(* Seen from the lifecycle the composite is one engine, except where a     *)
(* thread switches, loads the fallback in the middle of a call, or comes   *)
(* late out of a load of the primary (OutOfTurn).  So the lifecycle's own  *)
(* guarantees hold up to the switch; what is left of them after it is that *)
(* a call without a model is a caught one or on its way to loading.        *)
(***************************************************************************)
OutOfTurn(t) ==
  \/ at[t] = "failed" /\ ~fellBack /\ fellBack'
  \/ at[t] = "load" /\ Calling(t)
  \/ at[t] = "primary" /\ fellBack

LEMMA EngineActsAsLifecycle ==
  ASSUME FInv, NEW t \in Threads, EngineStep(t), ~OutOfTurn(t)
  PROVE  [Next]_vars
<1> USE DEF FInv, FallbackTypeOK
<1>0. /\ loaded = IsLoaded /\ loaded' = IsLoaded'
      /\ InCall(t) /\ (t = Preloader \/ t \in Workers)
      /\ Calling(t) => t \in Workers
  BY EngineMoves DEF EngineStep, Threads, Books, PreloaderOnlyLoads, Calling
<1>1. ASSUME UNCHANGED <<threadVars, booksVars>>, loaded' = loaded PROVE UNCHANGED vars
  BY <1>1 DEF booksVars, vars, modelVars
<1>2. ASSUME UNCHANGED booksVars, Loads(t) \/ LoadFails(t) \/ (t \in Workers /\ Calls(t))
      PROVE  Next
  BY <1>0, <1>2 DEF Next, WorkerStep, PreloaderStep, ThreadStep
<1>3. CASE Enters(t) \/ PrimaryFails(t) \/ Builds(t)
  <2>1. UNCHANGED <<threadVars, booksVars>> /\ loaded' = loaded
    BY <1>0, <1>3 DEF Enters, PrimaryFails, Builds, Built, StaysInside, engineVars, IsLoaded
  <2>. QED BY <1>1, <2>1
<1>4. CASE Latches(t)
  <2>1. fellBack
    BY <1>4 DEF Latches, OutOfTurn
  <2>2. UNCHANGED <<threadVars, booksVars>> /\ loaded' = loaded
    BY <1>0, <1>4, <2>1 DEF Latches, StaysInside, IsLoaded
  <2>. QED BY <1>1, <2>2
<1>5. CASE PrimaryLoads(t)
  <2>1. ~fellBack /\ loaded' = TRUE
    BY <1>0, <1>5 DEF PrimaryLoads, OutOfTurn, IsLoaded
  <2>2. Loads(t) /\ UNCHANGED booksVars
    BY <1>5, <2>1 DEF PrimaryLoads, Returns, Loads, Goes, booksVars, flagVars
  <2>. QED BY <1>2, <2>2
<1>6. CASE FallbackLoads(t)
  <2>1. fellBack /\ ~Calling(t) /\ pc[t] = "loading"
    BY <1>0, <1>6 DEF FallbackLoads, OutOfTurn, Placed, InCall, Calling
  <2>2. Loads(t) /\ UNCHANGED booksVars
    BY <1>0, <1>6, <2>1 DEF FallbackLoads, Returns, Loads, Goes, IsLoaded, booksVars, flagVars
  <2>. QED BY <1>2, <2>2
<1>7. CASE PrimaryRuns(t) \/ FallbackRuns(t)
  <2>1. Calling(t) /\ loaded' = loaded
    BY <1>0, <1>7 DEF PrimaryRuns, FallbackRuns, Built, Placed, IsLoaded, engineVars
  <2>2. Calls(t) /\ UNCHANGED booksVars
    BY <1>7, <2>1 DEF PrimaryRuns, FallbackRuns, Returns, Calls, Calling, Goes, booksVars,
                      modelVars, flagVars
  <2>. QED BY <1>0, <1>2, <2>1, <2>2
<1>8. CASE FallbackFails(t)
  <2>1. loaded' = loaded /\ UNCHANGED booksVars
    BY <1>0, <1>8 DEF FallbackFails, Returns, IsLoaded, engineVars
  <2>2. CASE ~Calling(t)
    <3>1. pc[t] = "loading"
      BY <1>0, <2>2 DEF InCall, Calling
    <3>2. Returns(t, AfterFailure(t), "none")
      BY <1>8, <2>2, <3>1 DEF FallbackFails
    <3>3. LoadFails(t)
      BY <2>1, <3>1, <3>2 DEF Returns, LoadFails, Goes, booksVars, modelVars, flagVars
    <3>. QED BY <1>2, <2>1, <3>3
  <2>3. CASE Calling(t)
    <3>1. Calls(t)
      BY <1>8, <2>1, <2>3 DEF FallbackFails, Returns, Calls, Calling, Goes, booksVars, modelVars,
                              flagVars
    <3>. QED BY <1>0, <1>2, <2>1, <2>3, <3>1
  <2>. QED BY <2>2, <2>3
<1>. QED BY <1>3, <1>4, <1>5, <1>6, <1>7, <1>8 DEF EngineStep

LEMMA StepsAsLifecycle ==
  ASSUME FInv, [FallbackNext]_fallbackVars
  PROVE  [Next]_vars \/ \E t \in Threads : EngineStep(t) /\ OutOfTurn(t)
<1>1. ASSUME NEW w \in Workers, BeginsCall(w) \/ FinishesCall(w) PROVE Next
  BY <1>1 DEF BeginsCall, FinishesCall, Next, WorkerStep
<1>2. ASSUME NEW t \in Threads, LifecycleStep(t) PROVE Next
  BY <1>2 DEF LifecycleStep, Next, WorkerStep, PreloaderStep, ThreadStep, Threads
<1>3. ASSUME NEW t \in Threads, EngineStep(t)
      PROVE  [Next]_vars \/ (EngineStep(t) /\ OutOfTurn(t))
  BY <1>3, EngineActsAsLifecycle
<1>4. CASE Preload \/ Marks \/ Clears \/ TimePasses \/ UnloadsEngine \/ ChecksIdleEngine
  BY <1>4 DEF UnloadsEngine, ChecksIdleEngine, Next, PreloaderStep
<1>5. CASE CheckNotifications \/ UNCHANGED fallbackVars
  BY <1>5 DEF CheckNotifications, fallbackVars
<1>. QED BY <1>1, <1>2, <1>3, <1>4, <1>5 DEF FallbackNext

(* Every step of the composite is a step of the lifecycle with one engine, *)
(* or leaves its state alone, or is one of the three named exceptions.     *)
THEOREM FallbackActsAsLifecycle ==
  FallbackSpec =>
    [][[Next]_vars \/ \E t \in Threads : EngineStep(t) /\ OutOfTurn(t)]_fallbackVars
<1>1. FInv /\ [FallbackNext]_fallbackVars =>
        [[Next]_vars \/ \E t \in Threads : EngineStep(t) /\ OutOfTurn(t)]_fallbackVars
  BY StepsAsLifecycle
<1>. QED BY <1>1, FallbackInvariant, PTL DEF FallbackSpec

(* Until the switch the lifecycle's guarantees hold as with one engine.    *)
THEOREM LifecycleUntilTheSwitch ==
  FallbackSpec => [](~fellBack => NeverPulledAway /\ LoadsOnlyOnce)
<1> DEFINE Until == ~fellBack => IInv
<1>1. FallbackInit => Until
  BY InitInductive DEF FallbackInit
<1>2. FInv /\ Until /\ [FallbackNext]_fallbackVars => Until'
  <2> SUFFICES ASSUME FInv, Until, [FallbackNext]_fallbackVars, ~fellBack' PROVE IInv'
    OBVIOUS
  <2>1. ~fellBack
    BY DEF FallbackNext, BeginsCall, FinishesCall, UnloadsEngine, ChecksIdleEngine, UnloadModel,
           Same, LifecycleStep, CheckNotifications, EngineStep, Enters, PrimaryLoads, PrimaryRuns,
           PrimaryFails, Latches, Builds, FallbackLoads, FallbackRuns, FallbackFails, engineVars,
           fallbackVars
  <2>2. ~\E t \in Threads : OutOfTurn(t)
    BY <2>1 DEF OutOfTurn, FInv, Placed
  <2>. QED BY <2>1, <2>2, StepsAsLifecycle, NextInductive
<1>3. Until => (~fellBack => NeverPulledAway /\ LoadsOnlyOnce)
  BY DEF IInv
<1> HIDE DEF Until
<1>. QED BY <1>1, <1>2, <1>3, FallbackInvariant, PTL DEF FallbackSpec

(* After it, whoever is in a call without a model is on the way to loading *)
(* the fallback, or was caught by the switch.                              *)
THEOREM NobodyElseIsWithoutAModel ==
  FallbackSpec =>
    [](\A w \in Workers : Calling(w) /\ ~loaded => w \in caught \/ at[w] \in {"build", "load"})
<1>1. FInv =>
        \A w \in Workers : Calling(w) /\ ~loaded => w \in caught \/ at[w] \in {"build", "load"}
  BY DEF FInv, FallbackTypeOK, IsLoaded, Answers, Served
<1>. QED BY <1>1, FallbackInvariant, PTL

=============================================================================
