------------------------- MODULE TranscribeLifecycle -------------------------
(***************************************************************************)
(* TranscribeLifecycle of transcribe/lifecycle.py: when the speech model   *)
(* is in memory.                                                           *)
(*                                                                         *)
(* Its callers are threads.  A worker runs one transcription at a time;    *)
(* several overlap when a cancelled dictation's worker is still busy as    *)
(* the next one starts.  The preloader is the background thread of         *)
(* preload(), the fetcher that of prefetch_to_disk().  preload(),          *)
(* unload() and check_idle() run on the GUI thread.  _load_lock serialises *)
(* loads; every section under _state_lock is one action.  Loading fails    *)
(* and the GPU runs out of memory whenever they please.                    *)
(*                                                                         *)
(* Time is kept as ages: lastActivity is how long ago _last_activity was   *)
(* set, counted up to the idle timeout.                                    *)
(***************************************************************************)
EXTENDS Integers, FiniteSets

CONSTANTS
  Workers,      \* threads that transcribe, one recording after the other
  Preloader,    \* the thread of _background_load
  Nobody,
  IdleTimeout   \* idle_timeout_s, in ticks of the clock

ASSUME ThreadsAssumption ==
  /\ Preloader \notin Workers
  /\ Nobody \notin Workers \union {Preloader}
  /\ IsFiniteSet(Workers)
  /\ IdleTimeout \in Nat \ {0}

Threads == Workers \union {Preloader}
Never   == -1                          \* _last_activity is None
Age     == 0 .. IdleTimeout

VARIABLES
  pc,             \* where each thread is
  loaded,         \* the backend's is_loaded
  loadLock,       \* the holder of _load_lock
  isLoading,      \* _is_loading
  inFlight,       \* _in_flight
  unloadPending,  \* _unload_pending
  lastActivity,   \* the age of _last_activity
  fetch           \* the first-run download and the daemon's poll for it

threadVars == <<pc, loadLock>>
modelVars  == <<loaded, lastActivity>>
flagVars   == <<isLoading, inFlight, unloadPending>>
vars       == <<threadVars, modelVars, flagVars, fetch>>

Step == {"idle", "ensure", "lock", "loading", "call", "retry", "finish", "mark", "clear"}

Using == {"ensure", "lock", "loading", "call", "retry", "finish"}

Goes(t, step) == pc' = [pc EXCEPT ![t] = step]

-----------------------------------------------------------------------------
(* _ensure_loaded(): the check, the lock, the check again, the load.       *)

AfterLoad(t)    == IF t = Preloader THEN "mark" ELSE "call"
StopsAtFailure(t) == IF t = Preloader THEN "idle" ELSE "finish"  \* fault: no finally
AfterFailure(t) == IF t = Preloader THEN "clear" ELSE "finish"

Ensures(t) ==
  /\ pc[t] = "ensure"
  /\ Goes(t, IF loaded THEN AfterLoad(t) ELSE "lock")
  /\ UNCHANGED <<loadLock, modelVars, flagVars, fetch>>

TakesLockBlindly(t) ==                 \* fault: the second check is missing
  /\ pc[t] = "lock"
  /\ loadLock = Nobody
  /\ Goes(t, "loading")
  /\ loadLock' = t
  /\ UNCHANGED <<modelVars, flagVars, fetch>>

TakesLock(t) ==
  /\ pc[t] = "lock"
  /\ loadLock = Nobody
  /\ IF loaded THEN Goes(t, AfterLoad(t)) /\ UNCHANGED loadLock
               ELSE Goes(t, "loading") /\ loadLock' = t
  /\ UNCHANGED <<modelVars, flagVars, fetch>>

Loads(t) ==
  /\ pc[t] = "loading"
  /\ loaded' = TRUE
  /\ loadLock' = Nobody
  /\ Goes(t, AfterLoad(t))
  /\ UNCHANGED <<lastActivity, flagVars, fetch>>

LoadFailsHoldingTheLock(t) ==          \* fault: not released on an exception
  pc[t] = "loading" /\ Goes(t, AfterFailure(t))
    /\ UNCHANGED <<loadLock, modelVars, flagVars, fetch>>

LoadFails(t) ==
  /\ pc[t] = "loading"
  /\ loadLock' = Nobody
  /\ Goes(t, AfterFailure(t))
  /\ UNCHANGED <<modelVars, flagVars, fetch>>

-----------------------------------------------------------------------------
(* _unload_now(), under _state_lock.                                       *)
UnloadNow ==
  /\ loaded' = FALSE
  /\ lastActivity' = IF loaded THEN Never ELSE lastActivity

(* _run_transcription(): counted from here on, and it supersedes an unload *)
(* that an earlier transcription deferred.                                 *)
Begins(w) ==
  /\ pc[w] = "idle"
  /\ Goes(w, "ensure")
  /\ inFlight' = inFlight + 1
  /\ unloadPending' = FALSE
  /\ UNCHANGED <<loadLock, modelVars, isLoading, fetch>>

(* _transcribe_resident(): out of memory is tried once more.               *)
Calls(w) ==
  /\ pc[w] \in {"call", "retry"}
  /\ \/ Goes(w, "finish")
     \/ pc[w] = "call" /\ Goes(w, "retry")
  /\ UNCHANGED <<loadLock, modelVars, flagVars, fetch>>

(* _finish_transcription(): the idle time starts anew and a deferred       *)
(* unload is run by the last one.                                          *)
FinishesForgetting(w) ==               \* fault: _unload_pending is not reset
  /\ pc[w] = "finish"
  /\ Goes(w, "idle")
  /\ inFlight' = inFlight - 1
  /\ IF inFlight = 1 /\ unloadPending
       THEN loaded' = FALSE /\ lastActivity' = IF loaded THEN Never ELSE 0
       ELSE lastActivity' = 0 /\ UNCHANGED loaded
  /\ UNCHANGED <<loadLock, isLoading, unloadPending, fetch>>

Finishes(w) ==
  /\ pc[w] = "finish"
  /\ Goes(w, "idle")
  /\ inFlight' = inFlight - 1
  /\ IF inFlight = 1 /\ unloadPending
       THEN /\ unloadPending' = FALSE
            /\ loaded' = FALSE
            /\ lastActivity' = IF loaded THEN Never ELSE 0
       ELSE /\ lastActivity' = 0
            /\ UNCHANGED <<unloadPending, loaded>>
  /\ UNCHANGED <<loadLock, isLoading, fetch>>

-----------------------------------------------------------------------------
(* preload(): the GUI thread is the only one that starts a background load.*)
Preload ==
  /\ unloadPending' = FALSE
  /\ IF isLoading \/ loaded
       THEN UNCHANGED <<isLoading, pc>>
       ELSE isLoading' = TRUE /\ Goes(Preloader, "ensure")
  /\ UNCHANGED <<loadLock, modelVars, inFlight, fetch>>

(* The rest of _background_load().                                         *)
MarkForgotten ==                       \* fault: the idle clock is not started
  pc[Preloader] = "mark" /\ Goes(Preloader, "clear")
    /\ UNCHANGED <<loadLock, modelVars, flagVars, fetch>>

Marks ==
  /\ pc[Preloader] = "mark"
  /\ lastActivity' = IF lastActivity = Never THEN 0 ELSE lastActivity
  /\ Goes(Preloader, "clear")
  /\ UNCHANGED <<loadLock, loaded, flagVars, fetch>>

Clears ==
  /\ pc[Preloader] = "clear"
  /\ isLoading' = FALSE
  /\ Goes(Preloader, "idle")
  /\ UNCHANGED <<loadLock, modelVars, inFlight, unloadPending, fetch>>

UnloadAtOnce ==                        \* fault: in-flight work is not asked
  UnloadNow /\ UNCHANGED <<threadVars, flagVars, fetch>>

Unload ==
  /\ IF inFlight > 0
       THEN unloadPending' = TRUE /\ UNCHANGED <<loaded, lastActivity>>
       ELSE UnloadNow /\ UNCHANGED unloadPending
  /\ UNCHANGED <<threadVars, isLoading, inFlight, fetch>>

CheckIdle ==
  /\ inFlight = 0
  /\ lastActivity = IdleTimeout
  /\ UnloadNow
  /\ UNCHANGED <<threadVars, flagVars, fetch>>

-----------------------------------------------------------------------------
(***************************************************************************)
(* prefetch_to_disk() on the first run, begun by                           *)
(* begin_first_run_model_fetch() of the daemon, and check_model_download() *)
(* which announces its success.  The finally block writes the outcome and  *)
(* then the flag the poll looks at.                                        *)
(***************************************************************************)
NoFetch == [step |-> "none", ok |-> FALSE, downloading |-> FALSE,
            awaiting |-> FALSE, announced |-> FALSE]

PrefetchToDisk ==
  /\ fetch.step = "none"
  /\ ~isLoading /\ ~loaded
  /\ fetch' = [fetch EXCEPT !.step = "fetching", !.downloading = TRUE, !.awaiting = TRUE]
  /\ UNCHANGED <<threadVars, modelVars, flagVars>>

Fetches ==
  /\ fetch.step = "fetching"
  /\ \E step \in {"fetched", "failed"} : fetch' = [fetch EXCEPT !.step = step]
  /\ UNCHANGED <<threadVars, modelVars, flagVars>>

FlagsCleared ==                        \* fault: the flag before the outcome
  /\ fetch.step \in {"fetched", "failed"}
  /\ IF fetch.downloading
       THEN fetch' = [fetch EXCEPT !.downloading = FALSE]
       ELSE fetch' = [fetch EXCEPT !.ok = (fetch.step = "fetched")]
  /\ UNCHANGED <<threadVars, modelVars, flagVars>>

FetchFlags ==
  /\ fetch.step \in {"fetched", "failed"} /\ fetch.downloading
  /\ IF fetch.ok # (fetch.step = "fetched")
       THEN fetch' = [fetch EXCEPT !.ok = (fetch.step = "fetched")]
       ELSE fetch' = [fetch EXCEPT !.downloading = FALSE]
  /\ UNCHANGED <<threadVars, modelVars, flagVars>>

CheckModelDownload ==
  /\ fetch.awaiting
  /\ ~fetch.downloading
  /\ fetch' = [fetch EXCEPT !.awaiting = FALSE, !.announced = fetch.ok]
  /\ UNCHANGED <<threadVars, modelVars, flagVars>>

-----------------------------------------------------------------------------
Older(age) == IF age \in 0 .. IdleTimeout - 1 THEN age + 1 ELSE age

TimePasses ==
  /\ lastActivity' = Older(lastActivity)
  /\ UNCHANGED <<threadVars, loaded, flagVars, fetch>>

Init ==
  /\ pc = [t \in Threads |-> "idle"]
  /\ loaded = FALSE
  /\ loadLock = Nobody
  /\ isLoading = FALSE
  /\ inFlight = 0
  /\ unloadPending = FALSE
  /\ lastActivity = Never
  /\ fetch = NoFetch

ThreadStep(t) == Ensures(t) \/ TakesLock(t) \/ Loads(t) \/ LoadFails(t)

WorkerStep(w) == ThreadStep(w) \/ Calls(w) \/ Finishes(w)

PreloaderStep == ThreadStep(Preloader) \/ Marks \/ Clears

Next ==
  \/ \E w \in Workers : Begins(w) \/ WorkerStep(w)
  \/ PreloaderStep
  \/ Preload \/ Unload \/ CheckIdle
  \/ PrefetchToDisk \/ Fetches \/ FetchFlags \/ CheckModelDownload
  \/ TimePasses

Spec == Init /\ [][Next]_vars

(***************************************************************************)
(* Every thread runs on, the lock is granted in the end to a thread that   *)
(* waits for it, the clock and the two timers tick.  Nothing obliges       *)
(* anybody to transcribe, preload or unload.                               *)
(***************************************************************************)
Fairness ==
  /\ \A w \in Workers : WF_vars(WorkerStep(w)) /\ SF_vars(TakesLock(w))
  /\ WF_vars(PreloaderStep) /\ SF_vars(TakesLock(Preloader))
  /\ WF_vars(CheckIdle) /\ WF_vars(TimePasses)
  /\ WF_vars(Fetches) /\ WF_vars(FetchFlags) /\ WF_vars(CheckModelDownload)

FairSpec == Spec /\ Fairness

-----------------------------------------------------------------------------
TypeOK ==
  /\ pc \in [Threads -> Step]
  /\ loadLock \in Threads \union {Nobody}
  /\ loaded \in BOOLEAN /\ isLoading \in BOOLEAN /\ unloadPending \in BOOLEAN
  /\ inFlight \in Nat
  /\ lastActivity \in Age \union {Never}
  /\ fetch \in [step : {"none", "fetching", "fetched", "failed"}, ok : BOOLEAN,
                downloading : BOOLEAN, awaiting : BOOLEAN, announced : BOOLEAN]

(* The model is never pulled out from under a transcription: whoever uses  *)
(* it finds it loaded, whatever the tray, the idle timer and the other     *)
(* workers do meanwhile (unload(), _finish_transcription).                 *)
NeverPulledAway ==
  \A w \in Workers : pc[w] \in {"call", "retry"} => loaded

(* The gigabytes are loaded once: nobody loads a model that is there, and  *)
(* no two threads load at a time (the double check of _ensure_loaded).     *)
LoadsOnlyOnce ==
  \A t \in Threads : pc[t] = "loading" => ~loaded /\ loadLock = t

(* Whatever the locks, the counter and the timers do, the model is a       *)
(* resource that is borrowed: nobody uses it without having it, nobody     *)
(* frees it while it is borrowed, and a deferred unload() is carried out   *)
(* by the last transcription to end, unless a new one or a preload()       *)
(* supersedes it.                                                          *)
Users == {w \in Workers : pc[w] \in Using}
Inside == {w \in Workers : pc[w] \in {"call", "retry"}}

Promise == INSTANCE ModelMemory WITH
  resident <- loaded, borrowers <- Users, users <- Inside, asked <- unloadPending

ImplementsModelMemory == Promise!Spec

(* An unused model gives its memory back, also when it was only preloaded  *)
(* and never used.                                                         *)
AtRest == \A t \in Threads : pc[t] = "idle"

IdleModelIsFreed == loaded /\ AtRest ~> ~loaded \/ ~AtRest

(* What begins ends: every transcription (no deadlock on the two locks, no *)
(* load that is waited for in vain), every loading state, that of a failed *)
(* load included; and a first-run download that succeeded is announced.    *)
WorkEnds ==
  /\ \A w \in Workers : pc[w] = "ensure" ~> pc[w] = "idle"
  /\ isLoading ~> ~isLoading
  /\ fetch.step = "fetched" ~> fetch.announced

=============================================================================
