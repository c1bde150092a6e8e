------------------------- MODULE FallbackTranscriber -------------------------
(***************************************************************************)
(* FallbackTranscriber of transcribe/fallback.py beneath the lifecycle:    *)
(* the Apple-GPU engine until it fails once, the CPU engine from then on.  *)
(*                                                                         *)
(* The threads, their locks and the lifecycle's actions are those of       *)
(* TranscribeLifecycle; "loaded" is what this composite reports.  In place *)
(* of the one engine's Loads, LoadFails and Calls stand the steps of a     *)
(* thread inside load_model() or transcribe() of the composite, where      *)
(* at[t] says how far it is.  Both engines answer "empty" when they are    *)
(* asked without a model, which is how a recording gets lost.              *)
(***************************************************************************)
EXTENDS TranscribeLifecycle

VARIABLES
  primaryLoaded,  \* the primary's is_loaded
  fellBack,       \* _fell_back
  fallback,       \* the fallback backend: "none", "built" or "loaded"
  at,             \* where each thread is inside the composite
  result,         \* what each worker's transcription came to
  toldQueue,      \* _pending_notifications of the daemon
  told,           \* history: notifications shown
  gaveUp,         \* history: a call whose primary failed has returned
  caught          \* history: workers in a call at another thread's switch

booksVars  == <<flagVars, lastActivity, fetch>>
engineVars == <<primaryLoaded, fellBack, fallback>>
callVars   == <<at, result, gaveUp>>
switchVars == <<toldQueue, told, caught>>
fallbackVars == <<vars, engineVars, callVars, switchVars>>

IsLoaded == IF fellBack THEN fallback = "loaded" ELSE primaryLoaded

Place == {"out", "primary", "failed", "build", "load", "run"}

InCall(t) == pc[t] \in {"loading", "call", "retry"}
Calling(t) == pc[t] \in {"call", "retry"}

Moves(t, place) == at' = [at EXCEPT ![t] = place]

(* A call of the composite returns to the lifecycle.                       *)
Returns(t, step, answer) ==
  /\ Moves(t, "out")
  /\ pc' = [pc EXCEPT ![t] = step]
  /\ loadLock' = IF pc[t] = "loading" THEN Nobody ELSE loadLock
  /\ result' = IF t \in Workers THEN [result EXCEPT ![t] = answer] ELSE result
  /\ gaveUp' = (gaveUp \/ at[t] \in {"build", "load", "run"})
  /\ UNCHANGED <<booksVars, switchVars>>

StaysInside(t, place) ==
  Moves(t, place) /\ UNCHANGED <<threadVars, booksVars, result, gaveUp>>

-----------------------------------------------------------------------------
(* load_model(), transcribe() and transcribe_command().                    *)

Enters(t) ==
  /\ InCall(t) /\ at[t] = "out"
  /\ StaysInside(t, IF ~fellBack THEN "primary"
                    ELSE IF Calling(t) THEN "run" ELSE "build")
  /\ UNCHANGED <<engineVars, switchVars>>

PrimaryLoads(t) ==
  /\ at[t] = "primary" /\ pc[t] = "loading"
  /\ primaryLoaded' = TRUE
  /\ Returns(t, AfterLoad(t), "none")
  /\ UNCHANGED <<fellBack, fallback>>

(* The engine's own thread serves one call at a time.                      *)
PrimaryRuns(t) ==
  /\ at[t] = "primary" /\ Calling(t)
  /\ Returns(t, "finish", IF primaryLoaded THEN "ok" ELSE "lost")
  /\ UNCHANGED engineVars

PrimaryFails(t) ==
  /\ at[t] = "primary"
  /\ Calling(t) => primaryLoaded
  /\ StaysInside(t, "failed")
  /\ UNCHANGED <<engineVars, switchVars>>

(* _latch(): once, before any fallback is built.  Freeing the primary may  *)
(* fail, which is only logged.                                             *)
Caught(t) == {w \in Workers \ {t} : pc[w] \in Using}

LatchesLater(t) ==                    \* fault: latched once the fallback loaded
  at[t] = "failed" /\ StaysInside(t, "build") /\ UNCHANGED <<engineVars, switchVars>>

LatchesUnlessFreeingFails(t) ==       \* fault: its exception skips the callback
  /\ at[t] = "failed"
  /\ IF fellBack
       THEN UNCHANGED <<fellBack, primaryLoaded, toldQueue, caught>>
       ELSE /\ fellBack' = TRUE
            /\ caught' = Caught(t)
            /\ \/ primaryLoaded' = FALSE /\ toldQueue' = toldQueue + 1
               \/ UNCHANGED <<primaryLoaded, toldQueue>>
  /\ StaysInside(t, "build")
  /\ UNCHANGED <<fallback, told>>

Latches(t) ==
  /\ at[t] = "failed"
  /\ IF fellBack
       THEN UNCHANGED <<fellBack, primaryLoaded, toldQueue, caught>>
       ELSE /\ fellBack' = TRUE
            /\ primaryLoaded' \in {FALSE, primaryLoaded}
            /\ toldQueue' = toldQueue + 1
            /\ caught' = Caught(t)
  /\ StaysInside(t, "build")
  /\ UNCHANGED <<fallback, told>>

(* _fallback_backend() builds it once; load_model() of the fallback.       *)
Built == IF fallback = "none" THEN "built" ELSE fallback

BuiltUnloaded(t) ==                   \* fault: the retry does not load it
  /\ at[t] = "build"
  /\ fallback' = Built
  /\ StaysInside(t, IF Calling(t) THEN "run" ELSE "load")
  /\ UNCHANGED <<primaryLoaded, fellBack, switchVars>>

Builds(t) ==
  /\ at[t] = "build"
  /\ fallback' = Built
  /\ StaysInside(t, "load")
  /\ UNCHANGED <<primaryLoaded, fellBack, switchVars>>

FallbackLoads(t) ==
  /\ at[t] = "load"
  /\ fallback' = "loaded"
  /\ IF Calling(t) THEN StaysInside(t, "run") /\ UNCHANGED switchVars
                   ELSE Returns(t, AfterLoad(t), "none")
  /\ UNCHANGED <<primaryLoaded, fellBack>>

FallbackRuns(t) ==
  /\ at[t] = "run"
  /\ fallback' = Built
  /\ Returns(t, "finish", IF fallback = "loaded" THEN "ok" ELSE "lost")
  /\ UNCHANGED <<primaryLoaded, fellBack>>

(* A fallback that fails too raises as any backend does; out of memory is  *)
(* tried once more by the lifecycle.                                       *)
FallbackFails(t) ==
  /\ at[t] \in {"build", "load", "run"}
  /\ \/ ~Calling(t) /\ Returns(t, AfterFailure(t), "none")
     \/ Calling(t) /\ Returns(t, "finish", "error")
     \/ pc[t] = "call" /\ at[t] = "run" /\ fallback = "loaded" /\ Returns(t, "retry", "none")
  /\ UNCHANGED engineVars

EngineStep(t) ==
  /\ \/ Enters(t) \/ PrimaryLoads(t) \/ PrimaryRuns(t) \/ PrimaryFails(t) \/ Latches(t)
     \/ Builds(t) \/ FallbackLoads(t) \/ FallbackRuns(t) \/ FallbackFails(t)
  /\ loaded' = IsLoaded'

-----------------------------------------------------------------------------
(* The lifecycle's own steps.  unload_model() frees the engine in use.     *)

Same == UNCHANGED <<engineVars, callVars, switchVars>>

UnloadModel ==
  /\ IF fellBack
       THEN /\ fallback' = IF fallback = "loaded" THEN "built" ELSE fallback
            /\ UNCHANGED primaryLoaded
       ELSE primaryLoaded' = FALSE /\ UNCHANGED fallback
  /\ UNCHANGED <<fellBack, callVars, switchVars>>

BeginsCall(w) ==
  /\ Begins(w)
  /\ result' = [result EXCEPT ![w] = "none"]
  /\ caught' = caught \ {w}
  /\ UNCHANGED <<engineVars, at, gaveUp, toldQueue, told>>

FinishesCall(w) ==
  /\ Finishes(w)
  /\ IF inFlight = 1 /\ unloadPending THEN UnloadModel ELSE Same

UnloadsEngine ==
  /\ Unload
  /\ IF inFlight > 0 THEN Same ELSE UnloadModel

ChecksIdleEngine == CheckIdle /\ UnloadModel

LifecycleStep(t) == Same /\ (Ensures(t) \/ TakesLock(t))

(* check_notifications() of the daemon, on the tick.                       *)
CheckNotifications ==
  /\ toldQueue > 0
  /\ toldQueue' = 0
  /\ told' = told + toldQueue
  /\ UNCHANGED <<vars, engineVars, callVars, caught>>

FallbackInit ==
  /\ Init
  /\ primaryLoaded = FALSE /\ fellBack = FALSE /\ fallback = "none"
  /\ at = [t \in Threads |-> "out"]
  /\ result = [w \in Workers |-> "none"]
  /\ toldQueue = 0 /\ told = 0 /\ caught = {} /\ gaveUp = FALSE

FallbackNext ==
  \/ \E w \in Workers : BeginsCall(w) \/ FinishesCall(w)
  \/ \E t \in Threads : EngineStep(t) \/ LifecycleStep(t)
  \/ Same /\ (Preload \/ Marks \/ Clears \/ TimePasses)
  \/ UnloadsEngine \/ ChecksIdleEngine
  \/ CheckNotifications

FallbackSpec == FallbackInit /\ [][FallbackNext]_fallbackVars

(* The tick comes again and again.                                         *)
FallbackFairSpec == FallbackSpec /\ WF_fallbackVars(CheckNotifications)

-----------------------------------------------------------------------------
FallbackTypeOK ==
  /\ TypeOK /\ loaded = IsLoaded
  /\ at \in [Threads -> Place]
  /\ result \in [Workers -> {"none", "ok", "error", "lost"}]
  /\ {primaryLoaded, fellBack, gaveUp} \subseteq BOOLEAN
  /\ fallback \in {"none", "built", "loaded"}
  /\ toldQueue \in 0 .. 1 /\ told \in 0 .. 1 /\ caught \subseteq Workers

(* The switch is final: the user is told of it, and told once, however many *)
(* threads fail at the same time; and the failed engine is not tried again, *)
(* also when building its replacement failed ("so the primary is never      *)
(* retried, even if building the fallback raises").                        *)
NeverRetried ==
  [][\A t \in Threads : at[t] # "primary" /\ at'[t] = "primary" => ~gaveUp]_fallbackVars

SwitchIsFinal == (fellBack ~> told = 1) /\ NeverRetried

(* No transcription is answered "empty" by an engine that has no model,    *)
(* except one that was under way when another thread switched engines: the *)
(* retry loads its fallback, and later calls find it loaded.               *)
OnlyTheCaughtAreLost == \A w \in Workers : result[w] = "lost" => w \in caught

=============================================================================
