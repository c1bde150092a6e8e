----------------------------- MODULE DaemonCore -----------------------------
(***************************************************************************)
(* DaemonCore of daemon.py: one dictation from the hotkey to the paste.    *)
(*                                                                         *)
(* Every handler runs to completion on the GUI thread, so each is one      *)
(* action.  The recognition of a recording, its second "confirm" pass and  *)
(* a Transform run on worker threads that post one result, tagged with the *)
(* epoch of the session that started them, to a queue which a GUI tick     *)
(* reads later.  Between the two anything may happen: Esc, a new           *)
(* recording, a change of window.                                          *)
(*                                                                         *)
(* Data is reduced to what the properties tell apart.  A text is the epoch *)
(* of the session that produced it; a window is a model value; the lease   *)
(* of the Last Paste is the flag fresh, which an action of the clock       *)
(* withdraws; the units to erase before a replacement are named by the     *)
(* text they stand for.                                                    *)
(*                                                                         *)
(* paste() returns without an error also when the system refused some of   *)
(* its keys, or kept the focus elsewhere: both are only logged.  The       *)
(* daemon cannot tell, and arms the Last Paste all the same.  Whether the  *)
(* keys of the last paste all reached its window is recorded in            *)
(* lastPaste.reached, an observer: no guard and no other value reads it.   *)
(***************************************************************************)
EXTENDS Integers, Sequences, StateMachine

CONSTANTS
  Windows,    \* the foreground targets
  NoWindow,   \* no target noted
  PreloadModel,  \* [startup] preload_model
  MaxEpoch    \* bound: a recording starts only while epoch < MaxEpoch

ASSUME ConstantsAssumption ==
  NoWindow \notin Windows /\ PreloadModel \in BOOLEAN /\ MaxEpoch \in Nat

Utterance == 1 .. MaxEpoch
NoText    == 0                      \* no text, and the empty text
Text      == Utterance \union {NoText}
NoPaste   == [text |-> NoText, window |-> NoWindow, fresh |-> FALSE,
              reached |-> FALSE]
LastPaste == [text : Utterance, window : Windows, fresh : BOOLEAN,
              reached : BOOLEAN]

(***************************************************************************)
(* What becomes of an utterance, as the daemon sees it: for "pasted",      *)
(* "replaced" (a Transform) and "repasted" (the paste command) paste()     *)
(* returned.  "held" text is kept as the Most-recent dictation without     *)
(* having been pasted; "dropped" covers everything that ends with an error *)
(* pill or a notification.                                                 *)
(***************************************************************************)
Fate == {"none", "open", "pasted", "held", "replaced", "repasted",
         "cancelled", "dropped"}

VARIABLES
  sm,                    \* the state machine
  session,               \* DictationSession
  micOpen,               \* the capture was started, and not told to stop since
  lastPaste,             \* _last_paste
  mostRecent,            \* _most_recent_dictation
  workers,               \* worker threads still running
  transcriptionQueue,    \* _transcription_queue
  transformQueue,        \* _transform_queue
  pill,                  \* what the overlay shows
  trayRecording,         \* the tray icon shows "recording"
  loadingForTranscribe,  \* _loading_for_transcribe
  preloadPillActive,     \* _preload_pill_active
  modelLoaded,           \* the lifecycle's is_loaded
  modelLoading,          \* the lifecycle's is_loading
  llmWarming,            \* _llm_warming
  llmWarm,               \* now_ms < _llm_warm_until_ms
  foreground,            \* the window that has the focus
  caret,                 \* the daemon's text before each window's caret
  fate                   \* history: what became of each utterance

legVars     == <<workers, transcriptionQueue, transformQueue>>
pillVars    == <<pill, trayRecording, loadingForTranscribe, preloadPillActive>>
modelVars   == <<modelLoaded, modelLoading, llmWarming, llmWarm>>
desktopVars == <<foreground, caret>>
coreVars    == <<sm, session, micOpen, lastPaste, mostRecent, fate>>
vars        == <<coreVars, legVars, pillVars, modelVars, desktopVars>>

Pill == {"hidden", "recording", "transcribing", "computing", "loading",
         "flash", "held"}

Session == [epoch : Nat, transcriptionOutstanding : BOOLEAN,
            transformOutstanding : BOOLEAN, pendingReplace : Text,
            anchor : Windows \union {NoWindow}, textToPaste : Text]

Worker      == [epoch : Utterance, leg : {"transcribe", "confirm", "transform"},
                erase : Text]
Heard       == [epoch : Utterance,
                kind : {"error", "empty", "speech", "confirmed", "unconfirmed"}]
Transformed == [epoch : Utterance, kind : {"ok", "failed"}, erase : Text]

-----------------------------------------------------------------------------
(* Session boundaries and the ways a handler can end.                      *)

Advanced(epoch) ==
  [epoch |-> epoch + 1, transcriptionOutstanding |-> FALSE,
   transformOutstanding |-> FALSE, pendingReplace |-> NoText,
   anchor |-> NoWindow, textToPaste |-> NoText]

Settle(e, f) == fate' = [fate EXCEPT ![e] = f]

(* Fault: the capture is not stopped.                                      *)
SessionEndsListening(e) ==
  /\ session' = Advanced(e)
  /\ lastPaste' = NoPaste
  /\ pill' = "hidden"
  /\ trayRecording' = FALSE
  /\ UNCHANGED micOpen

SessionEnds(e) ==
  /\ session' = Advanced(e)
  /\ lastPaste' = NoPaste
  /\ micOpen' = FALSE
  /\ pill' = "hidden"
  /\ trayRecording' = FALSE

(* _recover_to_idle(): every unexpected failure ends here.  e is the epoch *)
(* the session has reached.                                                *)
RecoverToIdle(e) == sm' = "IDLE" /\ SessionEnds(e)

(* _do_record_start(): the microphone opens and the foreground is noted as *)
(* the anchor; or it does not open, the session just begun is ended and    *)
(* the rest of the commands are abandoned.                                 *)
MicOpens(state) ==
  /\ sm' = state
  /\ session' = [Advanced(session.epoch) EXCEPT !.anchor = foreground]
  /\ micOpen' = TRUE
  /\ pill' = "recording"
  /\ trayRecording' = TRUE
  /\ modelLoading' = (modelLoading \/ ~modelLoaded)
  /\ Settle(session.epoch + 1, "open")
  /\ UNCHANGED lastPaste

MicFails == RecoverToIdle(session.epoch + 1) /\ UNCHANGED <<modelLoading, fate>>

RecordStart(state) ==
  /\ session.epoch < MaxEpoch
  /\ MicOpens(state) \/ MicFails
  /\ UNCHANGED <<mostRecent, workers, loadingForTranscribe, caret>>

(* A leg of the session that another worker carries on.                    *)
StartsLeg(leg, erase) ==
  workers' = workers \union {[epoch |-> session.epoch, leg |-> leg, erase |-> erase]}

(* _do_transcribe(): the stream is closed and a worker takes the audio, or *)
(* stop() gave none.                                                       *)
AudioTaken(state) ==
  /\ sm' = state
  /\ micOpen' = FALSE
  /\ pill' = IF modelLoaded THEN "transcribing" ELSE "loading"
  /\ session' = [session EXCEPT !.transcriptionOutstanding = TRUE]
  /\ StartsLeg("transcribe", NoText)
  /\ UNCHANGED <<lastPaste, trayRecording, fate>>

Dropped ==
  /\ RecoverToIdle(session.epoch)
  /\ Settle(session.epoch, "dropped")
  /\ UNCHANGED workers

Transcribe(state) ==
  /\ AudioTaken(state) \/ Dropped
  /\ loadingForTranscribe' = ~modelLoaded
  /\ UNCHANGED <<mostRecent, modelLoading, caret>>

(* _do_cancel(): the epoch moves on, so a worker's late answer is stale.   *)
Cancel(state) ==
  /\ sm' = state
  /\ SessionEnds(session.epoch)
  /\ Settle(session.epoch, "cancelled")
  /\ UNCHANGED <<mostRecent, workers, loadingForTranscribe, modelLoading, caret>>

(* The settled end of a session that pasted nothing.                       *)
Unpasted(state, s, paste, p, f) ==
  /\ sm' = state
  /\ session' = s
  /\ lastPaste' = paste
  /\ pill' = p
  /\ trayRecording' = FALSE
  /\ Settle(s.epoch, f)
  /\ UNCHANGED <<micOpen, workers, loadingForTranscribe, modelLoading>>

-----------------------------------------------------------------------------
(***************************************************************************)
(* _do_paste().  s is the session as the calling handler left it.  A text  *)
(* to erase makes it a Trigger Fire; none makes it a dictation, or the     *)
(* built-in paste command when the text is an older utterance's.           *)
(***************************************************************************)
Settled(s) == [s EXCEPT !.pendingReplace = NoText, !.textToPaste = NoText]

IsFire(s) == s.pendingReplace # NoText

PasteSkipped(state, s, paste) ==
  /\ s.textToPaste = NoText
  /\ Unpasted(state, Settled(s), paste, "hidden", "dropped")
  /\ UNCHANGED <<mostRecent, caret>>

FateIfHeld(s) == IF s.textToPaste = s.epoch THEN "held" ELSE "dropped"

PasteDrifted(state, s, paste) ==
  /\ s.textToPaste # NoText
  /\ ~IsFire(s)
  /\ s.anchor # foreground
  /\ mostRecent' = s.textToPaste
  /\ Unpasted(state, Settled(s), paste, "held", FateIfHeld(s))
  /\ UNCHANGED caret

FireDiscarded(state, s, paste) ==
  /\ s.textToPaste # NoText
  /\ IsFire(s)
  /\ paste # NoPaste
  /\ paste.window # foreground
  /\ Unpasted(state, Settled(s), paste, "flash", "dropped")
  /\ UNCHANGED <<mostRecent, caret>>

(* Faults: one of the two focus rails is left out.                         *)
AllowedWithoutDriftRail(s, paste) ==
  /\ s.textToPaste # NoText
  /\ (IsFire(s) /\ paste # NoPaste) => paste.window = foreground

PasteAllowed(s, paste) ==
  /\ s.textToPaste # NoText
  /\ ~IsFire(s) => s.anchor = foreground
  /\ (IsFire(s) /\ paste # NoPaste) => paste.window = foreground

(* Whatever part of the injection got through is what the window shows.     *)
(* No text stands for any text that is nobody's paste.                     *)
InjectionCutShort(s) ==
  \E t \in {caret[foreground], s.textToPaste, NoText} :
     caret' = [caret EXCEPT ![foreground] = t]

(* _most_recent_dictation is written before the paste is tried, and only   *)
(* for text that was spoken.                                               *)
RememberAll(s) == mostRecent' = s.textToPaste   \* fault: a Transform's too

Remember(s) == mostRecent' = IF IsFire(s) THEN mostRecent ELSE s.textToPaste

PillIfFailed(s) == IF IsFire(s) THEN "flash" ELSE "held"
FateIfFailed(s) == IF IsFire(s) THEN "dropped" ELSE FateIfHeld(s)
FateIfReturns(s) == IF IsFire(s) THEN "replaced"
                   ELSE IF s.textToPaste = s.epoch THEN "pasted" ELSE "repasted"

(* paste() returned: the Last Paste is armed, whatever became of the keys. *)
PasteReturns(state, s) ==
  /\ \E reached \in BOOLEAN :
        /\ lastPaste' = [text |-> s.textToPaste, window |-> foreground,
                         fresh |-> TRUE, reached |-> reached]
        /\ IF reached THEN caret' = [caret EXCEPT ![foreground] = s.textToPaste]
                      ELSE InjectionCutShort(s)
  /\ sm' = state
  /\ session' = Settled(s)
  /\ pill' = "hidden"
  /\ trayRecording' = FALSE
  /\ Settle(s.epoch, FateIfReturns(s))
  /\ UNCHANGED <<micOpen, workers, loadingForTranscribe, modelLoading>>

PasteModifiersHeld(state, s, paste) ==
  /\ Unpasted(state, Settled(s), paste, PillIfFailed(s), FateIfFailed(s))
  /\ UNCHANGED caret

PasteErroredKeeps(state, s, paste) ==    \* fault: the Last Paste survives
  /\ Unpasted(state, Settled(s), paste, PillIfFailed(s), FateIfFailed(s))
  /\ InjectionCutShort(s)

PasteErrored(state, s, paste) ==         \* ClipboardContentionError, OSError
  /\ Unpasted(state, Settled(s), NoPaste, PillIfFailed(s), FateIfFailed(s))
  /\ InjectionCutShort(s)

PasteRaises(s) ==                        \* any other exception
  /\ RecoverToIdle(s.epoch)
  /\ Settle(s.epoch, FateIfFailed(s))
  /\ InjectionCutShort(s)
  /\ UNCHANGED <<workers, loadingForTranscribe, modelLoading>>

Attempt(state, s, paste) ==
  /\ PasteAllowed(s, paste)
  /\ Remember(s)
  /\ \/ PasteReturns(state, s)
     \/ PasteModifiersHeld(state, s, paste)
     \/ PasteErrored(state, s, paste)
     \/ PasteRaises(s)

DoPaste(state, s, paste) ==
  \/ PasteSkipped(state, s, paste)
  \/ PasteDrifted(state, s, paste)
  \/ FireDiscarded(state, s, paste)
  \/ Attempt(state, s, paste)

-----------------------------------------------------------------------------
(***************************************************************************)
(* _execute_commands(): what one step of the state machine makes the       *)
(* daemon do.  s and paste are the session and the Last Paste as the       *)
(* handler left them.                                                      *)
(***************************************************************************)
Flashed(state, s, paste) ==
  Unpasted(state, s, paste, "flash", "dropped") /\ UNCHANGED <<mostRecent, caret>>

(* The recording goes on as a toggle.                                      *)
PillRefreshed(state) ==
  /\ sm' = state
  /\ pill' = "recording"
  /\ UNCHANGED <<session, micOpen, lastPaste, mostRecent, fate, workers,
                 trayRecording, loadingForTranscribe, modelLoading, caret>>

(* A nudge of the pill's position, or nothing at all.                      *)
NothingElse(state) ==
  /\ sm' = state
  /\ UNCHANGED <<session, micOpen, lastPaste, mostRecent, fate, workers, pill,
                 trayRecording, loadingForTranscribe, modelLoading, caret>>

Execute(step, s, paste) ==
  \/ "RECORD_START" \in step.commands /\ RecordStart(step.state)
  \/ "RECORD_STOP_AND_TRANSCRIBE" \in step.commands /\ Transcribe(step.state)
  \/ "CANCEL" \in step.commands /\ Cancel(step.state)
  \/ "PASTE" \in step.commands /\ DoPaste(step.state, s, paste)
  \/ step.commands \intersect {"FLASH_ERROR", "FLASH_SAY_AGAIN"} # {}
       /\ Flashed(step.state, s, paste)
  \/ step.commands = {"CANCEL_TAP_TIMER"} /\ PillRefreshed(step.state)
  \/ step.commands \subseteq {"BUSY_NUDGE"} /\ NothingElse(step.state)

Handles(event, tap) ==
  /\ Execute(Handle(sm, event, tap), session, lastPaste)
  /\ UNCHANGED <<transcriptionQueue, transformQueue, preloadPillActive,
                 modelLoaded, llmWarming, llmWarm, foreground>>

(* on_hotkey_event(): what the hotkey bridge delivers.  The machine is not *)
(* asked to take an event it ignores.                                      *)
OnHotkeyEvent ==
  \E event \in {"KEY_DOWN", "KEY_UP", "ESC", "TIMER_EXPIRED"}, tap \in BOOLEAN :
     /\ Handle(sm, event, tap) # Goes(sm, {})
     /\ Handles(event, tap)

CheckSilenceOfToggle ==                    \* fault: push-to-talk unwatched
  sm = "TOGGLE_REC" /\ Handles("MAX_DURATION", FALSE)

(* check_silence(): a recording that ran too long or went silent.          *)
CheckSilence ==
  /\ sm \in {"PTT_REC", "TOGGLE_REC"}
  /\ \E event \in {"MAX_DURATION", "SILENCE_TIMEOUT"} : Handles(event, FALSE)

(* on_tray_start_recording(): a key-down and, if the microphone opened, a  *)
(* key-up at the same instant, which is a tap.                             *)
OnTrayStartRecording ==
  /\ sm = "IDLE"
  /\ RecordStart(Handle("PRESSED", "KEY_UP", TRUE).state)
  /\ UNCHANGED <<transcriptionQueue, transformQueue, preloadPillActive,
                 modelLoaded, llmWarming, llmWarm, foreground>>

(* on_tray_stop_recording().  The key-up is stamped 1000 ms, far earlier   *)
(* than the monotonic time of any press, so in PRESSED it reads as a tap.  *)
OnTrayStopRecording ==
  \/ sm = "TOGGLE_REC" /\ Handles("KEY_DOWN", FALSE)
  \/ sm \in {"PTT_REC", "PRESSED"} /\ Handles("KEY_UP", TRUE)

-----------------------------------------------------------------------------
(* The worker threads.  Each posts exactly one result and ends.            *)

TranscribeKinds(leg) ==
  IF leg = "transcribe" THEN {"error", "empty", "speech"}
                        ELSE {"error", "confirmed", "unconfirmed"}

TranscribeWorker ==
  \E w \in workers :
     /\ w.leg \in {"transcribe", "confirm"}
     /\ workers' = workers \ {w}
     /\ \E kind \in TranscribeKinds(w.leg) :
           /\ transcriptionQueue' =
                Append(transcriptionQueue, [epoch |-> w.epoch, kind |-> kind])
     /\ UNCHANGED <<coreVars, transformQueue, pillVars, modelVars, desktopVars>>

TransformWorker ==
  \E w \in workers :
     /\ w.leg = "transform"
     /\ workers' = workers \ {w}
     /\ \E kind \in {"ok", "failed"} :
           transformQueue' = Append(transformQueue,
             [epoch |-> w.epoch, kind |-> kind, erase |-> w.erase])
     /\ UNCHANGED <<coreVars, transcriptionQueue, pillVars, modelVars, desktopVars>>

-----------------------------------------------------------------------------
(* _next_current_result(): the first result of the current epoch, every    *)
(* stale one before it dropped.                                            *)

CurrentOrStale(item) == item.epoch <= session.epoch   \* fault: no epoch check

IsCurrent(item) == item.epoch = session.epoch

FirstCurrent(queue) ==
  CHOOSE i \in DOMAIN queue :
     IsCurrent(queue[i]) /\ \A j \in 1 .. i - 1 : ~IsCurrent(queue[j])

HasCurrent(queue) == \E i \in DOMAIN queue : IsCurrent(queue[i])

AfterDrain(queue) ==
  IF HasCurrent(queue) THEN SubSeq(queue, FirstCurrent(queue) + 1, Len(queue))
                       ELSE <<>>

(* The session once the awaited result is in hand.                         *)
Answered == [session EXCEPT !.transcriptionOutstanding = FALSE]

EmptyResult(paste) == Execute(Handle(sm, "EMPTY_RESULT", FALSE), Answered, paste)

SayAgain == Execute(Handle(sm, "BORDERLINE", FALSE), Answered, lastPaste)

(* A plain dictation.  Replacements may leave no text at all.              *)
Dictation(e) ==
  \E text \in {e, NoText} :
     Execute(Handle(sm, "TRANSCRIPTION_DONE", FALSE),
             [Answered EXCEPT !.textToPaste = text], lastPaste)

(* _handle_paste_action(): the built-in command re-pastes what is kept.    *)
NothingToPaste == mostRecent = NoText /\ EmptyResult(lastPaste)

PastesAgain ==
  /\ mostRecent # NoText
  /\ Execute(Handle(sm, "TRANSCRIPTION_DONE", FALSE),
             [Answered EXCEPT !.textToPaste = mostRecent, !.pendingReplace = NoText],
             lastPaste)

PasteAction == NothingToPaste \/ PastesAgain

TransformsArmed == lastPaste # NoPaste

RailsOk == lastPaste.window = foreground /\ lastPaste.fresh

StaysOpen == UNCHANGED <<sm, micOpen, lastPaste, mostRecent, fate, trayRecording,
                         loadingForTranscribe, modelLoading, caret>>

OperandOfMostRecent == mostRecent         \* fault: the wrong buffer captured

Operand == lastPaste.text

(* _handle_trigger_fire()                                                  *)
FireRefused == ~RailsOk /\ EmptyResult(NoPaste)

TransformStarts ==
  /\ RailsOk
  /\ session' = [session EXCEPT !.transformOutstanding = TRUE]
  /\ pill' = IF llmWarm THEN "computing" ELSE "loading"
  /\ StartsLeg("transform", Operand)
  /\ StaysOpen

TriggerFire == TransformsArmed /\ (FireRefused \/ TransformStarts)

Fire == PasteAction \/ TriggerFire

BorderlineForgotten ==                     \* fault: no confirm worker
  UNCHANGED <<workers, session, pill>> /\ StaysOpen

(* _handle_borderline(): the confirm pass re-decodes the same audio.       *)
Borderline ==
  /\ StartsLeg("confirm", NoText)
  /\ StaysOpen
  /\ UNCHANGED <<session, pill>>

ResultFailed ==
  Dropped /\ UNCHANGED <<mostRecent, loadingForTranscribe, modelLoading, caret>>

HandleResult(item) ==
  \/ item.kind = "error" /\ ResultFailed
  \/ item.kind = "empty" /\ EmptyResult(lastPaste)
  \/ item.kind = "speech" /\ (Dictation(item.epoch) \/ Fire \/ Borderline)
  \/ item.kind = "confirmed" /\ (Fire \/ SayAgain)
  \/ item.kind = "unconfirmed" /\ SayAgain

NothingAwaited ==
  UNCHANGED <<coreVars, workers, pill, trayRecording, loadingForTranscribe,
              modelLoading, caret>>

(* check_transcription_result()                                            *)
CheckTranscriptionResult ==
  /\ transcriptionQueue # <<>>
  /\ transcriptionQueue' = AfterDrain(transcriptionQueue)
  /\ IF HasCurrent(transcriptionQueue) /\ session.transcriptionOutstanding
       THEN HandleResult(transcriptionQueue[FirstCurrent(transcriptionQueue)])
       ELSE NothingAwaited
  /\ UNCHANGED <<transformQueue, preloadPillActive, modelLoaded, llmWarming,
                 llmWarm, foreground>>

BothAnswered == [Answered EXCEPT !.transformOutstanding = FALSE]

(* check_transform_result(): the LLM's text replaces the Last Paste.       *)
Replacement(item) ==
  \E text \in {item.epoch, NoText} :
     Execute(Handle(sm, "TRANSCRIPTION_DONE", FALSE),
             [BothAnswered EXCEPT !.textToPaste = text, !.pendingReplace = item.erase],
             lastPaste)

HandleTransformed(item) ==
  \/ /\ item.kind = "ok"
     /\ llmWarm' = TRUE
     /\ Replacement(item)
  \/ /\ item.kind = "failed"
     /\ Execute(Handle(sm, "EMPTY_RESULT", FALSE), BothAnswered, lastPaste)
     /\ UNCHANGED llmWarm

TransformAwaited ==
  /\ HasCurrent(transformQueue)
  /\ session.transformOutstanding
  /\ session.transcriptionOutstanding

CheckTransformResult ==
  /\ transformQueue # <<>>
  /\ transformQueue' = AfterDrain(transformQueue)
  /\ IF TransformAwaited
       THEN HandleTransformed(transformQueue[FirstCurrent(transformQueue)])
       ELSE NothingAwaited /\ UNCHANGED llmWarm
  /\ UNCHANGED <<transcriptionQueue, preloadPillActive, modelLoaded, llmWarming,
                 foreground>>

-----------------------------------------------------------------------------
(* check_loading_overlay(): a load that finished moves the pill on, and    *)
(* the pill of the startup preload is taken down when both loads are over. *)

LoadingShown == loadingForTranscribe /\ modelLoaded

PreloadOverIfLoaded ==                     \* fault: a failed load never ends
  preloadPillActive /\ modelLoaded /\ ~llmWarming

PreloadOver == preloadPillActive /\ ~modelLoading /\ ~llmWarming

PillAfterAnyLoad ==                        \* fault: nothing may be awaited
  IF PreloadOver THEN "hidden" ELSE "transcribing"

PillAfterLoad ==
  IF PreloadOver THEN "hidden"
  ELSE IF session.transcriptionOutstanding THEN "transcribing"
  ELSE pill

CheckLoadingOverlay ==
  /\ LoadingShown \/ PreloadOver
  /\ loadingForTranscribe' = (loadingForTranscribe /\ ~modelLoaded)
  /\ preloadPillActive' = (preloadPillActive /\ ~PreloadOver)
  /\ pill' = PillAfterLoad
  /\ UNCHANGED <<coreVars, legVars, trayRecording, modelVars, desktopVars>>

-----------------------------------------------------------------------------
(* The surroundings: the model's lifecycle, the clock, the user's focus.   *)

InFlight == \E w \in workers : w.leg # "transform"

LifecycleLoads ==
  /\ modelLoading \/ InFlight
  /\ ~modelLoaded
  /\ modelLoaded' = TRUE
  /\ UNCHANGED <<coreVars, legVars, pillVars, modelLoading, llmWarming, llmWarm,
                 desktopVars>>

PreloadEnds ==
  /\ modelLoading
  /\ modelLoading' = FALSE
  /\ UNCHANGED <<coreVars, legVars, pillVars, modelLoaded, llmWarming, llmWarm,
                 desktopVars>>

(* check_idle() and on_tray_unload().  A worker thread that has not yet     *)
(* reached the lifecycle does not hold the model.                          *)
LifecycleUnloads ==
  /\ modelLoaded
  /\ modelLoaded' = FALSE
  /\ UNCHANGED <<coreVars, legVars, pillVars, modelLoading, llmWarming, llmWarm,
                 desktopVars>>

LlmWarmEnds ==
  /\ llmWarming
  /\ llmWarming' = FALSE
  /\ UNCHANGED <<coreVars, legVars, pillVars, modelLoaded, modelLoading, llmWarm,
                 desktopVars>>

LlmCools ==
  /\ llmWarm
  /\ llmWarm' = FALSE
  /\ UNCHANGED <<coreVars, legVars, pillVars, modelLoaded, modelLoading, llmWarming,
                 desktopVars>>

(* The Last Paste outlives its time to live.                               *)
LastPasteAges ==
  /\ lastPaste # NoPaste
  /\ lastPaste.fresh
  /\ lastPaste' = [lastPaste EXCEPT !.fresh = FALSE]
  /\ UNCHANGED <<sm, session, micOpen, mostRecent, fate, legVars, pillVars,
                 modelVars, desktopVars>>

PillTimesOut ==
  /\ pill \in {"flash", "held"}
  /\ pill' = "hidden"
  /\ UNCHANGED <<coreVars, legVars, trayRecording, loadingForTranscribe,
                 preloadPillActive, modelVars, desktopVars>>

FocusMoves ==
  /\ \E w \in Windows \ {foreground} : foreground' = w
  /\ UNCHANGED <<coreVars, legVars, pillVars, modelVars, caret>>

-----------------------------------------------------------------------------
(* With [startup] preload_model the daemon has called on_tray_preload()    *)
(* before the event loop starts.                                           *)
Init ==
  /\ sm = "IDLE"
  /\ session = [Advanced(0) EXCEPT !.epoch = 0]
  /\ micOpen = FALSE
  /\ lastPaste = NoPaste
  /\ mostRecent = NoText
  /\ workers = {}
  /\ transcriptionQueue = <<>>
  /\ transformQueue = <<>>
  /\ trayRecording = FALSE
  /\ loadingForTranscribe = FALSE
  /\ preloadPillActive = PreloadModel
  /\ pill = IF preloadPillActive THEN "loading" ELSE "hidden"
  /\ modelLoaded = FALSE
  /\ modelLoading = preloadPillActive
  /\ llmWarming = preloadPillActive
  /\ llmWarm = FALSE
  /\ foreground \in Windows
  /\ caret = [w \in Windows |-> NoText]
  /\ fate = [e \in Utterance |-> "none"]

Next ==
  \/ OnHotkeyEvent
  \/ CheckSilence
  \/ OnTrayStartRecording
  \/ OnTrayStopRecording
  \/ TranscribeWorker
  \/ TransformWorker
  \/ CheckTranscriptionResult
  \/ CheckTransformResult
  \/ CheckLoadingOverlay
  \/ LifecycleLoads
  \/ PreloadEnds
  \/ LifecycleUnloads
  \/ LlmWarmEnds
  \/ LlmCools
  \/ LastPasteAges
  \/ PillTimesOut
  \/ FocusMoves

(***************************************************************************)
(* The timers tick for ever, every worker ends in a result (a failure is   *)
(* one; the LLM request has a timeout), and a recording that nobody stops  *)
(* reaches max_recording_s.  Nothing obliges the user to press a key.      *)
(***************************************************************************)
Fairness ==
  /\ WF_vars(CheckSilence)
  /\ WF_vars(TranscribeWorker)
  /\ WF_vars(TransformWorker)
  /\ WF_vars(CheckTranscriptionResult)
  /\ WF_vars(CheckTransformResult)
  /\ WF_vars(CheckLoadingOverlay)
  /\ WF_vars(PreloadEnds)
  /\ WF_vars(LlmWarmEnds)
  /\ WF_vars(PillTimesOut)

Spec == Init /\ [][Next]_vars

FairSpec == Spec /\ Fairness

-----------------------------------------------------------------------------
TypeOK ==
  /\ sm \in State
  /\ session \in Session
  /\ micOpen \in BOOLEAN
  /\ lastPaste \in LastPaste \union {NoPaste}
  /\ mostRecent \in Text
  /\ workers \subseteq Worker
  /\ transcriptionQueue \in Seq(Heard)
  /\ transformQueue \in Seq(Transformed)
  /\ pill \in Pill
  /\ {trayRecording, loadingForTranscribe, preloadPillActive} \subseteq BOOLEAN
  /\ {modelLoaded, modelLoading, llmWarming, llmWarm} \subseteq BOOLEAN
  /\ foreground \in Windows
  /\ caret \in [Windows -> Text]
  /\ fate \in [Utterance -> Fate]

-----------------------------------------------------------------------------
(* Properties                                                              *)

LiveWorkers     == {w \in workers : w.epoch = session.epoch}
LiveHeard       == {i \in DOMAIN transcriptionQueue :
                      transcriptionQueue[i].epoch = session.epoch}
LiveTransformed == {i \in DOMAIN transformQueue :
                      transformQueue[i].epoch = session.epoch}

NoLegs == LiveWorkers = {} /\ LiveHeard = {} /\ LiveTransformed = {}

(* Exactly one worker or result carries the session on, and it is the kind *)
(* the session waits for.                                                  *)
OneLeg ==
  \/ /\ \E w \in workers :
          LiveWorkers = {w} /\ (w.leg = "transform" <=> session.transformOutstanding)
     /\ LiveHeard = {} /\ LiveTransformed = {}
  \/ /\ \E i \in DOMAIN transcriptionQueue : LiveHeard = {i}
     /\ LiveWorkers = {} /\ LiveTransformed = {} /\ ~session.transformOutstanding
  \/ /\ \E i \in DOMAIN transformQueue : LiveTransformed = {i}
     /\ LiveWorkers = {} /\ LiveHeard = {} /\ session.transformOutstanding

(* TRANSCRIBING is never stuck and never answered twice: the machine is in *)
(* that state exactly while a result is awaited, and exactly one worker or *)
(* queued result of the current epoch then exists; otherwise there is none *)
(* (daemon.py, the epoch check of _next_current_result).                   *)
AwaitsExactlyOneLeg ==
  /\ sm = "TRANSCRIBING" <=> session.transcriptionOutstanding
  /\ session.transformOutstanding => session.transcriptionOutstanding
  /\ IF session.transcriptionOutstanding THEN OneLeg ELSE NoLegs

(* A Last Paste whose keys all got through keeps telling the truth: its    *)
(* window shows its text before the caret, whatever was held, discarded,   *)
(* cut short or cancelled since (the null-or-keep decisions at the end of  *)
(* _do_paste).  The code promises it of every Last Paste ("text that       *)
(* actually landed", daemon.py:1536); it is not so after refused keys.     *)
LastPasteIsOnScreen ==
  lastPaste.reached => caret[lastPaste.window] = lastPaste.text

(* The capture has been started, and not been told to stop, exactly in the *)
(* recording states, and the tray shows a session exactly while there is   *)
(* one, on every error path too.  A stream that stays open although it was *)
(* told to stop is AudioCapture's "leaked".                                *)
MicAndTrayFollowTheMachine ==
  /\ micOpen <=> sm \in Recording
  /\ trayRecording <=> sm # "IDLE"

(* The Most-recent dictation is the newest one that was recognised,        *)
(* whether its paste went well, was held or failed half way.               *)
MostRecentIsTheNewest ==
  /\ mostRecent # NoText => fate[mostRecent] \in {"pasted", "held"}
  /\ \A e \in Utterance : fate[e] \in {"pasted", "held"} => e <= mostRecent

(* Text of a cancelled utterance never reaches a window, however late its  *)
(* worker answers.                                                         *)
CancelledTextNeverLands ==
  \A w \in Windows : caret[w] # NoText => fate[caret[w]] # "cancelled"

(* At rest the pill claims no activity, and a loading pill has someone to  *)
(* take it down; the "say paste" caption is only shown when the command    *)
(* has something to paste.                                                 *)
PillIsHonest ==
  /\ sm = "IDLE" => pill \notin {"recording", "transcribing", "computing"}
  /\ pill = "loading" => (preloadPillActive \/ sm = "TRANSCRIBING")
  /\ pill = "held" => mostRecent # NoText

(* A replacement erases the daemon's own last paste and nothing else: the  *)
(* text named by the result is what stands before the caret of the window  *)
(* that has the focus, although the LLM ran for minutes meanwhile.  It     *)
(* needs the keys of that last paste to have got through: after refused    *)
(* ones the daemon erases the length of a text that is not there.          *)
ReplacesOnlyItsOwnPaste ==
  [][\A e \in Utterance :
       fate'[e] = "replaced" /\ fate[e] # "replaced" /\ lastPaste.reached =>
         \A i \in LiveTransformed : transformQueue[i].erase = caret[foreground]]_vars

(* A dictation lands in the window where it was spoken, and nothing else   *)
(* in any window changes.  A focus that moves while paste() runs is        *)
(* PastePipeline's GoesToItsTarget.                                        *)
TouchesOnlyTheAnchoredWindow ==
  [][\A w \in Windows :
       caret'[w] # caret[w] =>
         /\ w = foreground
         /\ w = (IF session.transformOutstanding THEN lastPaste.window
                                                 ELSE session.anchor)]_vars

(* DaemonCore implements the promise: utterances one at a time, one final  *)
(* fate each, the newest dictation recoverable.                            *)
Promise == INSTANCE Dictation WITH
  current     <- (IF sm = "IDLE" THEN NoText ELSE session.epoch),
  recoverable <- mostRecent

ImplementsDictation == Promise!Spec

(* What begins ends without any help of the user: a recognition gets an    *)
(* answer (no lost result, no leg that nobody answers), a recording that   *)
(* got past the tap decision is stopped by the watchdog, a loading pill    *)
(* does not stay for ever.                                                 *)
SessionsEnd ==
  /\ sm = "TRANSCRIBING" ~> sm # "TRANSCRIBING"
  /\ sm \in {"PTT_REC", "TOGGLE_REC"} ~> sm \notin {"PTT_REC", "TOGGLE_REC"}
  /\ pill = "loading" ~> pill # "loading"

=============================================================================
