---------------------------- MODULE StateMachine ----------------------------
(***************************************************************************)
(* The dictation state machine of state.py: a table from (state, event) to *)
(* a new state and the commands the daemon must run.  It keeps no queue    *)
(* and knows nothing of threads; DaemonCore and HotkeyPath drive it.       *)
(*                                                                         *)
(* The machine also stores the time of the key press.  It is read in one   *)
(* place, to tell a tap from a hold when the key comes up, so the callers  *)
(* pass that comparison as the Boolean tap.                                *)
(***************************************************************************)

State == {"IDLE", "PRESSED", "PTT_REC", "TOGGLE_REC", "TRANSCRIBING"}

Event == {"KEY_DOWN", "KEY_UP", "ESC", "TIMER_EXPIRED", "SILENCE_TIMEOUT",
          "MAX_DURATION", "TRANSCRIPTION_DONE", "EMPTY_RESULT", "BORDERLINE"}

(* The states in which the microphone records. *)
Recording == {"PRESSED", "PTT_REC", "TOGGLE_REC"}

(***************************************************************************)
(* The commands of a step are a set: the one list of the source whose      *)
(* order shows, <<CANCEL_TAP_TIMER, CANCEL>>, shows a pill and hides it    *)
(* again at once.                                                          *)
(***************************************************************************)
Goes(state, commands) == [state |-> state, commands |-> commands]

IdleKeyDown == Goes("PRESSED", {"RECORD_START", "START_TAP_TIMER"})

PressedKeyUp(tap) ==
  IF tap THEN Goes("TOGGLE_REC", {"CANCEL_TAP_TIMER"})
         ELSE Goes("TRANSCRIBING", {"RECORD_STOP_AND_TRANSCRIBE"})

PressedTimerExpired == Goes("PTT_REC", {})

PressedEsc == Goes("IDLE", {"CANCEL_TAP_TIMER", "CANCEL"})

CancelInPlace == Goes("TRANSCRIBING", {"CANCEL"})   \* fault: state not reset

CancelToIdle == Goes("IDLE", {"CANCEL"})

StopRecording == Goes("TRANSCRIBING", {"RECORD_STOP_AND_TRANSCRIBE"})

TranscribingDone == Goes("IDLE", {"PASTE"})

TranscribingEmpty == Goes("IDLE", {"FLASH_ERROR"})

TranscribingBorderline == Goes("IDLE", {"FLASH_SAY_AGAIN"})

TranscribingKeyDown == Goes("TRANSCRIBING", {"BUSY_NUDGE"})

(* What each state makes of the events it lists.                           *)
InPressed(event, tap) ==
  IF event = "KEY_UP" THEN PressedKeyUp(tap)
  ELSE IF event = "TIMER_EXPIRED" THEN PressedTimerExpired
  ELSE IF event = "ESC" THEN PressedEsc
  ELSE Goes("PRESSED", {})

InRecording(state, event) ==
  IF event = "ESC" THEN CancelToIdle
  ELSE IF event \in {"SILENCE_TIMEOUT", "MAX_DURATION",
                     IF state = "TOGGLE_REC" THEN "KEY_DOWN" ELSE "KEY_UP"}
       THEN StopRecording
  ELSE Goes(state, {})

InTranscribing(event) ==
  IF event = "TRANSCRIPTION_DONE" THEN TranscribingDone
  ELSE IF event = "EMPTY_RESULT" THEN TranscribingEmpty
  ELSE IF event = "BORDERLINE" THEN TranscribingBorderline
  ELSE IF event = "KEY_DOWN" THEN TranscribingKeyDown
  ELSE IF event = "ESC" THEN CancelToIdle
  ELSE Goes("TRANSCRIBING", {})

(***************************************************************************)
(* handle(): the table _HANDLERS.  An event the state does not list is     *)
(* ignored.                                                                *)
(***************************************************************************)
Handle(state, event, tap) ==
  IF state = "IDLE" /\ event = "KEY_DOWN" THEN IdleKeyDown
  ELSE IF state = "PRESSED" THEN InPressed(event, tap)
  ELSE IF state \in {"PTT_REC", "TOGGLE_REC"} THEN InRecording(state, event)
  ELSE IF state = "TRANSCRIBING" THEN InTranscribing(event)
  ELSE Goes(state, {})

=============================================================================
