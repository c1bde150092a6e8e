-------------------------- MODULE DaemonCoreProofs --------------------------
(***************************************************************************)
(* Theorems about DaemonCore, for any set of windows and any bound on the  *)
(* number of recordings.                                                   *)
(***************************************************************************)
EXTENDS DaemonCore, FiniteSets, FiniteSetTheorems, SequenceTheorems,
        WellFoundedInduction, TLAPS

-----------------------------------------------------------------------------
(* The state machine.                                                      *)

Command == {"RECORD_START", "START_TAP_TIMER", "CANCEL_TAP_TIMER", "CANCEL",
            "RECORD_STOP_AND_TRANSCRIBE", "PASTE", "FLASH_ERROR",
            "FLASH_SAY_AGAIN", "BUSY_NUDGE"}

Flash == {"FLASH_ERROR", "FLASH_SAY_AGAIN"}

(* What each command says about the state the machine was in and the one   *)
(* it goes to.                                                             *)
Lawful(state, step) ==
  /\ step.state \in State
  /\ "RECORD_START" \in step.commands => state = "IDLE" /\ step.state = "PRESSED"
  /\ "RECORD_STOP_AND_TRANSCRIBE" \in step.commands
       => state \in Recording /\ step.state = "TRANSCRIBING"
  /\ "CANCEL" \in step.commands => state # "IDLE" /\ step.state = "IDLE"
  /\ "PASTE" \in step.commands => state = "TRANSCRIBING" /\ step.state = "IDLE"
  /\ step.commands \intersect Flash # {}
       => state = "TRANSCRIBING" /\ step.state = "IDLE"
  /\ step.commands = {"CANCEL_TAP_TIMER"}
       => state = "PRESSED" /\ step.state = "TOGGLE_REC"
  /\ step.commands \subseteq {"BUSY_NUDGE"}
       => step.state = state \/ (state = "PRESSED" /\ step.state = "PTT_REC")

(* The events that answer what TRANSCRIBING waits for, and the commands    *)
(* only they lead to.                                                      *)
Answer == {"TRANSCRIPTION_DONE", "EMPTY_RESULT", "BORDERLINE"}
Ending == Flash \union {"PASTE"}

(* Every entry of the table obeys those rules.                             *)
LEMMA HandleIsLawful ==
  ASSUME NEW state \in State, NEW event \in Event, NEW tap \in BOOLEAN
  PROVE  /\ Lawful(state, Handle(state, event, tap))
         /\ "PASTE" \in Handle(state, event, tap).commands
              => event = "TRANSCRIPTION_DONE"
         /\ Handle(state, event, tap).commands \intersect Ending # {} => event \in Answer
<1> USE DEF Lawful, Handle, State, Event, Recording, Goes, Flash, Answer, Ending
<1>1. CASE state = "IDLE"
  BY <1>1 DEF IdleKeyDown
<1>2. CASE state = "PRESSED"
  BY <1>2 DEF InPressed, PressedKeyUp, PressedTimerExpired, PressedEsc
<1>3. CASE state \in {"PTT_REC", "TOGGLE_REC"}
  BY <1>3 DEF InRecording, CancelToIdle, StopRecording
<1>4. CASE state = "TRANSCRIBING"
  BY <1>4 DEF InTranscribing, CancelToIdle, TranscribingDone, TranscribingEmpty,
              TranscribingBorderline, TranscribingKeyDown
<1>. QED BY <1>1, <1>2, <1>3, <1>4

-----------------------------------------------------------------------------
(* _next_current_result()                                                  *)

(* A non-empty set of natural numbers has a least element.                 *)
LEMMA LeastElement ==
  ASSUME NEW T, T \subseteq Nat, T # {}
  PROVE  \E i \in T : \A j \in T : i <= j
<1> DEFINE UpTo == {0 .. k : k \in T}
           R    == StrictSubsetOrdering(Nat)
<1>1. IsWellFoundedOn(R, FiniteSubsetsOf(Nat))
  BY FS_StrictSubsetOrderingWellFounded
<1>2. UpTo \subseteq FiniteSubsetsOf(Nat) /\ UpTo # {}
  <2>1. \A k \in Nat : 0 .. k \in SUBSET Nat /\ IsFiniteSet(0 .. k)
    BY FS_Interval
  <2>. QED BY <2>1 DEF FiniteSubsetsOf
<1>3. \E x \in UpTo : \A y \in UpTo : <<y, x>> \notin R
  <2> HIDE DEF R, UpTo
  <2>. QED BY <1>1, <1>2, WFMin
<1>4. PICK i \in T : \A j \in T : <<0 .. j, 0 .. i>> \notin R
  BY <1>3
<1>5. ASSUME NEW j \in T, j < i PROVE FALSE
  <2>1. /\ 0 .. j \subseteq 0 .. i /\ 0 .. j # 0 .. i
        /\ 0 .. j \in SUBSET Nat /\ 0 .. i \in SUBSET Nat
    BY <1>5
  <2>. QED BY <2>1, <1>4 DEF StrictSubsetOrdering
<1>. QED BY <1>5

(* A sequence without its first k elements.                                *)
LEMMA SuffixFacts ==
  ASSUME NEW S, NEW queue \in Seq(S), NEW k \in 1 .. Len(queue)
  PROVE  /\ SubSeq(queue, k + 1, Len(queue)) \in Seq(S)
         /\ Len(SubSeq(queue, k + 1, Len(queue))) = Len(queue) - k
         /\ \A j \in 1 .. Len(queue) - k :
               SubSeq(queue, k + 1, Len(queue))[j] = queue[k + j]
<1>1. PICK n \in Nat : n = Len(queue)
  OBVIOUS
<1>2. k \in Int /\ k + 1 \in Int /\ 1 <= k /\ k <= n
  BY <1>1
<1>3. \A j \in k + 1 .. n : queue[j] \in S
  BY <1>1, <1>2
<1>4. /\ SubSeq(queue, k + 1, n) \in Seq(S)
      /\ Len(SubSeq(queue, k + 1, n)) =
           (IF k + 1 <= n THEN n - (k + 1) + 1 ELSE 0)
      /\ \A j \in 1 .. n - (k + 1) + 1 :
           SubSeq(queue, k + 1, n)[j] = queue[k + 1 + j - 1]
  BY ONLY <1>2, <1>3, n \in Int, SubSeqProperties
<1>5. /\ n - (k + 1) + 1 = n - k
      /\ ~(k + 1 <= n) => n - k = 0
      /\ \A j \in 1 .. n - k : k + 1 + j - 1 = k + j
  BY <1>2
<1>6. Len(SubSeq(queue, k + 1, n)) = n - k
  BY <1>4, <1>5
<1>7. \A j \in 1 .. n - k : SubSeq(queue, k + 1, n)[j] = queue[k + j]
  BY <1>4, <1>5
<1>. QED BY <1>1, <1>4, <1>6, <1>7

(* What the drain hands out is a result of the current session, and what   *)
(* it leaves in the queue is the part after that result.                   *)
LEMMA DrainFacts ==
  ASSUME NEW S, NEW queue \in Seq(S)
  PROVE  /\ HasCurrent(queue) =>
              /\ FirstCurrent(queue) \in DOMAIN queue
              /\ IsCurrent(queue[FirstCurrent(queue)])
              /\ queue[FirstCurrent(queue)] \in S
              /\ Len(AfterDrain(queue)) = Len(queue) - FirstCurrent(queue)
              /\ \A i \in DOMAIN AfterDrain(queue) :
                    AfterDrain(queue)[i] = queue[FirstCurrent(queue) + i]
         /\ AfterDrain(queue) \in Seq(S)
<1>1. CASE ~HasCurrent(queue)
  BY <1>1 DEF AfterDrain
<1>2. CASE HasCurrent(queue)
  <2> DEFINE Now == {i \in DOMAIN queue : IsCurrent(queue[i])}
             k   == FirstCurrent(queue)
  <2>1. DOMAIN queue = 1 .. Len(queue) /\ Len(queue) \in Nat
    OBVIOUS
  <2>2. PICK i \in Now : \A j \in Now : i <= j
    <3>1. Now \subseteq Nat /\ Now # {}
      BY <1>2, <2>1 DEF HasCurrent
    <3>. QED BY <3>1, LeastElement
  <2>3. IsCurrent(queue[i]) /\ \A j \in 1 .. i - 1 : ~IsCurrent(queue[j])
    BY <2>1, <2>2
  <2>4. k \in DOMAIN queue /\ IsCurrent(queue[k])
    BY <2>2, <2>3 DEF FirstCurrent
  <2>5. queue[k] \in S /\ k \in 1 .. Len(queue)
    BY <2>1, <2>4
  <2>6. AfterDrain(queue) = SubSeq(queue, k + 1, Len(queue))
    BY <1>2 DEF AfterDrain
  <2> HIDE DEF k
  <2>8. /\ SubSeq(queue, k + 1, Len(queue)) \in Seq(S)
        /\ Len(SubSeq(queue, k + 1, Len(queue))) = Len(queue) - k
        /\ \A j \in 1 .. Len(queue) - k :
              SubSeq(queue, k + 1, Len(queue))[j] = queue[k + j]
    BY <2>5, SuffixFacts
  <2>9. DOMAIN AfterDrain(queue) = 1 .. Len(queue) - k
    BY <2>6, <2>8
  <2>. QED BY <2>4, <2>5, <2>6, <2>8, <2>9 DEF k
<1>. QED BY <1>1, <1>2

-----------------------------------------------------------------------------
(***************************************************************************)
(* Type correctness.  TypeOK is not inductive: the fate of the session's   *)
(* own utterance is written, and its epoch given to a worker, so the epoch *)
(* of an open session must be one of an utterance.                         *)
(***************************************************************************)
OpenIsNumbered == sm # "IDLE" => session.epoch \in Utterance

TypeInv == TypeOK /\ OpenIsNumbered

(* The part of TypeInv that Execute writes.                                *)
WrittenOK ==
  /\ sm \in State
  /\ session \in Session
  /\ micOpen \in BOOLEAN
  /\ lastPaste \in LastPaste \union {NoPaste}
  /\ mostRecent \in Text
  /\ workers \subseteq Worker
  /\ pill \in Pill
  /\ {trayRecording, loadingForTranscribe, modelLoading} \subseteq BOOLEAN
  /\ caret \in [Windows -> Text]
  /\ fate \in [Utterance -> Fate]
  /\ OpenIsNumbered

(* What a handler may pass to Execute.                                     *)
Handled(s, paste) ==
  /\ s \in Session
  /\ s.epoch = session.epoch
  /\ paste \in {lastPaste, NoPaste}

LEMMA NewSessionTypes ==
  \A e \in Nat : Advanced(e) \in Session /\ Advanced(e).epoch = e + 1
BY DEF Advanced, Session, Text, NoText

LEMMA RecordStartTypes ==
  ASSUME TypeInv, NEW state \in State, RecordStart(state), sm = "IDLE"
  PROVE  WrittenOK'
<1> USE DEF TypeInv, TypeOK, WrittenOK, OpenIsNumbered
<1>1. /\ session.epoch \in Nat /\ session.epoch + 1 \in Nat
      /\ session.epoch + 1 \in Utterance
  BY ConstantsAssumption DEF RecordStart, Session, Utterance
<1>2. CASE MicOpens(state)
  BY <1>1, <1>2 DEF MicOpens, RecordStart, Advanced, Session, Text, NoText, Settle,
                    Fate, Pill
<1>3. CASE MicFails
  BY <1>1, <1>3, NewSessionTypes DEF MicFails, RecordStart, RecoverToIdle, SessionEnds,
                                     Pill, State
<1>. QED BY <1>2, <1>3 DEF RecordStart

LEMMA SessionEndsTypes ==
  ASSUME TypeInv, SessionEnds(session.epoch), UNCHANGED <<mostRecent, workers, caret>>,
         NEW f \in Fate, Settle(session.epoch, f), sm' = "IDLE",
         {loadingForTranscribe', modelLoading'} \subseteq BOOLEAN
  PROVE  WrittenOK'
<1>1. session.epoch \in Nat
  BY DEF TypeInv, TypeOK, Session
<1>. QED
  BY <1>1, NewSessionTypes DEF TypeInv, TypeOK, WrittenOK, OpenIsNumbered, SessionEnds,
                               Settle, Pill, State

LEMMA TranscribeTypes ==
  ASSUME TypeInv, NEW state \in State, Transcribe(state), sm # "IDLE"
  PROVE  WrittenOK'
<1> USE DEF TypeInv, TypeOK, Transcribe
<1>1. CASE AudioTaken(state)
  <2>1. session' \in Session /\ session'.epoch = session.epoch
    BY <1>1 DEF AudioTaken, Session
  <2>2. workers' \subseteq Worker
    BY <1>1 DEF AudioTaken, StartsLeg, OpenIsNumbered, Worker, Text
  <2>3. loadingForTranscribe' \in BOOLEAN
    OBVIOUS
  <2>. QED
    BY <1>1, <2>1, <2>2, <2>3 DEF AudioTaken, WrittenOK, OpenIsNumbered, Pill
<1>2. CASE Dropped
  BY <1>2, SessionEndsTypes DEF Dropped, RecoverToIdle, Fate
<1>. QED BY <1>1, <1>2

LEMMA CancelTypes ==
  ASSUME TypeInv, Cancel("IDLE")
  PROVE  WrittenOK'
BY SessionEndsTypes DEF TypeInv, TypeOK, Cancel, Fate

LEMMA UnpastedTypes ==
  ASSUME TypeInv, NEW state \in State, state = "IDLE",
         NEW s \in Session, NEW paste \in LastPaste \union {NoPaste},
         NEW p \in Pill, NEW f \in Fate, Unpasted(state, s, paste, p, f),
         mostRecent' \in Text, caret' \in [Windows -> Text]
  PROVE  WrittenOK'
BY DEF TypeInv, TypeOK, WrittenOK, OpenIsNumbered, Unpasted, Settle

(* Every end of _do_paste() settles the session's own text.                *)
LEMMA PasteTypes ==
  ASSUME TypeInv, NEW s, NEW paste, Handled(s, paste), DoPaste("IDLE", s, paste)
  PROVE  WrittenOK'
<1> USE DEF Handled
<1>1. /\ Settled(s) \in Session
      /\ paste \in LastPaste \union {NoPaste}
      /\ NoPaste \in LastPaste \union {NoPaste}
      /\ s.textToPaste \in Text /\ NoText \in Text
      /\ session.epoch \in Nat
  BY DEF TypeInv, TypeOK, Settled, Session, Text
<1>2. /\ FateIfHeld(s) \in Fate /\ FateIfFailed(s) \in Fate /\ FateIfReturns(s) \in Fate
      /\ PillIfFailed(s) \in Pill
  BY DEF FateIfHeld, FateIfFailed, FateIfReturns, Fate, PillIfFailed, Pill
<1>3. mostRecent \in Text /\ caret \in [Windows -> Text] /\ foreground \in Windows
  BY DEF TypeInv, TypeOK
<1>4. CASE PasteSkipped("IDLE", s, paste)
  BY <1>1, <1>3, <1>4, UnpastedTypes DEF PasteSkipped, Fate, Pill, State
<1>5. CASE PasteDrifted("IDLE", s, paste)
  BY <1>1, <1>2, <1>3, <1>5, UnpastedTypes DEF PasteDrifted, Pill, State
<1>6. CASE FireDiscarded("IDLE", s, paste)
  BY <1>1, <1>3, <1>6, UnpastedTypes DEF FireDiscarded, Fate, Pill, State
<1>7. ASSUME Attempt("IDLE", s, paste) PROVE WrittenOK'
  <2>1. mostRecent' \in Text
    BY <1>1, <1>3, <1>7 DEF Attempt, Remember
  <2>2. \A t \in Text : [caret EXCEPT ![foreground] = t] \in [Windows -> Text]
    BY <1>3
  <2>3. InjectionCutShort(s) => caret' \in [Windows -> Text]
    BY <1>1, <1>3, <2>2 DEF InjectionCutShort
  <2>4. CASE PasteReturns("IDLE", s)
    <3>1. lastPaste' \in LastPaste
      BY <1>1, <1>3, <1>7, <2>4 DEF PasteReturns, Attempt, PasteAllowed, LastPaste, Text
    <3>2. session' \in Session /\ caret' \in [Windows -> Text]
      BY <1>1, <2>2, <2>3, <2>4 DEF PasteReturns
    <3>3. fate' \in [Utterance -> Fate]
      BY <1>2, <2>4 DEF PasteReturns, Settle, TypeInv, TypeOK
    <3>. QED
      BY <2>1, <2>4, <3>1, <3>2, <3>3
         DEF PasteReturns, TypeInv, TypeOK, WrittenOK, OpenIsNumbered, State, Pill
  <2>5. CASE PasteModifiersHeld("IDLE", s, paste)
    BY <1>1, <1>2, <1>3, <2>1, <2>5, UnpastedTypes DEF PasteModifiersHeld, State
  <2>6. CASE PasteErrored("IDLE", s, paste)
    BY <1>1, <1>2, <2>1, <2>3, <2>6, UnpastedTypes DEF PasteErrored, State
  <2>7. CASE PasteRaises(s)
    <3>1. session' \in Session
      BY <1>1, <2>7, NewSessionTypes DEF PasteRaises, RecoverToIdle, SessionEnds
    <3>2. fate' \in [Utterance -> Fate]
      BY <1>2, <2>7 DEF PasteRaises, Settle, TypeInv, TypeOK
    <3>. QED
      BY <1>1, <2>1, <2>3, <2>7, <3>1, <3>2
         DEF PasteRaises, RecoverToIdle, SessionEnds, TypeInv, TypeOK, WrittenOK,
             OpenIsNumbered, State, Pill
  <2>. QED BY <1>7, <2>4, <2>5, <2>6, <2>7 DEF Attempt
<1>. QED BY <1>4, <1>5, <1>6, <1>7 DEF DoPaste

LEMMA ExecuteTypes ==
  ASSUME TypeInv, NEW step, Lawful(sm, step), NEW s, NEW paste, Handled(s, paste),
         Execute(step, s, paste)
  PROVE  WrittenOK'
<1>1. step.state \in State
  BY DEF Lawful
<1>2. CASE "RECORD_START" \in step.commands /\ RecordStart(step.state)
  BY <1>1, <1>2, RecordStartTypes DEF Lawful
<1>3. CASE "RECORD_STOP_AND_TRANSCRIBE" \in step.commands /\ Transcribe(step.state)
  BY <1>1, <1>3, TranscribeTypes DEF Lawful, Recording
<1>4. CASE "CANCEL" \in step.commands /\ Cancel(step.state)
  BY <1>4, CancelTypes DEF Lawful
<1>5. CASE "PASTE" \in step.commands /\ DoPaste(step.state, s, paste)
  BY <1>5, PasteTypes DEF Lawful
<1>6. CASE step.commands \intersect Flash # {} /\ Flashed(step.state, s, paste)
  <2>1. step.state = "IDLE" /\ paste \in LastPaste \union {NoPaste}
    BY <1>6 DEF Lawful, Handled, TypeInv, TypeOK
  <2>2. mostRecent' \in Text /\ caret' \in [Windows -> Text]
    BY <1>6 DEF Flashed, TypeInv, TypeOK
  <2>. QED
    BY <1>1, <1>6, <2>1, <2>2, UnpastedTypes DEF Flashed, Handled, Fate, Pill
<1>7. CASE step.commands = {"CANCEL_TAP_TIMER"} /\ PillRefreshed(step.state)
  BY <1>1, <1>7 DEF Lawful, PillRefreshed, TypeInv, TypeOK, WrittenOK, OpenIsNumbered,
                    Pill
<1>8. CASE step.commands \subseteq {"BUSY_NUDGE"} /\ NothingElse(step.state)
  BY <1>1, <1>8 DEF Lawful, NothingElse, TypeInv, TypeOK, WrittenOK, OpenIsNumbered
<1>. QED
  BY <1>2, <1>3, <1>4, <1>5, <1>6, <1>7, <1>8 DEF Execute, Flash

(* The part of TypeInv that Execute leaves alone.                          *)
SurroundingsOK ==
  /\ transcriptionQueue \in Seq(Heard)
  /\ transformQueue \in Seq(Transformed)
  /\ {preloadPillActive, modelLoaded, llmWarming, llmWarm} \subseteq BOOLEAN
  /\ foreground \in Windows

LEMMA HandlesTypes ==
  ASSUME TypeInv, NEW event \in Event, NEW tap \in BOOLEAN, Handles(event, tap)
  PROVE  TypeInv'
<1>1. Lawful(sm, Handle(sm, event, tap))
  BY HandleIsLawful DEF TypeInv, TypeOK
<1>2. Handled(session, lastPaste)
  BY DEF Handled, TypeInv, TypeOK
<1>3. WrittenOK'
  BY <1>1, <1>2, ExecuteTypes DEF Handles
<1>4. SurroundingsOK'
  BY DEF Handles, SurroundingsOK, TypeInv, TypeOK
<1>. QED BY <1>3, <1>4 DEF TypeInv, TypeOK, WrittenOK, SurroundingsOK

(* Each answer of the recogniser, in the order of HandleResult.            *)
LEMMA HandleResultTypes ==
  ASSUME TypeInv, NEW item \in Heard, IsCurrent(item), HandleResult(item)
  PROVE  WrittenOK'
<1>1. /\ \A event \in Event : Lawful(sm, Handle(sm, event, FALSE))
      /\ {"EMPTY_RESULT", "BORDERLINE", "TRANSCRIPTION_DONE"} \subseteq Event
  BY HandleIsLawful DEF TypeInv, TypeOK, Event
<1>2. /\ Handled(Answered, lastPaste) /\ Handled(Answered, NoPaste)
      /\ \A t \in Text : Handled([Answered EXCEPT !.textToPaste = t], lastPaste)
      /\ \A t \in Text : Handled([Answered EXCEPT !.textToPaste = t,
                                                  !.pendingReplace = NoText], lastPaste)
  BY DEF Handled, Answered, TypeInv, TypeOK, Session, Text
<1>3. item.epoch = session.epoch /\ item.epoch \in Utterance
  BY DEF Heard, IsCurrent
<1>4. ASSUME NEW paste \in {lastPaste, NoPaste}, EmptyResult(paste) PROVE WrittenOK'
  BY <1>1, <1>2, <1>4, ExecuteTypes DEF EmptyResult
<1>5. ASSUME SayAgain PROVE WrittenOK'
  BY <1>1, <1>2, <1>5, ExecuteTypes DEF SayAgain
<1>6. ASSUME Fire PROVE WrittenOK'
  <2>1. CASE NothingToPaste
    BY <1>4, <2>1 DEF NothingToPaste
  <2>2. CASE PastesAgain
    <3>1. mostRecent \in Text
      BY DEF TypeInv, TypeOK
    <3>. QED BY <1>1, <1>2, <2>2, <3>1, ExecuteTypes DEF PastesAgain
  <2>3. CASE FireRefused
    BY <1>4, <2>3 DEF FireRefused
  <2>4. CASE TransformsArmed /\ TransformStarts
    <3>1. session' \in Session /\ session'.epoch = session.epoch
      BY <2>4 DEF TransformStarts, TypeInv, TypeOK, Session
    <3>2. Operand \in Text
      BY <2>4 DEF TransformsArmed, Operand, TypeInv, TypeOK, LastPaste, Text
    <3>3. workers' \subseteq Worker
      BY <1>3, <2>4, <3>2 DEF TransformStarts, StartsLeg, TypeInv, TypeOK, Worker
    <3>. QED
      BY <2>4, <3>1, <3>3 DEF TransformStarts, StaysOpen, TypeInv, TypeOK, WrittenOK,
                              OpenIsNumbered, Pill
  <2>. QED
    BY <1>6, <2>1, <2>2, <2>3, <2>4 DEF Fire, PasteAction, TriggerFire
<1>7. ASSUME Borderline PROVE WrittenOK'
  <2>1. workers' \subseteq Worker
    BY <1>3, <1>7 DEF Borderline, StartsLeg, TypeInv, TypeOK, Worker, Text
  <2>. QED
    BY <1>7, <2>1 DEF Borderline, StaysOpen, TypeInv, TypeOK, WrittenOK, OpenIsNumbered
<1>8. ASSUME Dictation(item.epoch) PROVE WrittenOK'
  <2>1. {item.epoch, NoText} \subseteq Text
    BY <1>3 DEF Text
  <2>. QED BY <1>1, <1>2, <1>8, <2>1, ExecuteTypes DEF Dictation
<1>9. ASSUME ResultFailed PROVE WrittenOK'
  BY <1>9, SessionEndsTypes DEF ResultFailed, Dropped, RecoverToIdle, Fate, TypeInv, TypeOK
<1>. QED BY <1>4, <1>5, <1>6, <1>7, <1>8, <1>9 DEF HandleResult

LEMMA HandleTransformedTypes ==
  ASSUME TypeInv, NEW item \in Transformed, IsCurrent(item), HandleTransformed(item)
  PROVE  WrittenOK' /\ llmWarm' \in BOOLEAN
<1>1. /\ \A event \in Event : Lawful(sm, Handle(sm, event, FALSE))
      /\ {"EMPTY_RESULT", "TRANSCRIPTION_DONE"} \subseteq Event
  BY HandleIsLawful DEF TypeInv, TypeOK, Event
<1>2. /\ Handled(BothAnswered, lastPaste)
      /\ \A t, u \in Text : Handled([BothAnswered EXCEPT !.textToPaste = t,
                                                        !.pendingReplace = u], lastPaste)
  BY DEF Handled, BothAnswered, Answered, TypeInv, TypeOK, Session, Text
<1>3. CASE item.kind = "ok"
  <2>1. {item.epoch, NoText} \subseteq Text /\ item.erase \in Text
    BY DEF Transformed, Text
  <2>2. Replacement(item) /\ llmWarm' = TRUE
    BY <1>3 DEF HandleTransformed
  <2>. QED BY <1>1, <1>2, <2>1, <2>2, ExecuteTypes DEF Replacement
<1>4. CASE item.kind = "failed"
  <2>1. /\ Execute(Handle(sm, "EMPTY_RESULT", FALSE), BothAnswered, lastPaste)
        /\ llmWarm' = llmWarm
    BY <1>4 DEF HandleTransformed
  <2>. QED BY <1>1, <1>2, <2>1, ExecuteTypes DEF TypeInv, TypeOK
<1>. QED BY <1>3, <1>4 DEF HandleTransformed

LEMMA NothingAwaitedTypes ==
  ASSUME TypeInv, NothingAwaited
  PROVE  WrittenOK'
BY DEF TypeInv, TypeOK, NothingAwaited, coreVars, WrittenOK, OpenIsNumbered

LEMMA InitTypes == Init => TypeInv
<1> SUFFICES ASSUME Init PROVE TypeInv
  OBVIOUS
<1>1. session \in Session /\ sm \in State
  BY DEF Init, Advanced, Session, Text, NoText, State
<1>2. transcriptionQueue \in Seq(Heard) /\ transformQueue \in Seq(Transformed)
  BY DEF Init
<1>3. fate \in [Utterance -> Fate] /\ caret \in [Windows -> Text]
  BY DEF Init, Fate, Text
<1>4. /\ {trayRecording, loadingForTranscribe, preloadPillActive} \subseteq BOOLEAN
      /\ {modelLoaded, modelLoading, llmWarming, llmWarm} \subseteq BOOLEAN
  BY ConstantsAssumption DEF Init
<1>. QED
  BY <1>1, <1>2, <1>3, <1>4 DEF Init, TypeInv, TypeOK, OpenIsNumbered, Text, Pill

LEMMA NextTypes == TypeInv /\ [Next]_vars => TypeInv'
<1> SUFFICES ASSUME TypeInv, [Next]_vars PROVE TypeInv'
  OBVIOUS
<1> USE DEF TypeInv, TypeOK, OpenIsNumbered
<1>1. CASE OnHotkeyEvent
  BY <1>1, HandlesTypes DEF OnHotkeyEvent, Event
<1>2. CASE CheckSilence
  BY <1>2, HandlesTypes DEF CheckSilence, Event
<1>3. CASE OnTrayStartRecording
  <2>1. Handle("PRESSED", "KEY_UP", TRUE).state = "TOGGLE_REC"
    BY DEF Handle, InPressed, PressedKeyUp, Goes
  <2>2. WrittenOK'
    BY <1>3, <2>1, RecordStartTypes DEF OnTrayStartRecording, State
  <2>. QED BY <1>3, <2>2 DEF OnTrayStartRecording, WrittenOK
<1>4. CASE OnTrayStopRecording
  BY <1>4, HandlesTypes DEF OnTrayStopRecording, Event
<1>5. CASE TranscribeWorker
  <2>1. PICK w \in workers :
           \E kind \in TranscribeKinds(w.leg) :
              transcriptionQueue' =
                Append(transcriptionQueue, [epoch |-> w.epoch, kind |-> kind])
    BY <1>5 DEF TranscribeWorker
  <2>2. \A kind \in TranscribeKinds(w.leg) : [epoch |-> w.epoch, kind |-> kind] \in Heard
    BY <2>1 DEF TranscribeKinds, Heard, Worker
  <2>3. transcriptionQueue' \in Seq(Heard)
    BY <2>1, <2>2
  <2>4. workers' \subseteq Worker
    BY <1>5 DEF TranscribeWorker
  <2>. QED
    BY <1>5, <2>3, <2>4 DEF TranscribeWorker, coreVars, pillVars, modelVars, desktopVars
<1>6. CASE TransformWorker
  <2>1. PICK w \in workers, kind \in {"ok", "failed"} :
           transformQueue' = Append(transformQueue,
             [epoch |-> w.epoch, kind |-> kind, erase |-> w.erase])
    BY <1>6 DEF TransformWorker
  <2>2. [epoch |-> w.epoch, kind |-> kind, erase |-> w.erase] \in Transformed
    BY <2>1 DEF Transformed, Worker
  <2>3. transformQueue' \in Seq(Transformed)
    BY <2>1, <2>2
  <2>4. workers' \subseteq Worker
    BY <1>6 DEF TransformWorker
  <2>. QED
    BY <1>6, <2>3, <2>4 DEF TransformWorker, coreVars, pillVars, modelVars, desktopVars
<1>7. CASE CheckTranscriptionResult
  <2>1. WrittenOK'
    <3>1. CASE HasCurrent(transcriptionQueue) /\ session.transcriptionOutstanding
      BY <1>7, <3>1, DrainFacts, HandleResultTypes DEF CheckTranscriptionResult
    <3>2. CASE ~(HasCurrent(transcriptionQueue) /\ session.transcriptionOutstanding)
      BY <1>7, <3>2, NothingAwaitedTypes DEF CheckTranscriptionResult
    <3>. QED BY <3>1, <3>2
  <2>2. transcriptionQueue' \in Seq(Heard)
    BY <1>7, DrainFacts DEF CheckTranscriptionResult
  <2>. QED BY <1>7, <2>1, <2>2 DEF CheckTranscriptionResult, WrittenOK
<1>8. CASE CheckTransformResult
  <2>1. WrittenOK' /\ llmWarm' \in BOOLEAN
    <3>1. CASE TransformAwaited
      BY <1>8, <3>1, DrainFacts, HandleTransformedTypes
         DEF CheckTransformResult, TransformAwaited
    <3>2. CASE ~TransformAwaited
      BY <1>8, <3>2, NothingAwaitedTypes DEF CheckTransformResult
    <3>. QED BY <3>1, <3>2
  <2>2. transformQueue' \in Seq(Transformed)
    BY <1>8, DrainFacts DEF CheckTransformResult
  <2>. QED BY <1>8, <2>1, <2>2 DEF CheckTransformResult, WrittenOK
<1>9. CASE CheckLoadingOverlay
  <2>1. pill' \in Pill
    BY <1>9 DEF CheckLoadingOverlay, PillAfterLoad, Pill
  <2>2. {loadingForTranscribe', preloadPillActive'} \subseteq BOOLEAN
    BY <1>9 DEF CheckLoadingOverlay
  <2>. QED
    BY <1>9, <2>1, <2>2 DEF CheckLoadingOverlay, coreVars, legVars, modelVars, desktopVars
<1>10. CASE LifecycleLoads \/ LifecycleUnloads \/ PreloadEnds
  BY <1>10 DEF LifecycleLoads, LifecycleUnloads, PreloadEnds, coreVars, legVars, pillVars,
               desktopVars
<1>11. CASE LlmWarmEnds \/ LlmCools
  BY <1>11 DEF LlmWarmEnds, LlmCools, coreVars, legVars, pillVars, desktopVars
<1>12. CASE LastPasteAges
  <2>1. lastPaste' \in LastPaste
    BY <1>12 DEF LastPasteAges, LastPaste
  <2>. QED BY <1>12, <2>1 DEF LastPasteAges, legVars, pillVars, modelVars, desktopVars
<1>13. CASE PillTimesOut
  BY <1>13 DEF PillTimesOut, Pill, coreVars, legVars, modelVars, desktopVars
<1>14. CASE FocusMoves
  BY <1>14 DEF FocusMoves, coreVars, legVars, pillVars, modelVars
<1>15. CASE UNCHANGED vars
  BY <1>15 DEF vars, coreVars, legVars, pillVars, modelVars, desktopVars
<1>. QED
  BY <1>1, <1>2, <1>3, <1>4, <1>5, <1>6, <1>7, <1>8, <1>9, <1>10, <1>11, <1>12, <1>13,
     <1>14, <1>15 DEF Next

(* No handler ever leaves a field with a value the next one could not      *)
(* take, in particular no pending text and no length to erase without an   *)
(* utterance behind it.                                                    *)
THEOREM TypeCorrect == Spec => []TypeOK
<1>1. TypeInv => TypeOK
  BY DEF TypeInv
<1>. QED BY <1>1, InitTypes, NextTypes, PTL DEF Spec

-----------------------------------------------------------------------------
(***************************************************************************)
(* The course of a dictation.  Whatever a handler does, seen from outside  *)
(* it is one of four outcomes; the history invariant and the refinement of *)
(* Dictation need nothing else.                                            *)
(***************************************************************************)
Opens ==
  /\ sm = "IDLE" /\ sm' \in Recording
  /\ session'.epoch = session.epoch + 1
  /\ session.epoch + 1 \in Utterance
  /\ micOpen' = TRUE /\ trayRecording' = TRUE
  /\ fate' = [fate EXCEPT ![session.epoch + 1] = "open"]
  /\ ~session'.transcriptionOutstanding /\ sm' # "TRANSCRIBING"
  /\ UNCHANGED <<mostRecent, caret>>

FailsToOpen ==
  /\ sm = "IDLE" /\ sm' = "IDLE"
  /\ session'.epoch = session.epoch + 2
  /\ micOpen' = FALSE /\ trayRecording' = FALSE
  /\ ~session'.transcriptionOutstanding
  /\ UNCHANGED <<mostRecent, caret, fate>>

GoesOn ==
  /\ sm' = "IDLE" <=> sm = "IDLE"
  /\ session'.epoch = session.epoch
  /\ \/ /\ UNCHANGED micOpen
        /\ sm' \in Recording <=> sm \in Recording
        /\ session'.transcriptionOutstanding = session.transcriptionOutstanding
     \/ /\ micOpen' = FALSE
        /\ sm' = "TRANSCRIBING"
        /\ session'.transcriptionOutstanding
  /\ UNCHANGED <<trayRecording, mostRecent, caret, fate>>

ClosesWith(f) ==
  /\ fate' = [fate EXCEPT ![session.epoch] = f]
  /\ mostRecent' = IF f \in {"pasted", "held"} THEN session.epoch ELSE mostRecent
  /\ f = "repasted" => mostRecent # NoText
  /\ f = "cancelled" => UNCHANGED caret
  /\ \A w \in Windows : caret'[w] \in {caret[w], NoText, mostRecent, session.epoch}

Closes ==
  /\ sm # "IDLE" /\ sm' = "IDLE"
  /\ session'.epoch \in {session.epoch, session.epoch + 1}
  /\ micOpen' = FALSE \/ (UNCHANGED micOpen /\ sm = "TRANSCRIBING")
  /\ trayRecording' = FALSE
  /\ ~session'.transcriptionOutstanding
  /\ \E f \in Fate \ {"none", "open"} : ClosesWith(f)

Outcome == Opens \/ FailsToOpen \/ GoesOn \/ Closes

(* What is pasted is the session's own text or the kept one, and a session *)
(* that ends has had its answer.                                           *)
Pastable(s) == s.textToPaste \in {NoText, session.epoch, mostRecent}

Ready(step, s) ==
  /\ "PASTE" \in step.commands => Pastable(s)
  /\ step.commands \intersect Ending # {} => ~s.transcriptionOutstanding

LEMMA NewSessionAwaitsNothing ==
  \A e \in Nat : ~Advanced(e).transcriptionOutstanding
BY DEF Advanced

LEMMA RecordStartOutcome ==
  ASSUME TypeInv, sm = "IDLE", NEW state \in Recording, RecordStart(state)
  PROVE  Opens \/ FailsToOpen
<1>1. session.epoch \in Nat /\ session.epoch + 1 \in Nat
      /\ session.epoch + 1 \in Utterance
  BY ConstantsAssumption DEF RecordStart, Session, Utterance, TypeInv, TypeOK
<1>2. CASE MicOpens(state)
  BY <1>1, <1>2 DEF RecordStart, MicOpens, Advanced, Settle, Opens, Recording
<1>3. CASE MicFails
  BY <1>1, <1>3, NewSessionTypes, NewSessionAwaitsNothing
     DEF RecordStart, MicFails, RecoverToIdle, SessionEnds, FailsToOpen
<1>. QED BY <1>2, <1>3 DEF RecordStart

LEMMA PasteOutcome ==
  ASSUME TypeInv, sm = "TRANSCRIBING", NEW s, NEW paste, Handled(s, paste), Pastable(s),
         ~s.transcriptionOutstanding, DoPaste("IDLE", s, paste)
  PROVE  Closes
<1> USE DEF Handled
<1>1. /\ session.epoch \in Nat /\ Settled(s).epoch = session.epoch
      /\ ~Settled(s).transcriptionOutstanding
  BY DEF TypeInv, TypeOK, Session, Settled
<1>2. caret \in [Windows -> Text] /\ foreground \in Windows
  BY DEF TypeInv, TypeOK
<1>3. ASSUME NEW p, NEW f \in Fate \ {"none", "open"}, ClosesWith(f),
             Unpasted("IDLE", Settled(s), paste, p, f)
                \/ Unpasted("IDLE", Settled(s), NoPaste, p, f)
      PROVE  Closes
  BY <1>1, <1>3 DEF Unpasted, Closes
<1>4. ASSUME PasteSkipped("IDLE", s, paste) \/ FireDiscarded("IDLE", s, paste)
      PROVE  Closes
  <2>1. ClosesWith("dropped")
    BY <1>1, <1>4 DEF PasteSkipped, FireDiscarded, Unpasted, Settle, ClosesWith
  <2>. QED BY <1>3, <1>4, <2>1 DEF PasteSkipped, FireDiscarded, Fate
<1>5. ASSUME PasteDrifted("IDLE", s, paste) PROVE Closes
  <2>1. /\ FateIfHeld(s) \in {"held", "dropped"}
        /\ FateIfHeld(s) = "held" <=> s.textToPaste = session.epoch
    BY DEF FateIfHeld
  <2>2. ClosesWith(FateIfHeld(s))
    BY <1>1, <1>5, <2>1 DEF PasteDrifted, Unpasted, Settle, ClosesWith, Pastable
  <2>. QED BY <1>3, <1>5, <2>1, <2>2 DEF PasteDrifted, Fate
<1>6. ASSUME Attempt("IDLE", s, paste) PROVE Closes
  <2>1. /\ FateIfFailed(s) \in {"held", "dropped"}
        /\ FateIfFailed(s) = "held" <=> ~IsFire(s) /\ s.textToPaste = session.epoch
    BY DEF FateIfFailed, FateIfHeld
  <2>2. /\ FateIfReturns(s) \in {"pasted", "replaced", "repasted"}
        /\ FateIfReturns(s) = "pasted" <=> ~IsFire(s) /\ s.textToPaste = session.epoch
        /\ FateIfReturns(s) = "repasted" => ~IsFire(s) /\ s.textToPaste # session.epoch
    BY DEF FateIfReturns
  <2>3. /\ s.textToPaste \in {session.epoch, mostRecent} /\ s.textToPaste # NoText
        /\ mostRecent' = IF IsFire(s) THEN mostRecent ELSE s.textToPaste
    BY <1>6 DEF Attempt, PasteAllowed, Pastable, Remember
  <2>4. InjectionCutShort(s) \/ UNCHANGED caret
          \/ caret' = [caret EXCEPT ![foreground] = s.textToPaste]
        => \A w \in Windows : caret'[w] \in {caret[w], NoText, mostRecent, session.epoch}
    BY <1>2, <2>3 DEF InjectionCutShort
  <2>5. CASE PasteReturns("IDLE", s)
    <3>1. ClosesWith(FateIfReturns(s))
      BY <2>2, <2>3, <2>4, <2>5 DEF PasteReturns, Settle, ClosesWith
    <3>. QED BY <1>1, <2>2, <2>5, <3>1 DEF PasteReturns, Closes, Fate
  <2>6. CASE PasteModifiersHeld("IDLE", s, paste) \/ PasteErrored("IDLE", s, paste)
    <3>1. ClosesWith(FateIfFailed(s))
      BY <1>1, <2>1, <2>3, <2>4, <2>6
         DEF PasteModifiersHeld, PasteErrored, Unpasted, Settle, ClosesWith
    <3>. QED BY <1>3, <2>1, <2>6, <3>1 DEF PasteModifiersHeld, PasteErrored, Fate
  <2>7. CASE PasteRaises(s)
    <3>1. ClosesWith(FateIfFailed(s))
      BY <2>1, <2>3, <2>4, <2>7 DEF PasteRaises, Settle, ClosesWith
    <3>2. session'.epoch = session.epoch + 1 /\ ~session'.transcriptionOutstanding
      BY <1>1, <2>7, NewSessionTypes, NewSessionAwaitsNothing DEF PasteRaises, RecoverToIdle, SessionEnds
    <3>. QED
      BY <2>1, <2>7, <3>1, <3>2 DEF PasteRaises, RecoverToIdle, SessionEnds, Closes, Fate
  <2>. QED BY <1>6, <2>5, <2>6, <2>7 DEF Attempt
<1>. QED BY <1>4, <1>5, <1>6 DEF DoPaste

LEMMA ExecuteOutcome ==
  ASSUME TypeInv, NEW step, Lawful(sm, step), NEW s, NEW paste, Handled(s, paste),
         Ready(step, s), Execute(step, s, paste)
  PROVE  Outcome
<1>1. session.epoch \in Nat
  BY DEF TypeInv, TypeOK, Session
<1>2. CASE "RECORD_START" \in step.commands /\ RecordStart(step.state)
  BY <1>2, RecordStartOutcome DEF Lawful, Recording, Outcome
<1>3. CASE "RECORD_STOP_AND_TRANSCRIBE" \in step.commands /\ Transcribe(step.state)
  <2>1. sm \in Recording /\ sm # "IDLE" /\ step.state = "TRANSCRIBING"
    BY <1>3 DEF Lawful, Recording
  <2>2. CASE AudioTaken(step.state)
    BY <1>3, <2>1, <2>2 DEF Transcribe, AudioTaken, GoesOn, Outcome, TypeInv, TypeOK,
                            Session
  <2>3. CASE Dropped
    <3>1. ClosesWith("dropped")
      BY <1>3, <2>3 DEF Transcribe, Dropped, Settle, ClosesWith
    <3>. QED
      BY <1>1, <1>3, <2>1, <2>3, <3>1, NewSessionTypes, NewSessionAwaitsNothing
         DEF Dropped, RecoverToIdle, SessionEnds, Closes, Outcome, Fate
  <2>. QED BY <1>3, <2>2, <2>3 DEF Transcribe
<1>4. CASE "CANCEL" \in step.commands /\ Cancel(step.state)
  <2>1. ClosesWith("cancelled")
    BY <1>4 DEF Cancel, Settle, ClosesWith
  <2>. QED
    BY <1>1, <1>4, <2>1, NewSessionTypes, NewSessionAwaitsNothing DEF Lawful, Cancel, SessionEnds, Closes, Outcome,
                                             Fate
<1>5. CASE "PASTE" \in step.commands /\ DoPaste(step.state, s, paste)
  BY <1>5, PasteOutcome DEF Lawful, Ready, Ending, Outcome
<1>6. CASE step.commands \intersect Flash # {} /\ Flashed(step.state, s, paste)
  <2>1. ClosesWith("dropped")
    BY <1>6 DEF Flashed, Unpasted, Settle, ClosesWith, Handled
  <2>. QED
    BY <1>6, <2>1 DEF Lawful, Ready, Ending, Flashed, Unpasted, Closes, Outcome, Handled,
                      Fate
<1>7. CASE step.commands = {"CANCEL_TAP_TIMER"} /\ PillRefreshed(step.state)
  BY <1>7 DEF Lawful, PillRefreshed, GoesOn, Outcome, Recording
<1>8. CASE step.commands \subseteq {"BUSY_NUDGE"} /\ NothingElse(step.state)
  BY <1>8 DEF Lawful, NothingElse, GoesOn, Outcome, Recording
<1>. QED
  BY <1>2, <1>3, <1>4, <1>5, <1>6, <1>7, <1>8 DEF Execute, Flash

LEMMA HandlesOutcome ==
  ASSUME TypeInv, NEW event \in Event \ Answer,
         NEW tap \in BOOLEAN, Handles(event, tap)
  PROVE  Outcome
<1>1. Lawful(sm, Handle(sm, event, tap)) /\ Ready(Handle(sm, event, tap), session)
  BY HandleIsLawful DEF TypeInv, TypeOK, Ready, Ending
<1>2. Handled(session, lastPaste)
  BY DEF Handled, TypeInv, TypeOK
<1>. QED BY <1>1, <1>2, ExecuteOutcome DEF Handles

LEMMA StaysOpenOutcome ==
  ASSUME StaysOpen, session'.epoch = session.epoch,
         session'.transcriptionOutstanding = session.transcriptionOutstanding
  PROVE  Outcome
BY DEF StaysOpen, GoesOn, Outcome

LEMMA NothingAwaitedOutcome ==
  ASSUME NothingAwaited
  PROVE  Outcome
BY DEF NothingAwaited, coreVars, GoesOn, Outcome

LEMMA HandleResultOutcome ==
  ASSUME TypeInv, sm = "TRANSCRIBING", NEW item \in Heard, IsCurrent(item),
         HandleResult(item)
  PROVE  Outcome
<1>1. /\ \A event \in Event :
            /\ Lawful(sm, Handle(sm, event, FALSE))
            /\ \A s : /\ event = "TRANSCRIPTION_DONE" => Pastable(s)
                      /\ ~s.transcriptionOutstanding
                      => Ready(Handle(sm, event, FALSE), s)
      /\ {"EMPTY_RESULT", "BORDERLINE", "TRANSCRIPTION_DONE"} \subseteq Event
  BY HandleIsLawful DEF TypeInv, TypeOK, Event, Ready
<1>2. /\ Handled(Answered, lastPaste) /\ Handled(Answered, NoPaste)
      /\ \A t \in Text : Handled([Answered EXCEPT !.textToPaste = t], lastPaste)
      /\ \A t \in Text : Handled([Answered EXCEPT !.textToPaste = t,
                                                  !.pendingReplace = NoText], lastPaste)
      /\ ~Answered.transcriptionOutstanding
      /\ \A t \in Text : /\ ~[Answered EXCEPT !.textToPaste = t].transcriptionOutstanding
                         /\ ~[Answered EXCEPT !.textToPaste = t,
                                  !.pendingReplace = NoText].transcriptionOutstanding
  BY DEF Handled, Answered, TypeInv, TypeOK, Session, Text
<1>3. item.epoch = session.epoch /\ item.epoch \in Text /\ NoText \in Text
  BY DEF Heard, IsCurrent, Text
<1>4. ASSUME NEW paste \in {lastPaste, NoPaste}, EmptyResult(paste) PROVE Outcome
  BY <1>1, <1>2, <1>4, ExecuteOutcome DEF EmptyResult
<1>5. ASSUME SayAgain PROVE Outcome
  BY <1>1, <1>2, <1>5, ExecuteOutcome DEF SayAgain
<1>6. ASSUME Fire PROVE Outcome
  <2>1. CASE NothingToPaste
    BY <1>4, <2>1 DEF NothingToPaste
  <2>2. CASE PastesAgain
    <3>1. mostRecent \in Text
      BY DEF TypeInv, TypeOK
    <3>2. Pastable([Answered EXCEPT !.textToPaste = mostRecent,
                                    !.pendingReplace = NoText])
      BY DEF Pastable, Answered, TypeInv, TypeOK, Session
    <3>. QED BY <1>1, <1>2, <2>2, <3>1, <3>2, ExecuteOutcome DEF PastesAgain
  <2>3. CASE FireRefused
    BY <1>4, <2>3 DEF FireRefused
  <2>4. CASE TransformStarts
    BY <2>4, StaysOpenOutcome DEF TransformStarts, TypeInv, TypeOK, Session
  <2>. QED
    BY <1>6, <2>1, <2>2, <2>3, <2>4 DEF Fire, PasteAction, TriggerFire
<1>7. ASSUME Borderline PROVE Outcome
  BY <1>7, StaysOpenOutcome DEF Borderline
<1>8. ASSUME Dictation(item.epoch) PROVE Outcome
  <2>1. \A t \in {item.epoch, NoText} : Pastable([Answered EXCEPT !.textToPaste = t])
    BY <1>3 DEF Pastable, Answered, TypeInv, TypeOK, Session
  <2>. QED BY <1>1, <1>2, <1>3, <1>8, <2>1, ExecuteOutcome DEF Dictation
<1>9. ASSUME ResultFailed PROVE Outcome
  <2>1. ClosesWith("dropped")
    BY <1>9 DEF ResultFailed, Dropped, Settle, ClosesWith
  <2>2. session'.epoch = session.epoch + 1 /\ ~session'.transcriptionOutstanding
    BY <1>9, NewSessionTypes, NewSessionAwaitsNothing
       DEF ResultFailed, Dropped, RecoverToIdle, SessionEnds, TypeInv, TypeOK, Session
  <2>. QED
    BY <1>9, <2>1, <2>2
       DEF ResultFailed, Dropped, RecoverToIdle, SessionEnds, Closes, Outcome, Fate
<1>. QED BY <1>4, <1>5, <1>6, <1>7, <1>8, <1>9 DEF HandleResult

LEMMA HandleTransformedOutcome ==
  ASSUME TypeInv, sm = "TRANSCRIBING", NEW item \in Transformed, IsCurrent(item),
         HandleTransformed(item)
  PROVE  Outcome
<1>1. /\ \A event \in Event :
            /\ Lawful(sm, Handle(sm, event, FALSE))
            /\ \A s : /\ event = "TRANSCRIPTION_DONE" => Pastable(s)
                      /\ ~s.transcriptionOutstanding
                      => Ready(Handle(sm, event, FALSE), s)
      /\ {"EMPTY_RESULT", "TRANSCRIPTION_DONE"} \subseteq Event
  BY HandleIsLawful DEF TypeInv, TypeOK, Event, Ready
<1>2. /\ Handled(BothAnswered, lastPaste)
      /\ \A t, u \in Text : Handled([BothAnswered EXCEPT !.textToPaste = t,
                                                        !.pendingReplace = u], lastPaste)
      /\ ~BothAnswered.transcriptionOutstanding
      /\ \A t, u \in Text : ~[BothAnswered EXCEPT !.textToPaste = t,
                                 !.pendingReplace = u].transcriptionOutstanding
  BY DEF Handled, BothAnswered, Answered, TypeInv, TypeOK, Session, Text
<1>3. CASE Replacement(item)
  <2>1. /\ item.epoch = session.epoch /\ {item.epoch, NoText} \subseteq Text
        /\ item.erase \in Text
    BY DEF Transformed, IsCurrent, Text
  <2>2. \A t \in {item.epoch, NoText} :
           Pastable([BothAnswered EXCEPT !.textToPaste = t,
                                         !.pendingReplace = item.erase])
    BY <2>1 DEF Pastable, BothAnswered, Answered, TypeInv, TypeOK, Session
  <2>. QED BY <1>1, <1>2, <1>3, <2>1, <2>2, ExecuteOutcome DEF Replacement
<1>4. CASE Execute(Handle(sm, "EMPTY_RESULT", FALSE), BothAnswered, lastPaste)
  BY <1>1, <1>2, <1>4, ExecuteOutcome
<1>. QED BY <1>3, <1>4 DEF HandleTransformed

(***************************************************************************)
(* The history invariant: the session that is open owns the one utterance  *)
(* that is open, later utterances have not been spoken, and what windows   *)
(* and the re-paste buffer hold has its fate behind it.                    *)
(***************************************************************************)
AwaitsInTranscribing == sm = "TRANSCRIBING" <=> session.transcriptionOutstanding

OneIsOpen ==
  \A e \in Utterance : fate[e] = "open" <=> sm # "IDLE" /\ e = session.epoch

LaterUnspoken == \A e \in Utterance : e > session.epoch => fate[e] = "none"

ShownIsSettled ==
  \A w \in Windows : caret[w] # NoText => fate[caret[w]] \notin {"none", "open", "cancelled"}

HistoryInv ==
  /\ TypeInv
  /\ MicAndTrayFollowTheMachine
  /\ AwaitsInTranscribing
  /\ OneIsOpen
  /\ LaterUnspoken
  /\ MostRecentIsTheNewest
  /\ ShownIsSettled

LEMMA NextOutcome ==
  ASSUME HistoryInv, [Next]_vars
  PROVE  Outcome
<1> USE DEF HistoryInv
<1>1. CASE OnHotkeyEvent
  BY <1>1, HandlesOutcome DEF OnHotkeyEvent, Event, Answer
<1>2. CASE CheckSilence
  BY <1>2, HandlesOutcome DEF CheckSilence, Event, Answer
<1>3. CASE OnTrayStartRecording
  <2>1. Handle("PRESSED", "KEY_UP", TRUE).state \in Recording
    BY DEF Handle, InPressed, PressedKeyUp, Goes, Recording
  <2>. QED BY <1>3, <2>1, RecordStartOutcome DEF OnTrayStartRecording, Outcome
<1>4. CASE OnTrayStopRecording
  BY <1>4, HandlesOutcome DEF OnTrayStopRecording, Event, Answer
<1>5. CASE CheckTranscriptionResult
  <2>1. CASE HasCurrent(transcriptionQueue) /\ session.transcriptionOutstanding
    BY <1>5, <2>1, DrainFacts, HandleResultOutcome
       DEF CheckTranscriptionResult, AwaitsInTranscribing, TypeInv, TypeOK
  <2>2. CASE ~(HasCurrent(transcriptionQueue) /\ session.transcriptionOutstanding)
    BY <1>5, <2>2, NothingAwaitedOutcome DEF CheckTranscriptionResult
  <2>. QED BY <2>1, <2>2
<1>6. CASE CheckTransformResult
  <2>1. CASE TransformAwaited
    BY <1>6, <2>1, DrainFacts, HandleTransformedOutcome
       DEF CheckTransformResult, TransformAwaited, AwaitsInTranscribing, TypeInv, TypeOK
  <2>2. CASE ~TransformAwaited
    BY <1>6, <2>2, NothingAwaitedOutcome DEF CheckTransformResult
  <2>. QED BY <2>1, <2>2
<1>7. CASE UNCHANGED <<sm, session, micOpen, trayRecording, mostRecent, caret, fate>>
  BY <1>7 DEF GoesOn, Outcome
<1>8. CASE TranscribeWorker \/ TransformWorker
  BY <1>7, <1>8 DEF TranscribeWorker, TransformWorker, coreVars, pillVars, desktopVars
<1>9. CASE CheckLoadingOverlay \/ PillTimesOut
  BY <1>7, <1>9 DEF CheckLoadingOverlay, PillTimesOut, coreVars, desktopVars
<1>10. CASE LifecycleLoads \/ LifecycleUnloads \/ PreloadEnds \/ LlmWarmEnds \/ LlmCools
  BY <1>7, <1>10 DEF LifecycleLoads, LifecycleUnloads, PreloadEnds, LlmWarmEnds, LlmCools,
                     coreVars, pillVars, desktopVars
<1>11. CASE LastPasteAges \/ FocusMoves
  BY <1>7, <1>11 DEF LastPasteAges, FocusMoves, coreVars, pillVars, desktopVars
<1>12. CASE UNCHANGED vars
  BY <1>7, <1>12 DEF vars, coreVars, pillVars, desktopVars
<1>. QED
  BY <1>1, <1>2, <1>3, <1>4, <1>5, <1>6, <1>8, <1>9, <1>10, <1>11, <1>12 DEF Next

LEMMA OutcomeKeepsHistory ==
  ASSUME HistoryInv, TypeInv', Outcome
  PROVE  HistoryInv'
<1>1. /\ session.epoch \in Nat /\ fate \in [Utterance -> Fate]
      /\ mostRecent \in Text /\ caret \in [Windows -> Text]
      /\ Utterance \subseteq Nat /\ NoText \notin Utterance
      /\ Text = Utterance \union {NoText}
  BY ConstantsAssumption DEF HistoryInv, TypeInv, TypeOK, Session, Utterance, Text, NoText
<1>2. session.epoch \in Utterance \/ sm = "IDLE"
  BY DEF HistoryInv, TypeInv, OpenIsNumbered
<1>3. CASE Opens
  <2> USE DEF Opens
  <2>1. MicAndTrayFollowTheMachine' /\ AwaitsInTranscribing'
    BY <1>3 DEF MicAndTrayFollowTheMachine, AwaitsInTranscribing, Recording
  <2>2. fate[session.epoch + 1] = "none"
    BY <1>1, <1>3 DEF HistoryInv, LaterUnspoken
  <2>3. OneIsOpen' /\ LaterUnspoken'
    BY <1>1, <1>3 DEF HistoryInv, OneIsOpen, LaterUnspoken, Recording
  <2>4. MostRecentIsTheNewest' /\ ShownIsSettled'
    BY <1>1, <1>3, <2>2 DEF HistoryInv, MostRecentIsTheNewest, ShownIsSettled
  <2>. QED BY <2>1, <2>3, <2>4 DEF HistoryInv
<1>4. CASE FailsToOpen
  <2> USE DEF FailsToOpen
  <2>1. MicAndTrayFollowTheMachine' /\ AwaitsInTranscribing'
    BY <1>4 DEF MicAndTrayFollowTheMachine, AwaitsInTranscribing, Recording
  <2>2. OneIsOpen' /\ LaterUnspoken'
    BY <1>1, <1>4 DEF HistoryInv, OneIsOpen, LaterUnspoken
  <2>3. MostRecentIsTheNewest' /\ ShownIsSettled'
    BY <1>4 DEF HistoryInv, MostRecentIsTheNewest, ShownIsSettled
  <2>. QED BY <2>1, <2>2, <2>3 DEF HistoryInv
<1>5. CASE GoesOn
  <2> USE DEF GoesOn
  <2>1. MicAndTrayFollowTheMachine'
    BY <1>5 DEF HistoryInv, MicAndTrayFollowTheMachine, Recording
  <2>2. AwaitsInTranscribing'
    <3>1. sm \in State /\ sm' \in State
      BY DEF HistoryInv, TypeInv, TypeOK
    <3>2. sm \in Recording \/ sm = "IDLE" \/ sm = "TRANSCRIBING"
      BY <3>1 DEF State, Recording
    <3>3. sm' \in Recording \/ sm' = "IDLE" \/ sm' = "TRANSCRIBING"
      BY <3>1 DEF State, Recording
    <3>. QED BY <1>5, <3>2, <3>3 DEF HistoryInv, AwaitsInTranscribing, Recording
  <2>3. OneIsOpen' /\ LaterUnspoken'
    BY <1>5 DEF HistoryInv, OneIsOpen, LaterUnspoken
  <2>4. MostRecentIsTheNewest' /\ ShownIsSettled'
    BY <1>5 DEF HistoryInv, MostRecentIsTheNewest, ShownIsSettled
  <2>. QED BY <2>1, <2>2, <2>3, <2>4 DEF HistoryInv
<1>6. ASSUME Closes PROVE HistoryInv'
  <2> USE DEF Closes
  <2>1. PICK f \in Fate \ {"none", "open"} : ClosesWith(f)
    BY <1>6
  <2>2. /\ session.epoch \in Utterance /\ fate[session.epoch] = "open"
        /\ mostRecent # session.epoch
    BY <1>1, <1>2, <1>6 DEF HistoryInv, OneIsOpen, MostRecentIsTheNewest
  <2>3. MicAndTrayFollowTheMachine' /\ AwaitsInTranscribing'
    BY <1>6 DEF HistoryInv, MicAndTrayFollowTheMachine, AwaitsInTranscribing, Recording
  <2>4. OneIsOpen' /\ LaterUnspoken'
    BY <1>1, <1>6, <2>1, <2>2 DEF HistoryInv, OneIsOpen, LaterUnspoken, ClosesWith
  <2>5. MostRecentIsTheNewest'
    BY <1>1, <2>1, <2>2 DEF HistoryInv, MostRecentIsTheNewest, LaterUnspoken, ClosesWith
  <2>6. ShownIsSettled'
    BY <1>1, <2>1, <2>2 DEF HistoryInv, ShownIsSettled, MostRecentIsTheNewest, ClosesWith
  <2>. QED BY <2>3, <2>4, <2>5, <2>6 DEF HistoryInv
<1>. QED BY <1>3, <1>4, <1>5, <1>6 DEF Outcome

LEMMA InitHistory == Init => HistoryInv
<1> SUFFICES ASSUME Init PROVE HistoryInv
  OBVIOUS
<1>1. \A e \in Utterance : fate[e] = "none"
  BY DEF Init
<1>2. MicAndTrayFollowTheMachine /\ AwaitsInTranscribing
  BY DEF Init, Advanced, MicAndTrayFollowTheMachine, AwaitsInTranscribing, Recording
<1>3. OneIsOpen /\ LaterUnspoken
  BY <1>1 DEF Init, OneIsOpen, LaterUnspoken
<1>4. MostRecentIsTheNewest /\ ShownIsSettled
  BY <1>1 DEF Init, MostRecentIsTheNewest, ShownIsSettled
<1>. QED BY <1>2, <1>3, <1>4, InitTypes DEF HistoryInv

LEMMA NextHistory == HistoryInv /\ [Next]_vars => HistoryInv'
BY NextTypes, NextOutcome, OutcomeKeepsHistory DEF HistoryInv

LEMMA History == Spec => []HistoryInv
BY InitHistory, NextHistory, PTL DEF Spec

(* The microphone is never left open by an error path, and the tray never  *)
(* lies about a session: every way a handler ends puts both where the      *)
(* state machine is.                                                       *)
THEOREM MicAndTrayCorrect == Spec => []MicAndTrayFollowTheMachine
<1>1. HistoryInv => MicAndTrayFollowTheMachine
  BY DEF HistoryInv
<1>. QED BY <1>1, History, PTL

(* "paste" always means the newest dictation that was recognised, also     *)
(* after a paste that was held or failed half way.                         *)
THEOREM MostRecentCorrect == Spec => []MostRecentIsTheNewest
<1>1. HistoryInv => MostRecentIsTheNewest
  BY DEF HistoryInv
<1>. QED BY <1>1, History, PTL

(* Esc is final: no window ever shows text of a cancelled utterance.       *)
THEOREM CancelIsFinal == Spec => []CancelledTextNeverLands
<1>1. HistoryInv => CancelledTextNeverLands
  BY DEF HistoryInv, ShownIsSettled, CancelledTextNeverLands
<1>. QED BY <1>1, History, PTL

-----------------------------------------------------------------------------
(***************************************************************************)
(* DaemonCore implements Dictation.                                        *)
(***************************************************************************)
LEMMA OutcomeImplements ==
  ASSUME HistoryInv, TypeInv', Outcome
  PROVE  [Promise!Next]_(Promise!vars)
<1> DEFINE current == IF sm = "IDLE" THEN NoText ELSE session.epoch
<1>1. /\ session.epoch \in Nat /\ fate \in [Utterance -> Fate] /\ NoText = 0
      /\ mostRecent \in Text /\ Promise!Utterance = Utterance
      /\ Utterance \subseteq Nat /\ 0 \notin Utterance
  BY ConstantsAssumption DEF HistoryInv, TypeInv, TypeOK, Session, Utterance, Text, NoText,
                             Promise!Utterance
<1>2. CASE Opens
  <2>1. current = 0 /\ current' = session.epoch + 1
    BY <1>1, <1>2 DEF Opens, Recording
  <2>2. \A v \in Utterance : v >= session.epoch + 1 => fate[v] = "none"
    BY <1>1 DEF HistoryInv, LaterUnspoken
  <2>3. Promise!Speak(session.epoch + 1)
    BY <1>1, <1>2, <2>1, <2>2 DEF Opens, Promise!Speak
  <2>. QED BY <1>1, <1>2, <2>3 DEF Opens, Promise!Next
<1>3. CASE FailsToOpen \/ GoesOn
  <2>1. current' = current /\ UNCHANGED <<fate, mostRecent>>
    BY <1>3 DEF FailsToOpen, GoesOn
  <2>. QED BY <2>1 DEF Promise!vars
<1>4. ASSUME Closes PROVE Promise!Next
  <2>1. PICK f \in Fate \ {"none", "open"} : ClosesWith(f)
    BY <1>4 DEF Closes
  <2>2. /\ current = session.epoch /\ current # 0 /\ current' = 0
        /\ fate' = [fate EXCEPT ![current] = f]
    BY <1>1, <1>4, <2>1 DEF Closes, ClosesWith, HistoryInv, TypeInv, OpenIsNumbered
  <2>3. Promise!Ends(f)
    BY <2>2 DEF Promise!Ends
  <2>4. CASE f \in {"pasted", "held"}
    BY <2>1, <2>2, <2>3, <2>4 DEF ClosesWith, Promise!Deliver, Promise!Next
  <2>5. CASE f \in {"replaced", "repasted"}
    BY <1>1, <2>1, <2>3, <2>5 DEF ClosesWith, Promise!Obey, Promise!Next
  <2>6. CASE f \in {"cancelled", "dropped"}
    BY <2>1, <2>3, <2>6 DEF ClosesWith, Promise!Abandon, Promise!Next
  <2>. QED BY <2>1, <2>4, <2>5, <2>6 DEF Fate
<1>. QED BY <1>2, <1>3, <1>4 DEF Outcome

(* The daemon keeps the promise of module Dictation: utterances one at a   *)
(* time, one fate for each that never changes, and the newest dictation    *)
(* recoverable, for any interleaving of hotkey, workers and focus.         *)
THEOREM DaemonImplementsDictation == Spec => ImplementsDictation
<1>1. Init => Promise!Init
  BY DEF Init, Promise!Init, NoText, Utterance, Promise!Utterance
<1>2. HistoryInv /\ HistoryInv' /\ [Next]_vars => [Promise!Next]_(Promise!vars)
  BY NextOutcome, OutcomeImplements DEF HistoryInv
<1>. QED BY <1>1, <1>2, History, PTL DEF Spec, ImplementsDictation, Promise!Spec

-----------------------------------------------------------------------------
(***************************************************************************)
(* The Last Paste and the screen.  A handler keeps the Last Paste and the  *)
(* text it stands for, forgets it, or replaces both.                       *)
(***************************************************************************)
Forgets == lastPaste' = NoPaste

Keeps == lastPaste' \in {lastPaste, NoPaste} /\ UNCHANGED caret

PastesAt(w) ==
  /\ lastPaste'.window = w
  /\ lastPaste'.reached => caret' = [caret EXCEPT ![w] = lastPaste'.text]

Ages ==
  /\ lastPaste # NoPaste
  /\ lastPaste' = [lastPaste EXCEPT !.fresh = FALSE]
  /\ UNCHANGED caret

ScreenOutcome == Forgets \/ Keeps \/ PastesAt(foreground)

LEMMA ExecuteScreen ==
  ASSUME NEW step, NEW s, NEW paste \in {lastPaste, NoPaste}, Execute(step, s, paste)
  PROVE  ScreenOutcome
<1> USE DEF ScreenOutcome, Forgets, Keeps
<1>1. CASE RecordStart(step.state)
  BY <1>1 DEF RecordStart, MicOpens, MicFails, RecoverToIdle, SessionEnds
<1>2. CASE Transcribe(step.state)
  BY <1>2 DEF Transcribe, AudioTaken, Dropped, RecoverToIdle, SessionEnds
<1>3. CASE Cancel(step.state)
  BY <1>3 DEF Cancel, SessionEnds
<1>4. CASE DoPaste(step.state, s, paste)
  <2>1. CASE \/ PasteSkipped(step.state, s, paste) \/ PasteDrifted(step.state, s, paste)
             \/ FireDiscarded(step.state, s, paste)
    BY <2>1 DEF PasteSkipped, PasteDrifted, FireDiscarded, Unpasted
  <2>2. CASE Attempt(step.state, s, paste)
    <3>1. CASE PasteReturns(step.state, s)
      <4>1. PICK reached \in BOOLEAN :
               /\ lastPaste' = [text |-> s.textToPaste, window |-> foreground,
                                fresh |-> TRUE, reached |-> reached]
               /\ reached => caret' = [caret EXCEPT ![foreground] = s.textToPaste]
        BY <3>1 DEF PasteReturns
      <4>. QED BY <4>1 DEF PastesAt
    <3>2. CASE PasteModifiersHeld(step.state, s, paste) \/ PasteErrored(step.state, s, paste)
      BY <3>2 DEF PasteModifiersHeld, PasteErrored, Unpasted
    <3>3. CASE PasteRaises(s)
      BY <3>3 DEF PasteRaises, RecoverToIdle, SessionEnds
    <3>. QED BY <2>2, <3>1, <3>2, <3>3 DEF Attempt
  <2>. QED BY <1>4, <2>1, <2>2 DEF DoPaste
<1>5. CASE \/ Flashed(step.state, s, paste) \/ PillRefreshed(step.state)
           \/ NothingElse(step.state)
  BY <1>5 DEF Flashed, Unpasted, PillRefreshed, NothingElse
<1>. QED BY <1>1, <1>2, <1>3, <1>4, <1>5 DEF Execute

LEMMA NextScreen ==
  ASSUME [Next]_vars
  PROVE  ScreenOutcome \/ Ages
<1>1. CASE OnHotkeyEvent \/ CheckSilence \/ OnTrayStopRecording
  BY <1>1, ExecuteScreen DEF OnHotkeyEvent, CheckSilence, OnTrayStopRecording, Handles
<1>2. CASE OnTrayStartRecording
  BY <1>2 DEF OnTrayStartRecording, RecordStart, MicOpens, MicFails, RecoverToIdle,
              SessionEnds, ScreenOutcome, Forgets, Keeps
<1>3. CASE CheckTranscriptionResult
  <2>1. CASE NothingAwaited
    BY <2>1 DEF NothingAwaited, coreVars, ScreenOutcome, Keeps
  <2>2. ASSUME NEW item, HandleResult(item) PROVE ScreenOutcome
    <3>1. CASE \E paste \in {lastPaste, NoPaste} : EmptyResult(paste)
      BY <3>1, ExecuteScreen DEF EmptyResult
    <3>2. CASE SayAgain \/ Dictation(item.epoch) \/ PastesAgain
      BY <3>2, ExecuteScreen DEF SayAgain, Dictation, PastesAgain
    <3>3. CASE ResultFailed
      BY <3>3 DEF ResultFailed, Dropped, RecoverToIdle, SessionEnds, ScreenOutcome, Forgets
    <3>4. CASE TransformStarts \/ Borderline
      BY <3>4 DEF TransformStarts, Borderline, StaysOpen, ScreenOutcome, Keeps
    <3>. QED
      BY <2>2, <3>1, <3>2, <3>3, <3>4
         DEF HandleResult, Fire, PasteAction, NothingToPaste, TriggerFire, FireRefused
  <2>. QED BY <1>3, <2>1, <2>2 DEF CheckTranscriptionResult
<1>4. CASE CheckTransformResult
  <2>1. CASE NothingAwaited
    BY <2>1 DEF NothingAwaited, coreVars, ScreenOutcome, Keeps
  <2>2. ASSUME NEW item, HandleTransformed(item) PROVE ScreenOutcome
    BY <2>2, ExecuteScreen DEF HandleTransformed, Replacement
  <2>. QED BY <1>4, <2>1, <2>2 DEF CheckTransformResult
<1>5. CASE LastPasteAges
  BY <1>5 DEF LastPasteAges, Ages, desktopVars
<1>6. CASE UNCHANGED <<lastPaste, caret>>
  BY <1>6 DEF ScreenOutcome, Keeps
<1>7. CASE TranscribeWorker \/ TransformWorker \/ CheckLoadingOverlay \/ PillTimesOut
           \/ FocusMoves
  BY <1>6, <1>7 DEF TranscribeWorker, TransformWorker, CheckLoadingOverlay, PillTimesOut,
                    FocusMoves, coreVars, desktopVars
<1>8. CASE LifecycleLoads \/ LifecycleUnloads \/ PreloadEnds \/ LlmWarmEnds \/ LlmCools
  BY <1>6, <1>8 DEF LifecycleLoads, LifecycleUnloads, PreloadEnds, LlmWarmEnds, LlmCools,
                    coreVars, desktopVars
<1>9. CASE UNCHANGED vars
  BY <1>6, <1>9 DEF vars, coreVars, desktopVars
<1>. QED BY <1>1, <1>2, <1>3, <1>4, <1>5, <1>7, <1>8, <1>9 DEF Next

(* If the keys of the last paste got through, the length that a            *)
(* replacement would erase is the length of what stands before the caret   *)
(* of the window it would erase in, after any sequence of held, failed,    *)
(* cancelled and repeated pastes.                                          *)
THEOREM LastPasteCorrect == Spec => []LastPasteIsOnScreen
<1>1. Init => LastPasteIsOnScreen
  BY DEF Init, LastPasteIsOnScreen, NoPaste
<1>2. TypeInv /\ TypeInv' /\ LastPasteIsOnScreen /\ [Next]_vars => LastPasteIsOnScreen'
  <2> SUFFICES ASSUME TypeInv, TypeInv', LastPasteIsOnScreen, [Next]_vars
               PROVE  LastPasteIsOnScreen'
    OBVIOUS
  <2>1. /\ caret \in [Windows -> Text] /\ foreground \in Windows
        /\ lastPaste \in LastPaste \union {NoPaste}
    BY DEF TypeInv, TypeOK
  <2>2. CASE Ages
    BY <2>1, <2>2 DEF Ages, LastPasteIsOnScreen, LastPaste
  <2>3. CASE ScreenOutcome
    <3>1. CASE Forgets
      BY <3>1 DEF Forgets, LastPasteIsOnScreen, NoPaste
    <3>2. CASE Keeps
      BY <3>2 DEF Keeps, LastPasteIsOnScreen, NoPaste
    <3>3. CASE PastesAt(foreground)
      BY <2>1, <3>3 DEF PastesAt, LastPasteIsOnScreen
    <3>. QED BY <2>3, <3>1, <3>2, <3>3 DEF ScreenOutcome
  <2>. QED BY <2>2, <2>3, NextScreen
<1>3. Spec => []TypeInv
  BY InitTypes, NextTypes, PTL DEF Spec
<1>. QED BY <1>1, <1>2, <1>3, PTL DEF Spec

-----------------------------------------------------------------------------
(***************************************************************************)
(* The legs of a session.  AwaitsExactlyOneLeg is not inductive: an epoch  *)
(* that moves on leaves the old legs behind only if none of them is ahead  *)
(* of it, and the erasure of a replacement is the Last Paste's only if     *)
(* nothing lets go of the Last Paste while the Transform runs.  Every      *)
(* handler moves the epoch on, ends the wait, starts one leg or leaves the *)
(* legs alone.                                                             *)
(***************************************************************************)
(* No worker and no result belongs to a session that has not begun, so an  *)
(* epoch that moves on leaves every leg behind.                            *)
NothingAhead ==
  /\ \A w \in workers : w.epoch <= session.epoch
  /\ \A i \in DOMAIN transcriptionQueue : transcriptionQueue[i].epoch <= session.epoch
  /\ \A i \in DOMAIN transformQueue : transformQueue[i].epoch <= session.epoch

(* While a Transform runs the Last Paste it was started for is still held, *)
(* aged or not, and its own length is what the leg carries.                *)
LegErasesLastPaste ==
  /\ session.pendingReplace = NoText
  /\ session.transformOutstanding =>
       /\ lastPaste # NoPaste
       /\ \A w \in LiveWorkers : w.erase = lastPaste.text
       /\ \A i \in LiveTransformed : transformQueue[i].erase = lastPaste.text

LegInv == HistoryInv /\ AwaitsExactlyOneLeg /\ NothingAhead /\ LegErasesLastPaste

(* What a handler does to the legs of the session.                         *)
Silent(s) ==
  ~s.transcriptionOutstanding /\ ~s.transformOutstanding /\ s.pendingReplace = NoText

MovesOn ==
  /\ session'.epoch > session.epoch /\ Silent(session')
  /\ UNCHANGED workers

Rests ==
  /\ session'.epoch = session.epoch /\ Silent(session')
  /\ UNCHANGED workers

Starts(leg, erase) ==
  /\ session'.epoch = session.epoch
  /\ session'.transcriptionOutstanding
  /\ session'.transformOutstanding <=> leg = "transform"
  /\ session'.pendingReplace = NoText
  /\ StartsLeg(leg, erase)
  /\ leg = "transform" => erase = lastPaste.text /\ lastPaste # NoPaste /\ UNCHANGED lastPaste

Stays ==
  /\ UNCHANGED <<session, workers>>
  /\ lastPaste # NoPaste => lastPaste' # NoPaste /\ lastPaste'.text = lastPaste.text

LEMMA NewSessionSilent == \A e \in Nat : Silent(Advanced(e))
BY DEF Silent, Advanced

(* Every result in a queue names a session.                                *)
LEMMA ResultsAreNumbered ==
  ASSUME NEW queue, queue \in Seq(Heard) \/ queue \in Seq(Transformed)
  PROVE  \A i \in DOMAIN queue : queue[i] \in Heard \union Transformed
                                /\ queue[i].epoch \in Nat
<1>1. \A r \in Heard \union Transformed : r.epoch \in Nat
  BY DEF Heard, Transformed, Utterance
<1>2. \A i \in DOMAIN queue : queue[i] \in Heard \union Transformed
  <2>1. CASE queue \in Seq(Heard)
    BY <2>1
  <2>2. CASE queue \in Seq(Transformed)
    BY <2>2
  <2>. QED BY <2>1, <2>2
<1>. QED BY <1>1, <1>2

(* With no leg left, a handler ends the wait or starts one leg.            *)
LEMMA FreshLegs ==
  ASSUME TypeInv, TypeInv', AwaitsInTranscribing',
         \A w \in workers : w.epoch < session.epoch,
         \A i \in DOMAIN transcriptionQueue' : transcriptionQueue'[i].epoch < session.epoch,
         \A i \in DOMAIN transformQueue' : transformQueue'[i].epoch < session.epoch,
         Rests \/ \E leg \in {"transcribe", "confirm", "transform"}, erase \in Text :
                    Starts(leg, erase)
  PROVE  (AwaitsExactlyOneLeg /\ NothingAhead /\ LegErasesLastPaste)'
<1>1. /\ session.epoch \in Nat /\ session'.epoch = session.epoch
      /\ \A w \in workers : w.epoch \in Nat
  BY DEF TypeInv, TypeOK, Session, Worker, Utterance, Rests, Starts
<1>2. /\ \A i \in DOMAIN transcriptionQueue' : transcriptionQueue'[i].epoch \in Nat
      /\ \A i \in DOMAIN transformQueue' : transformQueue'[i].epoch \in Nat
  BY ResultsAreNumbered DEF TypeInv, TypeOK
<1>3. LiveHeard' = {} /\ LiveTransformed' = {}
  BY <1>1, <1>2 DEF LiveHeard, LiveTransformed
<1>4. CASE Rests
  <2>1. LiveWorkers' = {}
    BY <1>1, <1>4 DEF Rests, LiveWorkers
  <2>2. NothingAhead'
    BY <1>1, <1>2, <1>4 DEF Rests, NothingAhead
  <2>. QED
    BY <1>3, <1>4, <2>1, <2>2
       DEF Rests, Silent, AwaitsExactlyOneLeg, AwaitsInTranscribing, NoLegs,
           LegErasesLastPaste
<1>5. ASSUME NEW leg \in {"transcribe", "confirm", "transform"}, NEW erase \in Text,
             Starts(leg, erase)
      PROVE  (AwaitsExactlyOneLeg /\ NothingAhead /\ LegErasesLastPaste)'
  <2> DEFINE new == [epoch |-> session.epoch, leg |-> leg, erase |-> erase]
  <2>1. workers' = workers \union {new}
    BY <1>5 DEF Starts, StartsLeg
  <2>2. LiveWorkers' = {new} /\ new \in workers'
    BY <1>1, <2>1 DEF LiveWorkers
  <2>3. NothingAhead'
    BY <1>1, <1>2, <2>1 DEF NothingAhead
  <2>4. OneLeg'
    BY <1>3, <1>5, <2>2 DEF OneLeg, Starts
  <2>5. LegErasesLastPaste'
    BY <1>3, <1>5, <2>2 DEF LegErasesLastPaste, Starts
  <2>. QED
    BY <1>5, <2>3, <2>4, <2>5 DEF Starts, AwaitsExactlyOneLeg, AwaitsInTranscribing
<1>. QED BY <1>4, <1>5

(* A session that begins or ends leaves the legs of the one before behind. *)
LEMMA LegsLeftBehind ==
  ASSUME TypeInv, TypeInv', AwaitsInTranscribing', MovesOn,
         \A w \in workers : w.epoch <= session.epoch,
         \A i \in DOMAIN transcriptionQueue' : transcriptionQueue'[i].epoch <= session.epoch,
         \A i \in DOMAIN transformQueue' : transformQueue'[i].epoch <= session.epoch
  PROVE  (AwaitsExactlyOneLeg /\ NothingAhead /\ LegErasesLastPaste)'
<1>1. /\ session.epoch \in Nat /\ session'.epoch \in Nat
      /\ session'.epoch > session.epoch /\ workers' = workers
      /\ \A w \in workers : w.epoch \in Nat
  BY DEF TypeInv, TypeOK, Session, Worker, Utterance, MovesOn
<1>2. /\ \A i \in DOMAIN transcriptionQueue' : transcriptionQueue'[i].epoch \in Nat
      /\ \A i \in DOMAIN transformQueue' : transformQueue'[i].epoch \in Nat
  BY ResultsAreNumbered DEF TypeInv, TypeOK
<1>3. NoLegs'
  BY <1>1, <1>2 DEF NoLegs, LiveWorkers, LiveHeard, LiveTransformed
<1>4. NothingAhead'
  BY <1>1, <1>2 DEF NothingAhead
<1>. QED
  BY <1>3, <1>4
     DEF MovesOn, Silent, AwaitsExactlyOneLeg, AwaitsInTranscribing, LegErasesLastPaste

(* A step that leaves the session and its legs alone.                      *)
LEMMA LegsStay ==
  ASSUME LegInv, AwaitsInTranscribing', Stays, UNCHANGED <<transcriptionQueue, transformQueue>>
  PROVE  (AwaitsExactlyOneLeg /\ NothingAhead /\ LegErasesLastPaste)'
<1>1. /\ LiveWorkers' = LiveWorkers /\ LiveHeard' = LiveHeard
      /\ LiveTransformed' = LiveTransformed
  BY DEF Stays, LiveWorkers, LiveHeard, LiveTransformed
<1>2. NothingAhead'
  BY DEF LegInv, Stays, NothingAhead
<1>3. OneLeg' <=> OneLeg
  BY <1>1 DEF OneLeg, Stays
<1>4. LegErasesLastPaste'
  BY <1>1 DEF LegInv, LegErasesLastPaste, Stays
<1>. QED
  BY <1>1, <1>2, <1>3, <1>4
     DEF LegInv, AwaitsExactlyOneLeg, AwaitsInTranscribing, NoLegs, Stays

(* A worker that posts its result hands its leg over to the queue.         *)
LEMMA LegsPosted ==
  ASSUME LegInv, AwaitsInTranscribing', TranscribeWorker \/ TransformWorker
  PROVE  (AwaitsExactlyOneLeg /\ NothingAhead /\ LegErasesLastPaste)'
<1>0. /\ session.epoch \in Nat /\ UNCHANGED <<session, lastPaste>>
      /\ workers \subseteq Worker
      /\ transcriptionQueue \in Seq(Heard) /\ transformQueue \in Seq(Transformed)
  BY DEF LegInv, HistoryInv, TypeInv, TypeOK, Session, TranscribeWorker, TransformWorker,
         coreVars
<1>1. CASE TranscribeWorker
  <2>1. PICK w \in workers, kind \in {"error", "empty", "speech", "confirmed", "unconfirmed"} :
           /\ w.leg \in {"transcribe", "confirm"}
           /\ workers' = workers \ {w}
           /\ transcriptionQueue' =
                Append(transcriptionQueue, [epoch |-> w.epoch, kind |-> kind])
    BY <1>1 DEF TranscribeWorker, TranscribeKinds
  <2> DEFINE n == Len(transcriptionQueue)
  <2>2. /\ n \in Nat /\ DOMAIN transcriptionQueue = 1 .. n
        /\ DOMAIN transcriptionQueue' = 1 .. n + 1
        /\ \A i \in 1 .. n : transcriptionQueue'[i] = transcriptionQueue[i]
        /\ transcriptionQueue'[n + 1].epoch = w.epoch
    BY <1>0, <2>1
  <2>3. /\ LiveTransformed' = LiveTransformed /\ UNCHANGED transformQueue
        /\ LiveWorkers' = LiveWorkers \ {w}
        /\ LiveHeard' = IF w.epoch = session.epoch THEN LiveHeard \union {n + 1} ELSE LiveHeard
    BY <1>0, <1>1, <2>1, <2>2
       DEF TranscribeWorker, LiveTransformed, LiveWorkers, LiveHeard
  <2>4. NothingAhead'
    BY <1>0, <2>1, <2>2, <2>3 DEF LegInv, NothingAhead
  <2>5. LegErasesLastPaste'
    BY <1>0, <2>1, <2>3 DEF LegInv, LegErasesLastPaste
  <2>6. CASE w.epoch = session.epoch
    <3>1. w \in LiveWorkers
      BY <2>1, <2>6 DEF LiveWorkers
    <3>2. /\ session.transcriptionOutstanding /\ ~session.transformOutstanding
          /\ LiveWorkers = {w} /\ LiveHeard = {} /\ LiveTransformed = {}
      BY <2>1, <3>1 DEF LegInv, AwaitsExactlyOneLeg, NoLegs, OneLeg
    <3>3. LiveHeard' = {n + 1} /\ n + 1 \in DOMAIN transcriptionQueue'
      BY <2>2, <2>3, <2>6, <3>2
    <3>4. OneLeg'
      BY <1>0, <2>3, <3>2, <3>3 DEF OneLeg
    <3>. QED
      BY <1>0, <2>4, <2>5, <3>2, <3>4 DEF AwaitsExactlyOneLeg, AwaitsInTranscribing
  <2>7. CASE w.epoch # session.epoch
    <3>1. LiveWorkers' = LiveWorkers /\ LiveHeard' = LiveHeard
      BY <2>3, <2>7 DEF LiveWorkers
    <3>2. LiveHeard \subseteq DOMAIN transcriptionQueue'
      BY <2>2 DEF LiveHeard
    <3>3. LiveWorkers \subseteq workers'
      BY <3>1 DEF LiveWorkers
    <3>4. (OneLeg => OneLeg') /\ (NoLegs => NoLegs')
      BY <1>0, <2>3, <3>1, <3>2, <3>3 DEF OneLeg, NoLegs
    <3>. QED
      BY <1>0, <2>4, <2>5, <3>4 DEF LegInv, AwaitsExactlyOneLeg, AwaitsInTranscribing
  <2>. QED BY <2>6, <2>7
<1>2. CASE TransformWorker
  <2>1. PICK w \in workers, kind \in {"ok", "failed"} :
           /\ w.leg = "transform"
           /\ workers' = workers \ {w}
           /\ transformQueue' = Append(transformQueue,
                [epoch |-> w.epoch, kind |-> kind, erase |-> w.erase])
    BY <1>2 DEF TransformWorker
  <2> DEFINE n == Len(transformQueue)
  <2>2. /\ n \in Nat /\ DOMAIN transformQueue = 1 .. n
        /\ DOMAIN transformQueue' = 1 .. n + 1
        /\ \A i \in 1 .. n : transformQueue'[i] = transformQueue[i]
        /\ transformQueue'[n + 1].epoch = w.epoch
        /\ transformQueue'[n + 1].erase = w.erase
    BY <1>0, <2>1
  <2>3. /\ LiveHeard' = LiveHeard /\ UNCHANGED transcriptionQueue
        /\ LiveWorkers' = LiveWorkers \ {w}
        /\ LiveTransformed' = IF w.epoch = session.epoch THEN LiveTransformed \union {n + 1}
                                                         ELSE LiveTransformed
    BY <1>0, <1>2, <2>1, <2>2
       DEF TransformWorker, LiveTransformed, LiveWorkers, LiveHeard
  <2>4. NothingAhead'
    BY <1>0, <2>1, <2>2, <2>3 DEF LegInv, NothingAhead
  <2>5. LegErasesLastPaste'
    BY <1>0, <2>1, <2>2, <2>3 DEF LegInv, LegErasesLastPaste, LiveWorkers, LiveTransformed
  <2>6. CASE w.epoch = session.epoch
    <3>1. w \in LiveWorkers
      BY <2>1, <2>6 DEF LiveWorkers
    <3>2. /\ session.transcriptionOutstanding /\ session.transformOutstanding
          /\ LiveWorkers = {w} /\ LiveHeard = {} /\ LiveTransformed = {}
      BY <2>1, <3>1 DEF LegInv, AwaitsExactlyOneLeg, NoLegs, OneLeg
    <3>3. LiveTransformed' = {n + 1} /\ n + 1 \in DOMAIN transformQueue'
      BY <2>2, <2>3, <2>6, <3>2
    <3>4. OneLeg'
      BY <1>0, <2>3, <3>2, <3>3 DEF OneLeg
    <3>. QED
      BY <1>0, <2>4, <2>5, <3>2, <3>4 DEF AwaitsExactlyOneLeg, AwaitsInTranscribing
  <2>7. CASE w.epoch # session.epoch
    <3>1. LiveWorkers' = LiveWorkers /\ LiveTransformed' = LiveTransformed
      BY <2>3, <2>7 DEF LiveWorkers
    <3>2. LiveTransformed \subseteq DOMAIN transformQueue'
      BY <2>2 DEF LiveTransformed
    <3>3. LiveWorkers \subseteq workers'
      BY <3>1 DEF LiveWorkers
    <3>4. (OneLeg => OneLeg') /\ (NoLegs => NoLegs')
      BY <1>0, <2>3, <3>1, <3>2, <3>3 DEF OneLeg, NoLegs
    <3>. QED
      BY <1>0, <2>4, <2>5, <3>4 DEF LegInv, AwaitsExactlyOneLeg, AwaitsInTranscribing
  <2>. QED BY <2>6, <2>7
<1>. QED BY <1>1, <1>2

(* A drain that finds no result of the session loses none of its legs.     *)
LEMMA LegsDrained ==
  ASSUME LegInv, AwaitsInTranscribing', NothingAwaited,
         \/ /\ transcriptionQueue' = AfterDrain(transcriptionQueue)
            /\ UNCHANGED transformQueue /\ ~HasCurrent(transcriptionQueue)
         \/ /\ transformQueue' = AfterDrain(transformQueue)
            /\ UNCHANGED transcriptionQueue /\ ~HasCurrent(transformQueue)
  PROVE  (AwaitsExactlyOneLeg /\ NothingAhead /\ LegErasesLastPaste)'
<1>1. UNCHANGED <<session, workers, lastPaste>>
  BY DEF NothingAwaited, coreVars
<1>2. /\ transcriptionQueue' = transcriptionQueue
           \/ (transcriptionQueue' = <<>> /\ LiveHeard = {})
      /\ transformQueue' = transformQueue
           \/ (transformQueue' = <<>> /\ LiveTransformed = {})
  BY DEF AfterDrain, HasCurrent, IsCurrent, LiveHeard, LiveTransformed
<1>3. /\ LiveWorkers' = LiveWorkers /\ LiveHeard' = LiveHeard
      /\ LiveTransformed' = LiveTransformed
      /\ LiveTransformed # {} => transformQueue' = transformQueue
      /\ LiveHeard # {} => transcriptionQueue' = transcriptionQueue
  BY <1>1, <1>2 DEF LiveWorkers, LiveHeard, LiveTransformed
<1>4. NothingAhead'
  BY <1>1, <1>2 DEF LegInv, NothingAhead
<1>5. OneLeg => OneLeg'
  BY <1>1, <1>3 DEF OneLeg
<1>6. LegErasesLastPaste'
  BY <1>1, <1>3 DEF LegInv, LegErasesLastPaste
<1>. QED
  BY <1>1, <1>3, <1>4, <1>5, <1>6
     DEF LegInv, AwaitsExactlyOneLeg, AwaitsInTranscribing, NoLegs

(* What the paste of s may do to the windows and to the fates.             *)
Touches(s, paste) ==
  /\ \A w \in Windows : caret'[w] # caret[w] => w = foreground /\ PasteAllowed(s, paste)
  /\ \A e \in Utterance :
        fate'[e] = "replaced" /\ fate[e] # "replaced" => IsFire(s) /\ PasteAllowed(s, paste)

Untouched ==
  /\ UNCHANGED caret
  /\ \A e \in Utterance : fate'[e] = "replaced" => fate[e] = "replaced"

LEMMA SettlesUntouched ==
  ASSUME TypeInv, NEW e, NEW f, Settle(e, f), f # "replaced", UNCHANGED caret
  PROVE  Untouched
BY DEF TypeInv, TypeOK, Settle, Untouched

(* An answer ends the wait: the text is pasted or not, and then the        *)
(* session rests, or it is over with the next one's number.                *)
LEMMA PasteRests ==
  ASSUME TypeInv, NEW s, NEW paste, NEW state, Handled(s, paste),
         ~s.transcriptionOutstanding, ~s.transformOutstanding, DoPaste(state, s, paste)
  PROVE  (MovesOn \/ Rests) /\ Touches(s, paste)
<1>1. /\ session.epoch \in Nat /\ Silent(Settled(s)) /\ Settled(s).epoch = session.epoch
  BY DEF Handled, TypeInv, TypeOK, Session, Silent, Settled
<1>2. /\ caret \in [Windows -> Text] /\ foreground \in Windows
      /\ fate \in [Utterance -> Fate]
  BY DEF TypeInv, TypeOK
<1>3. CASE PasteSkipped(state, s, paste) \/ PasteDrifted(state, s, paste)
             \/ FireDiscarded(state, s, paste)
  <2>1. Rests
    BY <1>1, <1>3 DEF PasteSkipped, PasteDrifted, FireDiscarded, Unpasted, Rests
  <2>2. Untouched
    BY <1>3, SettlesUntouched
       DEF PasteSkipped, PasteDrifted, FireDiscarded, Unpasted, FateIfHeld
  <2>. QED BY <2>1, <2>2 DEF Untouched, Touches
<1>4. CASE Attempt(state, s, paste)
  <2>1. MovesOn \/ Rests
    <3>1. CASE PasteReturns(state, s) \/ PasteModifiersHeld(state, s, paste)
                 \/ PasteErrored(state, s, paste)
      BY <1>1, <3>1 DEF PasteReturns, PasteModifiersHeld, PasteErrored, Unpasted, Rests
    <3>2. CASE PasteRaises(s)
      <4>1. session' = Advanced(session.epoch) /\ UNCHANGED workers
        BY <3>2 DEF Handled, PasteRaises, RecoverToIdle, SessionEnds
      <4>. QED BY <1>1, <4>1, NewSessionTypes, NewSessionSilent DEF MovesOn
    <3>. QED BY <1>4, <3>1, <3>2 DEF Attempt
  <2>2. /\ PasteAllowed(s, paste)
        /\ \A w \in Windows : caret'[w] # caret[w] => w = foreground
    BY <1>2, <1>4
       DEF Attempt, PasteReturns, PasteModifiersHeld, PasteErrored, PasteRaises,
           InjectionCutShort
  <2>3. \A e \in Utterance :
           fate'[e] = "replaced" /\ fate[e] # "replaced" => IsFire(s)
    BY <1>2, <1>4
       DEF Attempt, PasteReturns, PasteModifiersHeld, PasteErrored, PasteRaises, Unpasted,
           Settle, FateIfReturns, FateIfFailed, FateIfHeld
  <2>. QED BY <2>1, <2>2, <2>3 DEF Touches
<1>. QED BY <1>3, <1>4 DEF DoPaste

LEMMA AnswerRests ==
  ASSUME TypeInv, sm = "TRANSCRIBING", NEW event \in Answer, NEW s, NEW paste,
         Handled(s, paste), ~s.transcriptionOutstanding, ~s.transformOutstanding,
         s.pendingReplace = NoText \/ event = "TRANSCRIPTION_DONE",
         Execute(Handle(sm, event, FALSE), s, paste)
  PROVE  (MovesOn \/ Rests) /\ Touches(s, paste)
<1> DEFINE step == Handle(sm, event, FALSE)
<1>1. CASE event = "TRANSCRIPTION_DONE"
  <2>1. step.commands = {"PASTE"}
    BY <1>1 DEF Handle, InTranscribing, TranscribingDone, Goes
  <2>2. DoPaste(step.state, s, paste)
    BY <2>1 DEF Execute
  <2>. QED BY <2>2, PasteRests
<1>2. CASE event # "TRANSCRIPTION_DONE"
  <2>1. step.commands \in {{"FLASH_ERROR"}, {"FLASH_SAY_AGAIN"}}
    BY <1>2 DEF Answer, Handle, InTranscribing, TranscribingEmpty, TranscribingBorderline,
                Goes
  <2>2. Flashed(step.state, s, paste)
    BY <2>1 DEF Execute
  <2>3. Rests
    BY <1>2, <2>2 DEF Flashed, Unpasted, Rests, Silent, Handled
  <2>4. Untouched
    BY <2>2, SettlesUntouched DEF Flashed, Unpasted
  <2>. QED BY <2>3, <2>4 DEF Untouched, Touches
<1>. QED BY <1>1, <1>2

(* What the other events can make of the legs.                             *)
KeyStep ==
  /\ Untouched
  /\ \/ MovesOn
     \/ ~session.transcriptionOutstanding /\ Starts("transcribe", NoText)
     \/ Stays

LEMMA RecordStartKeys ==
  ASSUME TypeInv, NEW state, RecordStart(state)
  PROVE  KeyStep
<1>1. session.epoch \in Nat
  BY DEF TypeInv, TypeOK, Session
<1>2. Untouched
  BY SettlesUntouched DEF RecordStart, MicOpens, MicFails, Untouched
<1>3. MovesOn
  <2>1. CASE MicOpens(state)
    <3>1. /\ session'.epoch = Advanced(session.epoch).epoch
          /\ Silent(session') <=> Silent(Advanced(session.epoch))
      BY <2>1, <1>1 DEF MicOpens, Silent, Advanced
    <3>. QED BY <1>1, <2>1, <3>1, NewSessionTypes, NewSessionSilent DEF RecordStart, MovesOn
  <2>2. CASE MicFails
    <3>1. session' = Advanced(session.epoch + 1) /\ session.epoch + 1 \in Nat
      BY <1>1, <2>2 DEF MicFails, RecoverToIdle, SessionEnds
    <3>. QED BY <1>1, <3>1, NewSessionTypes, NewSessionSilent DEF RecordStart, MovesOn
  <2>. QED BY <2>1, <2>2 DEF RecordStart
<1>. QED BY <1>2, <1>3 DEF KeyStep

LEMMA HandlesKeys ==
  ASSUME LegInv, NEW event \in Event \ Answer, NEW tap \in BOOLEAN, Handles(event, tap)
  PROVE  KeyStep
<1> DEFINE step == Handle(sm, event, tap)
<1>1. /\ TypeInv /\ session.epoch \in Nat /\ session.pendingReplace = NoText
  BY DEF LegInv, HistoryInv, TypeInv, TypeOK, Session, LegErasesLastPaste
<1>2. /\ Lawful(sm, step) /\ Execute(step, session, lastPaste)
      /\ step.commands \intersect Ending = {}
  BY <1>1, HandleIsLawful DEF Handles, TypeInv, TypeOK
<1>3. CASE RecordStart(step.state)
  BY <1>1, <1>3, RecordStartKeys
<1>4. ASSUME "RECORD_STOP_AND_TRANSCRIBE" \in step.commands, Transcribe(step.state)
      PROVE  KeyStep
  <2>1. CASE AudioTaken(step.state)
    <3>1. ~session.transcriptionOutstanding /\ ~session.transformOutstanding
      BY <1>2, <1>4 DEF Lawful, Recording, LegInv, AwaitsExactlyOneLeg
    <3>2. Starts("transcribe", NoText)
      BY <1>1, <2>1, <3>1 DEF AudioTaken, Starts, TypeInv, TypeOK, Session
    <3>3. Untouched
      BY <1>4, <2>1 DEF Transcribe, AudioTaken, Untouched
    <3>. QED BY <3>1, <3>2, <3>3 DEF KeyStep
  <2>2. CASE Dropped
    <3>1. MovesOn
      BY <1>1, <2>2, NewSessionTypes, NewSessionSilent
         DEF Dropped, RecoverToIdle, SessionEnds, MovesOn
    <3>2. Untouched
      BY <1>1, <1>4, <2>2, SettlesUntouched DEF Transcribe, Dropped
    <3>. QED BY <3>1, <3>2 DEF KeyStep
  <2>. QED BY <1>4, <2>1, <2>2 DEF Transcribe
<1>5. CASE Cancel(step.state)
  <2>1. MovesOn
    BY <1>1, <1>5, NewSessionTypes, NewSessionSilent DEF Cancel, SessionEnds, MovesOn
  <2>2. Untouched
    BY <1>1, <1>5, SettlesUntouched DEF Cancel
  <2>. QED BY <2>1, <2>2 DEF KeyStep
<1>6. CASE PillRefreshed(step.state) \/ NothingElse(step.state)
  BY <1>6 DEF PillRefreshed, NothingElse, KeyStep, Stays, Untouched
<1>. QED
  BY <1>2, <1>3, <1>4, <1>5, <1>6 DEF Execute, Ending, Flash

(* A recognition's answer: it lands where the dictation was spoken, or     *)
(* another leg carries the session on.                                     *)
HeardStep ==
  /\ \/ MovesOn \/ Rests
     \/ \E leg \in {"confirm", "transform"}, erase \in Text : Starts(leg, erase)
  /\ \A w \in Windows : caret'[w] # caret[w] => w = foreground /\ w = session.anchor
  /\ \A e \in Utterance : fate'[e] = "replaced" => fate[e] = "replaced"

LEMMA HandleResultLegs ==
  ASSUME LegInv, sm = "TRANSCRIBING", ~session.transformOutstanding,
         NEW item \in Heard, IsCurrent(item), HandleResult(item)
  PROVE  HeardStep
<1>0. /\ TypeInv /\ session.epoch \in Nat /\ session.pendingReplace = NoText
      /\ session.transcriptionOutstanding /\ session \in Session /\ mostRecent \in Text
      /\ lastPaste \in LastPaste \union {NoPaste}
      /\ item.epoch \in Text /\ NoText \in Text
  BY DEF LegInv, HistoryInv, AwaitsExactlyOneLeg, TypeInv, TypeOK, Session,
         LegErasesLastPaste, Heard, Text
<1>1. /\ Handled(Answered, lastPaste) /\ Handled(Answered, NoPaste)
      /\ \A t \in Text : /\ Handled([Answered EXCEPT !.textToPaste = t], lastPaste)
                         /\ Handled([Answered EXCEPT !.textToPaste = t,
                                                     !.pendingReplace = NoText], lastPaste)
  BY <1>0 DEF Handled, Answered, Session, Text
<1>2. ASSUME NEW s, NEW paste, NEW event \in Answer, Handled(s, paste),
             s = Answered \/ (\E t : s = [Answered EXCEPT !.textToPaste = t])
                \/ (\E t : s = [Answered EXCEPT !.textToPaste = t, !.pendingReplace = NoText]),
             Execute(Handle(sm, event, FALSE), s, paste)
      PROVE  HeardStep
  <2>1. /\ ~s.transcriptionOutstanding /\ ~s.transformOutstanding
        /\ s.pendingReplace = NoText /\ s.anchor = session.anchor
    BY <1>0, <1>2 DEF Answered, Session
  <2>2. (MovesOn \/ Rests) /\ Touches(s, paste)
    BY <1>0, <1>2, <2>1, AnswerRests
  <2>. QED BY <2>1, <2>2 DEF HeardStep, Touches, IsFire, PasteAllowed
<1>3. ASSUME NEW paste \in {lastPaste, NoPaste}, EmptyResult(paste) PROVE HeardStep
  BY <1>1, <1>2, <1>3 DEF EmptyResult, Answer
<1>4. CASE SayAgain
  BY <1>1, <1>2, <1>4 DEF SayAgain, Answer
<1>5. CASE Fire
  <2>1. CASE NothingToPaste
    BY <1>3, <2>1 DEF NothingToPaste
  <2>2. CASE PastesAgain
    BY <1>0, <1>1, <1>2, <2>2 DEF PastesAgain, Answer
  <2>3. CASE FireRefused
    BY <1>3, <2>3 DEF FireRefused
  <2>4. CASE TransformsArmed /\ TransformStarts
    <3>1. /\ session'.epoch = session.epoch /\ session'.transcriptionOutstanding
          /\ session'.transformOutstanding /\ session'.pendingReplace = NoText
      BY <1>0, <2>4 DEF TransformStarts, Session
    <3>2. Starts("transform", lastPaste.text) /\ lastPaste.text \in Text
      BY <1>0, <2>4, <3>1
         DEF TransformsArmed, TransformStarts, Operand, Starts, StaysOpen, LastPaste, Text
    <3>. QED BY <2>4, <3>2 DEF TransformStarts, StaysOpen, HeardStep
  <2>. QED
    BY <1>5, <2>1, <2>2, <2>3, <2>4 DEF Fire, PasteAction, TriggerFire
<1>6. CASE Borderline
  <2>1. Starts("confirm", NoText)
    BY <1>0, <1>6 DEF Borderline, Starts
  <2>. QED BY <1>0, <1>6, <2>1 DEF Borderline, StaysOpen, HeardStep
<1>7. CASE Dictation(item.epoch)
  BY <1>0, <1>1, <1>2, <1>7 DEF Dictation, Answer
<1>8. CASE ResultFailed
  <2>1. MovesOn
    BY <1>0, <1>8, NewSessionTypes, NewSessionSilent
       DEF ResultFailed, Dropped, RecoverToIdle, SessionEnds, MovesOn
  <2>2. Untouched
    BY <1>0, <1>8, SettlesUntouched DEF ResultFailed, Dropped
  <2>. QED BY <2>1, <2>2 DEF Untouched, HeardStep
<1>. QED BY <1>3, <1>4, <1>5, <1>6, <1>7, <1>8 DEF HandleResult

(* A Transform's answer replaces the Last Paste in its own window.         *)
TransformedStep ==
  /\ MovesOn \/ Rests
  /\ \A w \in Windows : caret'[w] # caret[w] => w = foreground /\ w = lastPaste.window
  /\ \A e \in Utterance : fate'[e] = "replaced" /\ fate[e] # "replaced"
                            => lastPaste.window = foreground

LEMMA HandleTransformedLegs ==
  ASSUME LegInv, sm = "TRANSCRIBING", lastPaste # NoPaste, NEW item \in Transformed,
         IsCurrent(item), item.erase = lastPaste.text, HandleTransformed(item)
  PROVE  TransformedStep
<1>0. /\ TypeInv /\ session.epoch \in Nat /\ session.pendingReplace = NoText
      /\ session \in Session /\ lastPaste \in LastPaste
      /\ item.epoch \in Text /\ NoText \in Text /\ item.erase \in Text
      /\ item.erase # NoText
  BY DEF LegInv, HistoryInv, TypeInv, TypeOK, Session, LegErasesLastPaste, Transformed,
         Text, LastPaste, Utterance, NoText
<1>1. /\ Handled(BothAnswered, lastPaste)
      /\ ~BothAnswered.transcriptionOutstanding /\ ~BothAnswered.transformOutstanding
      /\ BothAnswered.pendingReplace = NoText
  BY <1>0 DEF Handled, BothAnswered, Answered, Session, Text
<1>2. \A t \in Text :
         LET s == [BothAnswered EXCEPT !.textToPaste = t, !.pendingReplace = item.erase]
         IN  /\ Handled(s, lastPaste) /\ IsFire(s)
             /\ ~s.transcriptionOutstanding /\ ~s.transformOutstanding
  BY <1>0 DEF Handled, BothAnswered, Answered, Session, Text, IsFire
<1>3. CASE Replacement(item)
  <2>1. PICK t \in Text :
           Execute(Handle(sm, "TRANSCRIPTION_DONE", FALSE),
                   [BothAnswered EXCEPT !.textToPaste = t, !.pendingReplace = item.erase],
                   lastPaste)
    BY <1>0, <1>3 DEF Replacement
  <2> DEFINE s == [BothAnswered EXCEPT !.textToPaste = t, !.pendingReplace = item.erase]
  <2>2. /\ Handled(s, lastPaste) /\ IsFire(s)
        /\ ~s.transcriptionOutstanding /\ ~s.transformOutstanding
    BY <1>2
  <2>3. Execute(Handle(sm, "TRANSCRIPTION_DONE", FALSE), s, lastPaste)
    BY <2>1
  <2> HIDE DEF s
  <2>4. (MovesOn \/ Rests) /\ Touches(s, lastPaste)
    BY <1>0, <2>2, <2>3, AnswerRests DEF Answer
  <2>. QED BY <2>2, <2>4 DEF TransformedStep, Touches, PasteAllowed
<1>4. CASE Execute(Handle(sm, "EMPTY_RESULT", FALSE), BothAnswered, lastPaste)
  <2>1. (MovesOn \/ Rests) /\ Touches(BothAnswered, lastPaste)
    BY <1>0, <1>1, <1>4, AnswerRests DEF Answer
  <2>2. Handle(sm, "EMPTY_RESULT", FALSE).commands = {"FLASH_ERROR"}
    BY DEF Handle, InTranscribing, TranscribingEmpty, Goes
  <2>3. Untouched
    BY <1>0, <1>4, <2>2, SettlesUntouched DEF Execute, Flashed, Unpasted
  <2>. QED BY <2>1, <2>3 DEF TransformedStep, Untouched
<1>. QED BY <1>3, <1>4 DEF HandleTransformed

(* The steps of ReplacesOnlyItsOwnPaste and TouchesOnlyTheAnchoredWindow.  *)
ReplacesItsOwn ==
  \A e \in Utterance :
     fate'[e] = "replaced" /\ fate[e] # "replaced" /\ lastPaste.reached =>
       \A i \in LiveTransformed : transformQueue[i].erase = caret[foreground]

TouchesTheAnchored ==
  \A w \in Windows :
     caret'[w] # caret[w] =>
       /\ w = foreground
       /\ w = (IF session.transformOutstanding THEN lastPaste.window ELSE session.anchor)

LegStep ==
  /\ (AwaitsExactlyOneLeg /\ NothingAhead /\ LegErasesLastPaste)'
  /\ ReplacesItsOwn /\ TouchesTheAnchored

LEMMA KeyStepLegs ==
  ASSUME LegInv, HistoryInv', KeyStep, UNCHANGED <<transcriptionQueue, transformQueue>>
  PROVE  LegStep
<1>1. /\ ReplacesItsOwn /\ TouchesTheAnchored
  BY DEF KeyStep, Untouched, ReplacesItsOwn, TouchesTheAnchored
<1>2. TypeInv /\ TypeInv' /\ AwaitsInTranscribing' /\ NothingAhead
  BY DEF LegInv, HistoryInv
<1>3. CASE MovesOn
  BY <1>1, <1>2, <1>3, LegsLeftBehind DEF LegStep, NothingAhead
<1>4. CASE ~session.transcriptionOutstanding /\ Starts("transcribe", NoText)
  <2>1. LiveWorkers = {} /\ LiveHeard = {} /\ LiveTransformed = {}
    BY <1>4 DEF LegInv, AwaitsExactlyOneLeg, NoLegs
  <2>2. /\ \A w \in workers : w.epoch # session.epoch /\ w.epoch \in Nat
        /\ session.epoch \in Nat
    BY <1>2, <2>1 DEF LiveWorkers, TypeInv, TypeOK, Session, Worker, Utterance
  <2>3. /\ \A i \in DOMAIN transcriptionQueue :
              /\ transcriptionQueue[i].epoch # session.epoch
              /\ transcriptionQueue[i].epoch \in Nat
        /\ \A i \in DOMAIN transformQueue :
              /\ transformQueue[i].epoch # session.epoch
              /\ transformQueue[i].epoch \in Nat
    BY <1>2, <2>1, ResultsAreNumbered DEF LiveHeard, LiveTransformed, TypeInv, TypeOK
  <2>4. /\ \A w \in workers : w.epoch < session.epoch
        /\ \A i \in DOMAIN transcriptionQueue' : transcriptionQueue'[i].epoch < session.epoch
        /\ \A i \in DOMAIN transformQueue' : transformQueue'[i].epoch < session.epoch
    BY <1>2, <2>2, <2>3 DEF NothingAhead
  <2>5. NoText \in Text
    BY DEF Text
  <2>. QED BY <1>1, <1>2, <1>4, <2>4, <2>5, FreshLegs DEF LegStep
<1>5. CASE Stays
  BY <1>1, <1>2, <1>5, LegsStay DEF LegStep
<1>. QED BY <1>3, <1>4, <1>5 DEF KeyStep

(* What the drain leaves stood behind the result it hands out.             *)
LEMMA DrainLeavesTheRest ==
  ASSUME NEW S, NEW queue \in Seq(S), HasCurrent(queue)
  PROVE  \A i \in DOMAIN AfterDrain(queue) :
            /\ AfterDrain(queue)[i] = queue[FirstCurrent(queue) + i]
            /\ FirstCurrent(queue) + i \in DOMAIN queue
            /\ FirstCurrent(queue) + i # FirstCurrent(queue)
<1> DEFINE k == FirstCurrent(queue)
           n == Len(queue)
           r == AfterDrain(queue)
<1>1. /\ k \in DOMAIN queue /\ r \in Seq(S) /\ Len(r) = n - k
      /\ \A i \in DOMAIN r : r[i] = queue[k + i]
  BY DrainFacts
<1>2. n \in Nat /\ DOMAIN queue = 1 .. n /\ DOMAIN r = 1 .. Len(r)
  BY <1>1
<1> HIDE DEF k, n, r
<1>3. \A i \in 1 .. n - k : k + i \in 1 .. n /\ k + i # k
  BY <1>1, <1>2
<1>. QED BY <1>1, <1>2, <1>3 DEF k, n, r

(* The drain takes the session's only leg.                                 *)
LEMMA DrainTakesTheLeg ==
  ASSUME TypeInv, AwaitsExactlyOneLeg, NothingAhead,
         \/ /\ transcriptionQueue' = AfterDrain(transcriptionQueue)
            /\ UNCHANGED transformQueue /\ HasCurrent(transcriptionQueue)
         \/ /\ transformQueue' = AfterDrain(transformQueue)
            /\ UNCHANGED transcriptionQueue /\ HasCurrent(transformQueue)
  PROVE  /\ session.transcriptionOutstanding
         /\ \A w \in workers : w.epoch < session.epoch
         /\ \A i \in DOMAIN transcriptionQueue' : transcriptionQueue'[i].epoch < session.epoch
         /\ \A i \in DOMAIN transformQueue' : transformQueue'[i].epoch < session.epoch
<1>1. /\ session.epoch \in Nat
      /\ \A w \in workers : w.epoch \in Nat
      /\ \A i \in DOMAIN transcriptionQueue : transcriptionQueue[i].epoch \in Nat
      /\ \A i \in DOMAIN transformQueue : transformQueue[i].epoch \in Nat
      /\ transcriptionQueue \in Seq(Heard) /\ transformQueue \in Seq(Transformed)
  BY ResultsAreNumbered DEF TypeInv, TypeOK, Session, Worker, Utterance
<1>2. CASE HasCurrent(transcriptionQueue) /\ UNCHANGED transformQueue
           /\ transcriptionQueue' = AfterDrain(transcriptionQueue)
  <2> DEFINE k == FirstCurrent(transcriptionQueue)
  <2>1. /\ k \in LiveHeard
        /\ \A i \in DOMAIN transcriptionQueue' :
              /\ transcriptionQueue'[i] = transcriptionQueue[k + i]
              /\ k + i \in DOMAIN transcriptionQueue /\ k + i # k
    <3>1. k \in LiveHeard
      BY <1>1, <1>2, DrainFacts DEF LiveHeard, IsCurrent
    <3>. QED BY <1>1, <1>2, <3>1, DrainLeavesTheRest
  <2> HIDE DEF k
  <2>2. /\ session.transcriptionOutstanding /\ LiveHeard = {k} /\ LiveWorkers = {}
        /\ LiveTransformed = {}
    BY <2>1 DEF AwaitsExactlyOneLeg, NoLegs, OneLeg
  <2>3. \A i \in DOMAIN transcriptionQueue' : transcriptionQueue'[i].epoch < session.epoch
    BY <1>1, <2>1, <2>2 DEF LiveHeard, NothingAhead
  <2>4. /\ \A w \in workers : w.epoch < session.epoch
        /\ \A i \in DOMAIN transformQueue' : transformQueue'[i].epoch < session.epoch
    BY <1>1, <1>2, <2>2 DEF LiveWorkers, LiveTransformed, NothingAhead
  <2>. QED BY <2>2, <2>3, <2>4
<1>3. CASE HasCurrent(transformQueue) /\ UNCHANGED transcriptionQueue
           /\ transformQueue' = AfterDrain(transformQueue)
  <2> DEFINE k == FirstCurrent(transformQueue)
  <2>1. /\ k \in LiveTransformed
        /\ \A i \in DOMAIN transformQueue' :
              /\ transformQueue'[i] = transformQueue[k + i]
              /\ k + i \in DOMAIN transformQueue /\ k + i # k
    <3>1. k \in LiveTransformed
      BY <1>1, <1>3, DrainFacts DEF LiveTransformed, IsCurrent
    <3>. QED BY <1>1, <1>3, <3>1, DrainLeavesTheRest
  <2> HIDE DEF k
  <2>2. /\ session.transcriptionOutstanding /\ LiveTransformed = {k} /\ LiveWorkers = {}
        /\ LiveHeard = {}
    BY <2>1 DEF AwaitsExactlyOneLeg, NoLegs, OneLeg
  <2>3. \A i \in DOMAIN transformQueue' : transformQueue'[i].epoch < session.epoch
    BY <1>1, <2>1, <2>2 DEF LiveTransformed, NothingAhead
  <2>4. /\ \A w \in workers : w.epoch < session.epoch
        /\ \A i \in DOMAIN transcriptionQueue' : transcriptionQueue'[i].epoch < session.epoch
    BY <1>1, <1>3, <2>2 DEF LiveWorkers, LiveHeard, NothingAhead
  <2>. QED BY <2>2, <2>3, <2>4
<1>. QED BY <1>2, <1>3

LEMMA CheckTranscriptionLegs ==
  ASSUME LegInv, HistoryInv', CheckTranscriptionResult
  PROVE  LegStep
<1>1. /\ TypeInv /\ TypeInv' /\ AwaitsInTranscribing /\ AwaitsInTranscribing'
      /\ NothingAhead /\ AwaitsExactlyOneLeg /\ session.epoch \in Nat
      /\ transcriptionQueue \in Seq(Heard)
      /\ \A w \in workers : w.epoch \in Nat
  BY DEF LegInv, HistoryInv, TypeInv, TypeOK, Session, Worker, Utterance
<1>2. CASE HasCurrent(transcriptionQueue)
  <2> DEFINE item == transcriptionQueue[FirstCurrent(transcriptionQueue)]
  <2>1. /\ session.transcriptionOutstanding /\ sm = "TRANSCRIBING"
        /\ \A w \in workers : w.epoch < session.epoch
        /\ \A i \in DOMAIN transcriptionQueue' : transcriptionQueue'[i].epoch < session.epoch
        /\ \A i \in DOMAIN transformQueue' : transformQueue'[i].epoch < session.epoch
    BY <1>1, <1>2, DrainTakesTheLeg DEF CheckTranscriptionResult, AwaitsInTranscribing
  <2>2. item \in Heard /\ IsCurrent(item) /\ HandleResult(item)
    BY <1>1, <1>2, <2>1, DrainFacts DEF CheckTranscriptionResult
  <2>3. ~session.transformOutstanding
    <3>1. FirstCurrent(transcriptionQueue) \in LiveHeard
      BY <1>1, <1>2, DrainFacts DEF LiveHeard, IsCurrent
    <3>. QED BY <1>1, <2>1, <3>1 DEF AwaitsExactlyOneLeg, OneLeg
  <2> HIDE DEF item
  <2>4. HeardStep
    BY <2>1, <2>2, <2>3, HandleResultLegs
  <2>5. ReplacesItsOwn /\ TouchesTheAnchored
    BY <2>3, <2>4 DEF HeardStep, ReplacesItsOwn, TouchesTheAnchored
  <2>6. CASE MovesOn
    <3>1. /\ \A w \in workers : w.epoch <= session.epoch
          /\ \A i \in DOMAIN transcriptionQueue' : transcriptionQueue'[i].epoch <= session.epoch
          /\ \A i \in DOMAIN transformQueue' : transformQueue'[i].epoch <= session.epoch
      <4>1. transcriptionQueue' \in Seq(Heard) /\ transformQueue' \in Seq(Transformed)
        BY <1>1 DEF TypeInv, TypeOK
      <4>. QED BY <1>1, <2>1, <4>1, ResultsAreNumbered
    <3>. QED BY <1>1, <2>5, <2>6, <3>1, LegsLeftBehind DEF LegStep
  <2>7. CASE ~MovesOn
    BY <1>1, <2>1, <2>4, <2>5, <2>7, FreshLegs DEF HeardStep, LegStep
  <2>. QED BY <2>6, <2>7
<1>3. CASE ~HasCurrent(transcriptionQueue)
  <2>1. NothingAwaited /\ UNCHANGED transformQueue
    BY <1>3 DEF CheckTranscriptionResult
  <2>2. ReplacesItsOwn /\ TouchesTheAnchored
    BY <2>1 DEF NothingAwaited, coreVars, ReplacesItsOwn, TouchesTheAnchored
  <2>. QED
    BY <1>1, <1>3, <2>1, <2>2, LegsDrained DEF CheckTranscriptionResult, LegStep
<1>. QED BY <1>2, <1>3

LEMMA CheckTransformLegs ==
  ASSUME LegInv, LastPasteIsOnScreen, HistoryInv', CheckTransformResult
  PROVE  LegStep
<1>1. /\ TypeInv /\ TypeInv' /\ AwaitsInTranscribing /\ AwaitsInTranscribing'
      /\ NothingAhead /\ AwaitsExactlyOneLeg /\ session.epoch \in Nat
      /\ transformQueue \in Seq(Transformed)
      /\ \A w \in workers : w.epoch \in Nat
  BY DEF LegInv, HistoryInv, TypeInv, TypeOK, Session, Worker, Utterance
<1>2. CASE HasCurrent(transformQueue)
  <2> DEFINE k    == FirstCurrent(transformQueue)
             item == transformQueue[k]
  <2>1. /\ session.transcriptionOutstanding /\ sm = "TRANSCRIBING"
        /\ \A w \in workers : w.epoch < session.epoch
        /\ \A i \in DOMAIN transcriptionQueue' : transcriptionQueue'[i].epoch < session.epoch
        /\ \A i \in DOMAIN transformQueue' : transformQueue'[i].epoch < session.epoch
    BY <1>1, <1>2, DrainTakesTheLeg DEF CheckTransformResult, AwaitsInTranscribing
  <2>2. item \in Transformed /\ IsCurrent(item) /\ k \in LiveTransformed
    BY <1>1, <1>2, DrainFacts DEF LiveTransformed, IsCurrent
  <2>3. session.transformOutstanding
    BY <1>1, <2>1, <2>2 DEF AwaitsExactlyOneLeg, OneLeg
  <2>4. HandleTransformed(item)
    BY <1>2, <2>1, <2>3 DEF CheckTransformResult, TransformAwaited
  <2>5. lastPaste # NoPaste /\ \A i \in LiveTransformed : transformQueue[i].erase = lastPaste.text
    BY <2>3 DEF LegInv, LegErasesLastPaste
  <2>6. item.erase = lastPaste.text
    BY <2>2, <2>5
  <2> HIDE DEF item, k
  <2>7. TransformedStep
    BY <2>1, <2>2, <2>4, <2>5, <2>6, HandleTransformedLegs
  <2>8. ReplacesItsOwn /\ TouchesTheAnchored
    BY <2>3, <2>5, <2>7
       DEF TransformedStep, ReplacesItsOwn, TouchesTheAnchored, LastPasteIsOnScreen
  <2>9. CASE MovesOn
    <3>1. /\ \A w \in workers : w.epoch <= session.epoch
          /\ \A i \in DOMAIN transcriptionQueue' : transcriptionQueue'[i].epoch <= session.epoch
          /\ \A i \in DOMAIN transformQueue' : transformQueue'[i].epoch <= session.epoch
      <4>1. transcriptionQueue' \in Seq(Heard) /\ transformQueue' \in Seq(Transformed)
        BY <1>1 DEF TypeInv, TypeOK
      <4>. QED BY <1>1, <2>1, <4>1, ResultsAreNumbered
    <3>. QED BY <1>1, <2>8, <2>9, <3>1, LegsLeftBehind DEF LegStep
  <2>10. CASE ~MovesOn
    BY <1>1, <2>1, <2>7, <2>8, <2>10, FreshLegs DEF TransformedStep, LegStep
  <2>. QED BY <2>9, <2>10
<1>3. CASE ~HasCurrent(transformQueue)
  <2>1. NothingAwaited /\ UNCHANGED transcriptionQueue
    BY <1>3 DEF CheckTransformResult, TransformAwaited
  <2>2. ReplacesItsOwn /\ TouchesTheAnchored
    BY <2>1 DEF NothingAwaited, coreVars, ReplacesItsOwn, TouchesTheAnchored
  <2>. QED
    BY <1>1, <1>3, <2>1, <2>2, LegsDrained DEF CheckTransformResult, LegStep
<1>. QED BY <1>2, <1>3

LEMMA NextLegs ==
  ASSUME LegInv, LastPasteIsOnScreen, HistoryInv', [Next]_vars
  PROVE  LegStep
<1>0. TypeInv /\ lastPaste \in LastPaste \union {NoPaste}
  BY DEF LegInv, HistoryInv, TypeInv, TypeOK
<1>1. CASE OnHotkeyEvent
  BY <1>1, HandlesKeys, KeyStepLegs DEF OnHotkeyEvent, Event, Answer, Handles
<1>2. CASE CheckSilence
  BY <1>2, HandlesKeys, KeyStepLegs DEF CheckSilence, Event, Answer, Handles
<1>3. CASE OnTrayStartRecording
  BY <1>0, <1>3, RecordStartKeys, KeyStepLegs DEF OnTrayStartRecording
<1>4. CASE OnTrayStopRecording
  BY <1>4, HandlesKeys, KeyStepLegs DEF OnTrayStopRecording, Event, Answer, Handles
<1>5. CASE TranscribeWorker \/ TransformWorker
  <2>1. ReplacesItsOwn /\ TouchesTheAnchored
    BY <1>5 DEF TranscribeWorker, TransformWorker, coreVars, desktopVars, ReplacesItsOwn,
                TouchesTheAnchored
  <2>. QED BY <1>5, <2>1, LegsPosted DEF LegStep, HistoryInv
<1>6. CASE CheckTranscriptionResult
  BY <1>6, CheckTranscriptionLegs
<1>7. CASE CheckTransformResult
  BY <1>7, CheckTransformLegs
<1>8. ASSUME UNCHANGED <<session, workers, fate, caret, transcriptionQueue, transformQueue>>,
             lastPaste # NoPaste => lastPaste' # NoPaste /\ lastPaste'.text = lastPaste.text
      PROVE  LegStep
  BY <1>8, KeyStepLegs DEF KeyStep, Stays, Untouched
<1>9. CASE LastPasteAges
  <2>1. lastPaste \in LastPaste /\ lastPaste' = [lastPaste EXCEPT !.fresh = FALSE]
    BY <1>0, <1>9 DEF LastPasteAges
  <2>2. lastPaste'.text = lastPaste.text /\ lastPaste'.text \in Utterance
    BY <2>1 DEF LastPaste
  <2>3. lastPaste' # NoPaste
    BY <2>2 DEF NoPaste, Utterance, NoText
  <2>. QED BY <1>8, <1>9, <2>2, <2>3 DEF LastPasteAges, legVars, desktopVars
<1>10. CASE CheckLoadingOverlay \/ PillTimesOut \/ FocusMoves
  BY <1>8, <1>10 DEF CheckLoadingOverlay, PillTimesOut, FocusMoves, coreVars, legVars,
                     desktopVars
<1>11. CASE LifecycleLoads \/ LifecycleUnloads \/ PreloadEnds \/ LlmWarmEnds \/ LlmCools
  BY <1>8, <1>11 DEF LifecycleLoads, LifecycleUnloads, PreloadEnds, LlmWarmEnds, LlmCools,
                     coreVars, legVars, desktopVars
<1>12. CASE UNCHANGED vars
  BY <1>8, <1>12 DEF vars, coreVars, legVars, desktopVars
<1>. QED
  BY <1>1, <1>2, <1>3, <1>4, <1>5, <1>6, <1>7, <1>9, <1>10, <1>11, <1>12 DEF Next

LEMMA InitLegs == Init => LegInv
<1> SUFFICES ASSUME Init PROVE LegInv
  OBVIOUS
<1>1. NoLegs /\ NothingAhead
  BY DEF Init, NoLegs, LiveWorkers, LiveHeard, LiveTransformed, NothingAhead
<1>2. Silent(session) /\ sm # "TRANSCRIBING"
  BY NewSessionSilent DEF Init, Silent, Advanced
<1>. QED
  BY <1>1, <1>2, InitHistory DEF LegInv, AwaitsExactlyOneLeg, LegErasesLastPaste, Silent

LEMMA Legs == Spec => []LegInv
<1>1. LegInv /\ HistoryInv' /\ LastPasteIsOnScreen /\ [Next]_vars => LegInv'
  BY NextLegs DEF LegStep, LegInv
<1>. QED BY <1>1, InitLegs, History, LastPasteCorrect, PTL DEF Spec

(* TRANSCRIBING is never stuck and never answered twice, whatever the      *)
(* order of keys, workers, drains and re-recordings: exactly one worker or *)
(* one queued result belongs to the session that waits, and none to one    *)
(* that does not.                                                          *)
THEOREM OneLegCorrect == Spec => []AwaitsExactlyOneLeg
<1>1. LegInv => AwaitsExactlyOneLeg
  BY DEF LegInv
<1>. QED BY <1>1, Legs, PTL

(* A replacement of a paste whose keys got through erases that paste, in   *)
(* the window that has the focus, and nothing else, however long the       *)
(* Transform ran and whatever the user did meanwhile.                      *)
THEOREM ReplacementCorrect == Spec => ReplacesOnlyItsOwnPaste
<1>1. LegInv /\ LastPasteIsOnScreen /\ HistoryInv' /\ [Next]_vars => ReplacesItsOwn
  BY NextLegs DEF LegStep
<1>2. ReplacesItsOwn => \A e \in Utterance :
       fate'[e] = "replaced" /\ fate[e] # "replaced" /\ lastPaste.reached =>
         \A i \in LiveTransformed : transformQueue[i].erase = caret[foreground]
  BY DEF ReplacesItsOwn
<1>. QED BY <1>1, <1>2, Legs, History, LastPasteCorrect, PTL DEF Spec, ReplacesOnlyItsOwnPaste

(* The daemon writes only in the window where the dictation was spoken, or *)
(* the one that shows the Last Paste: a change of focus never sends text   *)
(* to another window.                                                      *)
THEOREM TouchCorrect == Spec => TouchesOnlyTheAnchoredWindow
<1>1. LegInv /\ LastPasteIsOnScreen /\ HistoryInv' /\ [Next]_vars => TouchesTheAnchored
  BY NextLegs DEF LegStep
<1>2. TouchesTheAnchored => \A w \in Windows :
       caret'[w] # caret[w] =>
         /\ w = foreground
         /\ w = (IF session.transformOutstanding THEN lastPaste.window
                                                 ELSE session.anchor)
  BY DEF TouchesTheAnchored
<1>. QED BY <1>1, <1>2, Legs, History, LastPasteCorrect, PTL DEF Spec, TouchesOnlyTheAnchoredWindow

-----------------------------------------------------------------------------
(***************************************************************************)
(* The pill.  Whoever leaves TRANSCRIBING or a recording puts up another   *)
(* pill, and the "say paste" caption comes with the text it promises.      *)
(***************************************************************************)
LEMMA PastePill ==
  ASSUME NEW s, NEW paste, DoPaste("IDLE", s, paste)
  PROVE  /\ sm' = "IDLE" /\ pill' \in {"hidden", "flash", "held"}
         /\ mostRecent' = NoText => mostRecent = NoText /\ pill' # "held"
<1>1. CASE PasteSkipped("IDLE", s, paste) \/ FireDiscarded("IDLE", s, paste)
  BY <1>1 DEF PasteSkipped, FireDiscarded, Unpasted
<1>2. CASE PasteDrifted("IDLE", s, paste)
  BY <1>2 DEF PasteDrifted, Unpasted
<1>3. CASE Attempt("IDLE", s, paste)
  BY <1>3 DEF Attempt, PasteAllowed, Remember, PasteReturns, PasteModifiersHeld, PasteErrored,
              PasteRaises, RecoverToIdle, SessionEnds, Unpasted, PillIfFailed
<1>. QED BY <1>1, <1>2, <1>3 DEF DoPaste

LEMMA ExecutePill ==
  ASSUME TypeInv, PillIsHonest, NEW step, Lawful(sm, step), NEW s, NEW paste,
         Execute(step, s, paste), UNCHANGED preloadPillActive
  PROVE  PillIsHonest'
<1> USE DEF PillIsHonest
<1>1. CASE "RECORD_START" \in step.commands /\ RecordStart(step.state)
  BY <1>1 DEF Lawful, RecordStart, MicOpens, MicFails, RecoverToIdle, SessionEnds
<1>2. CASE "RECORD_STOP_AND_TRANSCRIBE" \in step.commands /\ Transcribe(step.state)
  BY <1>2 DEF Lawful, Transcribe, AudioTaken, Dropped, RecoverToIdle, SessionEnds
<1>3. CASE Cancel(step.state)
  BY <1>3 DEF Cancel, SessionEnds
<1>4. CASE "PASTE" \in step.commands /\ DoPaste(step.state, s, paste)
  BY <1>4, PastePill DEF Lawful
<1>5. CASE Flashed(step.state, s, paste)
  BY <1>5 DEF Flashed, Unpasted
<1>6. CASE step.commands = {"CANCEL_TAP_TIMER"} /\ PillRefreshed(step.state)
  BY <1>6 DEF Lawful, PillRefreshed
<1>7. CASE step.commands \subseteq {"BUSY_NUDGE"} /\ NothingElse(step.state)
  BY <1>7 DEF Lawful, NothingElse
<1>. QED BY <1>1, <1>2, <1>3, <1>4, <1>5, <1>6, <1>7 DEF Execute

LEMMA NextPill ==
  ASSUME HistoryInv, PillIsHonest, [Next]_vars
  PROVE  PillIsHonest'
<1>1. /\ TypeInv /\ AwaitsInTranscribing
      /\ \A event \in Event, tap \in BOOLEAN : Lawful(sm, Handle(sm, event, tap))
  BY HandleIsLawful DEF HistoryInv, TypeInv, TypeOK
<1>2. ASSUME NEW event \in Event, NEW tap \in BOOLEAN, Handles(event, tap)
      PROVE  PillIsHonest'
  BY <1>1, <1>2, ExecutePill DEF Handles
<1>3. CASE OnHotkeyEvent \/ CheckSilence \/ OnTrayStopRecording
  BY <1>2, <1>3 DEF OnHotkeyEvent, CheckSilence, OnTrayStopRecording, Event
<1>4. CASE OnTrayStartRecording
  <2>1. Handle("PRESSED", "KEY_UP", TRUE).state = "TOGGLE_REC"
    BY DEF Handle, InPressed, PressedKeyUp, Goes
  <2>. QED
    BY <1>4, <2>1 DEF OnTrayStartRecording, RecordStart, MicOpens, MicFails, RecoverToIdle,
                      SessionEnds, PillIsHonest
<1>5. CASE CheckTranscriptionResult
  <2>1. CASE NothingAwaited
    BY <1>5, <2>1 DEF CheckTranscriptionResult, NothingAwaited, coreVars, PillIsHonest
  <2>2. ASSUME NEW item, HandleResult(item), session.transcriptionOutstanding
        PROVE  PillIsHonest'
    <3> USE <1>5 DEF CheckTranscriptionResult
    <3>1. ASSUME NEW event \in Answer, NEW s, NEW paste,
                 Execute(Handle(sm, event, FALSE), s, paste)
          PROVE  PillIsHonest'
      BY <1>1, <3>1, ExecutePill DEF Answer, Event
    <3>2. CASE \E paste \in {lastPaste, NoPaste} : EmptyResult(paste)
      BY <3>1, <3>2 DEF EmptyResult, Answer
    <3>3. CASE SayAgain \/ Dictation(item.epoch) \/ PastesAgain
      BY <3>1, <3>3 DEF SayAgain, Dictation, PastesAgain, Answer
    <3>4. CASE ResultFailed
      BY <3>4 DEF ResultFailed, Dropped, RecoverToIdle, SessionEnds, PillIsHonest
    <3>5. CASE TransformStarts \/ Borderline
      BY <1>1, <2>2, <3>5 DEF TransformStarts, Borderline, StaysOpen, PillIsHonest,
                              AwaitsInTranscribing
    <3>. QED
      BY <2>2, <3>2, <3>3, <3>4, <3>5
         DEF HandleResult, Fire, PasteAction, NothingToPaste, TriggerFire, FireRefused
  <2>. QED BY <1>5, <2>1, <2>2 DEF CheckTranscriptionResult
<1>6. CASE CheckTransformResult
  <2>1. CASE NothingAwaited
    BY <1>6, <2>1 DEF CheckTransformResult, NothingAwaited, coreVars, PillIsHonest
  <2>2. ASSUME NEW item, HandleTransformed(item) PROVE PillIsHonest'
    BY <1>1, <1>6, <2>2, ExecutePill
       DEF CheckTransformResult, HandleTransformed, Replacement, Event
  <2>. QED BY <1>6, <2>1, <2>2 DEF CheckTransformResult
<1>7. CASE CheckLoadingOverlay
  BY <1>1, <1>7 DEF CheckLoadingOverlay, PillAfterLoad, PillIsHonest, AwaitsInTranscribing,
                    coreVars
<1>8. CASE PillTimesOut
  BY <1>8 DEF PillTimesOut, PillIsHonest, coreVars
<1>9. CASE UNCHANGED <<sm, mostRecent, pill, preloadPillActive>>
  BY <1>9 DEF PillIsHonest
<1>10. CASE TranscribeWorker \/ TransformWorker \/ LastPasteAges \/ FocusMoves
  BY <1>9, <1>10 DEF TranscribeWorker, TransformWorker, LastPasteAges, FocusMoves,
                     coreVars, pillVars
<1>11. CASE LifecycleLoads \/ LifecycleUnloads \/ PreloadEnds \/ LlmWarmEnds \/ LlmCools
  BY <1>9, <1>11 DEF LifecycleLoads, LifecycleUnloads, PreloadEnds, LlmWarmEnds, LlmCools,
                     coreVars, pillVars
<1>12. CASE UNCHANGED vars
  BY <1>9, <1>12 DEF vars, coreVars, pillVars
<1>. QED BY <1>3, <1>4, <1>5, <1>6, <1>7, <1>8, <1>10, <1>11, <1>12 DEF Next

(* The pill never claims an activity that is over, a loading pill always   *)
(* has a load or a recognition behind it to take it down, and the caption  *)
(* that offers "say paste" is only shown when there is a text to paste.    *)
THEOREM PillCorrect == Spec => []PillIsHonest
<1>1. Init => PillIsHonest
  BY DEF Init, PillIsHonest
<1>. QED BY <1>1, NextPill, History, PTL DEF Spec

=============================================================================
