-------------------------- MODULE HotkeyPathProofs --------------------------
(***************************************************************************)
(* Theorems about HotkeyPath, for any combos and keyboards and any tap     *)
(* threshold.                                                              *)
(***************************************************************************)
EXTENDS HotkeyPath, SequenceTheorems, TLAPS

-----------------------------------------------------------------------------
(* The keys.                                                               *)

(* What SetupsAssumption says of the setup in use.                         *)
LEMMA KeysOfTheSetup ==
  ASSUME setup \in Setups
  PROVE  /\ Escape \notin TriggerKeys
         /\ OtherKeys \intersect TriggerKeys = {}
         /\ MouseKeys \subseteq TriggerKeys
         /\ Masked \subseteq TriggerKeys
         /\ setup.misses \in BOOLEAN
BY SetupsAssumption DEF TriggerKeys, OtherKeys, MouseKeys, Groups, Masked

(* More keys down never undo a combo, and only its own keys make one.      *)
LEMMA ComboGrows ==
  ASSUME NEW down, NEW more, down \intersect TriggerKeys \subseteq more, IsCombo(down)
  PROVE  IsCombo(more)
BY DEF IsCombo, TriggerKeys

-----------------------------------------------------------------------------
(* Type correctness.                                                       *)
Queued == [event : Event, ts : Nat]

LEMMA HandleGoesToAState ==
  ASSUME NEW state \in State, NEW event, NEW tap \in BOOLEAN
  PROVE  Handle(state, event, tap).state \in State
BY DEF State, Handle, Goes, IdleKeyDown, InPressed, PressedKeyUp, PressedTimerExpired,
       PressedEsc, InRecording, CancelToIdle, StopRecording, InTranscribing,
       TranscribingDone, TranscribingEmpty, TranscribingBorderline, TranscribingKeyDown

LEMMA DeliversTypes ==
  ASSUME sm \in State, keyDownAt \in Nat \union {NoTime},
         NEW event, NEW ts \in Nat, Delivers(event, ts)
  PROVE  sm' \in State /\ keyDownAt' \in Nat \union {NoTime}
<1>1. (ts - keyDownAt < TapThreshold) \in BOOLEAN
  OBVIOUS
<1>2. Handle(sm, event, ts - keyDownAt < TapThreshold).state \in State
  BY <1>1, HandleGoesToAState
<1>3. sm' = Handle(sm, event, ts - keyDownAt < TapThreshold).state \/ sm' = "IDLE"
  BY DEF Delivers
<1>4. keyDownAt' \in {ts, keyDownAt}
  BY DEF Delivers
<1>. QED BY <1>2, <1>3, <1>4 DEF State

(* What one key event queues.                                              *)
Verdict == {"NONE", "TAP", "HOLD_END", "ESC"}

LEMMA QueuedTypes ==
  ASSUME NEW c, NEW event \in Verdict, NEW ts \in Nat
  PROVE  LET new == Stamp((IF Arms(c) THEN <<"KEY_DOWN">> ELSE <<>>) \o ActionsOf(event), ts)
         IN  /\ new \in Seq(Queued)
             /\ \A i \in DOMAIN new : new[i].event = "KEY_DOWN" => Arms(c)
<1> DEFINE armed == IF Arms(c) THEN <<"KEY_DOWN">> ELSE <<>>
           acts  == ActionsOf(event)
           all   == armed \o acts
           new   == Stamp(all, ts)
<1>1. /\ event = "NONE" => acts = <<>>
      /\ event \in {"TAP", "HOLD_END"} => acts = <<"KEY_UP">>
      /\ event = "ESC" => acts = <<"ESC">>
  BY DEF ActionsOf
<1>2. acts \in Seq({"KEY_UP", "ESC"})
  <2>1. /\ <<>> \in Seq({"KEY_UP", "ESC"}) /\ <<"KEY_UP">> \in Seq({"KEY_UP", "ESC"})
        /\ <<"ESC">> \in Seq({"KEY_UP", "ESC"})
    OBVIOUS
  <2> HIDE DEF acts
  <2>. QED BY <1>1, <2>1 DEF Verdict
<1>2b. armed \in Seq({"KEY_DOWN"}) /\ (~Arms(c) => armed = <<>>)
  <2>1. <<"KEY_DOWN">> \in Seq({"KEY_DOWN"}) /\ <<>> \in Seq({"KEY_DOWN"})
    OBVIOUS
  <2>. QED BY <2>1
<1> HIDE DEF armed, acts
<1>3. /\ all \in Seq(Event)
      /\ \A i \in 1 .. Len(all) : all[i] = "KEY_DOWN" => Arms(c)
  BY <1>2, <1>2b DEF Event
<1> HIDE DEF all
<1>4. /\ new = [i \in 1 .. Len(all) |-> [event |-> all[i], ts |-> ts]]
      /\ Len(all) \in Nat
      /\ \A i \in 1 .. Len(all) : all[i] \in Event
  BY <1>3 DEF Stamp
<1>5. new \in Seq(Queued) /\ DOMAIN new = 1 .. Len(all)
  BY <1>4 DEF Queued
<1>. QED BY <1>3, <1>4, <1>5 DEF all, armed, acts

LEMMA DownVerdict ==
  ASSUME NEW c, NEW key
  PROVE  DownEvent(c, key) \in Verdict
BY DEF DownEvent, Verdict

LEMMA UpVerdict ==
  ASSUME NEW c, NEW key, NEW ts
  PROVE  /\ UpEvent(c, key, ts) \in Verdict
         /\ UpEvent(c, key, ts) # "NONE" => BreaksCombo(c, key)
BY DEF UpEvent, Verdict

(* Advance extends the queue, and with a KEY_DOWN only where it arms.      *)
LEMMA AdvanceQueues ==
  ASSUME actions \in Seq(Queued), clock \in Nat, NEW c, NEW event \in Verdict,
         Advance(c, event)
  PROVE  /\ actions' \in Seq(Queued)
         /\ Armed => Arms(c)
<1> DEFINE new == Stamp((IF Arms(c) THEN <<"KEY_DOWN">> ELSE <<>>) \o ActionsOf(event), clock)
<1>1. /\ new \in Seq(Queued)
      /\ \A i \in DOMAIN new : new[i].event = "KEY_DOWN" => Arms(c)
  BY QueuedTypes
<1>2. actions' = actions \o new
  BY DEF Advance
<1> HIDE DEF new
<1>3. actions' \in Seq(Queued)
  BY <1>1, <1>2
<1>4. \A i \in DOMAIN actions' : i > Len(actions) =>
         i - Len(actions) \in DOMAIN new /\ actions'[i] = new[i - Len(actions)]
  BY <1>1, <1>2
<1>. QED BY <1>1, <1>3, <1>4 DEF Armed

LEMMA KeyDownTypes ==
  ASSUME setup \in Setups, classifier \in Classifier, NEW key \in Keys, clock \in Nat
  PROVE  KeyDown(classifier, key, clock) \in Classifier
<1>1. Masked \subseteq Keys /\ MouseKeys \subseteq Keys
  BY KeysOfTheSetup DEF Keys
<1> DEFINE c == FreshKeyDown(classifier, key, clock)
           isCombo == IsCombo((classifier.keysDown \union {key}) \ Stale(classifier, key))
<1>2. /\ classifier.keysDown \in SUBSET Keys /\ classifier.lone \in SUBSET Masked
      /\ classifier.dictated \in SUBSET Masked
      /\ classifier.suppressedMouse \in SUBSET MouseKeys
      /\ classifier.comboPressedAt \in Nat \union {NoTime}
      /\ classifier.holdEmitted \in BOOLEAN
  BY DEF Classifier
<1>3. /\ LoneAfter(classifier, key) \in SUBSET Masked
      /\ SuppressedAfterDown(classifier, key, isCombo) \in SUBSET MouseKeys
      /\ IsCombo(classifier.keysDown) \in BOOLEAN /\ isCombo \in BOOLEAN
  BY <1>2 DEF LoneAfter, SuppressedAfterDown, IsCombo
<1>4. [classifier EXCEPT !.lone = LoneAfter(classifier, key), !.pendingMask = FALSE]
        \in Classifier
  BY <1>3 DEF Classifier
<1>5. c \in Classifier
  <2> DEFINE stale == Stale(classifier, key)
             down  == (classifier.keysDown \union {key}) \ stale
             newly == ~IsCombo(classifier.keysDown) /\ isCombo
  <2>1. /\ down \in SUBSET Keys
        /\ (LoneAfter(classifier, key) \ stale) \union ({key} \intersect Masked) \in SUBSET Masked
        /\ (classifier.dictated \ stale) \union
              (IF isCombo THEN down \intersect Masked ELSE {}) \in SUBSET Masked
        /\ SuppressedAfterDown(classifier, key, isCombo) \ stale \in SUBSET MouseKeys
        /\ (IF newly THEN clock ELSE classifier.comboPressedAt) \in Nat \union {NoTime}
        /\ (classifier.holdEmitted /\ ~newly) \in BOOLEAN
    BY <1>2, <1>3
  <2>. QED BY <2>1 DEF FreshKeyDown, Classifier
<1>. QED BY <1>4, <1>5 DEF KeyDown

LEMMA KeyUpTypes ==
  ASSUME classifier \in Classifier, NEW key
  PROVE  KeyUp(classifier, key) \in Classifier
<1>1. BreaksCombo(classifier, key) \in BOOLEAN
  BY DEF BreaksCombo, IsCombo
<1>2. [classifier EXCEPT !.pendingMask = FALSE] \in Classifier
  BY DEF Classifier
<1>3. /\ classifier.keysDown \ {key} \in SUBSET Keys
      /\ classifier.lone \ {key} \in SUBSET Masked
      /\ classifier.dictated \ {key} \in SUBSET Masked
      /\ classifier.suppressedMouse \ {key} \in SUBSET MouseKeys
  BY DEF Classifier
<1>4. /\ (IF BreaksCombo(classifier, key) THEN NoTime ELSE classifier.comboPressedAt)
           \in Nat \union {NoTime}
      /\ (classifier.holdEmitted /\ ~BreaksCombo(classifier, key)) \in BOOLEAN
      /\ (key \in Masked \intersect classifier.dictated \intersect classifier.lone) \in BOOLEAN
  BY <1>1 DEF Classifier
<1>. QED BY <1>2, <1>3, <1>4 DEF KeyUp, Classifier

LEMMA InitTypes == Init => TypeOK
<1> SUFFICES ASSUME Init PROVE TypeOK
  OBVIOUS
<1>1. classifier \in Classifier
  BY DEF Init, Classifier, NoTime
<1>2. actions \in Seq([event : Event, ts : Nat])
  BY DEF Init
<1>3. /\ setup \in Setups /\ physical \subseteq Keys /\ sm \in State
      /\ osDown \subseteq MouseKeys /\ typed \subseteq Masked /\ used \subseteq Masked
  BY DEF Init, State
<1>4. /\ comboActive \in BOOLEAN /\ maskOwed \in BOOLEAN /\ clock \in Nat
      /\ gui \in {"waiting", "draining"}
      /\ holdAt \in Nat \union {NoTime} /\ keyDownAt \in Nat \union {NoTime}
  BY DEF Init
<1>. QED BY <1>1, <1>2, <1>3, <1>4 DEF TypeOK

LEMMA NextTypes ==
  ASSUME TypeOK, [Next]_vars
  PROVE  TypeOK'
<1> USE DEF TypeOK
<1>0. UNCHANGED setup =>
        /\ Keys' = Keys /\ MouseKeys' = MouseKeys /\ Masked' = Masked
        /\ Classifier' = Classifier
  BY DEF Keys, TriggerKeys, OtherKeys, Masked, MouseKeys, Groups, Classifier
<1>1. ASSUME NEW key \in Keys, HookKeyDown(key), physical' \subseteq Keys, UNCHANGED setup
      PROVE  /\ classifier' \in Classifier /\ comboActive' \in BOOLEAN
             /\ actions' \in Seq(Queued)
             /\ osDown' \subseteq MouseKeys /\ typed' \subseteq Masked /\ used' \subseteq Masked
             /\ maskOwed' \in BOOLEAN
  BY <1>0, <1>1, KeyDownTypes, DownVerdict, AdvanceQueues
     DEF HookKeyDown, Advance, SeesDown, ActiveAfter, IsCombo, Queued
<1>2. CASE Press
  BY <1>0, <1>1, <1>2 DEF Press, guiVars, smVars, Queued
<1>3. CASE AutoRepeat
  BY <1>0, <1>1, <1>3 DEF AutoRepeat, guiVars, smVars, Queued
<1>4. CASE Release
  <2>1. PICK key \in physical :
           /\ physical' = physical \ {key}
           /\ Advance(KeyUp(classifier, key), UpEvent(classifier, key, clock))
           /\ SeesUp(key)
    BY <1>4 DEF Release
  <2>2. classifier' \in Classifier /\ actions' \in Seq(Queued) /\ comboActive' \in BOOLEAN
    BY <2>1, KeyUpTypes, UpVerdict, AdvanceQueues DEF Advance, ActiveAfter, IsCombo, Queued
  <2>. QED BY <1>0, <1>4, <2>1, <2>2 DEF Release, SeesUp, guiVars, smVars, Queued
<1>5. CASE MissedRelease
  BY <1>0, <1>5 DEF MissedRelease, guiVars, smVars
<1>6. CASE TickStarts
  <2>1. (classifier.holdEmitted \/ HoldDue) \in BOOLEAN
    BY DEF Classifier, HoldDue, ComboHeld, IsCombo
  <2>2. classifier' \in Classifier
    BY <1>6, <2>1 DEF TickStarts, Classifier
  <2>. QED BY <1>0, <1>6, <2>2 DEF TickStarts, smVars, seenVars
<1>7. CASE TickDelivers
  <2>1. Head(actions) \in Queued /\ Tail(actions) \in Seq(Queued)
    BY <1>7, HeadTailProperties DEF TickDelivers, Queued
  <2>. QED
    BY <1>0, <1>7, <2>1, DeliversTypes DEF TickDelivers, hookVars, guiVars, seenVars, Queued
<1>8. CASE TickEnds
  BY <1>0, <1>8, DeliversTypes DEF TickEnds, hookVars, smVars, seenVars, NoTime
<1>9. CASE DaemonEvent
  BY <1>0, <1>9, DeliversTypes DEF DaemonEvent, hookVars, guiVars, seenVars
<1>10. CASE TimePasses
  BY <1>0, <1>10 DEF TimePasses, hookVars, guiVars, smVars, seenVars
<1>11. CASE UNCHANGED vars
  BY <1>0, <1>11 DEF vars, hookVars, guiVars, smVars, seenVars
<1>. QED
  BY <1>2, <1>3, <1>4, <1>5, <1>6, <1>7, <1>8, <1>9, <1>10, <1>11 DEF Next

-----------------------------------------------------------------------------
(***************************************************************************)
(* What the hook knows of the keys.  None of the properties is inductive:  *)
(* each says what one release or one press would do, and that depends on   *)
(* what the classifier and the observer noted at all the key events before *)
(* it.  KnowsTheKeys relates the classifier's keys to the real ones and to *)
(* the bridge; the other two relate its notes to the observer's.           *)
(***************************************************************************)
KnowsTheKeys ==
  /\ physical \subseteq classifier.keysDown
  /\ ~setup.misses => classifier.keysDown = physical
  /\ ComboHeld => comboActive \/ Escape \in OtherKeys

(* lone are the masked keys down that had no company, dictated those that  *)
(* were part of the combo.                                                 *)
KnowsTheCompany ==
  /\ classifier.lone = (Masked \intersect physical) \ typed
  /\ classifier.dictated = used
  /\ used \subseteq physical /\ typed \subseteq physical
  /\ IsCombo(physical) => Masked \intersect physical \subseteq used
  /\ classifier.pendingMask = maskOwed

(* A button whose press was suppressed is up for the system.               *)
KnowsTheButtons ==
  /\ osDown \subseteq physical
  /\ osDown \intersect classifier.suppressedMouse = {}

(* The combos for which the balance of the buttons is promised: those of a *)
(* hook that sees every release, or without a button.                      *)
ButtonsAreSeen == setup.misses => MouseKeys = {}

HookInv ==
  /\ TypeOK
  /\ KnowsTheKeys
  /\ ~setup.misses => KnowsTheCompany
  /\ ButtonsAreSeen => KnowsTheButtons

(* The keys the classifier believes down after a press.                    *)
LEMMA KeysAfterDown ==
  ASSUME setup \in Setups, NEW key, NEW ts, physical \subseteq classifier.keysDown,
         classifier \in Classifier
  PROVE  LET c == KeyDown(classifier, key, ts)
         IN  /\ physical \union {key} \subseteq c.keysDown
             /\ classifier.keysDown = physical => c.keysDown = physical \union {key}
             /\ ~ComboHeld /\ IsCombo(c.keysDown) => IsCombo(physical \union {key})
             /\ key \in classifier.keysDown => c.keysDown = classifier.keysDown
<1>1. CASE key \in classifier.keysDown
  BY <1>1 DEF KeyDown, Classifier, ComboHeld
<1>2. CASE key \notin classifier.keysDown
  <2> DEFINE down == (classifier.keysDown \union {key}) \ Stale(classifier, key)
  <2>1. KeyDown(classifier, key, ts).keysDown = down
    BY <1>2 DEF KeyDown, FreshKeyDown
  <2>2. physical \union {key} \subseteq down
    BY DEF Stale
  <2>3. classifier.keysDown = physical => down = physical \union {key}
    BY DEF Stale
  <2>4. ASSUME ~ComboHeld, IsCombo(down) PROVE IsCombo(physical \union {key})
    <3>1. IsCombo(classifier.keysDown \union {key})
      BY <2>4, ComboGrows
    <3>2. Stale(classifier, key) =
            {k \in classifier.keysDown \ {key} : k \in TriggerKeys /\ k \notin physical}
      BY <2>4, <3>1 DEF Stale, ComboHeld
    <3>3. down \intersect TriggerKeys \subseteq physical \union {key}
      BY <3>2
    <3>. QED BY <2>4, <3>3, ComboGrows
  <2>. QED BY <1>2, <2>1, <2>2, <2>3, <2>4
<1>. QED BY <1>1, <1>2

LEMMA KeysAfterUp ==
  ASSUME classifier \in Classifier, NEW key
  PROVE  KeyUp(classifier, key).keysDown = classifier.keysDown \ {key}
BY DEF KeyUp, Classifier

(* A key event leaves the bridge active with the combo, but for Esc.       *)
LEMMA ActiveWithTheCombo ==
  ASSUME setup \in Setups, classifier \in Classifier, NEW c, NEW event, NEW key \in Keys,
         Advance(c, event), UNCHANGED setup,
         \/ event = DownEvent(classifier, key)
         \/ /\ event = UpEvent(classifier, key, clock)
            /\ c = KeyUp(classifier, key)
  PROVE  (ComboHeld => comboActive \/ Escape \in OtherKeys)'
<1>1. /\ classifier' = c /\ comboActive' = (event = "NONE" /\ IsCombo(c.keysDown))
  BY DEF Advance, ActiveAfter
<1>2. ComboHeld' <=> IsCombo(c.keysDown)
  BY <1>1 DEF ComboHeld, IsCombo, Groups
<1>3. OtherKeys' = OtherKeys
  BY DEF OtherKeys
<1>5. CASE event = DownEvent(classifier, key)
  <2>1. event # "NONE" => Escape \in OtherKeys
    BY <1>5, KeysOfTheSetup DEF DownEvent, Keys
  <2>. QED BY <1>1, <1>2, <1>3, <2>1
<1>6. CASE event = UpEvent(classifier, key, clock) /\ c = KeyUp(classifier, key)
  <2>1. event # "NONE" => BreaksCombo(classifier, key)
    BY <1>6, UpVerdict
  <2>2. c.keysDown = classifier.keysDown \ {key}
    BY <1>6, KeysAfterUp
  <2>3. event # "NONE" => ~IsCombo(c.keysDown)
    BY <2>1, <2>2 DEF BreaksCombo
  <2>. QED BY <1>1, <1>2, <2>3
<1>. QED BY <1>5, <1>6

-----------------------------------------------------------------------------
(* One lemma per kind of key event and part of the invariant.              *)

(* The press or the repetition of a key, as the hook sees it.              *)
DownStep(key) ==
  /\ key \in Keys /\ UNCHANGED setup
  /\ \/ key \notin physical
     \/ key \in physical \ MouseKeys
  /\ physical' = physical \union {key}
  /\ HookKeyDown(key)

UpStep(key) ==
  /\ key \in physical /\ UNCHANGED setup
  /\ physical' = physical \ {key}
  /\ Advance(KeyUp(classifier, key), UpEvent(classifier, key, clock))
  /\ SeesUp(key)

LEMMA SameSetup ==
  ASSUME UNCHANGED setup
  PROVE  /\ MouseKeys' = MouseKeys /\ OtherKeys' = OtherKeys /\ Masked' = Masked
         /\ TriggerKeys' = TriggerKeys /\ ButtonsAreSeen' = ButtonsAreSeen
         /\ setup'.misses = setup.misses
         /\ IsCombo(physical)' <=> IsCombo(physical')
         /\ ComboHeld' <=> IsCombo(classifier'.keysDown)
BY DEF MouseKeys, OtherKeys, Masked, TriggerKeys, Groups, ButtonsAreSeen, IsCombo, ComboHeld

LEMMA DownKeepsKeys ==
  ASSUME TypeOK, KnowsTheKeys, NEW key, DownStep(key)
  PROVE  KnowsTheKeys'
<1>1. /\ physical' \subseteq classifier'.keysDown
      /\ ~setup'.misses => classifier'.keysDown = physical'
  BY KeysAfterDown DEF TypeOK, KnowsTheKeys, DownStep, HookKeyDown, Advance
<1>2. (ComboHeld => comboActive \/ Escape \in OtherKeys)'
  BY ActiveWithTheCombo DEF TypeOK, DownStep, HookKeyDown
<1>. QED BY <1>1, <1>2 DEF KnowsTheKeys

LEMMA UpKeepsKeys ==
  ASSUME TypeOK, KnowsTheKeys, NEW key, UpStep(key)
  PROVE  KnowsTheKeys'
<1>1. /\ physical' \subseteq classifier'.keysDown
      /\ ~setup'.misses => classifier'.keysDown = physical'
  BY KeysAfterUp DEF TypeOK, KnowsTheKeys, UpStep, Advance
<1>2. (ComboHeld => comboActive \/ Escape \in OtherKeys)'
  BY ActiveWithTheCombo DEF TypeOK, UpStep
<1>. QED BY <1>1, <1>2 DEF KnowsTheKeys

(* The notes of the classifier after a press, when it knows the keys.      *)
LEMMA NotesAfterDown ==
  ASSUME setup \in Setups, classifier \in Classifier, classifier.keysDown = physical,
         NEW key, NEW ts
  PROVE  LET c == KeyDown(classifier, key, ts)
         IN  /\ ~c.pendingMask
             /\ key \in physical =>
                  /\ c.lone = LoneAfter(classifier, key)
                  /\ c.dictated = classifier.dictated
             /\ key \notin physical =>
                  /\ c.lone = LoneAfter(classifier, key) \union ({key} \intersect Masked)
                  /\ c.dictated = classifier.dictated \union
                       (IF IsCombo(physical \union {key})
                          THEN (physical \union {key}) \intersect Masked ELSE {})
<1>1. Stale(classifier, key) = {}
  BY DEF Stale
<1>2. CASE key \in physical
  BY <1>2 DEF KeyDown, Classifier
<1>3. CASE key \notin physical
  BY <1>1, <1>3 DEF KeyDown, FreshKeyDown
<1>. QED BY <1>2, <1>3

LEMMA DownKeepsCompany ==
  ASSUME TypeOK, KnowsTheKeys, ~setup.misses, KnowsTheCompany, NEW key, DownStep(key)
  PROVE  KnowsTheCompany'
<1> USE DEF KnowsTheCompany
<1>1. /\ setup \in Setups /\ classifier \in Classifier /\ classifier.keysDown = physical
      /\ Masked \subseteq TriggerKeys /\ OtherKeys \intersect TriggerKeys = {}
      /\ key \in OtherKeys <=> key \notin TriggerKeys
  BY KeysOfTheSetup DEF TypeOK, KnowsTheKeys, DownStep, Keys
<1>2. /\ classifier' = KeyDown(classifier, key, clock) /\ ~classifier'.pendingMask
      /\ physical' = physical \union {key} /\ Masked' = Masked
      /\ IsCombo(physical)' <=> IsCombo(physical')
  <2>1. classifier' = KeyDown(classifier, key, clock)
    BY DEF DownStep, HookKeyDown, Advance
  <2>2. ~KeyDown(classifier, key, clock).pendingMask
    BY <1>1, NotesAfterDown
  <2>. QED BY <2>1, <2>2, SameSetup DEF DownStep
<1>9. /\ maskOwed' = FALSE
      /\ typed' = IF key \in OtherKeys THEN typed \union (physical \intersect Masked)
                                      ELSE typed
      /\ used' = IF IsCombo(physical') THEN used \union (physical' \intersect Masked)
                                      ELSE used
  BY DEF DownStep, HookKeyDown, SeesDown
<1>3. LoneAfter(classifier, key) = IF key \in OtherKeys THEN {} ELSE classifier.lone
  BY <1>1 DEF LoneAfter
<1>4. /\ classifier'.lone = LoneAfter(classifier, key) \union
                              (IF key \in physical THEN {} ELSE {key} \intersect Masked)
      /\ classifier'.dictated = classifier.dictated \union
           (IF key \notin physical /\ IsCombo(physical')
              THEN physical' \intersect Masked ELSE {})
  BY <1>1, <1>2, NotesAfterDown
<1>5. classifier'.lone = ((Masked \intersect physical) \ typed)'
  BY <1>1, <1>2, <1>3, <1>4, <1>9
<1>6. classifier'.dictated = used'
  BY <1>1, <1>2, <1>4, <1>9
<1>7. used' \subseteq physical' /\ typed' \subseteq physical'
  BY <1>1, <1>2, <1>9
<1>8. IsCombo(physical)' => (Masked \intersect physical)' \subseteq used'
  BY <1>2, <1>9
<1>10. classifier'.pendingMask = maskOwed'
  <2>1. classifier'.pendingMask = FALSE
    BY <1>1, <1>2 DEF KeyDown, FreshKeyDown, Classifier
  <2>. QED BY <2>1, <1>9
<1>. QED BY <1>5, <1>6, <1>7, <1>8, <1>10

LEMMA UpKeepsCompany ==
  ASSUME TypeOK, KnowsTheKeys, ~setup.misses, KnowsTheCompany, NEW key, UpStep(key)
  PROVE  KnowsTheCompany'
<1> USE DEF KnowsTheCompany
<1>1. /\ classifier \in Classifier /\ classifier.keysDown = physical
      /\ key \in physical /\ physical' = physical \ {key} /\ Masked' = Masked
      /\ IsCombo(physical)' <=> IsCombo(physical')
      /\ used \subseteq Masked
  BY SameSetup DEF TypeOK, KnowsTheKeys, UpStep
<1>2. /\ classifier'.lone = classifier.lone \ {key}
      /\ classifier'.dictated = classifier.dictated \ {key}
      /\ classifier'.pendingMask =
            (key \in Masked \intersect classifier.dictated \intersect classifier.lone)
  BY <1>1 DEF UpStep, Advance, KeyUp
<1>3. /\ typed' = typed \ {key} /\ used' = used \ {key}
      /\ maskOwed' = (key \in used \ typed)
  BY DEF UpStep, SeesUp
<1>4. IsCombo(physical') => IsCombo(physical)
  BY <1>1, ComboGrows
<1>5. classifier'.pendingMask = maskOwed'
  BY <1>1, <1>2, <1>3
<1>. QED BY <1>1, <1>2, <1>3, <1>4, <1>5

(* The buttons: the classifier's choice at the press is the one its        *)
(* release will find.                                                      *)
LEMMA DownKeepsButtons ==
  ASSUME TypeOK, KnowsTheKeys, ButtonsAreSeen, KnowsTheButtons, NEW key, DownStep(key)
  PROVE  KnowsTheButtons'
<1> USE DEF KnowsTheButtons
<1>1. /\ classifier \in Classifier /\ physical' = physical \union {key}
      /\ MouseKeys' = MouseKeys /\ osDown \subseteq MouseKeys
      /\ classifier' = KeyDown(classifier, key, clock)
      /\ osDown' = IF key \in MouseKeys /\ ~SuppressesDown(classifier, key)
                     THEN osDown \union {key} ELSE osDown
      /\ classifier.suppressedMouse \subseteq MouseKeys
  BY SameSetup DEF TypeOK, DownStep, HookKeyDown, Advance, SeesDown, Classifier
<1>2. CASE key \notin MouseKeys
  <2>1. classifier'.suppressedMouse \subseteq classifier.suppressedMouse
    BY <1>1, <1>2 DEF KeyDown, FreshKeyDown, SuppressedAfterDown, Classifier
  <2>. QED BY <1>1, <1>2, <2>1
<1>3. CASE key \in MouseKeys
  <2>1. ~setup.misses /\ key \notin physical /\ key \notin classifier.keysDown
    BY <1>3 DEF ButtonsAreSeen, DownStep, KnowsTheKeys
  <2>2. key \notin osDown
    BY <2>1
  <2> DEFINE completes == IsCombo((classifier.keysDown \union {key}) \ Stale(classifier, key))
  <2>3. classifier'.suppressedMouse \subseteq
          IF completes THEN classifier.suppressedMouse \union {key}
                       ELSE classifier.suppressedMouse \ {key}
    BY <1>1, <1>3, <2>1 DEF KeyDown, FreshKeyDown, SuppressedAfterDown
  <2>4. SuppressesDown(classifier, key) <=> completes
    BY <1>3, <2>1 DEF SuppressesDown
  <2>. QED BY <1>1, <1>3, <2>2, <2>3, <2>4
<1>. QED BY <1>2, <1>3

LEMMA UpKeepsButtons ==
  ASSUME TypeOK, KnowsTheKeys, KnowsTheButtons, NEW key, UpStep(key)
  PROVE  KnowsTheButtons'
<1>1. /\ key \in classifier.keysDown /\ classifier \in Classifier
      /\ physical' = physical \ {key}
      /\ osDown' = IF key \in classifier.suppressedMouse THEN osDown ELSE osDown \ {key}
  BY DEF TypeOK, KnowsTheKeys, UpStep, SeesUp, SuppressesUp
<1>2. classifier'.suppressedMouse = classifier.suppressedMouse \ {key}
  BY <1>1 DEF UpStep, Advance, KeyUp
<1>. QED BY <1>1, <1>2 DEF KnowsTheButtons

(* What the GUI thread and the rest of the daemon do concerns the hook's   *)
(* knowledge in nothing.                                                   *)
LEMMA OthersKeepHookInv ==
  ASSUME HookInv, TypeOK', UNCHANGED <<setup, physical, comboActive, osDown, typed, used, maskOwed>>,
         \/ UNCHANGED classifier
         \/ classifier' = [classifier EXCEPT !.holdEmitted = @ \/ HoldDue]
  PROVE  HookInv'
<1>1. /\ classifier'.keysDown = classifier.keysDown
      /\ classifier'.lone = classifier.lone
      /\ classifier'.dictated = classifier.dictated
      /\ classifier'.suppressedMouse = classifier.suppressedMouse
      /\ classifier'.pendingMask = classifier.pendingMask
  BY DEF HookInv, TypeOK, Classifier
<1>2. ComboHeld' <=> ComboHeld
  BY <1>1 DEF ComboHeld, IsCombo, Groups
<1>3. IsCombo(physical)' <=> IsCombo(physical)
  BY DEF IsCombo, Groups
<1>4. KnowsTheKeys'
  BY <1>1, <1>2, SameSetup DEF HookInv, KnowsTheKeys
<1>5. KnowsTheCompany => KnowsTheCompany'
  BY <1>1, <1>3, SameSetup DEF KnowsTheCompany
<1>6. KnowsTheButtons => KnowsTheButtons'
  BY <1>1 DEF KnowsTheButtons
<1>. QED BY <1>4, <1>5, <1>6, SameSetup DEF HookInv

LEMMA DownKeepsHookInv ==
  ASSUME HookInv, TypeOK', NEW key, DownStep(key)
  PROVE  HookInv'
BY DownKeepsKeys, DownKeepsCompany, DownKeepsButtons, SameSetup DEF HookInv, DownStep

LEMMA UpKeepsHookInv ==
  ASSUME HookInv, TypeOK', NEW key, UpStep(key)
  PROVE  HookInv'
BY UpKeepsKeys, UpKeepsCompany, UpKeepsButtons, SameSetup DEF HookInv, UpStep

(* Every step is a key event, one the hook misses, or none of its business. *)
LEMMA NextKinds ==
  ASSUME TypeOK, [Next]_vars
  PROVE  \/ \E key \in Keys : DownStep(key)
         \/ \E key \in Keys : UpStep(key)
         \/ MissedRelease
         \/ /\ UNCHANGED <<setup, physical, comboActive, osDown, typed, used, maskOwed>>
            /\ \/ UNCHANGED classifier
               \/ classifier' = [classifier EXCEPT !.holdEmitted = @ \/ HoldDue]
            /\ actions' \in {actions, Tail(actions)} /\ (actions = <<>> => UNCHANGED actions)
<1>1. CASE Press
  BY <1>1 DEF Press, DownStep
<1>2. CASE AutoRepeat
  <2>1. PICK key \in physical \ MouseKeys : HookKeyDown(key)
    BY <1>2 DEF AutoRepeat
  <2>2. physical' = physical \union {key} /\ key \in Keys
    BY <1>2, <2>1 DEF AutoRepeat, TypeOK
  <2>. QED BY <1>2, <2>1, <2>2 DEF AutoRepeat, DownStep
<1>3. CASE Release
  BY <1>3 DEF Release, UpStep, TypeOK
<1>4. CASE TickStarts \/ TickDelivers \/ TickEnds \/ DaemonEvent \/ TimePasses
  BY <1>4 DEF TickStarts, TickDelivers, TickEnds, DaemonEvent, TimePasses, hookVars, seenVars
<1>5. CASE UNCHANGED vars
  BY <1>5 DEF vars, hookVars, seenVars
<1>. QED BY <1>1, <1>2, <1>3, <1>4, <1>5 DEF Next

LEMMA NextHook == HookInv /\ [Next]_vars => HookInv'
<1> SUFFICES ASSUME HookInv, [Next]_vars PROVE HookInv'
  OBVIOUS
<1>1. TypeOK /\ TypeOK'
  BY NextTypes DEF HookInv
<1>2. CASE MissedRelease
  <2>1. /\ UNCHANGED <<setup, classifier, comboActive>> /\ setup.misses
        /\ \E key \in physical : physical' = physical \ {key} /\ osDown' = osDown \ {key}
    BY <1>2 DEF MissedRelease
  <2>2. KnowsTheKeys'
    BY <2>1, SameSetup DEF HookInv, KnowsTheKeys, ComboHeld
  <2>3. KnowsTheButtons => KnowsTheButtons'
    BY <2>1 DEF KnowsTheButtons
  <2>. QED BY <1>1, <2>1, <2>2, <2>3, SameSetup DEF HookInv
<1>. QED
  BY <1>1, <1>2, NextKinds, DownKeepsHookInv, UpKeepsHookInv, OthersKeepHookInv DEF HookInv

LEMMA InitHook == Init => HookInv
<1> SUFFICES ASSUME Init PROVE HookInv
  OBVIOUS
<1>1. ~IsCombo({})
  BY DEF IsCombo
<1>. QED
  BY <1>1, InitTypes DEF Init, HookInv, KnowsTheKeys, KnowsTheCompany, KnowsTheButtons,
                         ComboHeld

LEMMA Hook == Spec => []HookInv
BY InitHook, NextHook, PTL DEF Spec

(* The classifier's notes and the bridge's queue stay well formed for any  *)
(* order of key events and ticks.                                          *)
THEOREM TypeCorrect == Spec => []TypeOK
<1>1. HookInv => TypeOK
  BY DEF HookInv
<1>. QED BY <1>1, Hook, PTL

(* The menu mask is injected for exactly the releases that would open a    *)
(* menu, for every combo, keyboard and order of presses, repetitions and   *)
(* releases, as long as the hook sees them all.                            *)
THEOREM MaskCorrect == Spec => []MaskIsExact
<1>1. HookInv => MaskIsExact
  BY DEF HookInv, KnowsTheCompany, MaskIsExact
<1>. QED BY <1>1, Hook, PTL

(* A suppressed press of a button is followed by a suppressed release and  *)
(* a passed one by a passed one.  A hook that misses releases cannot keep  *)
(* that promise for a button: its next press is taken for a repetition and *)
(* passed on, and the release after it suppressed.                         *)
THEOREM ButtonsCorrect == Spec => [](ButtonsAreSeen => NoButtonStuck)
<1>1. HookInv => (ButtonsAreSeen => NoButtonStuck)
  BY DEF HookInv, KnowsTheButtons, NoButtonStuck
<1>. QED BY <1>1, Hook, PTL

-----------------------------------------------------------------------------
(***************************************************************************)
(* The steps that arm the bridge.  A step adds a KEY_DOWN only when the    *)
(* bridge is not active and the classifier holds the combo.  If it held    *)
(* the combo before, only Esc can have disarmed the bridge (KnowsTheKeys), *)
(* and if it did not, the press completed it and the keys the hook had     *)
(* wrong were dropped (KeysAfterDown).                                     *)
(***************************************************************************)

(* The keyboards for which that is promised: after an Esc that disarmed    *)
(* the bridge the next event arms it, with whatever keys the classifier    *)
(* still holds to be down, so these must be the real ones.                 *)
EscIsSeen == setup.misses => Escape \notin OtherKeys

LEMMA DownArmsOnARealPress ==
  ASSUME HookInv, EscIsSeen, NEW key, DownStep(key)
  PROVE  Armed => IsCombo(physical') /\ (~ComboHeld \/ Escape \in OtherKeys)
<1> SUFFICES ASSUME Armed PROVE IsCombo(physical') /\ (~ComboHeld \/ Escape \in OtherKeys)
  OBVIOUS
<1> DEFINE c == KeyDown(classifier, key, clock)
<1>1. /\ actions \in Seq(Queued) /\ clock \in Nat /\ setup \in Setups
      /\ classifier \in Classifier /\ physical \subseteq classifier.keysDown
      /\ ~setup.misses => classifier.keysDown = physical
      /\ ComboHeld => comboActive \/ Escape \in OtherKeys
      /\ Advance(c, DownEvent(classifier, key)) /\ physical' = physical \union {key}
  BY DEF HookInv, TypeOK, KnowsTheKeys, DownStep, HookKeyDown, Queued
<1>2. ~comboActive /\ IsCombo(c.keysDown)
  <2> HIDE DEF c
  <2>. QED BY <1>1, DownVerdict, AdvanceQueues DEF Arms
<1>3. CASE ComboHeld
  <2>1. ~setup.misses
    BY <1>1, <1>2, <1>3 DEF EscIsSeen
  <2>2. c.keysDown = physical'
    BY <1>1, <2>1, KeysAfterDown
  <2>. QED BY <1>1, <1>2, <1>3, <2>2
<1>4. CASE ~ComboHeld
  BY <1>1, <1>2, <1>4, KeysAfterDown
<1>. QED BY <1>3, <1>4

LEMMA UpArmsOnARealPress ==
  ASSUME HookInv, EscIsSeen, NEW key, UpStep(key)
  PROVE  Armed => IsCombo(physical') /\ (~ComboHeld \/ Escape \in OtherKeys)
<1> SUFFICES ASSUME Armed PROVE IsCombo(physical') /\ Escape \in OtherKeys
  OBVIOUS
<1> DEFINE c == KeyUp(classifier, key)
<1>1. /\ actions \in Seq(Queued) /\ clock \in Nat /\ classifier \in Classifier
      /\ ~setup.misses => classifier.keysDown = physical
      /\ ComboHeld => comboActive \/ Escape \in OtherKeys
      /\ Advance(c, UpEvent(classifier, key, clock)) /\ physical' = physical \ {key}
  BY DEF HookInv, TypeOK, KnowsTheKeys, UpStep, Queued
<1>2. ~comboActive /\ IsCombo(c.keysDown)
  <2> HIDE DEF c
  <2>. QED BY <1>1, UpVerdict, AdvanceQueues DEF Arms
<1>3. c.keysDown = classifier.keysDown \ {key}
  BY <1>1, KeysAfterUp
<1>4. ComboHeld
  BY <1>2, <1>3, ComboGrows DEF ComboHeld
<1>5. Escape \in OtherKeys /\ ~setup.misses
  BY <1>1, <1>2, <1>4 DEF EscIsSeen
<1>. QED BY <1>1, <1>2, <1>3, <1>5

LEMMA NextArmsOnARealPress ==
  HookInv /\ EscIsSeen /\ [Next]_vars =>
    (Armed => IsCombo(physical') /\ (~ComboHeld \/ Escape \in OtherKeys))
<1> SUFFICES ASSUME HookInv, EscIsSeen, [Next]_vars
             PROVE  Armed => IsCombo(physical') /\ (~ComboHeld \/ Escape \in OtherKeys)
  OBVIOUS
<1>1. TypeOK /\ actions \in Seq(Queued)
  BY DEF HookInv, TypeOK, Queued
<1>2. ASSUME \/ UNCHANGED actions
             \/ actions # <<>> /\ actions' = Tail(actions)
      PROVE  ~Armed
  <2>1. DOMAIN actions' \subseteq 1 .. Len(actions)
    <3>1. CASE UNCHANGED actions
      BY <1>1, <3>1
    <3>2. CASE actions # <<>> /\ actions' = Tail(actions)
      <4>1. Tail(actions) \in Seq(Queued) /\ Len(Tail(actions)) = Len(actions) - 1
            /\ Len(actions) \in Nat
        BY <1>1, <3>2, HeadTailProperties
      <4>. QED BY <3>2, <4>1
    <3>. QED BY <1>2, <3>1, <3>2
  <2>. QED BY <1>1, <2>1 DEF Armed
<1>3. CASE MissedRelease
  BY <1>2, <1>3 DEF MissedRelease
<1>. QED
  BY <1>1, <1>2, <1>3, NextKinds, DownArmsOnARealPress, UpArmsOnARealPress

(* The bridge arms, and so starts a recording, only on a press that        *)
(* completes a combo really held, even when the hook missed releases; only *)
(* after an Esc may any other key event arm it, and then the combo is      *)
(* still really held if the hook saw every release.                        *)
THEOREM ArmsCorrect == Spec /\ EscIsSeen => ArmsOnARealPress
<1>1. EscIsSeen /\ HookInv /\ [Next]_vars => EscIsSeen'
  <2> SUFFICES ASSUME EscIsSeen, HookInv, [Next]_vars PROVE EscIsSeen'
    OBVIOUS
  <2>1. UNCHANGED setup
    BY NextKinds DEF HookInv, DownStep, UpStep, MissedRelease
  <2>. QED BY <2>1, SameSetup DEF EscIsSeen
<1>. QED
  BY <1>1, Hook, NextHook, NextArmsOnARealPress, PTL DEF Spec, ArmsOnARealPress

-----------------------------------------------------------------------------
(***************************************************************************)
(* What HeldPressBecomesPtt rests on.  The two threads share the decision  *)
(* that a press is a hold: the classifier notes it as emitted when the     *)
(* tick takes it, and the state machine hears of it at the end of that     *)
(* tick.  A hold that was emitted and is not on its way has been heard     *)
(* (Settled): the machine has left PRESSED, and nothing in the queue leads *)
(* back to it, since a new press of the combo is a new hold to emit.       *)
(***************************************************************************)
PressIsTimed == ComboHeld => classifier.comboPressedAt # NoTime

HoldIsOfTheTick == holdAt # NoTime => gui = "draining"

NoPressQueued == \A i \in DOMAIN actions : actions[i].event # "KEY_DOWN"

Settled ==
  (Escape \notin OtherKeys /\ ComboHeld /\ classifier.holdEmitted /\ holdAt = NoTime)
    => sm # "PRESSED" /\ NoPressQueued

WatchInv == PressIsTimed /\ HoldIsOfTheTick /\ Settled

(* Only a press leads to PRESSED, and the timer leads out of it.           *)
LEMMA OnlyAPressLeadsToPressed ==
  ASSUME sm \in State, NEW event, NEW ts, Delivers(event, ts),
         (sm # "PRESSED" /\ event # "KEY_DOWN") \/ event = "TIMER_EXPIRED"
  PROVE  sm' # "PRESSED"
<1> DEFINE tap == ts - keyDownAt < TapThreshold
<1>1. Handle(sm, event, tap).state # "PRESSED"
  <2> HIDE DEF tap
  <2>. QED BY DEF State, Handle, Goes, IdleKeyDown, InPressed, PressedTimerExpired,
              InRecording, CancelToIdle, StopRecording, InTranscribing, TranscribingDone,
              TranscribingEmpty, TranscribingBorderline, TranscribingKeyDown
<1>2. sm' = Handle(sm, event, tap).state \/ sm' = "IDLE"
  BY DEF Delivers
<1>. QED BY <1>1, <1>2

(* A key event that does not arm queues no press.                          *)
LEMMA UnarmedQueuesNoPress ==
  ASSUME actions \in Seq(Queued), clock \in Nat, NEW c, NEW event \in Verdict,
         Advance(c, event), ~Arms(c), NoPressQueued
  PROVE  NoPressQueued'
<1> DEFINE new == Stamp((IF Arms(c) THEN <<"KEY_DOWN">> ELSE <<>>) \o ActionsOf(event), clock)
<1>1. /\ new \in Seq(Queued)
      /\ \A i \in DOMAIN new : new[i].event = "KEY_DOWN" => Arms(c)
  BY QueuedTypes
<1>2. actions' = actions \o new
  BY DEF Advance
<1> HIDE DEF new
<1>3. \A i \in DOMAIN actions' :
        IF i <= Len(actions) THEN i \in DOMAIN actions /\ actions'[i] = actions[i]
        ELSE i - Len(actions) \in DOMAIN new /\ actions'[i] = new[i - Len(actions)]
  BY <1>1, <1>2
<1>. QED BY <1>1, <1>3 DEF NoPressQueued

LEMMA DownKeepsWatch ==
  ASSUME HookInv, WatchInv, NEW key, DownStep(key), UNCHANGED <<guiVars, smVars>>
  PROVE  WatchInv'
<1> DEFINE c == KeyDown(classifier, key, clock)
<1>1. /\ actions \in Seq(Queued) /\ clock \in Nat /\ setup \in Setups
      /\ classifier \in Classifier /\ Advance(c, DownEvent(classifier, key))
      /\ ComboHeld => comboActive \/ Escape \in OtherKeys
      /\ UNCHANGED <<setup, gui, holdAt, sm>>
  BY DEF HookInv, TypeOK, KnowsTheKeys, DownStep, HookKeyDown, Queued, guiVars, smVars
<1>2. classifier' = c /\ (ComboHeld' <=> IsCombo(c.keysDown))
  BY <1>1, SameSetup DEF Advance
<1>3. IsCombo(c.keysDown) =>
        IF ComboHeld THEN /\ c.comboPressedAt = classifier.comboPressedAt
                          /\ c.holdEmitted = classifier.holdEmitted
                     ELSE c.comboPressedAt = clock /\ c.holdEmitted = FALSE
  <2>1. CASE key \in classifier.keysDown
    BY <1>1, <2>1 DEF KeyDown, Classifier, ComboHeld
  <2>2. CASE key \notin classifier.keysDown
    <3>1. c = FreshKeyDown(classifier, key, clock)
      BY <2>2 DEF KeyDown
    <3>2. classifier.holdEmitted \in BOOLEAN /\ (IsCombo(classifier.keysDown) <=> ComboHeld)
      BY <1>1 DEF Classifier, ComboHeld
    <3> DEFINE newly == ~IsCombo(classifier.keysDown) /\ IsCombo(c.keysDown)
    <3>3. /\ c.comboPressedAt = (IF newly THEN clock ELSE classifier.comboPressedAt)
          /\ c.holdEmitted = (classifier.holdEmitted /\ ~newly)
      BY <3>1 DEF FreshKeyDown
    <3> HIDE DEF c
    <3>4. CASE ComboHeld
      BY <3>2, <3>3, <3>4
    <3>5. CASE ~ComboHeld /\ IsCombo(c.keysDown)
      BY <3>2, <3>3, <3>5
    <3>. QED BY <3>4, <3>5
  <2>. QED BY <2>1, <2>2
<1> HIDE DEF c
<1>4. PressIsTimed' /\ HoldIsOfTheTick'
  BY <1>1, <1>2, <1>3 DEF WatchInv, PressIsTimed, HoldIsOfTheTick, NoTime
<1>5. Settled'
  <2> SUFFICES ASSUME Escape \notin OtherKeys', ComboHeld', classifier'.holdEmitted, holdAt' = NoTime
               PROVE  sm' # "PRESSED" /\ NoPressQueued'
    BY DEF Settled
  <2>1. ComboHeld /\ classifier.holdEmitted /\ Escape \notin OtherKeys
    BY <1>1, <1>2, <1>3 DEF OtherKeys
  <2>2. sm # "PRESSED" /\ NoPressQueued /\ ~Arms(c)
    BY <1>1, <2>1 DEF WatchInv, Settled, Arms
  <2>. QED BY <1>1, <2>2, UnarmedQueuesNoPress, DownVerdict
<1>. QED BY <1>4, <1>5 DEF WatchInv

LEMMA UpKeepsWatch ==
  ASSUME HookInv, WatchInv, NEW key, UpStep(key), UNCHANGED <<guiVars, smVars>>
  PROVE  WatchInv'
<1> DEFINE c == KeyUp(classifier, key)
<1>1. /\ actions \in Seq(Queued) /\ clock \in Nat /\ setup \in Setups
      /\ classifier \in Classifier /\ Advance(c, UpEvent(classifier, key, clock))
      /\ ComboHeld => comboActive \/ Escape \in OtherKeys
      /\ UNCHANGED <<setup, gui, holdAt, sm>>
  BY DEF HookInv, TypeOK, KnowsTheKeys, UpStep, Queued, guiVars, smVars
<1>2. classifier' = c /\ (ComboHeld' <=> IsCombo(c.keysDown))
  BY <1>1, SameSetup DEF Advance
<1>3. c.keysDown = classifier.keysDown \ {key}
  BY <1>1, KeysAfterUp
<1>4. IsCombo(c.keysDown) =>
        /\ ComboHeld
        /\ c.comboPressedAt = classifier.comboPressedAt
        /\ c.holdEmitted = classifier.holdEmitted
  <2>1. IsCombo(c.keysDown) => ComboHeld
    BY <1>3, ComboGrows DEF ComboHeld
  <2>2. IsCombo(c.keysDown) => ~BreaksCombo(classifier, key)
    BY <1>3 DEF BreaksCombo
  <2>3. CASE key \notin classifier.keysDown
    BY <1>1, <2>1, <2>3 DEF KeyUp, Classifier
  <2>4. CASE key \in classifier.keysDown
    <3>1. classifier.holdEmitted \in BOOLEAN
      BY <1>1 DEF Classifier
    <3>. QED BY <2>1, <2>2, <2>4, <3>1 DEF KeyUp
  <2>. QED BY <2>3, <2>4
<1> HIDE DEF c
<1>5. PressIsTimed' /\ HoldIsOfTheTick'
  BY <1>1, <1>2, <1>4 DEF WatchInv, PressIsTimed, HoldIsOfTheTick
<1>6. Settled'
  <2> SUFFICES ASSUME Escape \notin OtherKeys', ComboHeld', classifier'.holdEmitted, holdAt' = NoTime
               PROVE  sm' # "PRESSED" /\ NoPressQueued'
    BY DEF Settled
  <2>1. ComboHeld /\ classifier.holdEmitted /\ Escape \notin OtherKeys
    BY <1>1, <1>2, <1>4 DEF OtherKeys
  <2>2. sm # "PRESSED" /\ NoPressQueued /\ ~Arms(c)
    BY <1>1, <2>1 DEF WatchInv, Settled, Arms
  <2>. QED BY <1>1, <2>2, UnarmedQueuesNoPress, UpVerdict
<1>. QED BY <1>5, <1>6 DEF WatchInv

(* The GUI thread's steps.                                                 *)
LEMMA TickKeepsWatch ==
  ASSUME TypeOK, WatchInv, TickStarts \/ TickDelivers \/ TickEnds \/ DaemonEvent \/ TimePasses
  PROVE  WatchInv'
<1>0. /\ UNCHANGED <<setup, physical, comboActive>> /\ OtherKeys' = OtherKeys
      /\ actions \in Seq(Queued) /\ sm \in State /\ clock \in Nat /\ classifier \in Classifier
  BY DEF TickStarts, TickDelivers, TickEnds, DaemonEvent, TimePasses, hookVars, OtherKeys,
         TypeOK, Queued
<1>1. CASE TickStarts
  <2>1. /\ classifier' = [classifier EXCEPT !.holdEmitted = @ \/ HoldDue]
        /\ holdAt = NoTime /\ holdAt' = (IF HoldDue THEN clock ELSE NoTime)
        /\ gui' = "draining" /\ UNCHANGED <<actions, sm>>
    BY <1>1 DEF TickStarts, smVars, WatchInv, HoldIsOfTheTick
  <2>2. /\ classifier'.keysDown = classifier.keysDown
        /\ classifier'.comboPressedAt = classifier.comboPressedAt
        /\ classifier'.holdEmitted = (classifier.holdEmitted \/ HoldDue)
    BY <1>0, <2>1 DEF Classifier
  <2>3. ComboHeld' <=> ComboHeld
    BY <1>0, <2>2 DEF ComboHeld, IsCombo, Groups
  <2>4. holdAt' = NoTime => ~HoldDue
    BY <1>0, <2>1 DEF NoTime
  <2>. QED BY <1>0, <2>1, <2>2, <2>3, <2>4
           DEF WatchInv, PressIsTimed, HoldIsOfTheTick, Settled, NoPressQueued
<1>2. CASE ~TickStarts
  <2>1. UNCHANGED classifier /\ (ComboHeld' <=> ComboHeld)
    BY <1>0, <1>2 DEF TickDelivers, TickEnds, DaemonEvent, TimePasses, hookVars, ComboHeld,
                      IsCombo, Groups
  <2>2. PressIsTimed'
    BY <2>1 DEF WatchInv, PressIsTimed
  <2>3. CASE TickDelivers
    <3>1. /\ actions # <<>> /\ actions' = Tail(actions) /\ UNCHANGED guiVars
          /\ Delivers(Head(actions).event, Head(actions).ts)
      BY <2>3 DEF TickDelivers
    <3>2. NoPressQueued => NoPressQueued' /\ Head(actions).event # "KEY_DOWN"
      BY <1>0, <3>1 DEF NoPressQueued
    <3>3. sm # "PRESSED" /\ NoPressQueued => sm' # "PRESSED"
      BY <1>0, <3>1, <3>2, OnlyAPressLeadsToPressed
    <3>. QED BY <1>0, <2>1, <2>2, <3>1, <3>2, <3>3 DEF WatchInv, HoldIsOfTheTick, Settled, guiVars
  <2>4. CASE TickEnds
    <3>1. /\ actions = <<>> /\ actions' = <<>> /\ holdAt' = NoTime
          /\ IF holdAt # NoTime THEN Delivers("TIMER_EXPIRED", holdAt) ELSE UNCHANGED smVars
      BY <2>4 DEF TickEnds
    <3>2. NoPressQueued'
      BY <3>1 DEF NoPressQueued
    <3>3. holdAt # NoTime => sm' # "PRESSED"
      BY <1>0, <3>1, OnlyAPressLeadsToPressed
    <3>. QED BY <1>0, <2>1, <2>2, <3>1, <3>2, <3>3
             DEF WatchInv, HoldIsOfTheTick, Settled, smVars
  <2>5. CASE DaemonEvent
    <3>1. /\ UNCHANGED <<actions, gui, holdAt>>
          /\ \E event \in {"MAX_DURATION", "TRANSCRIPTION_DONE"} : Delivers(event, clock)
      BY <2>5 DEF DaemonEvent, guiVars
    <3>2. sm # "PRESSED" => sm' # "PRESSED"
      BY <1>0, <3>1, OnlyAPressLeadsToPressed
    <3>. QED BY <1>0, <2>1, <2>2, <3>1, <3>2
             DEF WatchInv, HoldIsOfTheTick, Settled, NoPressQueued
  <2>6. CASE TimePasses
    BY <1>0, <2>1, <2>2, <2>6
       DEF TimePasses, guiVars, smVars, WatchInv, HoldIsOfTheTick, Settled, NoPressQueued
  <2>. QED BY <1>2, <2>3, <2>4, <2>5, <2>6
<1>. QED BY <1>1, <1>2

LEMMA Watch == Spec => []WatchInv
<1>1. Init => WatchInv
  <2> SUFFICES ASSUME Init PROVE WatchInv
    OBVIOUS
  <2>1. ~ComboHeld
    BY DEF Init, ComboHeld, IsCombo
  <2>. QED BY <2>1 DEF Init, WatchInv, PressIsTimed, HoldIsOfTheTick, Settled
<1>2. HookInv /\ WatchInv /\ [Next]_vars => WatchInv'
  <2> SUFFICES ASSUME HookInv, WatchInv, [Next]_vars PROVE WatchInv'
    OBVIOUS
  <2>1. CASE Press
    <3>1. PICK key \in Keys : DownStep(key)
      BY <2>1 DEF Press, DownStep
    <3>. QED BY <2>1, <3>1, DownKeepsWatch DEF Press
  <2>2. CASE AutoRepeat
    <3>1. PICK key \in physical \ MouseKeys : HookKeyDown(key)
      BY <2>2 DEF AutoRepeat
    <3>2. DownStep(key)
      BY <2>2, <3>1 DEF AutoRepeat, DownStep, HookInv, TypeOK
    <3>. QED BY <2>2, <3>2, DownKeepsWatch DEF AutoRepeat
  <2>3. CASE Release
    <3>1. PICK key : UpStep(key)
      BY <2>3 DEF Release, UpStep
    <3>. QED BY <2>3, <3>1, UpKeepsWatch DEF Release
  <2>4. CASE MissedRelease \/ UNCHANGED vars
    BY <2>4 DEF MissedRelease, vars, hookVars, guiVars, smVars, WatchInv, PressIsTimed,
                HoldIsOfTheTick, Settled, NoPressQueued, ComboHeld, IsCombo, Groups, OtherKeys
  <2>. QED BY <2>1, <2>2, <2>3, <2>4, TickKeepsWatch DEF Next, HookInv
<1>. QED BY <1>1, <1>2, Hook, PTL DEF Spec

(* An undecided press whose combo is still held is being watched: the tick *)
(* under way will call it a hold, or the next one will, or it is not old   *)
(* enough.  So the state nothing else watches is never stuck; that ticks   *)
(* come is the fairness HeldPressBecomesPtt adds.                          *)
PressIsWatched ==
  (sm = "PRESSED" /\ ComboHeld /\ Escape \notin OtherKeys)
    => \/ holdAt # NoTime
       \/ HoldDue
       \/ clock - classifier.comboPressedAt < TapThreshold

THEOREM WatchCorrect == Spec => []PressIsWatched
<1>1. HookInv /\ WatchInv => PressIsWatched
  <2> SUFFICES ASSUME HookInv, WatchInv, sm = "PRESSED", ComboHeld, Escape \notin OtherKeys,
                      holdAt = NoTime, ~(clock - classifier.comboPressedAt < TapThreshold)
               PROVE  HoldDue
    BY DEF PressIsWatched
  <2>1. ~classifier.holdEmitted /\ classifier.comboPressedAt # NoTime
    BY DEF WatchInv, Settled, PressIsTimed
  <2>2. clock \in Nat /\ classifier.comboPressedAt \in Nat
    BY <2>1 DEF HookInv, TypeOK, Classifier
  <2>. QED BY <2>1, <2>2, BoundsAssumption DEF HoldDue
<1>. QED BY <1>1, Hook, Watch, PTL

=============================================================================
