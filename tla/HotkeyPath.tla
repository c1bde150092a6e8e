----------------------------- MODULE HotkeyPath -----------------------------
(***************************************************************************)
(* From a key press to the dictation state machine: the classifier         *)
(* (hotkey/classifier.py), the bridge that queues its verdicts             *)
(* (_HotkeyBridge of daemon.py) and the state machine (state.py).          *)
(*                                                                         *)
(* Two threads meet here.  The hook thread runs the classifier under the   *)
(* bridge's lock for each key event and queues events for the state        *)
(* machine.  The GUI thread ticks: under the lock it asks whether a press  *)
(* has become a hold, then, with the lock released, it delivers what is    *)
(* queued and, last, the hold.  Keys keep arriving between those steps.    *)
(***************************************************************************)
EXTENDS Integers, Sequences, StateMachine

CONSTANTS
  Setups,          \* the combos and keyboards, see SetupsAssumption
  SideEffectKeys,  \* Win and Alt: releasing them alone opens a menu
  Escape,
  TapThreshold,
  MaxTime,         \* bound on the clock
  MaxQueue         \* bound on the queue of the bridge

(* groups: the modifier groups of the combo, each a set of keys; mouse:    *)
(* those of its keys that are buttons; other: the keys outside the combo;  *)
(* misses: key events over an elevated window do not reach the hook.       *)
ASSUME SetupsAssumption ==
  \A s \in Setups :
    /\ Escape \notin UNION s.groups
    /\ s.other \intersect UNION s.groups = {}
    /\ s.mouse \subseteq UNION s.groups
    /\ s.misses \in BOOLEAN

ASSUME BoundsAssumption ==
  TapThreshold \in Nat \ {0} /\ MaxTime \in Nat /\ MaxQueue \in Nat

NoTime == -1

VARIABLES
  setup,        \* the user's combo and keyboard
  physical,     \* the keys that are really down
  classifier,   \* HotkeyClassifier
  comboActive,  \* the bridge's _combo_active
  actions,      \* the bridge's queue of (event, timestamp)
  gui,          \* where the GUI thread is in the bridge's tick()
  holdAt,       \* hold_actions of the tick under way: its time, or NoTime
  sm, keyDownAt,\* the state machine and the time of its key press
  clock,
  osDown,       \* history: mouse buttons the system believes are down
  typed,        \* history: masked keys during whose press another was typed
  used,         \* history: masked keys that were part of the whole combo
  maskOwed      \* history: the last release would have opened a menu

hookVars == <<physical, classifier, comboActive>>
guiVars  == <<gui, holdAt>>
smVars   == <<sm, keyDownAt>>
seenVars == <<osDown, typed, used, maskOwed>>
vars     == <<setup, hookVars, actions, guiVars, smVars, clock, seenVars>>

Groups      == setup.groups
MouseKeys   == setup.mouse
OtherKeys   == setup.other
TriggerKeys == UNION Groups
Keys        == TriggerKeys \union OtherKeys
Masked      == SideEffectKeys \intersect TriggerKeys

-----------------------------------------------------------------------------
(* The classifier, as functions of its state c.                            *)

IsCombo(down) == Groups # {} /\ \A g \in Groups : g \intersect down # {}

ComboHeld == IsCombo(classifier.keysDown)

(* _drop_stale_combo_keys(): keys whose release the hook never saw, asked  *)
(* of the system only when this press would complete the combo.            *)
StaleTrusted(c, key) == {}              \* fault: the system is never asked

Stale(c, key) ==
  IF ~IsCombo(c.keysDown) /\ IsCombo(c.keysDown \union {key})
    THEN {k \in c.keysDown \ {key} : k \in TriggerKeys /\ k \notin physical}
    ELSE {}

(* _track_session_on_key_down(): any other key makes every press not lone. *)
LoneKept(c, key) == c.lone              \* fault: company goes unnoticed

LoneAfter(c, key) == IF key \in TriggerKeys THEN c.lone ELSE {}

SuppressedAfterDown(c, key, isCombo) ==
  IF key \notin MouseKeys THEN c.suppressedMouse
  ELSE IF isCombo THEN c.suppressedMouse \union {key}
  ELSE c.suppressedMouse \ {key}

(* _on_key_down()                                                          *)
FreshKeyDown(c, key, ts) ==
  LET stale   == Stale(c, key)
      down    == (c.keysDown \union {key}) \ stale
      isCombo == IsCombo(down)
      newly   == ~IsCombo(c.keysDown) /\ isCombo
  IN [keysDown        |-> down,
      comboPressedAt  |-> IF newly THEN ts ELSE c.comboPressedAt,
      holdEmitted     |-> c.holdEmitted /\ ~newly,
      lone            |-> (LoneAfter(c, key) \ stale) \union ({key} \intersect Masked),
      dictated        |-> (c.dictated \ stale) \union
                            (IF isCombo THEN down \intersect Masked ELSE {}),
      suppressedMouse |-> SuppressedAfterDown(c, key, isCombo) \ stale,
      pendingMask     |-> FALSE]

KeyDown(c, key, ts) ==
  IF key \in c.keysDown
    THEN [c EXCEPT !.lone = LoneAfter(c, key), !.pendingMask = FALSE]
    ELSE FreshKeyDown(c, key, ts)

(* _on_key_up()                                                            *)
BreaksCombo(c, key) ==
  /\ key \in c.keysDown
  /\ IsCombo(c.keysDown) /\ ~IsCombo(c.keysDown \ {key})
  /\ c.comboPressedAt # NoTime

KeyUp(c, key) ==
  IF key \notin c.keysDown THEN [c EXCEPT !.pendingMask = FALSE]
  ELSE [keysDown        |-> c.keysDown \ {key},
        comboPressedAt  |-> IF BreaksCombo(c, key) THEN NoTime ELSE c.comboPressedAt,
        holdEmitted     |-> c.holdEmitted /\ ~BreaksCombo(c, key),
        lone            |-> c.lone \ {key},
        dictated        |-> c.dictated \ {key},
        suppressedMouse |-> c.suppressedMouse \ {key},
        pendingMask     |-> key \in Masked \intersect c.dictated \intersect c.lone]

(* The hotkey event of a key event, "NONE" for none.                       *)
DownEvent(c, key) ==
  IF key = Escape /\ key \notin c.keysDown THEN "ESC" ELSE "NONE"

UpEvent(c, key, ts) ==
  CASE BreaksCombo(c, key) /\ c.holdEmitted -> "HOLD_END"
    [] BreaksCombo(c, key) /\ ~c.holdEmitted
         /\ ts - c.comboPressedAt < TapThreshold -> "TAP"
    [] OTHER -> "NONE"

(* Whether the system is kept from seeing the event; only the mouse hook   *)
(* acts on that.                                                           *)
SuppressesDown(c, key) ==
  /\ key \in MouseKeys \ c.keysDown
  /\ IsCombo((c.keysDown \union {key}) \ Stale(c, key))

SuppressesUpOfCombo(c, key) ==          \* fault: decided again at the release
  key \in MouseKeys \intersect c.keysDown /\ IsCombo(c.keysDown)

SuppressesUp(c, key) == key \in c.keysDown \intersect c.suppressedMouse

-----------------------------------------------------------------------------
(***************************************************************************)
(* _advance_locked(): one key event, under the bridge's lock.  c is the    *)
(* classifier after it and event its verdict.                              *)
(***************************************************************************)
ActionsOf(event) ==
  CASE event \in {"TAP", "HOLD_END"} -> <<"KEY_UP">>
    [] event = "ESC" -> <<"ESC">>
    [] event = "HOLD_START" -> <<"TIMER_EXPIRED">>
    [] OTHER -> <<>>

Stamp(events, ts) == [i \in DOMAIN events |-> [event |-> events[i], ts |-> ts]]

ArmsEachTime(c) == IsCombo(c.keysDown)  \* fault: armed by every key event

Arms(c) == ~comboActive /\ IsCombo(c.keysDown)

ActiveAfter(c, event) == event = "NONE" /\ IsCombo(c.keysDown)

Advance(c, event) ==
  /\ Len(actions) + 2 <= MaxQueue
  /\ classifier' = c
  /\ actions' = actions \o
       Stamp((IF Arms(c) THEN <<"KEY_DOWN">> ELSE <<>>) \o ActionsOf(event), clock)
  /\ comboActive' = ActiveAfter(c, event)

(* What an outside observer can tell: the mouse buttons the system thinks  *)
(* are down, and the masked keys that have had company since their press.  *)
SeesDown(key) ==
  /\ osDown' = IF key \in MouseKeys /\ ~SuppressesDown(classifier, key)
                 THEN osDown \union {key} ELSE osDown
  /\ typed' = IF key \in OtherKeys
                THEN typed \union (physical \intersect Masked) ELSE typed
  /\ used' = IF IsCombo(physical') THEN used \union (physical' \intersect Masked)
                                  ELSE used
  /\ maskOwed' = FALSE

SeesUp(key) ==
  /\ osDown' = IF SuppressesUp(classifier, key) THEN osDown ELSE osDown \ {key}
  /\ typed' = typed \ {key}
  /\ used' = used \ {key}
  /\ maskOwed' = (key \in used \ typed)

HookKeyDown(key) ==
  /\ Advance(KeyDown(classifier, key, clock), DownEvent(classifier, key))
  /\ SeesDown(key)

Press ==
  /\ \E key \in Keys \ physical :
       /\ clock + TapThreshold <= MaxTime     \* bound: time left for a hold
       /\ physical' = physical \union {key}
       /\ HookKeyDown(key)
  /\ UNCHANGED <<setup, guiVars, smVars, clock>>

AutoRepeat ==
  /\ UNCHANGED <<setup, physical, guiVars, smVars, clock>>
  /\ \E key \in physical \ MouseKeys : HookKeyDown(key)

Release ==
  /\ \E key \in physical :
       /\ physical' = physical \ {key}
       /\ Advance(KeyUp(classifier, key), UpEvent(classifier, key, clock))
       /\ SeesUp(key)
  /\ UNCHANGED <<setup, guiVars, smVars, clock>>

(* A release over an elevated window, or on the lock screen: the system    *)
(* sees it, the hook does not.                                             *)
MissedRelease ==
  /\ setup.misses
  /\ \E key \in physical :
       /\ physical' = physical \ {key}
       /\ osDown' = osDown \ {key}
       /\ typed' = typed \ {key}
       /\ used' = used \ {key}
  /\ UNCHANGED maskOwed
  /\ UNCHANGED <<setup, classifier, comboActive, actions, guiVars, smVars, clock>>

-----------------------------------------------------------------------------
(* The GUI thread.                                                         *)

(* The tap decision compares the time stamps of the two events.            *)
Delivers(event, ts) ==
  LET step == Handle(sm, event, ts - keyDownAt < TapThreshold)
  IN /\ sm' = step.state \/ ("RECORD_START" \in step.commands /\ sm' = "IDLE")
     /\ keyDownAt' = IF "RECORD_START" \in step.commands THEN ts ELSE keyDownAt

HoldDueAtOnce ==                        \* fault: a late tick misses it
  /\ classifier.comboPressedAt # NoTime
  /\ ~classifier.holdEmitted
  /\ ComboHeld
  /\ clock = classifier.comboPressedAt + TapThreshold

HoldDue ==
  /\ classifier.comboPressedAt # NoTime
  /\ ~classifier.holdEmitted
  /\ ComboHeld
  /\ clock - classifier.comboPressedAt >= TapThreshold

TickStarts ==
  /\ gui = "waiting"
  /\ gui' = "draining"
  /\ holdAt' = IF HoldDue THEN clock ELSE NoTime
  /\ classifier' = [classifier EXCEPT !.holdEmitted = @ \/ HoldDue]
  /\ UNCHANGED <<setup, physical, comboActive, actions, smVars, clock, seenVars>>

TickDelivers ==
  /\ gui = "draining"
  /\ actions # <<>>
  /\ actions' = Tail(actions)
  /\ Delivers(Head(actions).event, Head(actions).ts)
  /\ UNCHANGED <<setup, hookVars, guiVars, clock, seenVars>>

TickEnds ==
  /\ gui = "draining"
  /\ actions = <<>>
  /\ gui' = "waiting"
  /\ holdAt' = NoTime
  /\ IF holdAt # NoTime THEN Delivers("TIMER_EXPIRED", holdAt) ELSE UNCHANGED smVars
  /\ UNCHANGED <<setup, hookVars, actions, clock, seenVars>>

(* The rest of the daemon, on the same thread: the watchdog stops a        *)
(* recording, a result or an error settles a transcription.                *)
DaemonEvent ==
  /\ gui = "waiting"
  /\ \E event \in {"MAX_DURATION", "TRANSCRIPTION_DONE"} :
       /\ Handle(sm, event, FALSE) # Goes(sm, {})
       /\ Delivers(event, clock)
  /\ UNCHANGED <<setup, hookVars, actions, guiVars, clock, seenVars>>

TimePasses ==
  /\ clock < MaxTime
  /\ clock' = clock + 1
  /\ UNCHANGED <<setup, hookVars, actions, guiVars, smVars, seenVars>>

Init ==
  /\ setup \in Setups
  /\ physical = {}
  /\ classifier = [keysDown |-> {}, comboPressedAt |-> NoTime, holdEmitted |-> FALSE,
                   lone |-> {}, dictated |-> {}, suppressedMouse |-> {},
                   pendingMask |-> FALSE]
  /\ comboActive = FALSE
  /\ actions = <<>>
  /\ gui = "waiting" /\ holdAt = NoTime
  /\ sm = "IDLE" /\ keyDownAt = NoTime
  /\ clock = 0
  /\ osDown = {} /\ typed = {} /\ used = {} /\ maskOwed = FALSE

Next ==
  \/ Press \/ AutoRepeat \/ Release \/ MissedRelease
  \/ TickStarts \/ TickDelivers \/ TickEnds
  \/ DaemonEvent \/ TimePasses

Spec == Init /\ [][Next]_vars

(* Time goes on, the Qt timer fires for ever and its handler runs to the   *)
(* end.                                                                    *)
FairSpec ==
  Spec /\ WF_vars(TimePasses) /\ WF_vars(TickStarts) /\ WF_vars(TickDelivers) /\ WF_vars(TickEnds)

-----------------------------------------------------------------------------
Classifier ==
  [keysDown : SUBSET Keys, comboPressedAt : Nat \union {NoTime},
   holdEmitted : BOOLEAN, lone : SUBSET Masked, dictated : SUBSET Masked,
   suppressedMouse : SUBSET MouseKeys, pendingMask : BOOLEAN]

TypeOK ==
  /\ setup \in Setups
  /\ physical \subseteq Keys
  /\ classifier \in Classifier
  /\ comboActive \in BOOLEAN
  /\ actions \in Seq([event : Event, ts : Nat])
  /\ gui \in {"waiting", "draining"}
  /\ holdAt \in Nat \union {NoTime}
  /\ sm \in State /\ keyDownAt \in Nat \union {NoTime}
  /\ clock \in Nat
  /\ osDown \subseteq MouseKeys /\ typed \subseteq Masked /\ used \subseteq Masked
  /\ maskOwed \in BOOLEAN

ReleasePending == \E i \in DOMAIN actions : actions[i].event \in {"KEY_UP", "ESC"}

(* The menu mask is injected exactly for the release that would open one:  *)
(* of a Win or Alt that took part in a combo and had no other company.     *)
(* (A hook that misses releases cannot know the company a key had.)        *)
MaskIsExact == ~setup.misses => (classifier.pendingMask <=> maskOwed)

(* No button stays down for the system after the user let go of it: a      *)
(* suppressed press is followed by a suppressed release and a passed one   *)
(* by a passed one (ADR-0020, "to keep the down/up pair balanced").        *)
NoButtonStuck == osDown \subseteq physical

(* The bridge arms, and so starts a recording, only on a press that        *)
(* completes a combo really held: not on a key whose release the hook      *)
(* missed (the purpose of _drop_stale_combo_keys), and never in the middle *)
(* of a combo.  Of the last, only Esc is excepted: it disarms the bridge   *)
(* with the combo still held, and the next key event of any kind arms it.  *)
Armed == \E i \in DOMAIN actions' :
            i > Len(actions) /\ actions'[i].event = "KEY_DOWN"

ArmsOnARealPress ==
  [][Armed => IsCombo(physical') /\ (~ComboHeld \/ Escape \in OtherKeys)]_vars

(* A press that goes on is recognised as a hold: the state machine does    *)
(* not stay undecided, in the one recording state nothing else watches.    *)
(* Esc is excepted for the same reason: a press armed again after it may   *)
(* belong to a hold that was already reported.                             *)
HeldPressBecomesPtt ==
  (sm = "PRESSED" /\ ComboHeld /\ Escape \notin OtherKeys)
    ~> (sm # "PRESSED" \/ ~ComboHeld)

(* README.md: "a hold records only while held".                            *)
HoldRecordsOnlyWhileHeld ==
  sm \in {"PRESSED", "PTT_REC"} => ComboHeld \/ ReleasePending

=============================================================================
