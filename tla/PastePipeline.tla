---------------------------- MODULE PastePipeline ----------------------------
(***************************************************************************)
(* paste() of paste/pipeline.py with the Windows adapters: a dictation     *)
(* borrows the clipboard and sends Ctrl+V, a Trigger Fire is typed.        *)
(*                                                                         *)
(* It runs on the GUI thread and sleeps there, so its steps interleave     *)
(* with other programs (which open the clipboard, copy, take the focus and *)
(* answer the Ctrl+V late) but never with another paste or with a restore: *)
(* the restore is a single-shot timer of the same thread's event loop.     *)
(*                                                                         *)
(* A dictation is named by the number of its paste; what the user copies   *)
(* is numbered as well.  Which formats of a rich clipboard a snapshot      *)
(* keeps is left out.                                                      *)
(***************************************************************************)
EXTENDS Naturals, FiniteSets

CONSTANTS
  Windows,
  Retries,    \* _MAX_RETRIES
  WaitCap,    \* MODIFIER_WAIT_CAP_S, in ticks
  Delay,      \* _RESTORE_DELAY_S, in ticks
  Lag,        \* the ticks a target takes at most to answer a Ctrl+V
  Chunks,     \* SendInput calls of one phase of a typed replacement
  MaxPastes,  \* bounds the pastes
  MaxCopies   \* bounds what the user copies

ASSUME PasteAssumption ==
  /\ {Retries, WaitCap, Chunks} \subseteq Nat \ {0}
  /\ {Delay, Lag, MaxPastes, MaxCopies} \subseteq Nat
  /\ Lag < Delay                       \* _RESTORE_DELAY_S "long enough"

VARIABLES
  clip,      \* what the clipboard holds
  holder,    \* who has it open: "nobody", "daemon" or "other"
  focus,     \* the foreground window
  modifier,  \* "held" or "up": modifier keys, as long as a paste looks
  gui,       \* the paste under way on the GUI thread
  timers,    \* scheduled restores
  keys,      \* Ctrl+Vs not yet answered by their window
  made,      \* pastes begun
  latest,    \* the paste of the Most-recent dictation
  copies,    \* copies made by the user
  (* An observer's memory, read by the properties only.                    *)
  own,       \* what the user last put on the clipboard
  disturbed, \* pastes whose text another writer took off the clipboard
  excuses    \* why the clipboard may not be the user's own

clipVars == <<clip, holder>>
userVars == <<focus, modifier, copies>>
sentVars == <<timers, keys>>
bookVars == <<made, latest>>
observer == <<own, disturbed, excuses>>
vars     == <<clipVars, userVars, gui, sentVars, bookVars, observer>>

Pastes      == 1 .. MaxPastes
Copied(n)   == [by |-> "user", n |-> n]
Dictated(k) == [by |-> "daemon", n |-> k]
Empty       == [by |-> "nobody", n |-> 0]
Content     == {Copied(n) : n \in 0 .. MaxCopies} \union {Dictated(k) : k \in Pastes}
                 \union {Empty}

Excuse == {"overlap", "copied", "race", "error"}

Step == {"idle", "wait", "save", "open", "set", "close", "focus", "send", "erase", "type"}

Gui   == [at : Step, k : 0 .. MaxPastes, how : {"paste", "type"}, target : Windows,
          saved : Content, tries : 0 .. Retries - 1, waited : 0 .. WaitCap,
          left : 0 .. Chunks, aim : {"kept", "lost"}]
Timer == [k : Pastes, saved : Content, left : 0 .. Delay]
Key   == [k : Pastes, age : 0 .. Lag]

NoPaste == [at |-> "idle", k |-> 0, how |-> "paste", target |-> CHOOSE w \in Windows : TRUE,
            saved |-> Empty, tries |-> 0, waited |-> 0, left |-> 0,
            aim |-> "kept"]  \* observer: whether the window was refused, or left again

Idle  == gui.at = "idle"
Typed == gui.how = "type"              \* a Trigger Fire
Ends == gui' = NoPaste
To(step) == gui' = [gui EXCEPT !.at = step]

(* Pastes whose text has to stay on the clipboard, and whether a snapshot  *)
(* of it is out.                                                           *)
Unanswered == {key.k : key \in keys}
                \union IF gui.at \in {"close", "focus", "send"} /\ ~Typed
                       THEN {gui.k} ELSE {}
Borrowed == timers # {} \/ (~Typed /\ gui.at \in {"open", "set", "close", "focus", "send"})

-----------------------------------------------------------------------------
(* paste() *)
(* The target is the window _do_paste has just captured.                   *)
Paste(how) ==
  /\ Idle
  /\ made < MaxPastes
  /\ made' = made + 1
  /\ latest' = IF how = "type" THEN latest ELSE made'
  /\ gui' = [NoPaste EXCEPT !.at = "wait", !.k = made', !.how = how, !.target = focus]
  /\ modifier' \in {"up", "held"}
  /\ UNCHANGED <<clipVars, focus, copies, sentVars, observer>>

ModifiersReleased ==
  /\ gui.at = "wait"
  /\ modifier = "up"
  /\ gui' = [gui EXCEPT !.at = IF Typed THEN "focus" ELSE "save", !.waited = 0]
  /\ UNCHANGED <<clipVars, userVars, sentVars, bookVars, observer>>

ModifiersHeld ==                       \* ModifiersHeldError
  /\ gui.at = "wait"
  /\ modifier = "held"
  /\ gui.waited = WaitCap
  /\ Ends
  /\ modifier' = "up"
  /\ UNCHANGED <<clipVars, focus, copies, sentVars, bookVars, observer>>

(* save() opens the clipboard and closes it again.  What the daemon itself *)
(* left open it may open again.                                            *)
Save ==
  /\ gui.at = "save"
  /\ IF holder = "other"
       THEN Ends /\ UNCHANGED <<holder, excuses>>
       ELSE /\ gui' = [gui EXCEPT !.at = "open", !.saved = clip]
            /\ holder' = "nobody"
            /\ excuses' = IF clip = own THEN excuses ELSE excuses \union {"overlap"}
  /\ UNCHANGED <<clip, userVars, sentVars, bookVars, own, disturbed>>

Open ==
  /\ gui.at = "open"
  /\ holder # "other"
  /\ holder' = "daemon"
  /\ gui' = [gui EXCEPT !.at = "set", !.tries = 0]
  /\ UNCHANGED <<clip, userVars, sentVars, bookVars, observer>>

OpenFails ==                           \* ClipboardContentionError at the last try
  /\ gui.at = "open"
  /\ holder = "other"
  /\ IF gui.tries = Retries - 1 THEN Ends ELSE gui' = [gui EXCEPT !.tries = @ + 1]
  /\ UNCHANGED <<clipVars, userVars, sentVars, bookVars, observer>>

SetText ==
  /\ gui.at = "set"
  /\ clip' = Dictated(gui.k)
  /\ To("close")
  /\ disturbed' = disturbed \union Unanswered
  /\ UNCHANGED <<holder, userVars, sentVars, bookVars, own, excuses>>

Close ==
  /\ gui.at = "close"
  /\ holder' = "nobody"
  /\ To("focus")
  /\ UNCHANGED <<clip, userVars, sentVars, bookVars, observer>>

(* set_text() or close() raises: the clipboard stays open, perhaps already *)
(* emptied, and nobody will restore it.                                    *)
WriteFails ==
  /\ gui.at \in {"set", "close"}
  /\ clip' \in IF gui.at = "set" THEN {clip, Empty} ELSE {clip}
  /\ Ends
  /\ disturbed' = disturbed \union Unanswered
  /\ excuses' = excuses \union {"error"}
  /\ UNCHANGED <<holder, userVars, sentVars, bookVars, own>>

(* foreground.restore(): Windows may refuse, and nobody looks.             *)
FocusLeft(window) == focus             \* fault: the target is not restored
Refocused(window) == window

RestoreFocus ==
  /\ gui.at = "focus"
  /\ \E refused \in BOOLEAN :
       /\ focus' = IF refused THEN focus ELSE Refocused(gui.target)
       /\ gui' = [gui EXCEPT !.at = IF Typed THEN "erase" ELSE "send",
                             !.left = IF Typed THEN Chunks ELSE 0,
                             !.aim = IF refused THEN "lost" ELSE "kept"]
  /\ UNCHANGED <<clipVars, modifier, copies, sentVars, bookVars, observer>>

(* send_paste(), then the restore is scheduled.  SendInput may refuse the  *)
(* keys, which is only logged.                                             *)
Settled    == 0                        \* fault: restored after the short settle
RestoreDue == Delay

SendPasteOrReturn ==                   \* fault: refused keys end the paste
  /\ gui.at = "send"
  /\ Ends
  /\ \/ /\ timers' = timers \union {[k |-> gui.k, saved |-> gui.saved, left |-> RestoreDue]}
        /\ keys' = keys \union {[k |-> gui.k, age |-> 0]}
     \/ UNCHANGED sentVars
  /\ UNCHANGED <<clipVars, userVars, bookVars, observer>>

SendPaste ==
  /\ gui.at = "send"
  /\ Ends
  /\ timers' = timers \union {[k |-> gui.k, saved |-> gui.saved, left |-> RestoreDue]}
  /\ keys' \in {keys, keys \union {[k |-> gui.k, age |-> 0]}}
  /\ UNCHANGED <<clipVars, userVars, bookVars, observer>>

(* One SendInput of send_backspaces() or send_text(); the pause between    *)
(* two lets others in.  A refused one ends its phase, and typing goes on   *)
(* where erasing stopped.                                                  *)
NextPhase == IF gui.at = "erase" THEN gui' = [gui EXCEPT !.at = "type", !.left = Chunks]
                                 ELSE Ends
SendChunk ==
  /\ gui.at \in {"erase", "type"}
  /\ IF gui.left <= 1 THEN NextPhase ELSE gui' = [gui EXCEPT !.left = @ - 1]
  /\ UNCHANGED <<clipVars, userVars, sentVars, bookVars, observer>>

ChunkRefused ==
  /\ gui.at \in {"erase", "type"}
  /\ NextPhase
  /\ UNCHANGED <<clipVars, userVars, sentVars, bookVars, observer>>

GuiStep ==
  \/ ModifiersReleased \/ ModifiersHeld
  \/ Save \/ Open \/ OpenFails \/ SetText \/ Close \/ WriteFails
  \/ RestoreFocus \/ SendPaste \/ SendChunk \/ ChunkRefused

-----------------------------------------------------------------------------
(* Other handlers of the GUI thread.                                       *)
(* A restore that finds the clipboard open elsewhere is given up.  One of  *)
(* which no format can be written leaves the clipboard empty.              *)
RestoreRetried(t) ==                   \* fault: tried again until it works
  /\ Idle
  /\ t.left = 0
  /\ holder # "other"
  /\ timers' = timers \ {t}
  /\ clip' = t.saved
  /\ holder' = "nobody"
  /\ disturbed' = disturbed \union (Unanswered \ {t.k})
  /\ UNCHANGED <<userVars, gui, keys, bookVars, own, excuses>>

Restore(t) ==
  /\ Idle
  /\ t.left = 0
  /\ timers' = timers \ {t}
  /\ IF holder = "other"
       THEN excuses' = excuses \union {"race"} /\ UNCHANGED <<clipVars, disturbed>>
       ELSE /\ clip' \in {t.saved, Empty}
            /\ holder' = "nobody"
            /\ disturbed' = disturbed \union (Unanswered \ {t.k})
            /\ excuses' = IF clip' = t.saved THEN excuses ELSE excuses \union {"error"}
  /\ UNCHANGED <<userVars, gui, keys, bookVars, own>>

(* A text the user chose: theirs from now on, unless a restore is to come. *)
BecomesOwn(text) ==
  /\ clip' = text
  /\ own' = text
  /\ holder' = "nobody"
  /\ disturbed' = disturbed \union Unanswered
  /\ excuses' = IF Borrowed THEN excuses \union {"copied"} ELSE {}

(* SetClipboardData raises after EmptyClipboard.                            *)
OnlyEmpties ==
  /\ clip' = Empty
  /\ holder' = "nobody"
  /\ disturbed' = disturbed \union Unanswered
  /\ excuses' = excuses \union {"error"}
  /\ UNCHANGED own

CopyLastDictation ==                   \* from the tray
  /\ Idle
  /\ latest # 0
  /\ holder # "other"                  \* its OSError is only logged
  /\ BecomesOwn(Dictated(latest)) \/ OnlyEmpties
  /\ UNCHANGED <<userVars, gui, sentVars, bookVars>>

-----------------------------------------------------------------------------
(* The surroundings.                                                       *)
TargetReads(key) ==
  /\ keys' = keys \ {key}
  /\ disturbed' = disturbed \ {key.k}
  /\ UNCHANGED <<clipVars, userVars, gui, timers, bookVars, own, excuses>>

UserCopies ==
  /\ copies < MaxCopies
  /\ holder = "nobody"
  /\ copies' = copies + 1
  /\ BecomesOwn(Copied(copies'))
  /\ UNCHANGED <<focus, modifier, gui, sentVars, bookVars>>

OtherOpens == /\ holder = "nobody"
              /\ holder' = "other"
              /\ UNCHANGED <<clip, userVars, gui, sentVars, bookVars, observer>>

OtherCloses == /\ holder = "other"
               /\ holder' = "nobody"
               /\ UNCHANGED <<clip, userVars, gui, sentVars, bookVars, observer>>

FocusMoves ==
  /\ focus' \in Windows \ {focus}
  /\ gui' = [gui EXCEPT !.aim = IF gui.at \in {"send", "erase", "type"} THEN "lost" ELSE @]
  /\ UNCHANGED <<clipVars, modifier, copies, sentVars, bookVars, observer>>

ModifierChanges ==
  /\ gui.at = "wait"
  /\ modifier' \in {"up", "held"} \ {modifier}
  /\ UNCHANGED <<clipVars, focus, copies, gui, sentVars, bookVars, observer>>

Less(n) == IF n = 0 THEN 0 ELSE n - 1

TimePasses ==
  /\ \A key \in keys : key.age < Lag
  /\ keys' = {[key EXCEPT !.age = @ + 1] : key \in keys}
  /\ timers' = {[t EXCEPT !.left = Less(@)] : t \in timers}
  /\ gui' = IF gui.at = "wait" /\ gui.waited < WaitCap
              THEN [gui EXCEPT !.waited = @ + 1] ELSE gui
  /\ UNCHANGED <<clipVars, userVars, bookVars, observer>>

-----------------------------------------------------------------------------
Init ==
  /\ clip = Copied(0) /\ own = Copied(0) /\ holder = "nobody"
  /\ focus \in Windows
  /\ modifier = "up"
  /\ gui = NoPaste
  /\ timers = {} /\ keys = {}
  /\ made = 0 /\ latest = 0 /\ copies = 0
  /\ disturbed = {} /\ excuses = {}

Next ==
  \/ \E how \in {"paste", "type"} : Paste(how)
  \/ GuiStep
  \/ \E t \in timers : Restore(t)
  \/ CopyLastDictation
  \/ \E key \in keys : TargetReads(key)
  \/ UserCopies
  \/ OtherOpens
  \/ OtherCloses
  \/ FocusMoves
  \/ ModifierChanges
  \/ TimePasses

Spec == Init /\ [][Next]_vars

(* The GUI thread runs on, its timers fire when it is free, time passes.   *)
(* The others owe nothing but an answer to Ctrl+V.                         *)
FairSpec ==
  /\ Spec
  /\ WF_vars(GuiStep)
  /\ WF_vars(\E t \in timers : Restore(t))
  /\ WF_vars(\E key \in keys : TargetReads(key))
  /\ WF_vars(TimePasses)

-----------------------------------------------------------------------------
(* Properties *)

(* The state is well typed: in particular, the tries to open the clipboard *)
(* stay within _MAX_RETRIES.                                               *)
TypeOK ==
  /\ clip \in Content /\ own \in Content
  /\ holder \in {"nobody", "daemon", "other"}
  /\ focus \in Windows /\ modifier \in {"up", "held"}
  /\ gui \in Gui /\ timers \subseteq Timer /\ keys \subseteq Key
  /\ made \in 0 .. MaxPastes /\ latest \in 0 .. made /\ copies \in 0 .. MaxCopies
  /\ disturbed \subseteq Pastes
  /\ excuses \subseteq Excuse

(* From the write until its window has answered the Ctrl+V, a dictation is *)
(* on the clipboard, however late that is and whatever becomes of focus    *)
(* and retries, unless somebody other than this paste has written since    *)
(* (the deferral of pipeline.py:34-40, issue #66).                         *)
QuietPasteLands ==
  \A k \in Unanswered \ disturbed : clip = Dictated(k)

(* When no paste is under way and no restore to come, the clipboard holds  *)
(* what the user last put there, however the pastes before ended, unless   *)
(* one of the four named things has happened since then: two pastes        *)
(* overlapped, the user copied before the restore, a restore met another   *)
(* program, a write raised.                                                *)
RestoredUnlessExcused == ~Borrowed /\ Idle /\ excuses = {} => clip = own

(* Whenever keys of a paste may be sent, the window it was meant for has   *)
(* the focus, unless Windows refused the focus or the user took it away after  *)
(* it was restored ("the single source of truth for where this paste       *)
(* lands").                                                                *)
GoesToItsTarget ==
  gui.at \in {"send", "erase", "type"} => focus = gui.target \/ gui.aim = "lost"

(* Every scheduled restore is run or given up: no paste holds the GUI      *)
(* thread for ever, whatever modifiers and other programs do.              *)
RestoresEnd ==
  \A k \in Pastes : (\E t \in timers : t.k = k) ~> ~(\E t \in timers : t.k = k)

=============================================================================
