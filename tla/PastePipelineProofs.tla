------------------------ MODULE PastePipelineProofs -------------------------
(***************************************************************************)
(* Theorems about PastePipeline, for any number of pastes and copies, any  *)
(* windows and any delay longer than the targets' lag.                     *)
(*                                                                         *)
(* The clipboard's return rests on who owes what: as long as nothing has   *)
(* happened that excuses it, every snapshot that is out is the user's own  *)
(* content, and without one the clipboard is.  That a dictation stays for  *)
(* its reader rests on two ages: a restore and its Ctrl+V grow old         *)
(* together, so the restore cannot be due while the key is unanswered.     *)
(***************************************************************************)
EXTENDS PastePipeline, TLAPS

Writing == gui.at \in {"close", "focus", "send"} /\ ~Typed

(* A paste has the newest number, and only a dictation uses the clipboard. *)
Shape ==
  /\ ~Idle => gui.k = made /\ made # 0
  /\ gui.at \in {"save", "open", "set", "close", "send"} => ~Typed
  /\ gui.at \in {"erase", "type"} => Typed

OwedInv ==
  excuses = {} =>
    /\ \A t \in timers : t.saved = own
    /\ gui.at \in {"open", "set"} \/ Writing => gui.saved = own
    /\ timers = {} /\ ~Writing => clip = own

(* Pastes are numbered in order, each has one key and one restore, and the *)
(* two grow old together.                                                  *)
AgeInv ==
  /\ \A key \in keys : key.k <= made /\ (~Idle => key.k # made)
  /\ \A t \in timers : t.k <= made /\ (~Idle => t.k # made)
  /\ \A key1, key2 \in keys : key1.k = key2.k => key1 = key2
  /\ \A key \in keys, t \in timers : key.k = t.k => t.left + key.age >= Delay

Inv == TypeOK /\ Shape /\ OwedInv /\ AgeInv /\ QuietPasteLands /\ GoesToItsTarget

-----------------------------------------------------------------------------
LEMMA Numbers ==
  /\ Retries \in Nat \ {0} /\ WaitCap \in Nat \ {0} /\ Chunks \in Nat \ {0}
  /\ Delay \in Nat /\ Lag \in Nat /\ MaxPastes \in Nat /\ MaxCopies \in Nat
  /\ Lag < Delay
BY PasteAssumption

LEMMA NoPasteTyped == ASSUME NEW w \in Windows PROVE NoPaste \in Gui
<1>1. (CHOOSE v \in Windows : TRUE) \in Windows
  OBVIOUS
<1>2. Empty \in Content
  BY DEF Content
<1>. QED
  BY <1>1, <1>2, Numbers DEF NoPaste, Gui, Step

LEMMA ContentTyped ==
  /\ Empty \in Content
  /\ \A k \in Pastes : Dictated(k) \in Content
  /\ \A n \in 0 .. MaxCopies : Copied(n) \in Content
BY DEF Content

(* One operation of the record at a time.                                  *)
LEMMA AtUpdated ==
  ASSUME NEW g \in Gui, NEW s \in Step PROVE [g EXCEPT !.at = s] \in Gui
BY Zenon DEF Gui

LEMMA SavedUpdated ==
  ASSUME NEW g \in Gui, NEW s \in Step, NEW c \in Content
  PROVE  [g EXCEPT !.at = s, !.saved = c] \in Gui
BY Zenon DEF Gui

LEMMA TriesUpdated ==
  ASSUME NEW g \in Gui, NEW s \in Step, NEW n \in 0 .. Retries - 1
  PROVE  [g EXCEPT !.at = s, !.tries = n] \in Gui /\ [g EXCEPT !.tries = n] \in Gui
BY Zenon DEF Gui

LEMMA WaitedUpdated ==
  ASSUME NEW g \in Gui, NEW s \in Step, NEW n \in 0 .. WaitCap
  PROVE  [g EXCEPT !.at = s, !.waited = n] \in Gui /\ [g EXCEPT !.waited = n] \in Gui
BY Zenon DEF Gui

LEMMA LeftUpdated ==
  ASSUME NEW g \in Gui, NEW s \in Step, NEW n \in 0 .. Chunks
  PROVE  [g EXCEPT !.at = s, !.left = n] \in Gui /\ [g EXCEPT !.left = n] \in Gui
BY Zenon DEF Gui

LEMMA AimUpdated ==
  ASSUME NEW g \in Gui, NEW s \in Step, NEW n \in 0 .. Chunks, NEW a \in {"kept", "lost"}
  PROVE  /\ [g EXCEPT !.at = s, !.left = n, !.aim = a] \in Gui
         /\ [g EXCEPT !.aim = a] \in Gui
BY Zenon DEF Gui

LEMMA PasteUpdated ==
  ASSUME NEW g \in Gui, NEW s \in Step, NEW n \in 0 .. MaxPastes,
         NEW h \in {"paste", "type"}, NEW w \in Windows
  PROVE  [g EXCEPT !.at = s, !.k = n, !.how = h, !.target = w] \in Gui
BY Zenon DEF Gui

LEMMA TypeInit == Init => TypeOK /\ Shape
BY Numbers, NoPasteTyped, ContentTyped DEF Init, TypeOK, Shape, Idle, Typed, NoPaste

(* The paste under way stays well typed, step by step.                     *)
LEMMA GuiTyped == ASSUME TypeOK, Next PROVE gui' \in Gui
<1>0. /\ NoPaste \in Gui /\ gui \in Gui /\ clip \in Content /\ focus \in Windows
      /\ \A s \in {"wait", "save", "open", "set", "close", "focus", "send", "erase", "type"} :
           s \in Step
      /\ 0 \in 0 .. WaitCap /\ 0 \in 0 .. Retries - 1
      /\ 0 \in 0 .. Chunks /\ Chunks \in 0 .. Chunks
  BY NoPasteTyped, Numbers DEF TypeOK, Step
<1>a. /\ gui.tries \in 0 .. Retries - 1 /\ gui.waited \in 0 .. WaitCap
      /\ gui.left \in 0 .. Chunks /\ gui.at \in Step
  BY <1>0 DEF Gui
<1>b. gui.tries # Retries - 1 => gui.tries + 1 \in 0 .. Retries - 1
  BY <1>a, Numbers
<1>c. ~(gui.left <= 1) => gui.left - 1 \in 0 .. Chunks
  BY <1>a, Numbers
<1>d. gui.waited < WaitCap => gui.waited + 1 \in 0 .. WaitCap
  BY <1>a, Numbers
<1>1. ASSUME NEW how \in {"paste", "type"}, Paste(how) PROVE gui' \in Gui
  <2>1. made + 1 \in 0 .. MaxPastes
    BY <1>1, Numbers DEF Paste, TypeOK
  <2>2. gui' = [NoPaste EXCEPT !.at = "wait", !.k = made + 1, !.how = how, !.target = focus]
    BY <1>1 DEF Paste
  <2>. QED
    BY <2>1, <2>2, <1>0, PasteUpdated
<1>2. CASE ModifiersReleased
  <2>1. gui' = [gui EXCEPT !.at = IF Typed THEN "focus" ELSE "save", !.waited = 0]
    BY <1>2 DEF ModifiersReleased
  <2>2. (IF Typed THEN "focus" ELSE "save") \in Step
    BY <1>0
  <2>. QED
    BY <2>1, <2>2, <1>0, WaitedUpdated
<1>3. CASE Save
  <2>1. gui' = NoPaste \/ gui' = [gui EXCEPT !.at = "open", !.saved = clip]
    BY <1>3 DEF Save, Ends
  <2>. QED
    BY <2>1, <1>0, SavedUpdated, ZenonT(30)
<1>4. CASE Open
  <2>1. gui' = [gui EXCEPT !.at = "set", !.tries = 0]
    BY <1>4 DEF Open
  <2>. QED
    BY <2>1, <1>0, TriesUpdated
<1>5. CASE OpenFails
  <2>1. CASE gui.tries = Retries - 1
    BY <2>1, <1>5, <1>0 DEF OpenFails, Ends
  <2>2. CASE gui.tries # Retries - 1
    <3>1. gui' = [gui EXCEPT !.tries = gui.tries + 1]
      BY <2>2, <1>5 DEF OpenFails
    <3>. QED
      BY <3>1, <2>2, <1>0, <1>b, TriesUpdated
  <2>. QED
    BY <2>1, <2>2
<1>6. CASE SetText
  BY <1>6, <1>0, AtUpdated DEF SetText, To
<1>7. CASE Close
  BY <1>7, <1>0, AtUpdated DEF Close, To
<1>8. CASE ModifiersHeld \/ WriteFails \/ SendPaste
  BY <1>8, <1>0 DEF ModifiersHeld, WriteFails, SendPaste, Ends
<1>9. CASE RestoreFocus
  <2>1. PICK refused \in BOOLEAN :
          gui' = [gui EXCEPT !.at = IF Typed THEN "erase" ELSE "send",
                             !.left = IF Typed THEN Chunks ELSE 0,
                             !.aim = IF refused THEN "lost" ELSE "kept"]
    BY <1>9 DEF RestoreFocus
  <2>2. /\ (IF Typed THEN "erase" ELSE "send") \in Step
        /\ (IF Typed THEN Chunks ELSE 0) \in 0 .. Chunks
        /\ (IF refused THEN "lost" ELSE "kept") \in {"kept", "lost"}
    BY <1>0
  <2>. QED
    BY <2>1, <2>2, <1>0, AimUpdated
<1>10. CASE SendChunk \/ ChunkRefused
  <2>1. \/ gui' = NoPaste
        \/ gui' = [gui EXCEPT !.at = "type", !.left = Chunks]
        \/ ~(gui.left <= 1) /\ gui' = [gui EXCEPT !.left = gui.left - 1]
    BY <1>10 DEF SendChunk, ChunkRefused, NextPhase, Ends
  <2>. QED
    <3>1. CASE gui' = NoPaste
      BY <3>1, <1>0
    <3>2. CASE gui' = [gui EXCEPT !.at = "type", !.left = Chunks]
      BY <3>2, <1>0, LeftUpdated
    <3>3. CASE ~(gui.left <= 1) /\ gui' = [gui EXCEPT !.left = gui.left - 1]
      BY <3>3, <1>0, <1>c, LeftUpdated
    <3>. QED
      BY <2>1, <3>1, <3>2, <3>3
<1>11. CASE FocusMoves
  <2>1. \E a \in {"kept", "lost"} : gui' = [gui EXCEPT !.aim = a]
    <3>1. gui.aim \in {"kept", "lost"}
      BY <1>0 DEF Gui
    <3>. QED
      BY <3>1, <1>11 DEF FocusMoves
  <2>. QED
    BY <2>1, <1>0, AimUpdated, ZenonT(30)
<1>12. CASE TimePasses
  <2>1. CASE gui.at = "wait" /\ gui.waited < WaitCap
    <3>1. gui' = [gui EXCEPT !.waited = gui.waited + 1]
      BY <2>1, <1>12 DEF TimePasses
    <3>. QED
      BY <3>1, <2>1, <1>0, <1>d, WaitedUpdated
  <2>2. CASE ~(gui.at = "wait" /\ gui.waited < WaitCap)
    BY <2>2, <1>12, <1>0 DEF TimePasses
  <2>. QED
    BY <2>1, <2>2
<1>13. ASSUME \/ \E t \in timers : Restore(t)
              \/ CopyLastDictation
              \/ \E key \in keys : TargetReads(key)
              \/ UserCopies \/ OtherOpens \/ OtherCloses \/ ModifierChanges
       PROVE  gui' = gui
  BY <1>13 DEF Restore, CopyLastDictation, TargetReads, UserCopies, OtherOpens,
               OtherCloses, ModifierChanges
<1>. QED
  BY <1>0, <1>1, <1>2, <1>3, <1>4, <1>5, <1>6, <1>7, <1>8, <1>9, <1>10, <1>11, <1>12, <1>13
  DEF Next, GuiStep

(* The variables that do not belong to the paste under way.                *)
LEMMA PasteUnderWay ==
  ASSUME TypeOK, Shape
  PROVE  /\ gui \in Gui /\ gui.saved \in Content /\ gui.at \in Step
         /\ ~Idle => gui.k \in Pastes
         /\ Unanswered \subseteq Pastes
         /\ NoPaste.at = "idle" /\ NoPaste.how = "paste" /\ NoPaste.k = 0
<1>1. gui \in Gui /\ gui.saved \in Content /\ gui.at \in Step
  BY DEF TypeOK, Gui
<1>2. ~Idle => gui.k \in Pastes
  BY Numbers DEF TypeOK, Shape, Pastes
<1>3. \A key \in keys : key.k \in Pastes
  BY DEF TypeOK, Key
<1>. QED
  BY <1>1, <1>2, <1>3 DEF Unanswered, Idle, NoPaste

LEMMA ClipboardTyped ==
  ASSUME TypeOK, Shape, Next
  PROVE  clip' \in Content /\ own' \in Content /\ holder' \in {"nobody", "daemon", "other"}
<1>0. /\ clip \in Content /\ own \in Content /\ holder \in {"nobody", "daemon", "other"}
      /\ \A t \in timers : t.saved \in Content
  BY DEF TypeOK, Timer
<1>1. CASE SetText
  BY <1>0, <1>1, PasteUnderWay, ContentTyped DEF SetText, Idle
<1>2. CASE CopyLastDictation
  <2>1. latest \in Pastes
    BY <1>2, Numbers DEF CopyLastDictation, TypeOK, Pastes
  <2>. QED
    BY <2>1, <1>0, <1>2, ContentTyped DEF CopyLastDictation, BecomesOwn, OnlyEmpties
<1>3. CASE UserCopies
  <2>1. copies' \in 0 .. MaxCopies
    BY <1>3, Numbers DEF UserCopies, TypeOK
  <2>. QED
    BY <2>1, <1>0, <1>3, ContentTyped DEF UserCopies, BecomesOwn, OnlyEmpties
<1>4. ASSUME \/ \E how \in {"paste", "type"} : Paste(how)
             \/ ModifiersReleased \/ ModifiersHeld \/ Save \/ Open \/ OpenFails \/ Close
             \/ WriteFails \/ RestoreFocus \/ SendPaste \/ SendChunk \/ ChunkRefused
             \/ \E t \in timers : Restore(t)
             \/ \E key \in keys : TargetReads(key)
             \/ OtherOpens \/ OtherCloses \/ FocusMoves \/ ModifierChanges \/ TimePasses
      PROVE  clip' \in Content /\ own' \in Content /\ holder' \in {"nobody", "daemon", "other"}
  BY <1>0, <1>4, ContentTyped DEF Paste, ModifiersReleased, ModifiersHeld, Save, Open, OpenFails,
     Close, WriteFails, RestoreFocus, SendPaste, SendChunk, ChunkRefused, Restore, TargetReads,
     OtherOpens, OtherCloses, FocusMoves, ModifierChanges, TimePasses, clipVars, observer
<1>. QED
  BY <1>1, <1>2, <1>3, <1>4 DEF Next, GuiStep

LEMMA SentTyped ==
  ASSUME TypeOK, Shape, Next PROVE timers' \subseteq Timer /\ keys' \subseteq Key
<1>0. timers \subseteq Timer /\ keys \subseteq Key
  BY DEF TypeOK
<1>1. CASE SendPaste
  <2>1. gui.k \in Pastes /\ gui.saved \in Content
    BY <1>1, PasteUnderWay DEF SendPaste, Idle
  <2>2. /\ [k |-> gui.k, saved |-> gui.saved, left |-> Delay] \in Timer
        /\ [k |-> gui.k, age |-> 0] \in Key
    BY <2>1, Numbers DEF Timer, Key
  <2>. QED
    BY <2>2, <1>0, <1>1 DEF SendPaste, RestoreDue
<1>2. CASE TimePasses
  <2>1. \A key \in keys : [key EXCEPT !.age = @ + 1] \in Key
    <3>1. SUFFICES ASSUME NEW key \in keys PROVE [key EXCEPT !.age = @ + 1] \in Key
      OBVIOUS
    <3>2. key \in Key /\ key.age + 1 \in 0 .. Lag
      BY <1>0, <1>2, Numbers DEF TimePasses, Key
    <3>. QED
      BY <3>2 DEF Key
  <2>2. \A t \in timers : [t EXCEPT !.left = Less(@)] \in Timer
    <3>1. SUFFICES ASSUME NEW t \in timers PROVE [t EXCEPT !.left = Less(@)] \in Timer
      OBVIOUS
    <3>2. t \in Timer /\ Less(t.left) \in 0 .. Delay
      BY <1>0, Numbers DEF Timer, Less
    <3>. QED
      BY <3>2 DEF Timer
  <2>. QED
    BY <2>1, <2>2, <1>2 DEF TimePasses
<1>3. ASSUME \/ \E how \in {"paste", "type"} : Paste(how)
             \/ ModifiersReleased \/ ModifiersHeld \/ Save \/ Open \/ OpenFails \/ SetText
             \/ Close \/ WriteFails \/ RestoreFocus \/ SendChunk \/ ChunkRefused
             \/ \E t \in timers : Restore(t)
             \/ CopyLastDictation \/ UserCopies
             \/ \E key \in keys : TargetReads(key)
             \/ OtherOpens \/ OtherCloses \/ FocusMoves \/ ModifierChanges
      PROVE  timers' \subseteq timers /\ keys' \subseteq keys
  BY <1>3 DEF Paste, ModifiersReleased, ModifiersHeld, Save, Open, OpenFails, SetText,
     Close, WriteFails, RestoreFocus, SendChunk, ChunkRefused, Restore, CopyLastDictation,
     UserCopies, TargetReads, OtherOpens, OtherCloses, FocusMoves, ModifierChanges, sentVars
<1>. QED
  BY <1>0, <1>1, <1>2, <1>3 DEF Next, GuiStep

LEMMA BooksTyped ==
  ASSUME TypeOK, Shape, Next
  PROVE  /\ made' \in 0 .. MaxPastes /\ latest' \in 0 .. made' /\ copies' \in 0 .. MaxCopies
         /\ focus' \in Windows /\ modifier' \in {"up", "held"}
         /\ disturbed' \subseteq Pastes /\ excuses' \subseteq Excuse
<1>0. /\ made \in 0 .. MaxPastes /\ latest \in 0 .. made /\ copies \in 0 .. MaxCopies
      /\ focus \in Windows /\ modifier \in {"up", "held"}
      /\ disturbed \subseteq Pastes /\ excuses \subseteq Excuse
      /\ gui.target \in Windows /\ Unanswered \subseteq Pastes
  BY PasteUnderWay DEF TypeOK, Gui
<1>1. CASE \E how \in {"paste", "type"} : Paste(how)
  BY <1>0, <1>1, Numbers DEF Paste, observer
<1>2. CASE UserCopies
  BY <1>0, <1>2, Numbers DEF UserCopies, BecomesOwn, OnlyEmpties, Excuse, bookVars
<1>3. CASE RestoreFocus
  BY <1>0, <1>3 DEF RestoreFocus, Refocused, observer, bookVars
<1>4. ASSUME \/ ModifiersReleased \/ ModifiersHeld \/ Save \/ Open \/ OpenFails \/ SetText
             \/ Close \/ WriteFails \/ SendPaste \/ SendChunk \/ ChunkRefused
             \/ \E t \in timers : Restore(t)
             \/ CopyLastDictation
             \/ \E key \in keys : TargetReads(key)
             \/ OtherOpens \/ OtherCloses \/ FocusMoves \/ ModifierChanges \/ TimePasses
      PROVE  /\ made' = made /\ latest' = latest /\ copies' = copies
             /\ focus' \in Windows /\ modifier' \in {"up", "held"}
             /\ disturbed' \subseteq Pastes /\ excuses' \subseteq Excuse
  BY <1>0, <1>4 DEF ModifiersReleased, ModifiersHeld, Save, Open, OpenFails, SetText,
     Close, WriteFails, SendPaste, SendChunk, ChunkRefused, Restore, CopyLastDictation,
     BecomesOwn, OnlyEmpties, TargetReads, OtherOpens, OtherCloses, FocusMoves,
     ModifierChanges, TimePasses, Excuse, userVars, observer, bookVars
<1>. QED
  BY <1>0, <1>1, <1>2, <1>3, <1>4 DEF Next, GuiStep

(* What a step does to the paste under way: the number, the kind and the   *)
(* target stay, and the stages come in the order of the code.              *)
Follows(at) ==
  CASE at = "idle" -> {}
    [] at = "wait" -> IF Typed THEN {"wait", "focus"} ELSE {"wait", "save"}
    [] at = "save" -> {"save", "open"}
    [] at = "open" -> {"open", "set"}
    [] at = "set" -> {"set", "close"}
    [] at = "close" -> {"close", "focus"}
    [] at = "focus" -> IF Typed THEN {"focus", "erase"} ELSE {"focus", "send"}
    [] at = "send" -> {"send"}
    [] at = "erase" -> {"erase", "type"}
    [] at = "type" -> {"type"}

LEMMA GuiFollows ==
  ASSUME TypeOK, Shape, Next
  PROVE  \/ gui' = NoPaste
         \/ Idle /\ gui'.at = "wait" /\ gui'.k = made + 1 /\ made' = made + 1
         \/ Idle /\ gui'.at = "idle"
         \/ /\ ~Idle /\ gui'.at \in Follows(gui.at) /\ made' = made
            /\ gui'.k = gui.k /\ gui'.how = gui.how /\ gui'.target = gui.target
            /\ gui'.saved = IF Save THEN clip ELSE gui.saved
<1>0. gui \in Gui /\ NoPaste \in Gui
  BY NoPasteTyped DEF TypeOK
<1>11. gui.at # "idle" => gui.at \in Follows(gui.at)
  BY <1>0 DEF Follows, Gui, Step
<1>s. gui'.at = gui.at => ~Save
  BY <1>0, PasteUnderWay DEF Save, Ends, Gui
<1>1. CASE \E how \in {"paste", "type"} : Paste(how)
  BY <1>0, <1>1 DEF Paste, Gui
<1>2. CASE ModifiersReleased
  BY <1>0, <1>2 DEF ModifiersReleased, Follows, Typed, Idle, Gui, bookVars, Save
<1>3. CASE ModifiersHeld \/ WriteFails \/ SendPaste
  BY <1>3 DEF ModifiersHeld, WriteFails, SendPaste, Ends
<1>4. CASE Save
  BY <1>0, <1>4 DEF Save, Ends, Follows, Idle, Gui, bookVars
<1>5. CASE Open \/ SetText \/ Close
  BY <1>0, <1>5 DEF Open, SetText, Close, To, Follows, Idle, Gui, bookVars, Save
<1>6. CASE OpenFails
  BY <1>0, <1>6 DEF OpenFails, Ends, Follows, Idle, Gui, bookVars, Save
<1>7. CASE RestoreFocus
  BY <1>0, <1>7 DEF RestoreFocus, Follows, Typed, Idle, Gui, bookVars, Save
<1>8. CASE SendChunk \/ ChunkRefused
  BY <1>0, <1>8 DEF SendChunk, ChunkRefused, NextPhase, Ends, Follows, Idle, Gui, bookVars, Save
<1>9. CASE FocusMoves \/ TimePasses
  <2>1. /\ gui'.at = gui.at /\ gui'.k = gui.k /\ gui'.how = gui.how
        /\ gui'.target = gui.target /\ gui'.saved = gui.saved /\ made' = made
    BY <1>0, <1>9 DEF FocusMoves, TimePasses, Gui, bookVars
  <2>. QED
    BY <2>1, <1>0, <1>s, <1>11 DEF Idle
<1>10. ASSUME \/ \E t \in timers : Restore(t)
              \/ CopyLastDictation
              \/ \E key \in keys : TargetReads(key)
              \/ UserCopies \/ OtherOpens \/ OtherCloses \/ ModifierChanges
       PROVE  gui' = gui /\ made' = made
  BY <1>10 DEF Restore, CopyLastDictation, TargetReads, UserCopies, OtherOpens,
               OtherCloses, ModifierChanges, bookVars
<1>. QED
  BY <1>1, <1>2, <1>3, <1>4, <1>5, <1>6, <1>7, <1>8, <1>9, <1>10, <1>11, <1>s
  DEF Next, GuiStep, Idle

LEMMA ShapeStep == ASSUME TypeOK, Shape, Next PROVE Shape'
<1>1. gui' = NoPaste => Shape'
  BY PasteUnderWay DEF Shape, Idle, Typed
<1>2. Idle /\ gui'.at = "wait" /\ gui'.k = made + 1 /\ made' = made + 1 => Shape'
  BY Numbers DEF Shape, Idle, Typed, TypeOK
<1>3. Idle /\ gui'.at = "idle" => Shape'
  BY DEF Shape, Idle
<1>4. ASSUME ~Idle, gui'.at \in Follows(gui.at), made' = made, gui'.k = gui.k, gui'.how = gui.how
      PROVE  Shape'
  <2>1. gui.at \in Step
    BY PasteUnderWay
  <2>2. /\ gui'.at \in {"save", "open", "set", "close", "send"} => ~Typed
        /\ gui'.at \in {"erase", "type"} => Typed
    BY <2>1, <1>4 DEF Shape, Idle, Follows, Step
  <2>. QED
    BY <2>2, <1>4 DEF Shape, Idle, Typed
<1>. QED
  BY <1>1, <1>2, <1>3, <1>4, GuiFollows

(* The state stays well typed.                                             *)
LEMMA TypeStep == TypeOK /\ Shape /\ [Next]_vars => TypeOK' /\ Shape'
<1> SUFFICES ASSUME TypeOK, Shape, [Next]_vars PROVE TypeOK' /\ Shape'
  OBVIOUS
<1>1. CASE Next
  <2>1. TypeOK'
    BY <1>1, GuiTyped, ClipboardTyped, SentTyped, BooksTyped DEF TypeOK
  <2>. QED
    BY <2>1, <1>1, ShapeStep
<1>2. CASE UNCHANGED vars
  BY <1>2 DEF vars, clipVars, userVars, sentVars, bookVars, observer, TypeOK, Shape, Idle, Typed
<1>. QED
  BY <1>1, <1>2

(* The tries to open the clipboard, the wait for the modifiers and the     *)
(* numbers of the pastes stay within their bounds for ever.                *)
THEOREM TypeCorrect == Spec => []TypeOK
<1>1. Spec => [](TypeOK /\ Shape)
  BY TypeInit, TypeStep, PTL DEF Spec
<1>. QED
  BY <1>1, PTL

(* Who owes what survives every step, until something excuses it.          *)
LEMMA OwedStep ==
  ASSUME TypeOK, Shape, OwedInv, Next PROVE OwedInv'
<1> SUFFICES ASSUME excuses' = {}
             PROVE  /\ \A t \in timers' : t.saved = own'
                    /\ gui'.at \in {"open", "set"} \/ Writing' => gui'.saved = own'
                    /\ timers' = {} /\ ~Writing' => clip' = own'
  BY DEF OwedInv
<1> DEFINE Goal == /\ \A t \in timers' : t.saved = own'
                   /\ gui'.at \in {"open", "set"} \/ Writing' => gui'.saved = own'
                   /\ timers' = {} /\ ~Writing' => clip' = own'
           Owed == /\ \A t \in timers : t.saved = own
                   /\ gui.at \in {"open", "set"} \/ Writing => gui.saved = own
                   /\ timers = {} /\ ~Writing => clip = own
<1>0. /\ gui \in Gui /\ NoPaste.at = "idle" /\ gui.at \in Step
      /\ excuses = {} => Owed
  BY PasteUnderWay DEF OwedInv
<1>1. CASE \E how \in {"paste", "type"} : Paste(how)
  <2>1. Owed /\ Idle /\ gui'.at = "wait"
    BY <1>0, <1>1, NoPasteTyped DEF Paste, observer, Gui, TypeOK
  <2>2. timers' = timers /\ clip' = clip /\ own' = own
    BY <1>1 DEF Paste, clipVars, sentVars, observer
  <2>. QED
    BY <2>1, <2>2 DEF Writing, Idle
<1>2. ASSUME \/ ModifiersReleased \/ ModifiersHeld \/ OpenFails
             \/ SendChunk \/ ChunkRefused
      PROVE  Goal
  <2>1. Owed /\ timers' = timers /\ clip' = clip /\ own' = own
    BY <1>0, <1>2 DEF ModifiersReleased, ModifiersHeld, OpenFails, SendChunk, ChunkRefused,
                      clipVars, sentVars, observer
  <2>2. ~Writing /\ ~Writing' /\ gui'.at # "set"
    BY <1>0, <1>2 DEF ModifiersReleased, ModifiersHeld, OpenFails, SendChunk, ChunkRefused,
                      NextPhase, Ends, Writing, Shape, Typed, Gui
  <2>3. gui'.at = "open" => gui.at = "open" /\ gui'.saved = gui.saved
    BY <1>0, <1>2 DEF ModifiersReleased, ModifiersHeld, OpenFails, SendChunk, ChunkRefused,
                      NextPhase, Ends, Gui
  <2>. QED
    BY <2>1, <2>2, <2>3
<1>3. CASE Save
  <2>1. Owed /\ timers' = timers /\ clip' = clip /\ own' = own
    BY <1>0, <1>3 DEF Save, clipVars, sentVars, observer
  <2>2. ~Writing /\ ~Writing' /\ (gui'.at = "idle" \/ (gui'.saved = clip /\ clip = own))
    <3>1. CASE holder = "other"
      <4>1. gui' = NoPaste /\ gui.at = "save"
        BY <1>3, <3>1 DEF Save, Ends
      <4>. QED
        BY <1>0, <4>1 DEF Writing
    <3>2. CASE holder # "other"
      <4>1. clip = own
        BY <1>3, <3>2 DEF Save
      <4>2. gui'.at = "open" /\ gui'.saved = clip /\ gui.at = "save"
        BY <1>0, <1>3, <3>2 DEF Save, Gui
      <4>. QED
        BY <4>1, <4>2 DEF Writing
    <3>. QED
      BY <3>1, <3>2
  <2>. QED
    BY <2>1, <2>2
<1>4. CASE Open
  <2>1. Owed /\ timers' = timers /\ clip' = clip /\ own' = own
    BY <1>0, <1>4 DEF Open, clipVars, sentVars, observer
  <2>2. ~Writing /\ ~Writing' /\ gui.at = "open" /\ gui'.saved = gui.saved
    BY <1>0, <1>4 DEF Open, Writing, Gui
  <2>. QED
    BY <2>1, <2>2
<1>5. CASE SetText
  <2>1. Owed /\ timers' = timers /\ own' = own
    BY <1>0, <1>5 DEF SetText, sentVars
  <2>2. Writing' /\ gui.at = "set" /\ gui'.saved = gui.saved
    BY <1>0, <1>5 DEF SetText, To, Writing, Shape, Typed, Gui
  <2>. QED
    BY <2>1, <2>2
<1>6. CASE Close \/ RestoreFocus
  <2>1. Owed /\ timers' = timers /\ clip' = clip /\ own' = own
    BY <1>0, <1>6 DEF Close, RestoreFocus, clipVars, sentVars, observer
  <2>2. Writing' = Writing /\ gui'.saved = gui.saved /\ gui'.at \notin {"open", "set"}
    BY <1>0, <1>6 DEF Close, RestoreFocus, To, Writing, Shape, Typed, Gui
  <2>. QED
    BY <2>1, <2>2
<1>7. CASE WriteFails
  BY <1>7 DEF WriteFails
<1>8. CASE SendPaste
  <2>1. Owed /\ clip' = clip /\ own' = own
    BY <1>0, <1>8 DEF SendPaste, clipVars, observer
  <2>2. Writing /\ ~Writing' /\ gui'.at = "idle"
    BY <1>0, <1>8 DEF SendPaste, Ends, Writing, Shape, Typed
  <2>3. \E new : timers' = timers \union {new} /\ new.saved = gui.saved
    <3> DEFINE new == [k |-> gui.k, saved |-> gui.saved, left |-> RestoreDue]
    <3>1. timers' = timers \union {new} /\ new.saved = gui.saved
      BY <1>8 DEF SendPaste
    <3>. HIDE DEF new
    <3>. QED
      BY <3>1
  <2>. QED
    BY <2>1, <2>2, <2>3
<1>9. CASE \E t \in timers : Restore(t)
  <2>1. PICK t \in timers : Restore(t)
    BY <1>9
  <2>2. Owed /\ timers' = timers \ {t} /\ own' = own /\ clip' = t.saved
    BY <1>0, <2>1 DEF Restore
  <2>3. ~Writing' /\ gui'.at = "idle"
    BY <2>1 DEF Restore, Idle, Writing
  <2>. QED
    BY <2>2, <2>3
<1>10. CASE CopyLastDictation \/ UserCopies
  <2>1. ~Borrowed /\ clip' = own' /\ timers' = timers /\ gui' = gui
    BY <1>10 DEF CopyLastDictation, UserCopies, BecomesOwn, OnlyEmpties, sentVars
  <2>2. timers = {} /\ ~Writing' /\ gui'.at \notin {"open", "set"}
    BY <2>1 DEF Borrowed, Writing, Shape, Typed
  <2>. QED
    BY <2>1, <2>2
<1>11. ASSUME \/ \E key \in keys : TargetReads(key)
              \/ OtherOpens \/ OtherCloses \/ ModifierChanges
       PROVE  Goal
  <2>1. Owed /\ timers' = timers /\ clip' = clip /\ own' = own /\ gui' = gui
    BY <1>0, <1>11 DEF TargetReads, OtherOpens, OtherCloses, ModifierChanges, clipVars,
                       sentVars, observer
  <2>. QED
    BY <2>1 DEF Writing, Typed
<1>12. CASE FocusMoves \/ TimePasses
  <2>1. Owed /\ clip' = clip /\ own' = own
    BY <1>0, <1>12 DEF FocusMoves, TimePasses, clipVars, observer
  <2>2. Writing' = Writing /\ gui'.saved = gui.saved /\ gui'.at = gui.at
    BY <1>0, <1>12 DEF FocusMoves, TimePasses, Writing, Typed, Gui
  <2>3. CASE FocusMoves
    BY <2>1, <2>2, <2>3 DEF FocusMoves, sentVars
  <2>4. CASE TimePasses
    <3>1. timers' = {[t EXCEPT !.left = Less(@)] : t \in timers}
      BY <2>4 DEF TimePasses
    <3>2. \A t \in timers : [t EXCEPT !.left = Less(@)].saved = t.saved
      BY DEF TypeOK, Timer
    <3>. QED
      BY <2>1, <2>2, <3>1, <3>2, ZenonT(30)
  <2>. QED
    BY <1>12, <2>3, <2>4
<1>. QED
  BY <1>1, <1>2, <1>3, <1>4, <1>5, <1>6, <1>7, <1>8, <1>9, <1>10, <1>11, <1>12
  DEF Next, GuiStep

(* The two ages grow together, and no paste is numbered twice.             *)
LEMMA AgeStep == ASSUME TypeOK, Shape, AgeInv, Next PROVE AgeInv'
<1>0. /\ made \in Nat /\ RestoreDue = Delay /\ Delay \in Nat
      /\ \A key \in keys : key \in Key /\ key.k \in Nat /\ key.age \in Nat
      /\ \A t \in timers : t \in Timer /\ t.k \in Nat /\ t.left \in Nat
      /\ gui \in Gui /\ NoPaste.at = "idle"
  BY Numbers, PasteUnderWay DEF TypeOK, Key, Timer, Pastes, RestoreDue
<1>1. CASE \E how \in {"paste", "type"} : Paste(how)
  <2>1. keys' = keys /\ timers' = timers /\ made' = made + 1
    BY <1>1 DEF Paste, sentVars
  <2>. QED
    BY <2>1, <1>0 DEF AgeInv
<1>2. CASE SendPaste
  <2> DEFINE newTimer == [k |-> gui.k, saved |-> gui.saved, left |-> RestoreDue]
             newKey   == [k |-> gui.k, age |-> 0]
  <2>1. /\ timers' = timers \union {newTimer} /\ keys' \subseteq keys \union {newKey}
        /\ made' = made /\ gui' = NoPaste
    BY <1>2 DEF SendPaste, Ends, bookVars
  <2>2. /\ ~Idle /\ gui.k = made
        /\ newTimer.k = made /\ newTimer.left = Delay /\ newKey.k = made /\ newKey.age = 0
    BY <1>2, <1>0 DEF SendPaste, Shape, Idle
  <2>3. Idle'
    BY <2>1, <1>0 DEF Idle
  <2>. HIDE DEF newTimer, newKey
  <2>4. /\ \A key \in keys : key.k <= made /\ key.k # made
        /\ \A t \in timers : t.k <= made /\ t.k # made
    BY <2>2 DEF AgeInv
  <2>5. \A key1, key2 \in keys' : key1.k = key2.k => key1 = key2
    BY <2>1, <2>2, <2>4 DEF AgeInv
  <2>6. \A key \in keys', t \in timers' : key.k = t.k => t.left + key.age >= Delay
    BY <2>1, <2>2, <2>4, <1>0 DEF AgeInv
  <2>7. /\ \A key \in keys' : key.k <= made
        /\ \A t \in timers' : t.k <= made
    BY <2>1, <2>2, <2>4, <1>0
  <2>. QED
    BY <2>1, <2>3, <2>5, <2>6, <2>7 DEF AgeInv
<1>3. CASE TimePasses
  <2> DEFINE older(key) == [key EXCEPT !.age = @ + 1]
             nearer(t)  == [t EXCEPT !.left = Less(@)]
  <2>1. /\ keys' = {older(key) : key \in keys} /\ timers' = {nearer(t) : t \in timers}
        /\ made' = made
    BY <1>3 DEF TimePasses, bookVars
  <2>2. Idle' => Idle
    BY <1>3, <1>0 DEF TimePasses, Idle, Gui
  <2>3. \A key \in keys : older(key).k = key.k /\ older(key).age = key.age + 1
    BY <1>0 DEF Key
  <2>4. \A t \in timers : nearer(t).k = t.k /\ nearer(t).left = Less(t.left)
    BY <1>0 DEF Timer
  <2>5. Idle => Idle'
    BY <1>3, <1>0 DEF TimePasses, Idle, Gui
  <2>. HIDE DEF older, nearer
  <2>6. \A key \in keys, t \in timers :
          key.k = t.k => Less(t.left) + key.age + 1 >= Delay
    BY <1>0 DEF AgeInv, Less
  <2>7. /\ \A key \in keys' : key.k <= made /\ (~Idle' => key.k # made)
        /\ \A t \in timers' : t.k <= made /\ (~Idle' => t.k # made)
    BY <2>1, <2>3, <2>4, <2>5 DEF AgeInv
  <2>8. \A key1, key2 \in keys' : key1.k = key2.k => key1 = key2
    BY <2>1, <2>3 DEF AgeInv
  <2>9. \A key \in keys', t \in timers' : key.k = t.k => t.left + key.age >= Delay
    <3>1. SUFFICES ASSUME NEW key \in keys, NEW t \in timers, older(key).k = nearer(t).k
                   PROVE  nearer(t).left + older(key).age >= Delay
      BY <2>1
    <3>2. key.k = t.k /\ Less(t.left) + key.age + 1 >= Delay
      BY <3>1, <2>3, <2>4, <2>6
    <3>3. Less(t.left) \in Nat /\ key.age \in Nat
      BY <1>0 DEF Less
    <3>. QED
      BY <3>2, <3>3, <2>3, <2>4, <1>0
  <2>. QED
    BY <2>1, <2>7, <2>8, <2>9 DEF AgeInv
<1>4. ASSUME \/ ModifiersReleased \/ ModifiersHeld \/ Save \/ Open \/ OpenFails \/ SetText
             \/ Close \/ WriteFails \/ RestoreFocus \/ SendChunk \/ ChunkRefused
             \/ \E t \in timers : Restore(t)
             \/ CopyLastDictation \/ UserCopies
             \/ \E key \in keys : TargetReads(key)
             \/ OtherOpens \/ OtherCloses \/ FocusMoves \/ ModifierChanges
      PROVE  AgeInv'
  <2>1. timers' \subseteq timers /\ keys' \subseteq keys /\ made' = made
    BY <1>4 DEF ModifiersReleased, ModifiersHeld, Save, Open, OpenFails, SetText,
       Close, WriteFails, RestoreFocus, SendChunk, ChunkRefused, Restore, CopyLastDictation,
       UserCopies, TargetReads, OtherOpens, OtherCloses, FocusMoves, ModifierChanges,
       sentVars, bookVars
  <2>2. Idle => Idle'
    BY <1>4, <1>0 DEF ModifiersReleased, ModifiersHeld, Save, Open, OpenFails, SetText,
       Close, WriteFails, RestoreFocus, SendChunk, ChunkRefused, Restore, CopyLastDictation,
       UserCopies, TargetReads, OtherOpens, OtherCloses, FocusMoves, ModifierChanges,
       Idle, Gui
  <2>. QED
    BY <2>1, <2>2 DEF AgeInv
<1>. QED
  BY <1>1, <1>2, <1>3, <1>4 DEF Next, GuiStep

(* A dictation stays on the clipboard for its reader.                      *)
LEMMA LandsStep ==
  ASSUME TypeOK, Shape, AgeInv, QuietPasteLands, Next PROVE QuietPasteLands'
<1> DEFINE Mine == IF gui.at \in {"close", "focus", "send"} /\ ~Typed THEN {gui.k} ELSE {}
           Keys == {key.k : key \in keys}
<1>0. /\ gui \in Gui /\ NoPaste.at = "idle" /\ gui.at \in Step
      /\ Unanswered = Keys \union Mine /\ Unanswered' = Keys' \union Mine'
  BY PasteUnderWay DEF Unanswered
<1>1. ASSUME Unanswered' \subseteq Unanswered, disturbed \subseteq disturbed', clip' = clip
      PROVE  QuietPasteLands'
  BY <1>1 DEF QuietPasteLands
<1>2. ASSUME Unanswered' \subseteq disturbed' PROVE QuietPasteLands'
  BY <1>2 DEF QuietPasteLands
<1>3. CASE \E how \in {"paste", "type"} : Paste(how)
  <2>1. gui'.at = "wait" /\ keys' = keys /\ disturbed' = disturbed /\ clip' = clip
    BY <1>3, NoPasteTyped DEF Paste, sentVars, observer, clipVars, Gui
  <2>. QED
    BY <2>1, <1>0, <1>1
<1>4. CASE SetText
  <2>1. Mine = {}
    BY <1>4 DEF SetText
  <2>2. /\ keys' = keys /\ disturbed' = disturbed \union Unanswered /\ gui'.k = gui.k
        /\ clip' = Dictated(gui.k)
    BY <1>4, <1>0 DEF SetText, To, Gui, sentVars
  <2>. QED
    BY <2>1, <2>2, <1>0 DEF QuietPasteLands
<1>5. CASE SendPaste
  <2>1. Mine = {gui.k} /\ Mine' = {}
    BY <1>5, <1>0 DEF SendPaste, Ends, Shape
  <2>2. /\ keys' = keys \/ keys' = keys \union {[k |-> gui.k, age |-> 0]}
        /\ disturbed' = disturbed /\ clip' = clip
    BY <1>5 DEF SendPaste, observer, clipVars
  <2>3. Keys' \subseteq Keys \union {gui.k}
    BY <2>2
  <2>. QED
    BY <2>1, <2>2, <2>3, <1>0, <1>1
<1>6. CASE \E t \in timers : Restore(t)
  <2>1. PICK t \in timers : Restore(t)
    BY <1>6
  <2>2. Mine = {} /\ Mine' = {} /\ keys' = keys /\ Unanswered' = Unanswered
    BY <2>1, <1>0 DEF Restore, Idle
  <2>3. CASE holder = "other"
    BY <2>1, <2>2, <2>3, <1>1 DEF Restore, clipVars
  <2>4. CASE holder # "other"
    <3>1. disturbed' = disturbed \union (Unanswered \ {t.k})
      BY <2>1, <2>4 DEF Restore
    <3>2. \A key \in keys : key.k # t.k
      <4>1. SUFFICES ASSUME NEW key \in keys, key.k = t.k PROVE FALSE
        OBVIOUS
      <4>2. key.age \in 0 .. Lag /\ t.left = 0
        BY <2>1 DEF TypeOK, Key, Restore
      <4>3. t.left + key.age >= Delay
        BY <4>1 DEF AgeInv
      <4>. QED
        BY <4>2, <4>3, Numbers
    <3>3. t.k \notin Unanswered
      BY <3>2, <2>2, <1>0
    <3>. QED
      BY <3>1, <3>3, <2>2, <1>2
  <2>. QED
    BY <2>3, <2>4
<1>7. CASE CopyLastDictation \/ UserCopies
  <2>1. gui' = gui /\ keys' = keys /\ disturbed' = disturbed \union Unanswered
    BY <1>7 DEF CopyLastDictation, UserCopies, BecomesOwn, OnlyEmpties, sentVars
  <2>2. Unanswered' = Unanswered
    BY <2>1 DEF Unanswered, Typed
  <2>. QED
    BY <2>1, <2>2, <1>2
<1>8. CASE WriteFails
  <2>1. gui' = NoPaste /\ keys' = keys /\ disturbed' = disturbed \union Unanswered
    BY <1>8 DEF WriteFails, Ends, sentVars
  <2>. QED
    BY <2>1, <1>0, <1>2
<1>9. CASE \E key \in keys : TargetReads(key)
  <2>1. PICK key \in keys : TargetReads(key)
    BY <1>9
  <2>2. /\ keys' = keys \ {key} /\ gui' = gui /\ clip' = clip
        /\ disturbed' = disturbed \ {key.k}
    BY <2>1 DEF TargetReads, clipVars
  <2>3. key.k \notin Keys'
    BY <2>2 DEF AgeInv
  <2>4. key.k \notin Mine
    BY DEF AgeInv, Shape, Idle
  <2>5. Mine' = Mine /\ Keys' \subseteq Keys
    BY <2>2 DEF Typed
  <2>. QED
    BY <2>2, <2>3, <2>4, <2>5, <1>0 DEF QuietPasteLands
<1>10. CASE TimePasses
  <2>1. \A key \in keys : [key EXCEPT !.age = @ + 1].k = key.k
    BY DEF TypeOK, Key
  <2>2. keys' = {[key EXCEPT !.age = @ + 1] : key \in keys}
    BY <1>10 DEF TimePasses
  <2>3. Keys' = Keys
    BY <2>1, <2>2, ZenonT(30)
  <2>4. Mine' = Mine /\ clip' = clip /\ disturbed' = disturbed
    BY <1>10, <1>0 DEF TimePasses, Typed, Gui, clipVars, observer
  <2>. QED
    BY <2>3, <2>4, <1>0, <1>1
<1>11. ASSUME \/ ModifiersReleased \/ ModifiersHeld \/ Save \/ Open \/ OpenFails
              \/ Close \/ RestoreFocus \/ SendChunk \/ ChunkRefused
              \/ OtherOpens \/ OtherCloses \/ FocusMoves \/ ModifierChanges
       PROVE  QuietPasteLands'
  <2>1. keys' = keys /\ disturbed' = disturbed /\ clip' = clip
    BY <1>11 DEF ModifiersReleased, ModifiersHeld, Save, Open, OpenFails,
       Close, RestoreFocus, SendChunk, ChunkRefused, OtherOpens, OtherCloses, FocusMoves,
       ModifierChanges, sentVars, observer, clipVars
  <2>2. Mine' \subseteq Mine
    <3>1. CASE ModifiersReleased \/ ModifiersHeld \/ Save \/ Open \/ OpenFails
      BY <3>1, <1>0 DEF ModifiersReleased, ModifiersHeld, Save, Open, OpenFails, Ends, Typed, Gui
    <3>2. CASE Close \/ RestoreFocus \/ FocusMoves
      BY <3>2, <1>0 DEF Close, To, RestoreFocus, FocusMoves, Typed, Gui
    <3>3. CASE SendChunk \/ ChunkRefused
      BY <3>3, <1>0 DEF SendChunk, ChunkRefused, NextPhase, Ends, Typed, Gui
    <3>4. CASE OtherOpens \/ OtherCloses \/ ModifierChanges
      BY <3>4 DEF OtherOpens, OtherCloses, ModifierChanges, Typed
    <3>. QED
      BY <1>11, <3>1, <3>2, <3>3, <3>4
  <2>. QED
    BY <2>1, <2>2, <1>0, <1>1
<1>. QED
  BY <1>3, <1>4, <1>5, <1>6, <1>7, <1>8, <1>9, <1>10, <1>11 DEF Next, GuiStep

(* The target, once restored, has the focus until the user takes it away.  *)
LEMMA TargetStep ==
  ASSUME TypeOK, Shape, GoesToItsTarget, Next PROVE GoesToItsTarget'
<1>0. gui \in Gui /\ NoPaste.at = "idle"
  BY PasteUnderWay
<1>1. CASE \E how \in {"paste", "type"} : Paste(how)
  BY <1>1, NoPasteTyped DEF Paste, GoesToItsTarget, Gui
<1>2. CASE ModifiersReleased \/ Save \/ Open \/ OpenFails
  BY <1>0, <1>2 DEF ModifiersReleased, Save, Open, OpenFails, Ends, GoesToItsTarget, Gui
<1>3. CASE SetText \/ Close
  BY <1>0, <1>3 DEF SetText, Close, To, GoesToItsTarget, Gui
<1>4. CASE ModifiersHeld \/ WriteFails \/ SendPaste
  BY <1>0, <1>4 DEF ModifiersHeld, WriteFails, SendPaste, Ends, GoesToItsTarget
<1>5. CASE RestoreFocus
  BY <1>0, <1>5 DEF RestoreFocus, Refocused, GoesToItsTarget, Gui
<1>6. CASE SendChunk \/ ChunkRefused
  <2>1. focus' = focus
    BY <1>6 DEF SendChunk, ChunkRefused, userVars
  <2>2. gui' = NoPaste \/ (gui'.target = gui.target /\ gui'.aim = gui.aim)
    BY <1>0, <1>6 DEF SendChunk, ChunkRefused, NextPhase, Ends, Gui
  <2>3. gui.at \in {"send", "erase", "type"}
    BY <1>6 DEF SendChunk, ChunkRefused
  <2>. QED
    BY <2>1, <2>2, <2>3, <1>0 DEF GoesToItsTarget
<1>7. CASE FocusMoves
  BY <1>0, <1>7 DEF FocusMoves, GoesToItsTarget, Gui
<1>8. CASE TimePasses
  BY <1>0, <1>8 DEF TimePasses, GoesToItsTarget, Gui, userVars
<1>9. ASSUME \/ \E t \in timers : Restore(t)
             \/ CopyLastDictation
             \/ \E key \in keys : TargetReads(key)
             \/ UserCopies \/ OtherOpens \/ OtherCloses \/ ModifierChanges
      PROVE  gui' = gui /\ focus' = focus
  BY <1>9 DEF Restore, CopyLastDictation, TargetReads, UserCopies, OtherOpens,
              OtherCloses, ModifierChanges, userVars
<1>. QED
  BY <1>1, <1>2, <1>3, <1>4, <1>5, <1>6, <1>7, <1>8, <1>9 DEF Next, GuiStep, GoesToItsTarget

-----------------------------------------------------------------------------
LEMMA InvInit == Init => Inv
<1> SUFFICES ASSUME Init PROVE Inv
  OBVIOUS
<1>1. gui.at = "idle" /\ timers = {} /\ keys = {} /\ clip = own
  BY DEF Init, NoPaste
<1>. QED
  BY <1>1, TypeInit DEF Inv, OwedInv, Writing, AgeInv, QuietPasteLands, GoesToItsTarget, Unanswered

LEMMA InvStep == Inv /\ [Next]_vars => Inv'
<1>1. Inv /\ Next => Inv'
  BY TypeStep, OwedStep, AgeStep, LandsStep, TargetStep DEF Inv
<1>2. Inv /\ UNCHANGED vars => Inv'
  BY DEF vars, clipVars, userVars, sentVars, bookVars, observer, Inv, TypeOK, Shape, Idle, Typed,
         OwedInv, Writing, AgeInv, QuietPasteLands, Unanswered, GoesToItsTarget
<1>. QED
  BY <1>1, <1>2

LEMMA InvAlways == Spec => []Inv
BY InvInit, InvStep, PTL DEF Spec

(* However many pastes are made and however they end: with none under way, *)
(* no restore to come and none of the four excuses, the clipboard is the   *)
(* user's own.                                                             *)
THEOREM ClipboardReturns == Spec => []RestoredUnlessExcused
<1>1. Inv => RestoredUnlessExcused
  BY DEF Inv, OwedInv, RestoredUnlessExcused, Borrowed, Writing, Idle
<1>. QED
  BY <1>1, InvAlways, PTL

(* However late a target answers within its lag, no restore has taken its  *)
(* dictation away.                                                         *)
THEOREM DictationsLand == Spec => []QuietPasteLands
<1>1. Inv => QuietPasteLands
  BY DEF Inv
<1>. QED
  BY <1>1, InvAlways, PTL

(* Keys go to the window that was captured, unless Windows refused it or   *)
(* the user has left it since.                                             *)
THEOREM KeysGoToTheTarget == Spec => []GoesToItsTarget
<1>1. Inv => GoesToItsTarget
  BY DEF Inv
<1>. QED
  BY <1>1, InvAlways, PTL

-----------------------------------------------------------------------------
(* What is left of the paste under way: the steps it can still take, and   *)
(* the ticks it can still wait for the modifiers.                          *)
Work ==
  CASE gui.at = "wait"  -> 8 + 2 * Chunks + Retries + (WaitCap - gui.waited)
    [] gui.at = "save"  -> 7 + 2 * Chunks + Retries
    [] gui.at = "open"  -> 6 + 2 * Chunks + (Retries - gui.tries)
    [] gui.at = "set"   -> 5 + 2 * Chunks
    [] gui.at = "close" -> 4 + 2 * Chunks
    [] gui.at = "focus" -> 3 + 2 * Chunks
    [] gui.at = "erase" -> 2 + Chunks + gui.left
    [] gui.at = "type"  -> 1 + gui.left
    [] gui.at = "send"  -> 1
    [] gui.at = "idle"  -> 0

WaitsOn == gui.at = "wait" /\ gui.waited < WaitCap /\ TimePasses

EachStepCounts == /\ GuiStep \/ WaitsOn => Work' < Work
                  /\ ~Idle => Work' <= Work

LEMMA WorkCounted ==
  ASSUME TypeOK PROVE Work \in Nat /\ (Work = 0 <=> Idle)
<1>1. /\ gui.at \in Step /\ gui.waited \in 0 .. WaitCap
      /\ gui.tries \in 0 .. Retries - 1 /\ gui.left \in 0 .. Chunks
  BY DEF TypeOK, Gui
<1>. QED
  BY <1>1, Numbers DEF Work, Idle, Step

LEMMA StepCounts == ASSUME TypeOK, Shape, Next PROVE EachStepCounts
<1>0. /\ gui \in Gui /\ gui.at \in Step /\ gui.waited \in 0 .. WaitCap
      /\ gui.tries \in 0 .. Retries - 1 /\ gui.left \in 0 .. Chunks
  BY DEF TypeOK, Gui
<1>1. Work \in Nat /\ (Work = 0 <=> Idle)
  BY WorkCounted
<1>2. gui' = NoPaste => Work' = 0
  BY DEF Work, NoPaste
<1>3. ASSUME gui' = NoPaste, ~Idle PROVE EachStepCounts
  BY <1>1, <1>2, <1>3 DEF EachStepCounts
<1>4. ASSUME gui' = gui PROVE Work' = Work
  BY <1>4 DEF Work
<1>5. ASSUME ~Idle, Work' < Work, Work' \in Nat PROVE EachStepCounts
  BY <1>5, <1>1 DEF EachStepCounts
<1>6. CASE ModifiersReleased
  <2>1. gui.at = "wait" /\ gui'.at \in {"focus", "save"}
    BY <1>0, <1>6 DEF ModifiersReleased, Gui
  <2>. QED
    BY <2>1, <1>0, <1>5, Numbers DEF Work, Idle
<1>7. CASE ModifiersHeld \/ WriteFails \/ SendPaste
  BY <1>3, <1>7 DEF ModifiersHeld, WriteFails, SendPaste, Ends, Idle
<1>8. CASE Save
  <2>1. gui.at = "save" /\ (gui' = NoPaste \/ (gui'.at = "open" /\ gui'.tries = gui.tries))
    BY <1>0, <1>8 DEF Save, Ends, Gui
  <2>2. CASE gui' = NoPaste
    BY <2>1, <2>2, <1>3 DEF Idle
  <2>3. CASE gui'.at = "open" /\ gui'.tries = gui.tries
    BY <2>1, <2>3, <1>0, <1>5, Numbers DEF Work, Idle
  <2>. QED
    BY <2>1, <2>2, <2>3
<1>9. CASE Open \/ SetText \/ Close
  <2>1. \/ gui.at = "open" /\ gui'.at = "set"
        \/ gui.at = "set" /\ gui'.at = "close"
        \/ gui.at = "close" /\ gui'.at = "focus"
    BY <1>0, <1>9 DEF Open, SetText, Close, To, Gui
  <2>. QED
    BY <2>1, <1>0, <1>5, Numbers DEF Work, Idle
<1>10. CASE OpenFails
  <2>1. /\ gui.at = "open"
        /\ gui' = NoPaste \/ (gui'.at = "open" /\ gui'.tries = gui.tries + 1)
    BY <1>0, <1>10 DEF OpenFails, Ends, Gui
  <2>2. CASE gui' = NoPaste
    BY <2>1, <2>2, <1>3 DEF Idle
  <2>3. CASE gui'.at = "open" /\ gui'.tries = gui.tries + 1 /\ gui.tries # Retries - 1
    BY <2>1, <2>3, <1>0, <1>5, Numbers DEF Work, Idle
  <2>4. gui.tries = Retries - 1 => gui' = NoPaste
    BY <1>10 DEF OpenFails, Ends
  <2>. QED
    BY <2>1, <2>2, <2>3, <2>4
<1>11. CASE RestoreFocus
  <2>1. /\ gui.at = "focus"
        /\ gui'.at = "send" \/ (gui'.at = "erase" /\ gui'.left = Chunks)
    BY <1>0, <1>11 DEF RestoreFocus, Gui
  <2>. QED
    BY <2>1, <1>0, <1>5, Numbers DEF Work, Idle
<1>12. CASE SendChunk \/ ChunkRefused
  <2>1. /\ gui.at \in {"erase", "type"}
        /\ \/ gui' = NoPaste
           \/ gui.at = "erase" /\ gui'.at = "type" /\ gui'.left = Chunks
           \/ gui.left > 1 /\ gui'.at = gui.at /\ gui'.left = gui.left - 1
    <3>1. ASSUME NextPhase, gui.at \in {"erase", "type"}
          PROVE  gui' = NoPaste \/ (gui.at = "erase" /\ gui'.at = "type" /\ gui'.left = Chunks)
      BY <3>1, <1>0 DEF NextPhase, Ends, Gui
    <3>2. CASE ~NextPhase
      BY <3>2, <1>12, <1>0, Numbers DEF SendChunk, ChunkRefused, Gui
    <3>. QED
      BY <3>1, <3>2, <1>12 DEF SendChunk, ChunkRefused
  <2>2. CASE gui' = NoPaste
    BY <2>1, <2>2, <1>3 DEF Idle
  <2>3. CASE gui.at = "erase" /\ gui'.at = "type" /\ gui'.left = Chunks
    BY <2>3, <1>0, <1>5, Numbers DEF Work, Idle
  <2>4. CASE gui.left > 1 /\ gui'.at = gui.at /\ gui'.left = gui.left - 1
    BY <2>1, <2>4, <1>0, <1>5, Numbers DEF Work, Idle
  <2>. QED
    BY <2>1, <2>2, <2>3, <2>4
<1>n. ASSUME Work' = Work, ~GuiStep, ~WaitsOn PROVE EachStepCounts
  BY <1>n, <1>1 DEF EachStepCounts
<1>g. GuiStep => ~Idle
  BY DEF GuiStep, ModifiersReleased, ModifiersHeld, Save, Open, OpenFails, SetText, Close,
         WriteFails, RestoreFocus, SendPaste, SendChunk, ChunkRefused, Idle
<1>13. CASE ~GuiStep /\ TimePasses
  <2>1. CASE WaitsOn
    <3>1. gui.at = "wait" /\ gui'.at = "wait" /\ gui.waited < WaitCap
          /\ gui'.waited = gui.waited + 1
      BY <2>1, <1>0 DEF WaitsOn, TimePasses, Gui
    <3>. QED
      BY <3>1, <1>0, <1>5, Numbers DEF Work, Idle
  <2>2. CASE ~WaitsOn
    <3>1. gui' = gui
      BY <2>2, <1>13 DEF WaitsOn, TimePasses
    <3>. QED
      BY <3>1, <2>2, <1>13, <1>4, <1>n
  <2>. QED
    BY <2>1, <2>2
<1>14. CASE ~GuiStep /\ ~TimePasses /\ FocusMoves
  <2>1. /\ gui'.at = gui.at /\ gui'.waited = gui.waited /\ gui'.tries = gui.tries
        /\ gui'.left = gui.left
    BY <1>0, <1>14 DEF FocusMoves, Gui
  <2>2. Work' = Work
    BY <2>1 DEF Work
  <2>. QED
    BY <2>2, <1>14, <1>n DEF WaitsOn
<1>15. CASE \E how \in {"paste", "type"} : Paste(how)
  BY <1>15, <1>g DEF Paste, EachStepCounts, WaitsOn, Idle
<1>16. ASSUME ~GuiStep, ~TimePasses,
              \/ \E t \in timers : Restore(t)
              \/ CopyLastDictation
              \/ \E key \in keys : TargetReads(key)
              \/ UserCopies \/ OtherOpens \/ OtherCloses \/ ModifierChanges
       PROVE  EachStepCounts
  <2>1. gui' = gui
    BY <1>16 DEF Restore, CopyLastDictation, TargetReads, UserCopies, OtherOpens,
                 OtherCloses, ModifierChanges
  <2>. QED
    BY <2>1, <1>4, <1>16, <1>n DEF WaitsOn
<1>. QED
  BY <1>6, <1>7, <1>8, <1>9, <1>10, <1>11, <1>12, <1>13, <1>14, <1>15, <1>16 DEF Next, GuiStep

(* No paste holds the GUI thread for ever: what it can still do is a       *)
(* number, 0 just when the thread is free; each of its own steps and each  *)
(* tick it waits for the modifiers lowers that number, and nothing any     *)
(* other program does raises it before the paste has ended.  A restore is  *)
(* then only as late as the paste it waits for.                            *)
THEOREM PastesRunDown == Spec => /\ [](Work \in Nat /\ (Work = 0 <=> Idle))
                                 /\ [][EachStepCounts]_vars
<1>1. TypeOK /\ Shape /\ [Next]_vars => [EachStepCounts]_vars
  BY StepCounts
<1>2. Spec => [](TypeOK /\ Shape)
  BY TypeInit, TypeStep, PTL DEF Spec
<1>. QED
  BY <1>1, <1>2, WorkCounted, PTL DEF Spec

=============================================================================
