----------------------------- MODULE ModelMemory ------------------------------
(***************************************************************************)
(* What the lifecycle of the speech model promises, with no word of locks, *)
(* counters, timers or threads that load: gigabytes that are borrowed.     *)
(* Whoever uses them has borrowed them and finds them there; they are      *)
(* loaded once; they are given back only when nobody has them borrowed;    *)
(* and a request to give them back is remembered until the last borrower   *)
(* returns them, unless somebody wants them anew.  TranscribeLifecycle     *)
(* implements this; the mapping is at the end of that module.              *)
(***************************************************************************)
EXTENDS FiniteSets

CONSTANT Workers

VARIABLES
  resident,   \* the model is in memory
  borrowers,  \* the transcriptions that are under way
  users,      \* those of them that are inside the engine
  asked       \* somebody wants the memory back

vars == <<resident, borrowers, users, asked>>

Init == resident = FALSE /\ borrowers = {} /\ users = {} /\ asked = FALSE

(* In the background, or for a borrower, who uses it at once.              *)
Load ==
  /\ ~resident /\ resident' = TRUE
  /\ users' \in {users} \union {users \union {w} : w \in borrowers}
  /\ UNCHANGED <<borrowers, asked>>

Borrow(w) ==
  /\ w \notin borrowers /\ borrowers' = borrowers \union {w}
  /\ asked' = FALSE
  /\ UNCHANGED <<resident, users>>

Use(w) ==
  /\ resident
  /\ w \in borrowers \ users /\ users' = users \union {w}
  /\ UNCHANGED <<resident, borrowers, asked>>

Stop(w) ==
  /\ w \in users /\ users' = users \ {w}
  /\ UNCHANGED <<resident, borrowers, asked>>

Return(w) ==
  /\ w \in borrowers \ users /\ borrowers' = borrowers \ {w}
  /\ IF asked /\ borrowers' = {}
       THEN resident' = FALSE /\ asked' = FALSE
       ELSE UNCHANGED <<resident, asked>>
  /\ UNCHANGED users

(* The tray, or the idle timer.                                            *)
Free ==
  /\ borrowers = {} /\ resident' = FALSE
  /\ UNCHANGED <<borrowers, users, asked>>

Ask ==
  /\ borrowers # {} /\ asked' = TRUE
  /\ UNCHANGED <<resident, borrowers, users>>

(* The user wants it again before the last borrower has returned it.       *)
Keep == asked' = FALSE /\ UNCHANGED <<resident, borrowers, users>>

Next ==
  \/ Load \/ Free \/ Ask \/ Keep
  \/ \E w \in Workers : Borrow(w) \/ Use(w) \/ Stop(w) \/ Return(w)

Spec == Init /\ [][Next]_vars

=============================================================================
