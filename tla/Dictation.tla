----------------------------- MODULE Dictation ------------------------------
(***************************************************************************)
(* What the daemon promises about a dictation, with no word of threads,    *)
(* queues, epochs or windows.  Utterances are spoken one at a time.  Each  *)
(* is open from the moment the recording starts until it gets exactly one  *)
(* fate, which never changes.  The text of the latest utterance that was   *)
(* recognised as a dictation stays recoverable.  DaemonCore implements     *)
(* this; the mapping is at the end of that module.                         *)
(***************************************************************************)
EXTENDS Naturals

CONSTANT MaxEpoch

VARIABLES
  current,      \* the open utterance, 0 when there is none
  fate,         \* what became of each utterance
  recoverable   \* the dictation that "paste" would paste again, 0 for none

vars == <<current, fate, recoverable>>

Utterance == 1 .. MaxEpoch

Init ==
  /\ current = 0
  /\ fate = [u \in Utterance |-> "none"]
  /\ recoverable = 0

(* A new recording comes after every earlier one.                          *)
Speak(u) ==
  /\ current = 0
  /\ \A v \in Utterance : v >= u => fate[v] = "none"
  /\ fate' = [fate EXCEPT ![u] = "open"]
  /\ current' = u
  /\ UNCHANGED recoverable

Ends(f) ==
  /\ current # 0
  /\ fate' = [fate EXCEPT ![current] = f]
  /\ current' = 0

(* A dictation reached its window, or was kept because it could not.       *)
Deliver ==
  \E f \in {"pasted", "held"} : Ends(f) /\ recoverable' = current

(* A spoken command acted; re-pasting needs something to paste.            *)
Obey ==
  \E f \in {"replaced", "repasted"} :
     /\ Ends(f)
     /\ f = "repasted" => recoverable # 0
     /\ UNCHANGED recoverable

(* Nothing came of it: the user cancelled, or something failed.            *)
Abandon ==
  \E f \in {"cancelled", "dropped"} : Ends(f) /\ UNCHANGED recoverable

Next == (\E u \in Utterance : Speak(u)) \/ Deliver \/ Obey \/ Abandon

Spec == Init /\ [][Next]_vars

=============================================================================
