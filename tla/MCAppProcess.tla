---------------------------- MODULE MCAppProcess ----------------------------
(* Three processes of one session: a daemon, the one it meets and what stops *)
(* or replaces them.  The user's second edit and the microphone's name are   *)
(* texts that need escaping.                                                *)
EXTENDS AppProcess

Picked == \/ \E p \in Pids : conf[p].device # NoDevice
          \/ file.state = "table" /\ file.table.device # "absent"

(* Bound: a third process starts only where the user has edited the file at *)
(* most once and no picked microphone is remembered; with a picked one and  *)
(* two processes there is no edit.                                          *)
FewEvents == edits + Cardinality(Pids \ Unborn) + (IF Picked THEN 2 ELSE 0) <= 4
=============================================================================
