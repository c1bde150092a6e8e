---------------------------- MODULE MCDaemonCore ----------------------------
(* DaemonCore on an instance small enough for TLC.                         *)
EXTENDS DaemonCore, TLC

WindowSymmetry == Permutations(Windows)
=============================================================================
