---------------------------- MODULE MCHotkeyPath ----------------------------
(* The combo of two modifier keys whose releases may be missed, with a     *)
(* letter to type; and of two and a mouse button, with Esc.                *)
EXTENDS HotkeyPath

CONSTANTS Win, Alt, Mouse4, Letter

WinAlt == {Win, Alt}

KeyboardCombo ==
  [groups |-> {{Win}, {Alt}}, mouse |-> {}, other |-> {Letter}, misses |-> TRUE]

MouseCombo ==
  [groups |-> {{Win}, {Alt}, {Mouse4}}, mouse |-> {Mouse4}, other |-> {Escape},
   misses |-> FALSE]

BothCombos == {KeyboardCombo, MouseCombo}

PlainCombo ==
  {[groups |-> {{Win}, {Alt}}, mouse |-> {}, other |-> {}, misses |-> FALSE]}
=============================================================================
