----------------------------- MODULE MCPrompts -----------------------------
(* Two numbers and three, a later release and an earlier one.              *)
EXTENDS Prompts

SomeInstalled == {<<1, 2>>, Unparsable}
SomeLatest == {<<1, 2, 0>>, <<1, 2, 1>>, <<1, 1, 9>>}
=============================================================================
