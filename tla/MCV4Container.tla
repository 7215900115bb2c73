--------------------------- MODULE MCV4Container ---------------------------
(* Values for the constants of V4Container.                                *)
EXTENDS V4Container, TLC

CONSTANTS pw1, pw2, none

\* Bytes that may look like padding, a full last block, one more block.
MCPayloads == {<< >>, <<0, 1>>, <<1, 0, 2>>}

MCForeign == {[version |-> 2,   style |-> "numbers"],
              [version |-> 3,   style |-> "numbers"],
              [version |-> 260, style |-> "numbers"],
              [version |-> 4,   style |-> "texts"],
              [version |-> 4,   style |-> "list"]}

MCSymmetry == Permutations({pw1, pw2})
=============================================================================
