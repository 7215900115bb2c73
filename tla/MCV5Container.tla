--------------------------- MODULE MCV5Container ---------------------------
(* Values for the constants of V5Container.                                *)
EXTENDS V5Container, TLC

CONSTANTS pw1, pw2, none, x, y

MCPayloads == {<<x>>, <<x, y>>}

\* Each KDF within its bounds, and one above them.
MCKdfs == {[id |-> 1, iterations |-> 1],
           [id |-> 2, n_log2 |-> 15, r |-> 8, p |-> 2],
           [id |-> 2, n_log2 |-> 15, r |-> 9, p |-> 2]}

MCSymmetry == Permutations({pw1, pw2})
=============================================================================
