--------------------------- MODULE MCBlockRounds ---------------------------
(* Bytes of two bits, words of two bytes for BlockRounds.                  *)
EXTENDS BlockRounds

Cycle(n, by, from) == [k \in 0..(n - 1) |-> (from + by * k) % Base]

MCBlocks == {Cycle(8, 1, 0), Cycle(8, 3, 2), Cycle(8, 2, 1), Cycle(8, 0, 3)}

Reverse == [k \in 0..7 |-> 7 - k]
Rotate  == [k \in 0..7 |-> (3 * k + 5) % 8]

Matrices == {<<0, 0, 0, 0>>, <<15, 15, 15, 15>>, <<6, 3, 12, 9>>, <<4, 8, 7, 11>>}

MCKeys4 == [substitute : {[v \in 0..3 |-> 3 - v], [v \in 0..3 |-> (v + 1) % 4]},
            mask       : {Cycle(8, 1, 2), Cycle(8, 0, 0)},
            diffuse    : {<<Cycle(8, 3, 1), Cycle(8, 1, 1)>>},
            left       : Matrices,
            right      : Matrices,
            position   : {Reverse, Rotate}]

MCKeys3 == [seed    : {[k \in 0..3 |-> 0], [k \in 0..3 |-> 3 - k], [k \in 0..3 |-> k]},
            mask    : {Cycle(8, 1, 2)},
            diffuse : {<<Cycle(8, 3, 1), Cycle(8, 1, 1)>>},
            left    : Matrices,
            right   : Matrices]

MCKeys == MCKeys4 \cup MCKeys3
=============================================================================
