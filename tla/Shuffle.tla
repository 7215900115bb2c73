------------------------------ MODULE Shuffle ------------------------------
(* permutation_from_seed and small_permutation of                          *)
(* crates/krcm-core/src/block.rs: a Fisher-Yates shuffle of 0..Size-1      *)
(* whose numbers take_u64 reads from a stream that hkdf_expand_64 extends  *)
(* by a fixed number of words, each time under a label made of the length  *)
(* the stream has.  What the stream holds is any word.                     *)
EXTENDS Naturals, Sequences, FiniteSets

CONSTANTS Size,       \* 256, or BLOCK_BYTES in small_permutation
          MaxWord,    \* the largest u64
          Refill,     \* words per call of hkdf_expand_64: 8 in the code
          MaxStream   \* how many words are looked at

ASSUME ShuffleAssumption == /\ Size \in Nat \ {0}
                            /\ MaxWord \in Nat /\ Size <= MaxWord + 1
                            /\ Refill \in Nat \ {0}
                            /\ MaxStream \in Nat

Words == 0..MaxWord

VARIABLES i,       \* the place to be filled; 0 when all are
          values,
          stream,  \* words had from hkdf_expand_64 so far
          cursor,  \* words of them that take_u64 has returned
          labels   \* history: the stream lengths refills were labelled with

shuffleVars == <<i, values, stream, cursor, labels>>

ShuffleInit ==
  /\ i = Size - 1
  /\ values = [k \in 0..(Size - 1) |-> k]
  /\ stream = << >> /\ cursor = 0
  /\ labels = << >>

Modulus == i + 1

\* Mutant: no word is drawn again.
LimitOff == MaxWord + 1

\* Words from here on are drawn again.
Limit == (MaxWord + 1) - ((MaxWord + 1) % Modulus)

Choice(r) == r % Modulus

\* Mutant: the first value is overwritten before it is moved.
Overwrite(j) == [values EXCEPT ![i] = values[j]]

Swap(j) == [values EXCEPT ![i] = values[j], ![j] = values[i]]

\* Mutant: the label is the same for every refill.
NextLabelFixed == 0

NextLabel == Len(stream)

Exhausted == cursor + 1 > Len(stream)

\* The beginning of take_u64.
Extend ==
  /\ i > 0 /\ Exhausted
  /\ Len(stream) + Refill <= MaxStream
  /\ \E words \in [1..Refill -> Words] : stream' = stream \o words
  /\ labels' = Append(labels, NextLabel)
  /\ UNCHANGED <<i, values, cursor>>

\* The rest of it, and one turn of either loop of the shuffle.
Take ==
  /\ i > 0 /\ ~Exhausted
  /\ cursor' = cursor + 1
  /\ LET r == stream[cursor + 1]
     IN  IF r < Limit
         THEN values' = Swap(Choice(r)) /\ i' = i - 1
         ELSE UNCHANGED <<i, values>>
  /\ UNCHANGED <<stream, labels>>

ShuffleNext == Extend \/ Take

ShuffleSpec == ShuffleInit /\ [][ShuffleNext]_shuffleVars

-----------------------------------------------------------------------------
(* Properties                                                              *)

Places == 0..(Size - 1)

\* The values are a permutation at every turn, so the substitution they make
\* has an inverse, whatever the stream holds.
Bijective == /\ values \in [Places -> Places]
             /\ \A j, k \in Places : values[j] = values[k] => j = k

\* As many words lead to each of the places that may still be filled: the
\* rejected words are exactly those that would favour the lower ones.
Unbiased ==
  LET leading(j) == Cardinality({r \in Words : r < Limit /\ Choice(r) = j})
  IN  /\ \A j, k \in 0..i : leading(j) = leading(k)
      /\ leading(0) = (MaxWord + 1) \div Modulus

\* No two refills have the same label: the stream never repeats itself, and
\* each refill begins where the one before it ended.
FreshStream ==
  \A m \in 1..Len(labels) :
    /\ \A n \in 1..Len(labels) : labels[m] = labels[n] => m = n
    /\ labels[m] = (m - 1) * Refill
=============================================================================
