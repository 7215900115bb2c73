------------------------------ MODULE Padding ------------------------------
(* The padding of crates/krcm-core/src/padding.rs: one to BlockBytes bytes *)
(* are added, each of them their number.                                   *)
EXTENDS Naturals, Sequences

CONSTANT BlockBytes   \* 32 in the code

ASSUME BlockAssumption == BlockBytes \in Nat \ {0}

\* Mutant: an input that fills its last block is left alone.
PadLengthOrNone(data) ==
  (BlockBytes - (Len(data) % BlockBytes)) % BlockBytes

PadLength(data) == BlockBytes - (Len(data) % BlockBytes)

Pad(data) == LET k == PadLength(data) IN data \o [i \in 1..k |-> k]

Aligned(data) == Len(data) % BlockBytes = 0

\* Mutant: only the last byte is looked at.
UnpadLastByte(data) ==
  IF data = << >> \/ ~Aligned(data) THEN "Format"
  ELSE IF data[Len(data)] \in 1..BlockBytes THEN "ok" ELSE "Authentication"

\* What unpad says of data: ok, or the error it returns.
UnpadVerdict(data) ==
  IF data = << >> \/ ~Aligned(data) THEN "Format"
  ELSE LET k == data[Len(data)]
       IN  IF /\ k \in 1..BlockBytes
              /\ \A i \in (Len(data) - k + 1)..Len(data) : data[i] = k
           THEN "ok" ELSE "Authentication"

\* The bytes it returns when it says ok.
Unpad(data) == SubSeq(data, 1, Len(data) - data[Len(data)])
=============================================================================
