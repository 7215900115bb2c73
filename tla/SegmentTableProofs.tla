------------------------- MODULE SegmentTableProofs -------------------------
(* Proofs about SegmentTable for every width of a word and size of a block: *)
(* no table makes the reader leave the ciphertext or wrap an offset.       *)
EXTENDS SegmentTable, WellFoundedInduction, TLAPS

\* Words that do not overflow are not changed by arithmetic modulo 2^64.
LEMMA NoWrap == ASSUME NEW a \in Nat, a <= MaxWord PROVE a % (MaxWord + 1) = a
BY TableAssumption

\* An empty table tiles an empty range.
LEMMA InitInv == Init => IInv
BY TableAssumption
   DEF Init, IInv, TypeOK, Tiles, Bounded, Decrypted, Words

\* One turn of the loop of parse_segment_table: the entry accepted starts where
\* the one before it ended.
LEMMA ReadStep == ASSUME IInv, NEW e \in Entries, ReadEntry(e) PROVE IInv'
<1>0. TypeOK /\ Tiles /\ Bounded /\ Decrypted
  BY DEF IInv
<1>1. CASE Contiguous(e) /\ Fits(e)
  <2>1. e \in Entry
    BY TableAssumption
  <2>2. /\ plainEnd \in Nat /\ cipherEnd \in Nat /\ MaxWord \in Nat
        /\ e.index \in Nat /\ e.plainOffset \in Nat /\ e.plainLength \in Nat
        /\ e.cipherOffset \in Nat /\ e.cipherLength \in Nat
    BY <1>0, <2>1, TableAssumption DEF TypeOK, Entry, Words
  <2>3. /\ plainEnd' = plainEnd + e.plainLength
        /\ cipherEnd' = cipherEnd + e.cipherLength
    <3>1. /\ plainEnd + e.plainLength \in Nat
          /\ plainEnd + e.plainLength <= MaxWord
          /\ cipherEnd + e.cipherLength \in Nat
          /\ cipherEnd + e.cipherLength <= MaxWord
      BY <1>1, <2>2 DEF Fits
    <3>2. /\ plainEnd' = (plainEnd + e.plainLength) % (MaxWord + 1)
          /\ cipherEnd' = (cipherEnd + e.cipherLength) % (MaxWord + 1)
      BY <1>1 DEF ReadEntry
    <3> QED BY <3>1, <3>2, NoWrap
  <2>4. /\ verdict = "parsing" /\ Len(entries) < count /\ lengths = << >>
        /\ entries' = Append(entries, e)
        /\ UNCHANGED <<verdict, count, ragged, cipherLen, lengths>>
    BY <1>0, <1>1 DEF ReadEntry, tableVars, Decrypted
  <2>5. entries \in Seq(Entry) /\ Len(entries) \in Nat
    BY <1>0 DEF TypeOK
  <2>6. /\ entries' \in Seq(Entry) /\ Len(entries') = Len(entries) + 1
        /\ entries'[Len(entries) + 1] = e
        /\ \A k \in 1..Len(entries) : entries'[k] = entries[k]
    BY <2>1, <2>4, <2>5
  <2>7. TypeOK'
    <3>1. plainEnd' \in Words /\ cipherEnd' \in Words
      BY <1>1, <2>2, <2>3 DEF Fits, Words
    <3>2. Len(entries') <= count' /\ count \in Nat
      BY <1>0, <2>4, <2>5, <2>6 DEF TypeOK, Words
    <3> QED BY <1>0, <2>4, <2>6, <3>1, <3>2 DEF TypeOK
  <2>8. /\ e.index = Len(entries) /\ e.plainOffset = plainEnd
        /\ e.cipherOffset = cipherEnd
        /\ e.cipherLength # 0 /\ e.cipherLength % BlockBytes = 0
    BY <1>1 DEF Contiguous
  <2>9. Tiles'
    <3>1. ASSUME NEW k \in 1..Len(entries')
          PROVE  /\ entries'[k].index = k - 1
                 /\ Start(k)' = IF k = 1 THEN 0 ELSE End(k - 1)'
                 /\ entries'[k].plainOffset
                      = IF k = 1 THEN 0 ELSE InnerEnd(k - 1)'
      <4>1. CASE k = Len(entries) + 1
        BY <1>0, <2>5, <2>6, <2>8, <4>1 DEF Tiles, Start, End, InnerEnd
      <4>2. CASE k # Len(entries) + 1
        <5>1. k \in 1..Len(entries) /\ (k # 1 => k - 1 \in 1..Len(entries))
          BY <2>5, <2>6, <4>2
        <5> QED BY <1>0, <2>6, <5>1 DEF Tiles, Start, End, InnerEnd
      <4> QED BY <4>1, <4>2
    <3>2. entries' # << >>
      BY <2>5, <2>6
    <3>3. entries'[Len(entries')] = e
      BY <2>5, <2>6
    <3>4. /\ cipherEnd' = End(Len(entries))'
          /\ plainEnd' = InnerEnd(Len(entries))'
      BY <2>3, <2>8, <3>3 DEF End, InnerEnd
    <3> QED BY <3>1, <3>2, <3>4 DEF Tiles
  <2>10. Bounded'
    <3> SUFFICES ASSUME NEW k \in 1..Len(entries')
                 PROVE  /\ entries'[k].cipherLength # 0
                        /\ entries'[k].cipherLength % BlockBytes = 0
                        /\ End(k)' <= cipherEnd'
      BY DEF Bounded
    <3>1. CASE k = Len(entries) + 1
      BY <2>2, <2>3, <2>6, <2>8, <3>1 DEF End
    <3>2. CASE k # Len(entries) + 1
      <4>1. k \in 1..Len(entries)
        BY <2>5, <2>6, <3>2
      <4>2. entries[k] \in Entry
        BY <2>5, <4>1
      <4>3. End(k) \in Nat
        BY <4>2 DEF End, Entry, Words
      <4>4. End(k)' = End(k) /\ End(k) <= cipherEnd
        BY <1>0, <2>6, <4>1 DEF End, Bounded
      <4>5. End(k)' <= cipherEnd'
        BY <2>2, <2>3, <4>3, <4>4
      <4> QED BY <1>0, <2>6, <4>1, <4>5 DEF Bounded
    <3> QED BY <3>1, <3>2
  <2>11. Decrypted'
    BY <2>4, <2>5, <2>6 DEF Decrypted
  <2> QED BY <2>7, <2>9, <2>10, <2>11 DEF IInv
<1>2. CASE ~(Contiguous(e) /\ Fits(e))
  BY <1>0, <1>2 DEF ReadEntry, Refuse, IInv, TypeOK, Tiles, Bounded, Decrypted,
                    tableVars, Start, End, InnerEnd
<1> QED BY <1>1, <1>2

\* One turn of the loop of decrypt_segments: the plain length agrees.
LEMMA DecryptStep == ASSUME IInv, DecryptSegment PROVE IInv'
<1>0. TypeOK /\ Tiles /\ Bounded /\ Decrypted
  BY DEF IInv
<1>1. /\ verdict = "decrypting" /\ Len(lengths) < Len(entries)
      /\ UNCHANGED <<count, ragged, cipherLen, entries, plainEnd, cipherEnd>>
  BY DEF DecryptSegment, Refuse, tableVars
<1>2. Tiles' /\ Bounded'
  BY <1>0, <1>1 DEF Tiles, Bounded, Start, End, InnerEnd
<1>3. CASE verdict' = "Authentication" /\ UNCHANGED lengths
  BY <1>0, <1>1, <1>2, <1>3 DEF IInv, TypeOK, Decrypted
<1>4. CASE /\ UNCHANGED verdict
           /\ \E n \in (Segment.cipherLength - BlockBytes)..
                         (Segment.cipherLength - 1) :
                n = Segment.plainLength /\ lengths' = Append(lengths, n)
  <2> DEFINE j == Len(lengths) + 1
  <2>1. /\ entries \in Seq(Entry) /\ lengths \in Seq(Nat)
        /\ Len(lengths) \in Nat /\ Len(entries) \in Nat /\ j \in 1..Len(entries)
    BY <1>0, <1>1 DEF TypeOK
  <2>2. entries[j] \in Entry /\ BlockBytes \in Nat
    BY <2>1, TableAssumption
  <2>3. /\ entries[j].plainLength \in Nat /\ entries[j].cipherLength \in Nat
    BY <2>2 DEF Entry, Words
  <2>4. /\ lengths' = Append(lengths, entries[j].plainLength)
        /\ entries[j].plainLength < entries[j].cipherLength
        /\ entries[j].cipherLength <= entries[j].plainLength + BlockBytes
    BY <1>4, <2>2, <2>3 DEF Segment
  <2>5. /\ lengths' \in Seq(Nat) /\ Len(lengths') = j
        /\ lengths'[j] = entries[j].plainLength
        /\ \A k \in 1..Len(lengths) : lengths'[k] = lengths[k]
    BY <2>1, <2>3, <2>4
  <2>6. TypeOK'
    BY <1>0, <1>1, <1>4, <2>5 DEF TypeOK
  <2>7. ASSUME NEW k \in 1..Len(lengths')
        PROVE  /\ lengths'[k] = entries[k].plainLength
               /\ entries[k].plainLength < entries[k].cipherLength
               /\ entries[k].cipherLength <= entries[k].plainLength + BlockBytes
    <3>1. CASE k = j
      BY <2>4, <2>5, <3>1
    <3>2. CASE k # j
      <4>1. k \in 1..Len(lengths)
        BY <2>1, <2>5, <3>2
      <4> QED BY <1>0, <2>5, <4>1 DEF Decrypted
    <3> QED BY <3>1, <3>2
  <2>8. Decrypted'
    BY <1>0, <1>1, <1>4, <2>1, <2>5, <2>7 DEF Decrypted
  <2> QED BY <1>2, <2>6, <2>8 DEF IInv
<1> QED BY <1>3, <1>4 DEF DecryptSegment, Refuse

\* Every step of the two loops keeps the invariant.
LEMMA NextInv == IInv /\ [Next]_vars => IInv'
<1> SUFFICES ASSUME IInv, [Next]_vars PROVE IInv'
  OBVIOUS
<1>0. TypeOK /\ Tiles /\ Bounded /\ Decrypted
  BY DEF IInv
<1> USE DEF Refuse, tableVars, Start, End, InnerEnd
<1>1. CASE RefuseTable
  BY <1>0, <1>1 DEF RefuseTable, IInv, TypeOK, Tiles, Bounded, Decrypted
<1>2. CASE EndTable
  <2>1. Len(entries) = count /\ count > 0 /\ entries # << >>
    BY <1>0, <1>2 DEF EndTable, TypeOK, Words
  <2>2. Tiles' /\ Bounded' /\ TypeOK'
    BY <1>0, <1>2 DEF EndTable, TypeOK, Tiles, Bounded
  <2>3. Decrypted'
    BY <1>0, <1>2, <2>1 DEF EndTable, Decrypted
  <2> QED BY <2>2, <2>3 DEF IInv
<1>3. CASE DecryptSegment
  BY <1>3, DecryptStep
<1>4. CASE EndSegments
  BY <1>0, <1>4 DEF EndSegments, IInv, TypeOK, Tiles, Bounded, Decrypted
<1>7. CASE CompareSum
  BY <1>0, <1>7 DEF CompareSum, IInv, TypeOK, Tiles, Bounded, Decrypted
<1>5. CASE \E e \in Entries : ReadEntry(e)
  BY <1>5, ReadStep
<1>6. CASE UNCHANGED vars
  BY <1>0, <1>6 DEF vars, IInv, TypeOK, Tiles, Bounded, Decrypted
<1> QED BY <1>1, <1>2, <1>3, <1>4, <1>5, <1>6, <1>7 DEF Next

\* What parse_segment_table and decrypt_segments know at each turn.
THEOREM Invariant == Spec => []IInv
BY InitInv, NextInv, PTL DEF Spec

\* The accepted segments follow one another from zero to the running offsets,
\* whatever a table says and however wide a word is.
THEOREM SegmentsTile == Spec => []Tiles
<1>1. IInv => Tiles
  BY DEF IInv
<1> QED BY <1>1, Invariant, PTL

\* Every slice of the ciphertext that decrypt_segments takes is in bounds.
THEOREM SlicesInBounds == Spec => []SliceInBounds
<1>1. IInv => SliceInBounds
  <2> SUFFICES ASSUME IInv, verdict \in {"decrypting", "opened", "done"},
                      NEW k \in 1..Len(entries)
               PROVE  /\ Start(k) < End(k)
                      /\ End(k) <= cipherLen
                      /\ (End(k) - Start(k)) % BlockBytes = 0
    BY DEF SliceInBounds
  <2>1. entries[k] \in Entry
    BY DEF IInv, TypeOK
  <2>2. /\ entries[k].cipherOffset \in Nat /\ entries[k].cipherLength \in Nat
        /\ entries[k].cipherLength # 0
        /\ entries[k].cipherLength % BlockBytes = 0
    BY <2>1 DEF IInv, Bounded, Entry, Words
  <2>3. End(k) - Start(k) = entries[k].cipherLength /\ Start(k) < End(k)
    BY <2>2 DEF Start, End
  <2>4. End(k) <= cipherLen
    BY DEF IInv, Bounded, Decrypted
  <2> QED BY <2>2, <2>3, <2>4
<1> QED BY <1>1, Invariant, PTL

\* A decryption that succeeds used the whole ciphertext.
THEOREM WholeCiphertext == Spec => []NothingLeftOver
<1>1. IInv => NothingLeftOver
  BY DEF IInv, Tiles, Decrypted, NothingLeftOver
<1> QED BY <1>1, Invariant, PTL

\* A set of numbers with a member has a least one.
LEMMA Least ==
  ASSUME NEW S \in SUBSET Nat, S # {}
  PROVE  \E n \in S : \A m \in S : n <= m
<1> DEFINE R == OpToRel(<, Nat)
<1>1. IsWellFoundedOn(R, Nat)
  BY NatLessThanWellFounded
<1>2. R = {ss \in Nat \X Nat : ss[1] < ss[2]}
  BY DEF OpToRel
<1> HIDE DEF R
<1>3. PICK n \in S : \A m \in S : ~(<<m, n>> \in R)
  BY <1>1, WFMin
<1>4. \A m \in S : ~(m < n)
  BY <1>2, <1>3
<1> QED BY <1>4

\* Two functions on 0..n that start alike, and agree wherever they agreed one
\* before, are alike.
LEMMA SameTo ==
  ASSUME NEW n \in Nat, NEW f, NEW g, f[0] = g[0],
         \A k \in 1..n : f[k - 1] = g[k - 1] => f[k] = g[k]
  PROVE  \A k \in 0..n : f[k] = g[k]
<1> DEFINE S == {k \in 0..n : f[k] # g[k]}
<1> SUFFICES ASSUME S # {} PROVE FALSE
  OBVIOUS
<1>1. PICK k \in S : \A m \in S : k <= m
  <2>1. S \in SUBSET Nat
    OBVIOUS
  <2> QED BY <2>1, Least
<1>2. k \in 1..n /\ k - 1 \in 0..n /\ ~(k <= k - 1)
  OBVIOUS
<1>3. f[k - 1] = g[k - 1]
  BY <1>1, <1>2
<1> QED BY <1>2, <1>3

\* Where the first k plain lengths end.
Upto(k) == IF k = 0 THEN 0 ELSE InnerEnd(k)

\* The entries lie end to end in words: no end has wrapped.
LEMMA UptoSums ==
  ASSUME IInv, NEW k \in 1..Len(entries)
  PROVE  /\ Upto(k - 1) \in Nat
         /\ Upto(k) = Upto(k - 1) + entries[k].plainLength
         /\ Upto(k) <= MaxWord
         /\ entries[k].plainLength \in Nat
<1>1. /\ entries \in Seq(Entry) /\ plainEnd \in Words
      /\ Len(entries) \in Nat /\ Tiles /\ MaxWord \in Nat
  BY TableAssumption DEF IInv, TypeOK
<1>2. ASSUME NEW j \in 1..Len(entries)
      PROVE  entries[j].plainOffset \in Words /\ entries[j].plainLength \in Nat
  <2>1. entries[j] \in Entry
    BY <1>1
  <2> QED BY <2>1 DEF Entry, Words
<1>3. entries[k].plainOffset = Upto(k - 1)
  BY <1>1 DEF Tiles, Upto
<1>4. Upto(k) = Upto(k - 1) + entries[k].plainLength
  BY <1>3 DEF Upto, InnerEnd
<1>5. InnerEnd(k) \in Words
  <2>1. CASE k = Len(entries)
    BY <1>1, <2>1 DEF Tiles
  <2>2. CASE k # Len(entries)
    <3>1. k + 1 \in 1..Len(entries) /\ k + 1 # 1 /\ (k + 1) - 1 = k
      BY <1>1, <2>2
    <3>2. entries[k + 1].plainOffset = InnerEnd(k)
      BY <1>1, <3>1 DEF Tiles
    <3> QED BY <1>2, <3>1, <3>2
  <2> QED BY <2>1, <2>2
<1> QED BY <1>1, <1>2, <1>3, <1>4, <1>5 DEF Words, Upto

\* The wrapping sum of the first k plain lengths is where they end.
LEMMA PlainSumIs ==
  ASSUME IInv PROVE \A k \in 0..Len(entries) : PlainSum[k] = Upto(k)
<1> DEFINE n == Len(entries)
           f == PlainSum
           g == [k \in 0..n |-> Upto(k)]
<1>0. n \in Nat
  BY DEF IInv, TypeOK
<1>1. ASSUME NEW k \in 1..n
      PROVE  (Upto(k - 1) + entries[k].plainLength) % (MaxWord + 1) = Upto(k)
  <2>1. PICK s \in Nat : s = Upto(k)
    BY UptoSums
  <2>2. s <= MaxWord
    BY <2>1, UptoSums
  <2> QED BY <2>1, <2>2, UptoSums, NoWrap
<1>2. g = [k \in 0..n |-> IF k = 0 THEN 0
             ELSE (g[k - 1] + entries[k].plainLength) % (MaxWord + 1)]
  <2>1. ASSUME NEW k \in 0..n
        PROVE  g[k] = IF k = 0 THEN 0
                      ELSE (g[k - 1] + entries[k].plainLength) % (MaxWord + 1)
    <3>1. CASE k = 0
      BY <3>1 DEF Upto
    <3>2. CASE k # 0
      <4>1. k \in 1..n /\ k - 1 \in 0..n
        BY <1>0, <3>2
      <4>2. g[k] = Upto(k) /\ g[k - 1] = Upto(k - 1)
        BY <4>1
      <4> HIDE DEF g, n
      <4> QED BY <1>1, <3>2, <4>1, <4>2
    <3> QED BY <3>1, <3>2
  <2> QED BY <2>1
<1> HIDE DEF g
<1>3. f = [k \in 0..n |-> IF k = 0 THEN 0
             ELSE (f[k - 1] + entries[k].plainLength) % (MaxWord + 1)]
  BY <1>2 DEF PlainSum
<1> HIDE DEF f, n
<1>4. f[0] = g[0]
  <2>1. 0 \in 0..n
    BY <1>0
  <2>2. f[0] = 0
    BY <1>3, <2>1
  <2>3. g[0] = 0
    BY <1>2, <2>1
  <2> QED BY <2>2, <2>3
<1>5. ASSUME NEW k \in 1..n, f[k - 1] = g[k - 1] PROVE f[k] = g[k]
  <2>1. k \in 0..n /\ k # 0
    BY <1>0
  <2>2. f[k] = (f[k - 1] + entries[k].plainLength) % (MaxWord + 1)
    BY <1>3, <2>1
  <2>3. g[k] = (g[k - 1] + entries[k].plainLength) % (MaxWord + 1)
    BY <1>2, <2>1
  <2> QED BY <1>5, <2>2, <2>3
<1>6. \A k \in 0..n : f[k] = g[k]
  <2>1. n \in Nat
    BY <1>0
  <2> QED BY ONLY <1>4, <1>5, <2>1, SameTo
<1>7. \A k \in 0..n : g[k] = Upto(k)
  BY DEF g
<1> QED BY <1>6, <1>7 DEF f, n

\* When every segment has been decrypted, so is the number of bytes they gave.
LEMMA InnerLengthIs ==
  ASSUME IInv, Len(lengths) = Len(entries)
  PROVE  \A k \in 0..Len(lengths) : InnerLength[k] = Upto(k)
<1> DEFINE n == Len(lengths)
           f == InnerLength
           g == [k \in 0..n |-> Upto(k)]
<1>0. n \in Nat /\ n = Len(entries)
  BY DEF IInv, TypeOK
<1>1. ASSUME NEW k \in 1..n
      PROVE  Upto(k - 1) + lengths[k] = Upto(k)
  <2>1. k \in 1..Len(entries) /\ k \in 1..Len(lengths)
    BY <1>0
  <2>2. lengths[k] = entries[k].plainLength
    BY <2>1 DEF IInv, Decrypted
  <2> QED BY <2>1, <2>2, UptoSums
<1>2. g = [k \in 0..n |-> IF k = 0 THEN 0 ELSE g[k - 1] + lengths[k]]
  <2>1. ASSUME NEW k \in 0..n
        PROVE  g[k] = IF k = 0 THEN 0 ELSE g[k - 1] + lengths[k]
    <3>1. CASE k = 0
      BY <3>1 DEF Upto
    <3>2. CASE k # 0
      <4>1. k \in 1..n /\ k - 1 \in 0..n
        BY <1>0, <3>2
      <4>2. g[k] = Upto(k) /\ g[k - 1] = Upto(k - 1)
        BY <4>1
      <4> HIDE DEF g, n
      <4> QED BY <1>1, <3>2, <4>1, <4>2
    <3> QED BY <3>1, <3>2
  <2> QED BY <2>1
<1> HIDE DEF g
<1>3. f = [k \in 0..n |-> IF k = 0 THEN 0 ELSE f[k - 1] + lengths[k]]
  BY <1>2 DEF InnerLength
<1> HIDE DEF f, n
<1>4. f[0] = g[0]
  <2>1. 0 \in 0..n
    BY <1>0
  <2>2. f[0] = 0
    BY <1>3, <2>1
  <2>3. g[0] = 0
    BY <1>2, <2>1
  <2> QED BY <2>2, <2>3
<1>5. ASSUME NEW k \in 1..n, f[k - 1] = g[k - 1] PROVE f[k] = g[k]
  <2>1. k \in 0..n /\ k # 0
    BY <1>0
  <2>2. f[k] = f[k - 1] + lengths[k]
    BY <1>3, <2>1
  <2>3. g[k] = g[k - 1] + lengths[k]
    BY <1>2, <2>1
  <2> QED BY <1>5, <2>2, <2>3
<1>6. \A k \in 0..n : f[k] = g[k]
  <2>1. n \in Nat
    BY <1>0
  <2> QED BY ONLY <1>4, <1>5, <2>1, SameTo
<1>7. \A k \in 0..n : g[k] = Upto(k)
  BY DEF g
<1> QED BY <1>6, <1>7 DEF f, n

\* The last comparison of decrypt_v5 cannot fail, and the sum it forms cannot
\* wrap, for any table, width of a word and size of a block.
THEOREM LengthsAgree == Spec => []SumAgrees
<1>1. ASSUME IInv, verdict \in {"opened", "done"} PROVE SumMatches
  <2>1. Len(lengths) = Len(entries) /\ Len(entries) \in Nat
    BY <1>1 DEF IInv, TypeOK, Decrypted
  <2>2. PlainSum[Len(entries)] = Upto(Len(entries))
    BY <1>1, <2>1, PlainSumIs
  <2>3. InnerLength[Len(lengths)] = Upto(Len(lengths))
    BY <1>1, <2>1, InnerLengthIs
  <2> QED BY <2>1, <2>2, <2>3 DEF SumMatches
<1>2. IInv => SumAgrees
  BY <1>1 DEF SumAgrees
<1> QED BY <1>2, Invariant, PTL
=============================================================================
