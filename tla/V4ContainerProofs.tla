-------------------------- MODULE V4ContainerProofs --------------------------
(* Proofs that the four readers of version 4 agree and return only what    *)
(* was encrypted, for any containers, any number of changes to the one     *)
(* they open, blocks of any size, and any bytes a block opened at the      *)
(* wrong place may give.                                                   *)
EXTENDS V4Container, FiniteSetTheorems, SequenceTheorems, WellFoundedInduction, TLAPS

IsSeq(s) == \E S : s \in Seq(S)

-----------------------------------------------------------------------------
(* Sequences, numbers and padding.                                         *)

\* A sequence has a length, and is a function.
LEMMA SeqFacts ==
  ASSUME NEW s, IsSeq(s)
  PROVE  Len(s) \in Nat /\ DOMAIN s = 1..Len(s) /\ s = [i \in 1..Len(s) |-> s[i]]
BY DEF IsSeq

\* A function on 1..n is a sequence.
LEMMA FunctionIsSeq ==
  ASSUME NEW n \in Nat, NEW s, s = [i \in 1..n |-> s[i]]
  PROVE  IsSeq(s) /\ Len(s) = n
<1> DEFINE S == {s[i] : i \in 1..n}
<1>1. s \in [1..n -> S]
  OBVIOUS
<1>2. s \in Seq(S) /\ Len(s) = n
  BY <1>1
<1> QED BY <1>2 DEF IsSeq

\* Two sequences, one after the other.
LEMMA Concatenated ==
  ASSUME NEW s, NEW t, IsSeq(s), IsSeq(t)
  PROVE  /\ IsSeq(s \o t) /\ Len(s \o t) = Len(s) + Len(t)
         /\ \A i \in 1..Len(s) + Len(t) :
              (s \o t)[i] = IF i <= Len(s) THEN s[i] ELSE t[i - Len(s)]
<1>1. PICK S : s \in Seq(S)
  BY DEF IsSeq
<1>2. PICK T : t \in Seq(T)
  BY DEF IsSeq
<1>3. s \in Seq(S \cup T) /\ t \in Seq(S \cup T)
  BY <1>1, <1>2
<1> QED BY <1>3, ConcatProperties DEF IsSeq

\* Part of a sequence.
LEMMA Between ==
  ASSUME NEW s, IsSeq(s), NEW a \in Nat \ {0}, NEW b \in Nat, b <= Len(s), a <= b + 1
  PROVE  /\ IsSeq(SubSeq(s, a, b)) /\ Len(SubSeq(s, a, b)) = b - a + 1
         /\ \A i \in 1..(b - a + 1) : SubSeq(s, a, b)[i] = s[a + i - 1]
<1>1. PICK S : s \in Seq(S)
  BY DEF IsSeq
<1>2. SubSeq(s, a, b) \in Seq(S)
  BY <1>1
<1>3. Len(SubSeq(s, a, b)) = b - a + 1
  BY <1>1
<1>4. \A i \in 1..(b - a + 1) : SubSeq(s, a, b)[i] = s[a + i - 1]
  BY <1>1
<1> QED BY <1>2, <1>3, <1>4 DEF IsSeq

\* A sequence with one more element.
LEMMA Appended ==
  ASSUME NEW s, IsSeq(s), NEW e
  PROVE  /\ IsSeq(Append(s, e)) /\ Len(Append(s, e)) = Len(s) + 1
         /\ \A i \in 1..Len(s) : Append(s, e)[i] = s[i]
         /\ Append(s, e)[Len(s) + 1] = e
<1>1. PICK S : s \in Seq(S)
  BY DEF IsSeq
<1>2. s \in Seq(S \cup {e}) /\ e \in S \cup {e}
  BY <1>1
<1>3. Append(s, e) \in Seq(S \cup {e})
  BY <1>2
<1>4. Len(Append(s, e)) = Len(s) + 1
      /\ \A i \in 1..Len(s) : Append(s, e)[i] = s[i]
      /\ Append(s, e)[Len(s) + 1] = e
  BY <1>2
<1> QED BY <1>3, <1>4 DEF IsSeq

\* Two sequences of one length with the same elements are one.
LEMMA SameElements ==
  ASSUME NEW s, NEW t, IsSeq(s), IsSeq(t), Len(s) = Len(t),
         \A i \in 1..Len(s) : s[i] = t[i]
  PROVE  s = t
<1>1. s = [i \in 1..Len(s) |-> s[i]] /\ t = [i \in 1..Len(t) |-> t[i]]
  BY SeqFacts
<1> QED BY <1>1

\* A remainder is less than the modulus and a quotient times it is the rest.
LEMMA DivMod ==
  ASSUME NEW n \in Nat, NEW d \in Nat \ {0}
  PROVE  /\ n % d \in 0..(d - 1)
         /\ n \div d \in Nat
         /\ n = (n \div d) * d + (n % d)
OBVIOUS

\* A multiple leaves no remainder.
LEMMA MultipleOf ==
  ASSUME NEW d \in Nat \ {0}, NEW q \in Nat
  PROVE  (q * d) % d = 0
<1> DEFINE n == q * d
<1> DEFINE s == n % d
<1> DEFINE p == n \div d
<1>1. n \in Nat
  OBVIOUS
<1>2. s \in 0..(d - 1) /\ p \in Nat /\ n = p * d + s
  BY <1>1, DivMod
<1> HIDE DEF n, s, p
<1>3. (q - p) * d = s
  BY <1>2 DEF n
<1>4. CASE q - p >= 1
  <2>1. (q - p) * d >= d
    <3>1. q - p - 1 \in Nat
      BY <1>2, <1>4
    <3>2. (q - p - 1) * d \in Nat
      BY <3>1
    <3>3. (q - p - 1) * d = (q - p) * d - d
      BY <1>2
    <3> QED BY <3>2, <3>3, <1>2
  <2> QED BY <1>2, <1>3, <2>1
<1>5. CASE p - q >= 1
  <2>1. (p - q) * d >= d
    BY <1>2, <1>5
  <2>2. (p - q) * d = 0 - s
    BY <1>2, <1>3
  <2> QED BY <1>2, <2>1, <2>2
<1>6. CASE p = q
  <2>1. s = 0
    BY <1>2, <1>3, <1>6
  <2> QED BY <2>1 DEF s, n
<1> QED BY <1>2, <1>4, <1>5, <1>6

\* Padding is one byte to a block of them, and fills the last block.
LEMMA PadAdds ==
  ASSUME NEW p, IsSeq(p)
  PROVE  /\ PadLength(p) \in 1..BlockBytes
         /\ PadLength(p) = BlockBytes - (Len(p) % BlockBytes)
         /\ IsSeq(Pad(p)) /\ Len(Pad(p)) = Len(p) + PadLength(p)
         /\ Len(Pad(p)) % BlockBytes = 0
         /\ \A i \in 1..Len(p) : Pad(p)[i] = p[i]
         /\ \A i \in (Len(p) + 1)..Len(Pad(p)) : Pad(p)[i] = PadLength(p)
<1> DEFINE B == BlockBytes
<1> DEFINE n == Len(p)
<1> DEFINE k == PadLength(p)
<1> DEFINE t == [i \in 1..k |-> k]
<1>1. B \in Nat \ {0} /\ n \in Nat
  BY SeqFacts, BlockAssumption
<1>2. k = B - (n % B)
  BY DEF PadLength
<1>3. (n % B) \in 0..(B - 1) /\ n \div B \in Nat /\ n = (n \div B) * B + (n % B)
  BY <1>1, DivMod
<1>4. k \in 1..B
  BY <1>1, <1>2, <1>3
<1>5. Pad(p) = p \o t
  BY DEF Pad
<1>6. IsSeq(t) /\ Len(t) = k
  BY <1>4, FunctionIsSeq
<1>7. \A i \in 1..k : t[i] = k
  OBVIOUS
<1> HIDE DEF k, t
<1>8. /\ IsSeq(p \o t) /\ Len(p \o t) = n + k
      /\ \A i \in 1..n + k : (p \o t)[i] = IF i <= n THEN p[i] ELSE t[i - n]
  BY <1>6, Concatenated
<1>9. (n + k) % B = 0
  <2> DEFINE q == n \div B
  <2> DEFINE r == n % B
  <2>1. q \in Nat /\ r \in 0..(B - 1) /\ n = q * B + r /\ k = B - r
    BY <1>2, <1>3
  <2> HIDE DEF n, q, r, B
  <2>2. n + k = (q + 1) * B
    <3>1. (q + 1) * B = q * B + B
      BY <2>1, <1>1
    <3>2. q * B \in Nat
      BY <2>1, <1>1
    <3> QED BY <3>1, <3>2, <2>1, <1>1
  <2>3. q + 1 \in Nat
    BY <2>1
  <2> QED BY <2>2, <2>3, <1>1, MultipleOf
<1>10. \A i \in 1..n : (p \o t)[i] = p[i]
  BY <1>1, <1>4, <1>8
<1>11. ASSUME NEW i \in (n + 1)..(n + k) PROVE (p \o t)[i] = k
  <2>1. i \in 1..n + k /\ ~(i <= n) /\ i - n \in 1..k
    BY <1>1, <1>4
  <2> QED BY <2>1, <1>7, <1>8
<1> QED BY <1>2, <1>4, <1>5, <1>8, <1>9, <1>10, <1>11 DEF k

\* What was padded is accepted by unpad, which takes the padding away.
LEMMA UnpadInverts ==
  ASSUME NEW p, IsSeq(p)
  PROVE  UnpadVerdict(Pad(p)) = "ok" /\ Unpad(Pad(p)) = p
<1> DEFINE d == Pad(p)
<1> DEFINE k == PadLength(p)
<1>1. /\ k \in 1..BlockBytes /\ IsSeq(d) /\ Len(d) = Len(p) + k
      /\ Len(d) % BlockBytes = 0
      /\ \A i \in 1..Len(p) : d[i] = p[i]
      /\ \A i \in (Len(p) + 1)..Len(d) : d[i] = k
  BY PadAdds
<1>2. Len(p) \in Nat /\ BlockBytes \in Nat
  BY SeqFacts, BlockAssumption
<1> HIDE DEF d, k
<1>3. d[Len(d)] = k /\ d # << >>
  <2>1. Len(d) \in (Len(p) + 1)..Len(d) /\ Len(d) # 0
    BY <1>1, <1>2
  <2>2. Len(<< >>) = 0
    OBVIOUS
  <2> QED BY <1>1, <2>1, <2>2
<1>4. Len(d) - k + 1 = Len(p) + 1 /\ Len(d) - k = Len(p)
  BY <1>1, <1>2
<1>5. UnpadVerdict(d) = "ok"
  BY <1>1, <1>3, <1>4 DEF UnpadVerdict, Aligned
<1>6. Unpad(d) = SubSeq(d, 1, Len(p))
  BY <1>3, <1>4 DEF Unpad
<1>7. /\ IsSeq(SubSeq(d, 1, Len(p))) /\ Len(SubSeq(d, 1, Len(p))) = Len(p)
      /\ \A i \in 1..Len(p) : SubSeq(d, 1, Len(p))[i] = d[i]
  <2>1. 1 \in Nat \ {0} /\ Len(p) <= Len(d) /\ 1 <= Len(p) + 1 /\ Len(p) - 1 + 1 = Len(p)
        /\ \A i \in 1..Len(p) : 1 + i - 1 = i
    BY <1>1, <1>2
  <2> QED BY <1>1, <1>2, <2>1, Between
<1>8. SubSeq(d, 1, Len(p)) = p
  BY <1>1, <1>7, SameElements
<1> QED BY <1>5, <1>6, <1>8 DEF d

-----------------------------------------------------------------------------
(* Induction, from the well-foundedness of the natural numbers.            *)

\* A set of numbers that is not empty has a least one.
LEMMA Least ==
  ASSUME NEW S \in SUBSET Nat, S # {}
  PROVE  \E n \in S : \A m \in S : n <= m
<1> DEFINE R == OpToRel(<, Nat)
<1>1. IsWellFoundedOn(R, Nat)
  BY NatLessThanWellFounded
<1>2. R = {ss \in Nat \X Nat : ss[1] < ss[2]}
  BY DEF OpToRel
<1> HIDE DEF R
<1>3. PICK n \in S : \A m \in S : ~(<<m, n>> \in R)
  BY <1>1, WFMin
<1>4. \A m \in S : ~(m < n)
  BY <1>2, <1>3
<1> QED BY <1>4

\* A set of numbers with zero and the successor of each of its own has all.
LEMMA Induct ==
  ASSUME NEW S \in SUBSET Nat, 0 \in S, \A n \in S : n + 1 \in S
  PROVE  S = Nat
<1> SUFFICES ASSUME Nat \ S # {} PROVE FALSE
  OBVIOUS
<1>1. PICK t \in Nat \ S : \A m \in Nat \ S : t <= m
  <2>1. Nat \ S \in SUBSET Nat
    OBVIOUS
  <2> QED BY <2>1, Least
<1>2. t # 0 /\ t - 1 \in Nat /\ ~(t <= t - 1) /\ (t - 1) + 1 = t
  OBVIOUS
<1>3. t - 1 \in S
  BY <1>1, <1>2
<1> QED BY <1>2, <1>3

\* Unpadding gives fewer bytes, and those padded again are what they were.
LEMMA UnpadPads ==
  ASSUME NEW d, IsSeq(d), UnpadVerdict(d) = "ok"
  PROVE  /\ IsSeq(Unpad(d)) /\ Len(Unpad(d)) \in Nat /\ Len(d) \in Nat
         /\ Len(Unpad(d)) < Len(d)
         /\ Pad(Unpad(d)) = d
<1> DEFINE B == BlockBytes
<1> DEFINE L == Len(d)
<1> DEFINE k == d[L]
<1> DEFINE u == Unpad(d)
<1>1. B \in Nat \ {0} /\ L \in Nat
  BY SeqFacts, BlockAssumption
<1>2. /\ d # << >> /\ L % B = 0 /\ k \in 1..B
      /\ \A i \in (L - k + 1)..L : d[i] = k
  BY DEF UnpadVerdict, Aligned
<1>3. L # 0
  <2>1. L = 0 => d = << >>
    <3>1. << >> \in Seq(Nat) /\ Len(<< >>) = 0
      OBVIOUS
    <3>2. IsSeq(<< >>)
      BY <3>1 DEF IsSeq
    <3>3. L = 0 => \A i \in 1..L : d[i] = (<< >>)[i]
      BY <1>1
    <3> QED BY <3>1, <3>2, <3>3, SameElements
  <2> QED BY <1>2, <2>1
<1> DEFINE q == L \div B
<1>4. q \in Nat /\ L = q * B
  <2>1. q \in Nat /\ L = q * B + (L % B)
    BY <1>1, DivMod
  <2> HIDE DEF q
  <2>2. q * B \in Nat
    <3>1. \A x, y \in Nat : x * y \in Nat
      OBVIOUS
    <3> QED BY <1>1, <2>1, <3>1
  <2> QED BY <1>2, <2>1, <2>2
<1> HIDE DEF q, B, L
<1>5. k <= L
  <2>1. q # 0
    <3>1. \A x \in Nat : 0 * x = 0
      OBVIOUS
    <3> QED BY <1>1, <1>3, <1>4, <3>1
  <2>2. (q - 1) * B \in Nat
    <3>1. \A x, y \in Nat : x * y \in Nat
      OBVIOUS
    <3>2. q - 1 \in Nat
      BY <1>4, <2>1
    <3> QED BY <1>1, <3>1, <3>2
  <2>3. (q - 1) * B = q * B - B
    BY <1>1, <1>4
  <2> QED BY <1>1, <1>2, <1>4, <2>2, <2>3
<1> HIDE DEF k
<1> DEFINE n == L - k
<1>6. n \in Nat /\ n < L /\ n + k = L
  BY <1>1, <1>2, <1>5
<1> HIDE DEF n
<1>7. u = SubSeq(d, 1, n)
  BY DEF Unpad, n, k, L
<1>8. /\ IsSeq(SubSeq(d, 1, n)) /\ Len(SubSeq(d, 1, n)) = n
      /\ \A i \in 1..n : SubSeq(d, 1, n)[i] = d[i]
  <2>1. 1 \in Nat \ {0} /\ n <= Len(d) /\ 1 <= n + 1 /\ n - 1 + 1 = n
        /\ \A i \in 1..n : 1 + i - 1 = i
    BY <1>1, <1>6 DEF L
  <2> QED BY <1>6, <2>1, Between
<1> HIDE DEF u
<1>9. PadLength(u) = k
  <2> DEFINE r == n % B
  <2> DEFINE p == n \div B
  <2>1. r \in 0..(B - 1) /\ p \in Nat /\ n = p * B + r
    BY <1>1, <1>6, DivMod
  <2>2. PadLength(u) = B - r
    BY <1>7, <1>8 DEF PadLength, B
  <2> HIDE DEF r, p
  <2>3. r + k = (q - p) * B
    <3>1. (q - p) * B = q * B - p * B
      BY <1>1, <1>4, <2>1
    <3>2. p * B \in Nat
      <4>1. \A x, y \in Nat : x * y \in Nat
        OBVIOUS
      <4> QED BY <1>1, <2>1, <4>1
    <3> QED BY <1>1, <1>2, <1>4, <1>6, <2>1, <3>1, <3>2
  <2>4. r + k \in 1..(2 * B - 1)
    BY <1>1, <1>2, <2>1
  <2>5. q - p = 1
    <3> DEFINE e == q - p
    <3>0. e \in Int /\ r + k = e * B
      BY <1>4, <2>1, <2>3
    <3> HIDE DEF e
    <3>1. ~(e <= 0)
      <4>1. ASSUME e <= 0 PROVE e * B <= 0
        <5>1. 0 - e \in Nat
          BY <3>0, <4>1
        <5>2. (0 - e) * B \in Nat
          <6>1. \A x, y \in Nat : x * y \in Nat
            OBVIOUS
          <6> QED BY <1>1, <5>1, <6>1
        <5>3. (0 - e) * B = 0 - e * B
          BY <1>1, <3>0
        <5> QED BY <5>2, <5>3, <1>1, <3>0
      <4> QED BY <2>4, <3>0, <4>1, <1>1
    <3>2. ~(e >= 2)
      <4>1. ASSUME e >= 2 PROVE e * B >= 2 * B
        <5>1. e - 2 \in Nat
          BY <3>0, <4>1
        <5>2. (e - 2) * B \in Nat
          <6>1. \A x, y \in Nat : x * y \in Nat
            OBVIOUS
          <6> QED BY <1>1, <5>1, <6>1
        <5>3. (e - 2) * B = e * B - 2 * B
          BY <1>1, <3>0
        <5>4. e * B \in Int
          BY <1>1, <3>0
        <5> QED BY <5>2, <5>3, <5>4, <1>1
      <4> QED BY <2>4, <3>0, <4>1, <1>1
    <3> QED BY <3>0, <3>1, <3>2 DEF e
  <2>6. r + k = B
    <3>1. 1 * B = B
      BY <1>1
    <3> QED BY <2>3, <2>5, <3>1
  <2> QED BY <1>1, <1>2, <2>1, <2>2, <2>6
<1>10. /\ IsSeq(Pad(u)) /\ Len(Pad(u)) = n + k
       /\ \A i \in 1..n : Pad(u)[i] = u[i]
       /\ \A i \in (n + 1)..(n + k) : Pad(u)[i] = k
  BY <1>7, <1>8, <1>9, PadAdds
<1>11. \A i \in 1..L : Pad(u)[i] = d[i]
  <2> SUFFICES ASSUME NEW i \in 1..L PROVE Pad(u)[i] = d[i]
    OBVIOUS
  <2>1. CASE i <= n
    <3>1. i \in 1..n
      BY <1>1, <1>6, <2>1
    <3> QED BY <1>7, <1>8, <1>10, <3>1
  <2>2. CASE ~(i <= n)
    <3>1. i \in (n + 1)..(n + k) /\ i \in (L - k + 1)..L
      BY <1>1, <1>2, <1>6, <2>2
    <3> QED BY <1>2, <1>10, <3>1
  <2> QED BY <2>1, <2>2
<1>12. Pad(u) = d
  <2>1. Len(Pad(u)) = Len(d)
    BY <1>6, <1>10 DEF L
  <2> QED BY <1>10, <1>11, <2>1, SameElements DEF L
<1> QED BY <1>1, <1>6, <1>7, <1>8, <1>12 DEF u, L

-----------------------------------------------------------------------------
(* The blocks of a container that was written.                             *)

\* One block, from those before it.
BlockStep(key, header, padded, blanks, g, k) ==
  IF k = 0 THEN << >>
  ELSE [j \in 1..BlockBytes |->
         [seed  |-> Seed(key, header.nonce, Rounds(header.version), k - 1, g[k - 1]),
          plain |-> SubSeq(padded, (k - 1) * BlockBytes + 1, k * BlockBytes),
          part  |-> j,
          blank |-> k = 1 /\ j <= blanks]]

\* The function EncryptBlocks defines by recursion.
Blocks(key, header, padded, blanks) ==
  CHOOSE g : g = [k \in 0..Len(padded) \div BlockBytes |->
                   BlockStep(key, header, padded, blanks, g, k)]

\* EncryptBlocks takes its cells from it.
LEMMA EncryptBlocksIs ==
  ASSUME NEW key, NEW header, NEW padded, NEW blanks
  PROVE  EncryptBlocks(key, header, padded, blanks)
           = [i \in 1..Len(padded) |->
               Blocks(key, header, padded, blanks)
                 [((i - 1) \div BlockBytes) + 1][((i - 1) % BlockBytes) + 1]]
BY DEF EncryptBlocks, Blocks, BlockStep

\* There is one: by induction on how many blocks it has.
LEMMA BlocksAre ==
  ASSUME NEW key, NEW header, NEW padded, NEW blanks,
         NEW n \in Nat, n = Len(padded) \div BlockBytes
  PROVE  \A k \in 0..n :
           Blocks(key, header, padded, blanks)[k]
             = BlockStep(key, header, padded, blanks,
                         Blocks(key, header, padded, blanks), k)
<1> DEFINE Step(g, k) == BlockStep(key, header, padded, blanks, g, k)
<1> DEFINE S == {m \in Nat : \E g : g = [k \in 0..m |-> Step(g, k)]}
<1>1. ASSUME NEW g, NEW h, NEW k, k = 0 \/ g[k - 1] = h[k - 1]
      PROVE  Step(g, k) = Step(h, k)
  BY <1>1 DEF BlockStep
<1> HIDE DEF Step
<1>2. 0 \in S
  <2> DEFINE g == [k \in 0..0 |-> Step(<< >>, k)]
  <2>1. \A k \in 0..0 : Step(<< >>, k) = Step(g, k)
    BY <1>1
  <2>2. g = [k \in 0..0 |-> Step(g, k)]
    BY <2>1
  <2> HIDE DEF g
  <2> QED BY <2>2
<1>3. ASSUME NEW m \in S PROVE m + 1 \in S
  <2>1. PICK f : f = [k \in 0..m |-> Step(f, k)]
    OBVIOUS
  <2> DEFINE g == [k \in 0..(m + 1) |-> Step(f, k)]
  <2>2. m \in Nat
    OBVIOUS
  <2>3. ASSUME NEW k \in 0..(m + 1) PROVE k = 0 \/ g[k - 1] = f[k - 1]
    <3>1. k # 0 => k - 1 \in 0..m /\ k - 1 \in 0..(m + 1)
      BY <2>2
    <3> QED BY <2>1, <3>1
  <2> HIDE DEF g
  <2>4. \A k \in 0..(m + 1) : Step(f, k) = Step(g, k)
    BY <1>1, <2>3
  <2>5. g = [k \in 0..(m + 1) |-> Step(g, k)]
    BY <2>4 DEF g
  <2> QED BY <2>2, <2>5
<1>4. S = Nat
  <2>1. S \in SUBSET Nat
    OBVIOUS
  <2> HIDE DEF S
  <2> QED BY <1>2, <1>3, <2>1, Induct
<1>5. \E g : g = [k \in 0..n |-> Step(g, k)]
  BY <1>4
<1> DEFINE b == Blocks(key, header, padded, blanks)
<1>6. b = [k \in 0..n |-> Step(b, k)]
  BY <1>5 DEF Blocks, Step
<1> HIDE DEF b
<1>7. \A k \in 0..n : b[k] = Step(b, k)
  BY <1>6
<1> QED BY <1>7 DEF b, Step

\* Where byte j of block k is, and back.
LEMMA Places ==
  ASSUME NEW k \in Nat \ {0}, NEW j \in 1..BlockBytes, NEW i, i = (k - 1) * BlockBytes + j
  PROVE  i \in Nat \ {0} /\ ((i - 1) \div BlockBytes) + 1 = k /\ ((i - 1) % BlockBytes) + 1 = j
<1> DEFINE B == BlockBytes
<1> DEFINE a == (k - 1) * B
<1> DEFINE t == i - 1
<1> DEFINE q == t \div B
<1> DEFINE r == t % B
<1>1. B \in Nat \ {0}
  BY BlockAssumption
<1>2. a \in Nat
  <2>1. \A x, y \in Nat : x * y \in Nat
    OBVIOUS
  <2>2. k - 1 \in Nat
    OBVIOUS
  <2> QED BY <1>1, <2>1, <2>2
<1>3. t \in Nat /\ t = a + (j - 1) /\ i \in Nat \ {0}
  BY <1>1, <1>2
<1>4. q \in Nat /\ r \in 0..(B - 1) /\ t = q * B + r
  BY <1>1, <1>3, DivMod
<1> HIDE DEF q, r, t, B
<1> DEFINE e == q - (k - 1)
<1>5. e \in Int /\ e * B = (j - 1) - r
  <2>1. e * B = q * B - a
    BY <1>1, <1>4
  <2>2. q * B \in Nat
    <3>1. \A x, y \in Nat : x * y \in Nat
      OBVIOUS
    <3> QED BY <1>1, <1>4, <3>1
  <2> HIDE DEF a
  <2> QED BY <1>1, <1>2, <1>3, <1>4, <2>1, <2>2
<1>6. (j - 1) - r < B /\ (j - 1) - r > 0 - B
  BY <1>1, <1>4 DEF B
<1> HIDE DEF e
<1>7. ~(e >= 1)
  <2> SUFFICES ASSUME e >= 1 PROVE FALSE
    OBVIOUS
  <2>1. e - 1 \in Nat
    BY <1>5
  <2>2. (e - 1) * B \in Nat
    <3>1. \A x, y \in Nat : x * y \in Nat
      OBVIOUS
    <3> QED BY <1>1, <2>1, <3>1
  <2>3. (e - 1) * B = e * B - B
    BY <1>1, <1>5
  <2> QED BY <1>1, <1>4, <1>5, <1>6, <2>2, <2>3
<1>8. ~(e <= 0 - 1)
  <2> SUFFICES ASSUME e <= 0 - 1 PROVE FALSE
    OBVIOUS
  <2>1. 0 - e - 1 \in Nat
    BY <1>5
  <2>2. (0 - e - 1) * B \in Nat
    <3>1. \A x, y \in Nat : x * y \in Nat
      OBVIOUS
    <3> QED BY <1>1, <2>1, <3>1
  <2>3. (0 - e - 1) * B = 0 - e * B - B
    BY <1>1, <1>5
  <2> QED BY <1>1, <1>4, <1>5, <1>6, <2>2, <2>3
<1>9. e = 0
  BY <1>5, <1>7, <1>8
<1>10. q = k - 1
  BY <1>4, <1>9 DEF e
<1>11. r = j - 1
  <2>1. 0 * B = 0
    BY <1>1
  <2> QED BY <1>4, <1>5, <1>9, <2>1
<1> QED BY <1>3, <1>10, <1>11 DEF q, r, t, B

\* Which byte of which block stands at i.
LEMMA PlaceOf ==
  ASSUME NEW N \in Nat, NEW i \in 1..N * BlockBytes
  PROVE  \E k \in 1..N, j \in 1..BlockBytes :
           /\ i = (k - 1) * BlockBytes + j
           /\ ((i - 1) \div BlockBytes) + 1 = k /\ ((i - 1) % BlockBytes) + 1 = j
<1> DEFINE B == BlockBytes
<1> DEFINE t == i - 1
<1> DEFINE q == t \div B
<1> DEFINE r == t % B
<1>1. B \in Nat \ {0}
  BY BlockAssumption
<1>2. N * B \in Nat
  <2>1. \A x, y \in Nat : x * y \in Nat
    OBVIOUS
  <2> QED BY <1>1, <2>1
<1>3. t \in Nat /\ t < N * B /\ i = t + 1
  BY <1>2
<1>4. q \in Nat /\ r \in 0..(B - 1) /\ t = q * B + r
  BY <1>1, <1>3, DivMod
<1> HIDE DEF q, r, B, t
<1>5. q < N
  <2> SUFFICES ASSUME q >= N PROVE FALSE
    BY <1>4
  <2>1. q - N \in Nat
    BY <1>4
  <2>2. (q - N) * B \in Nat
    <3>1. \A x, y \in Nat : x * y \in Nat
      OBVIOUS
    <3> QED BY <1>1, <2>1, <3>1
  <2>3. (q - N) * B = q * B - N * B
    BY <1>1, <1>4
  <2>4. q * B \in Nat
    <3>1. \A x, y \in Nat : x * y \in Nat
      OBVIOUS
    <3> QED BY <1>1, <1>4, <3>1
  <2> QED BY <1>1, <1>2, <1>3, <1>4, <2>2, <2>3, <2>4
<1>6. q + 1 \in 1..N /\ r + 1 \in 1..B /\ (q + 1) - 1 = q
  BY <1>1, <1>4, <1>5
<1>7. i = ((q + 1) - 1) * B + (r + 1)
  <2>1. q * B \in Nat
    <3>1. \A x, y \in Nat : x * y \in Nat
      OBVIOUS
    <3> QED BY <1>1, <1>4, <3>1
  <2> QED BY <1>3, <1>4, <1>6, <2>1
<1> QED BY <1>6, <1>7 DEF q, r, B, t

\* Each block is where it was encrypted, and holds what was.
LEMMA CipherFacts ==
  ASSUME NEW key, NEW header, NEW padded, NEW blanks,
         IsSeq(padded), Len(padded) % BlockBytes = 0
  PROVE  LET c == EncryptBlocks(key, header, padded, blanks)
         IN  /\ IsSeq(c) /\ Len(c) = Len(padded)
             /\ \A i \in 1..Len(padded) :
                  /\ DOMAIN c[i] = {"seed", "plain", "part", "blank"}
                  /\ c[i].plain[((i - 1) % BlockBytes) + 1] = padded[i]
             /\ \A k \in 1..(Len(padded) \div BlockBytes) :
                  Genuine(c, k, key, header.nonce, Rounds(header.version))
<1> DEFINE c == EncryptBlocks(key, header, padded, blanks)
<1> DEFINE b == Blocks(key, header, padded, blanks)
<1> DEFINE B == BlockBytes
<1> DEFINE n == Len(padded)
<1> DEFINE N == n \div B
<1> DEFINE seed(k)   == Seed(key, header.nonce, Rounds(header.version), k - 1, b[k - 1])
<1> DEFINE plain(k)  == SubSeq(padded, (k - 1) * B + 1, k * B)
<1> DEFINE cell(k, j) ==
      [seed |-> seed(k), plain |-> plain(k), part |-> j, blank |-> k = 1 /\ j <= blanks]
<1>1. B \in Nat \ {0} /\ n \in Nat
  BY SeqFacts, BlockAssumption
<1>2. N \in Nat /\ n = N * B
  <2>1. N \in Nat /\ n = N * B + (n % B)
    BY <1>1, DivMod
  <2>2. N * B \in Nat
    <3>1. \A x, y \in Nat : x * y \in Nat
      OBVIOUS
    <3> HIDE DEF N
    <3> QED BY <1>1, <2>1, <3>1
  <2> HIDE DEF N
  <2> QED BY <2>1, <2>2
<1>3. \A k \in 0..N : b[k] = BlockStep(key, header, padded, blanks, b, k)
  BY <1>2, BlocksAre
<1>4. c = [i \in 1..n |-> b[((i - 1) \div B) + 1][((i - 1) % B) + 1]]
  BY EncryptBlocksIs
<1> HIDE DEF N, b, c, n
<1>5. b[0] = << >> /\ \A k \in 1..N : b[k] = [j \in 1..B |-> cell(k, j)]
  <2>1. b[0] = << >>
    <3>1. 0 \in 0..N
      BY <1>2
    <3>2. b[0] = BlockStep(key, header, padded, blanks, b, 0)
      BY <1>3, <3>1
    <3> QED BY <3>2 DEF BlockStep
  <2>2. ASSUME NEW k \in 1..N PROVE b[k] = [j \in 1..B |-> cell(k, j)]
    <3>1. k \in 0..N /\ k # 0
      BY <1>2
    <3>2. b[k] = BlockStep(key, header, padded, blanks, b, k)
      BY <1>3, <3>1
    <3> QED BY <3>1, <3>2 DEF BlockStep
  <2> QED BY <2>1, <2>2
<1> HIDE DEF seed, plain
<1>c. \A k, j : /\ cell(k, j).seed = seed(k) /\ cell(k, j).plain = plain(k)
                /\ cell(k, j).part = j
                /\ DOMAIN cell(k, j) = {"seed", "plain", "part", "blank"}
  OBVIOUS
<1> HIDE DEF cell
<1>d. \A k \in 1..N : \A j \in 1..B : b[k][j] = cell(k, j)
  <2>1. ASSUME NEW k \in 1..N, NEW j \in 1..B PROVE b[k][j] = cell(k, j)
    <3>1. b[k] = [i \in 1..B |-> cell(k, i)]
      BY <1>5
    <3> QED BY <3>1
  <2> QED BY <2>1
<1>6. ASSUME NEW k \in 1..N, NEW j \in 1..B
      PROVE  /\ (k - 1) * B + j \in 1..n
             /\ c[(k - 1) * B + j] = cell(k, j)
             /\ (k - 1) * B + B = k * B /\ (k - 1) * B \in Nat /\ k * B <= n
  <2> DEFINE a == (k - 1) * B
  <2>1. k \in Nat \ {0} /\ k - 1 \in Nat /\ k <= N /\ N - k \in Nat
    BY <1>2
  <2>2. a \in Nat
    <3>1. \A x, y \in Nat : x * y \in Nat
      OBVIOUS
    <3> QED BY <1>1, <2>1, <3>1
  <2>3. a + B = k * B
    BY <1>1, <2>1
  <2>4. k * B <= N * B
    <3>1. \A x, y \in Nat : x * y \in Nat
      OBVIOUS
    <3>2. (N - k) * B \in Nat
      BY <1>1, <2>1, <3>1
    <3>3. (N - k) * B = N * B - k * B
      BY <1>1, <1>2, <2>1
    <3>4. N * B \in Nat /\ k * B \in Nat
      BY <1>1, <1>2, <2>1, <3>1
    <3> QED BY <3>2, <3>3, <3>4
  <2>5. PICK i : i = a + j
    OBVIOUS
  <2>6. i \in Nat \ {0} /\ ((i - 1) \div B) + 1 = k /\ ((i - 1) % B) + 1 = j
    BY <2>1, <2>5, Places
  <2> HIDE DEF a
  <2>7. i \in 1..n
    BY <1>1, <1>2, <2>2, <2>3, <2>4, <2>5, <2>6
  <2>8. c[i] = b[k][j]
    BY <1>4, <2>6, <2>7
  <2>9. c[i] = cell(k, j)
    BY <1>5, <2>8
  <2>10. k * B <= n
    BY <1>2, <2>4
  <2> QED BY <2>2, <2>3, <2>5, <2>7, <2>9, <2>10 DEF a
<1>7. IsSeq(c) /\ Len(c) = n
  <2>1. c = [i \in 1..n |-> c[i]]
    BY <1>4
  <2> QED BY <1>1, <2>1, FunctionIsSeq
<1>8. ASSUME NEW i \in 1..n
      PROVE  /\ DOMAIN c[i] = {"seed", "plain", "part", "blank"}
             /\ c[i].plain[((i - 1) % B) + 1] = padded[i]
  <2>1. PICK k \in 1..N, j \in 1..B : i = (k - 1) * B + j /\ ((i - 1) % B) + 1 = j
    BY <1>2, PlaceOf
  <2>2. c[i] = cell(k, j)
    BY <1>6, <2>1
  <2>3. DOMAIN c[i] = {"seed", "plain", "part", "blank"}
    BY <1>c, <2>2
  <2>4. c[i].plain[j] = padded[i]
    <3> DEFINE a == (k - 1) * B
    <3>1. a \in Nat /\ a + B = k * B /\ k * B <= n
      BY <1>6
    <3>2. c[i].plain = SubSeq(padded, a + 1, k * B)
      BY <1>c, <2>2 DEF plain
    <3> HIDE DEF a
    <3>3. PICK f \in Nat \ {0} : f = a + 1
      BY <3>1
    <3>4. PICK z \in Nat : z = k * B
      BY <1>1, <3>1
    <3>5. z <= Len(padded) /\ f <= z + 1 /\ j \in 1..(z - f + 1) /\ f + j - 1 = a + j
      BY <1>1, <3>1, <3>3, <3>4 DEF n
    <3>6. SubSeq(padded, f, z)[j] = padded[f + j - 1]
      BY <3>5, Between
    <3> QED BY <2>1, <3>2, <3>3, <3>4, <3>5, <3>6 DEF a
  <2> QED BY <2>1, <2>3, <2>4
<1> DEFINE block(k) == SubSeq(c, (k - 1) * B + 1, k * B)
<1>9. ASSUME NEW k \in 1..N PROVE block(k) = b[k]
  <2> DEFINE a == (k - 1) * B
  <2>1. 1 \in 1..B
    BY <1>1
  <2>2. a \in Nat /\ a + B = k * B /\ k * B <= n
    BY <1>6, <2>1
  <2>3. \A j \in 1..B : c[a + j] = b[k][j]
    BY <1>6, <1>d
  <2> HIDE DEF a
  <2>4. PICK f \in Nat \ {0} : f = a + 1
    BY <2>2
  <2>5. PICK z \in Nat : z = k * B
    BY <1>1, <2>2
  <2>6. z <= Len(c) /\ f <= z + 1 /\ z - f + 1 = B /\ \A j \in 1..B : f + j - 1 = a + j
    BY <1>1, <1>7, <2>2, <2>4, <2>5
  <2>7. /\ IsSeq(SubSeq(c, f, z)) /\ Len(SubSeq(c, f, z)) = z - f + 1
        /\ \A j \in 1..(z - f + 1) : SubSeq(c, f, z)[j] = c[f + j - 1]
    BY <1>7, <2>6, Between
  <2>8. IsSeq(b[k]) /\ Len(b[k]) = B
    <3>1. b[k] = [j \in 1..B |-> b[k][j]]
      BY <1>5
    <3> QED BY <1>1, <3>1, FunctionIsSeq
  <2>9. SubSeq(c, f, z) = b[k]
    <3>1. PICK s : s = SubSeq(c, f, z)
      OBVIOUS
    <3>2. PICK t : t = b[k]
      OBVIOUS
    <3>3. IsSeq(s) /\ IsSeq(t) /\ Len(s) = Len(t) /\ Len(s) = B
      BY <2>6, <2>7, <2>8, <3>1, <3>2
    <3>4. \A j \in 1..B : s[j] = t[j]
      BY <2>3, <2>6, <2>7, <3>1, <3>2
    <3>5. s = t
      BY <3>3, <3>4, SameElements
    <3> QED BY <3>1, <3>2, <3>5
  <2> QED BY <2>4, <2>5, <2>9 DEF a
<1>10. ASSUME NEW k \in 1..N
       PROVE  Genuine(c, k, key, header.nonce, Rounds(header.version))
  <2>1. k \in Nat /\ k # 1 => k - 1 \in 1..N
    BY <1>2
  <2>2. b[k - 1] = IF k = 1 THEN << >> ELSE block(k - 1)
    <3>1. k = 1 => k - 1 = 0
      OBVIOUS
    <3>2. k # 1 => k - 1 \in 1..N
      BY <1>2
    <3> HIDE DEF block
    <3> QED BY <1>5, <1>9, <3>1, <3>2
  <2>3. ASSUME NEW j \in 1..B
        PROVE  /\ Is(block(k)[j], "seed") /\ block(k)[j].part = j
               /\ block(k)[j].seed = Seed(key, header.nonce, Rounds(header.version), k - 1,
                                          IF k = 1 THEN << >> ELSE block(k - 1))
               /\ block(k)[j].plain = block(k)[1].plain
    <3>1. block(k)[j] = cell(k, j) /\ block(k)[1] = cell(k, 1)
      <4>1. 1 \in 1..B
        BY <1>1
      <4>2. b[k][j] = cell(k, j) /\ b[k][1] = cell(k, 1)
        BY <1>d, <4>1
      <4>3. block(k) = b[k]
        BY <1>9
      <4> HIDE DEF block
      <4> QED BY <4>2, <4>3
    <3> HIDE DEF block
    <3>2. block(k)[j].seed = seed(k) /\ block(k)[j].plain = plain(k) /\ block(k)[j].part = j
          /\ "seed" \in DOMAIN block(k)[j] /\ block(k)[1].plain = plain(k)
      BY <1>c, <3>1
    <3>3. seed(k) = Seed(key, header.nonce, Rounds(header.version), k - 1,
                         IF k = 1 THEN << >> ELSE block(k - 1))
      BY <2>2 DEF seed
    <3> QED BY <3>2, <3>3 DEF Is
  <2> QED BY <2>3 DEF Genuine
<1> QED BY <1>7, <1>8, <1>10 DEF c, n, N

-----------------------------------------------------------------------------
(* The invariant.                                                          *)

TagCell(w) ==
  [tag |-> Tag(Key(w.password, Header(w.container)),
               SubSeq(w.container, 3, Len(w.container) - 1))]

\* What a container that was written is made of.
WellMade(w) ==
  LET cipher == Ciphertext(w.container)
      header == Header(w.container)
  IN  /\ w.password \in Passwords \ {Empty}
      /\ IsSeq(w.payload) /\ IsSeq(w.container)
      /\ Len(w.container) = Len(Pad(w.payload)) + 4
      /\ w.container[1] = [magic |-> 4] /\ w.container[2] = [num |-> 1]
      /\ w.container[3] = [header |-> header]
      /\ header = HeaderOf(w.form, header.iterations, w.payload)
      /\ header.iterations \in 1..MaxIterations
      /\ w.container[Len(w.container)] = TagCell(w)
      /\ IsSeq(cipher) /\ Len(cipher) = Len(Pad(w.payload))
      /\ \A i \in 1..Len(cipher) :
           /\ w.container[i + 3] = cipher[i]
           /\ DOMAIN cipher[i] = {"seed", "plain", "part", "blank"}
           /\ cipher[i].plain[((i - 1) % BlockBytes) + 1] = Pad(w.payload)[i]
      /\ \A k \in 1..(Len(cipher) \div BlockBytes) :
           Genuine(cipher, k, Key(w.password, header), header.nonce, Rounds(header.version))

Made == /\ IsFiniteSet(written) /\ Cardinality(written) <= MaxWritten
        /\ \A w \in written : WellMade(w)

\* No cell is a tag but those that were written, and what is read as a length
\* is one.
Sound(cell) ==
  /\ Is(cell, "tag") => \E w \in written : cell = TagCell(w)
  /\ Is(cell, "num") => cell = [num |-> cell.num] /\ cell.num \in Nat

Kept == /\ IsSeq(stored)
        /\ stored # << >> => stored[1] = [magic |-> 4]
        /\ \A k \in 1..Len(stored) : Sound(stored[k])

\* The four readers have not begun, or have opened what is still stored.
Answered ==
  \/ answer = [r \in Readers |-> Waiting]
  \/ /\ stored # << >> /\ answer["rust"] # Waiting
     /\ answer["rust"] \in DecryptV4(stored, password)
     /\ answer["bindings"] = Exported(answer["rust"])
     /\ answer["python"] \in DecryptBytes(stored, password, FALSE)
     /\ answer["native"] \in DecryptBytes(stored, password, TRUE)

IInv == /\ Made /\ Kept /\ Answered
        /\ damages \in 0..MaxDamages /\ password \in Passwords

-----------------------------------------------------------------------------
(* Writing.                                                                *)

\* One sequence after another, and part of one.
Joins(r, s, t) == /\ IsSeq(r) /\ Len(r) = Len(s) + Len(t)
                  /\ \A i \in 1..Len(s) : r[i] = s[i]
                  /\ \A i \in 1..Len(t) : r[Len(s) + i] = t[i]
PartOf(r, s, a, n) == IsSeq(r) /\ Len(r) = n /\ \A i \in 1..n : r[i] = s[a + i]

\* What is concatenated is joined.
LEMMA Joined == ASSUME NEW s, NEW t, IsSeq(s), IsSeq(t) PROVE Joins(s \o t, s, t)
<1> DEFINE a == Len(s)
<1> DEFINE b == Len(t)
<1> DEFINE r == s \o t
<1>1. /\ IsSeq(r) /\ Len(r) = a + b /\ a \in Nat /\ b \in Nat
      /\ \A i \in 1..a + b : r[i] = IF i <= a THEN s[i] ELSE t[i - a]
  BY Concatenated, SeqFacts
<1> HIDE DEF a, b, r
<1>2. ASSUME NEW i \in 1..a PROVE r[i] = s[i]
  <2>1. i \in 1..a + b /\ i <= a
    BY <1>1
  <2> QED BY <1>1, <2>1
<1>3. ASSUME NEW i \in 1..b PROVE r[a + i] = t[i]
  <2>1. a + i \in 1..a + b /\ ~(a + i <= a) /\ (a + i) - a = i
    BY <1>1
  <2> QED BY <1>1, <2>1
<1> QED BY <1>1, <1>2, <1>3 DEF Joins, a, b, r

\* A subsequence is part of the sequence.
LEMMA Sliced ==
  ASSUME NEW s, IsSeq(s), NEW a \in Nat, NEW n \in Nat, a + n <= Len(s)
  PROVE  PartOf(SubSeq(s, a + 1, a + n), s, a, n)
<1>1. PICK f \in Nat \ {0} : f = a + 1
  OBVIOUS
<1>2. PICK z \in Nat : z = a + n
  OBVIOUS
<1>3. /\ z <= Len(s) /\ f <= z + 1 /\ z - f + 1 = n
      /\ \A i \in 1..n : f + i - 1 = a + i
  BY <1>1, <1>2
<1>4. PICK r : r = SubSeq(s, f, z)
  OBVIOUS
<1>5. IsSeq(r) /\ Len(r) = z - f + 1 /\ \A i \in 1..(z - f + 1) : r[i] = s[f + i - 1]
  BY <1>3, <1>4, Between
<1>6. PartOf(r, s, a, n)
  BY <1>3, <1>5 DEF PartOf
<1> QED BY <1>1, <1>2, <1>4, <1>6

\* The cells of a container around its ciphertext.
Surrounds(s, c, n, m, u, h, t) ==
  /\ IsSeq(s) /\ Len(s) = n + 4
  /\ s[1] = m /\ s[2] = u /\ s[3] = h /\ s[n + 4] = t
  /\ \A i \in 1..n : s[i + 3] = c[i]
  /\ SubSeq(s, 4, n + 3) = c
  /\ SubSeq(s, 3, n + 3) = <<h>> \o c

\* They are where they were put.
LEMMA Around ==
  ASSUME NEW c, IsSeq(c), NEW n \in Nat, Len(c) = n, NEW m, NEW u, NEW h, NEW t
  PROVE  Surrounds(<<m, u, h>> \o c \o <<t>>, c, n, m, u, h, t)
<1> DEFINE s == <<m, u, h>> \o c \o <<t>>
<1>s. s = <<m, u, h>> \o c \o <<t>>
  OBVIOUS
<1> HIDE DEF s
<1>1. PICK a : a = <<m, u, h>>
  OBVIOUS
<1>2. IsSeq(a) /\ Len(a) = 3 /\ a[1] = m /\ a[2] = u /\ a[3] = h
  <2>1. a \in Seq({m, u, h}) /\ Len(a) = 3
    BY <1>1
  <2> QED BY <1>1, <2>1 DEF IsSeq
<1>3. PICK l : l = <<t>>
  OBVIOUS
<1>4. IsSeq(l) /\ Len(l) = 1 /\ l[1] = t
  <2>1. l \in Seq({t})
    BY <1>3
  <2> QED BY <1>3, <2>1 DEF IsSeq
<1>5. PICK g : g = <<h>>
  OBVIOUS
<1>6. IsSeq(g) /\ Len(g) = 1 /\ g[1] = h
  <2>1. g \in Seq({h})
    BY <1>5
  <2> QED BY <1>5, <2>1 DEF IsSeq
<1>7. PICK p : p = a \o c
  OBVIOUS
<1>8. s = p \o l
  BY <1>s, <1>1, <1>3, <1>7
<1>9. PICK x \in Nat : x = 3
  OBVIOUS
<1>10. PICK y \in Nat : y = 1
  OBVIOUS
<1>11. /\ IsSeq(p) /\ Len(p) = x + n
       /\ \A i \in 1..x : p[i] = a[i]
       /\ \A i \in 1..n : p[x + i] = c[i]
  <2>1. Joins(p, a, c)
    BY <1>2, <1>7, Joined
  <2> QED BY <1>2, <1>9, <2>1 DEF Joins
<1>12. PICK k \in Nat : k = x + n
  BY <1>9
<1>13. /\ IsSeq(s) /\ Len(s) = k + y
       /\ \A i \in 1..k : s[i] = p[i]
       /\ \A i \in 1..y : s[k + i] = l[i]
  <2>1. Joins(s, p, l)
    BY <1>4, <1>8, <1>11, Joined
  <2> QED BY <1>4, <1>10, <1>11, <1>12, <2>1 DEF Joins
<1>14. s[1] = m /\ s[2] = u /\ s[3] = h
  <2>1. \A i \in 1..x : i \in 1..k
    BY <1>12
  <2>2. \A i \in 1..x : s[i] = a[i]
    BY <1>11, <1>13, <2>1
  <2> QED BY <1>2, <1>9, <2>2
<1>15. s[n + 4] = t
  <2>1. 1 \in 1..y /\ k + 1 = n + 4
    BY <1>9, <1>10, <1>12
  <2> QED BY <1>4, <1>13, <2>1
<1>16. ASSUME NEW i \in 1..n PROVE s[i + 3] = c[i]
  <2>1. x + i \in 1..k /\ x + i = i + 3
    BY <1>9, <1>12
  <2> QED BY <1>11, <1>13, <2>1
<1>17. Len(s) = n + 4
  BY <1>9, <1>10, <1>12, <1>13
<1>18. SubSeq(s, 4, n + 3) = c
  <2>1. PICK b : b = SubSeq(s, 4, n + 3)
    OBVIOUS
  <2>2. x + n <= Len(s) /\ 4 = x + 1 /\ n + 3 = x + n
    BY <1>9, <1>17
  <2>3. IsSeq(b) /\ Len(b) = n /\ \A i \in 1..n : b[i] = s[x + i]
    <3>1. PartOf(b, s, x, n)
      BY <1>13, <2>1, <2>2, Sliced
    <3> QED BY <3>1 DEF PartOf
  <2>4. ASSUME NEW i \in 1..n PROVE b[i] = c[i]
    <3>1. x + i = i + 3
      BY <1>9
    <3> QED BY <1>16, <2>3, <3>1
  <2> QED BY <2>1, <2>3, <2>4, SameElements
<1>19. SubSeq(s, 3, n + 3) = <<h>> \o c
  <2>1. PICK b : b = SubSeq(s, 3, n + 3)
    OBVIOUS
  <2>2. PICK v \in Nat : v = 2
    OBVIOUS
  <2>3. PICK q \in Nat : q = n + 1
    OBVIOUS
  <2>4. v + q <= Len(s) /\ 3 = v + 1 /\ n + 3 = v + q
    BY <1>17, <2>2, <2>3
  <2>5. IsSeq(b) /\ Len(b) = q /\ \A i \in 1..q : b[i] = s[v + i]
    <3>1. PartOf(b, s, v, q)
      BY <1>13, <2>1, <2>4, Sliced
    <3> QED BY <3>1 DEF PartOf
  <2>6. PICK d : d = g \o c
    OBVIOUS
  <2>7. /\ IsSeq(d) /\ Len(d) = y + n
        /\ \A i \in 1..y : d[i] = g[i]
        /\ \A i \in 1..n : d[y + i] = c[i]
    <3>1. Joins(d, g, c)
      BY <1>6, <2>6, Joined
    <3> QED BY <1>6, <1>10, <3>1 DEF Joins
  <2>8. ASSUME NEW i \in 1..q PROVE b[i] = d[i]
    <3>1. CASE i = 1
      <4>1. 1 \in 1..y /\ v + 1 = 3
        BY <1>10, <2>2
      <4> QED BY <1>6, <1>14, <2>5, <2>7, <3>1, <4>1
    <3>2. CASE i # 1
      <4>1. PICK e \in 1..n : e = i - 1
        BY <2>3, <3>2
      <4>2. v + i = e + 3 /\ y + e = i
        BY <1>10, <2>2, <2>3, <4>1
      <4> QED BY <1>16, <2>5, <2>7, <4>2
    <3> QED BY <3>1, <3>2
  <2>9. Len(b) = Len(d)
    BY <1>10, <2>3, <2>5, <2>7
  <2>10. b = d
    BY <2>5, <2>7, <2>8, <2>9, SameElements
  <2> QED BY <1>5, <2>1, <2>6, <2>10
<1>20. Surrounds(s, c, n, m, u, h, t)
  BY <1>13, <1>14, <1>15, <1>16, <1>17, <1>18, <1>19 DEF Surrounds
<1> QED BY <1>20, <1>s

\* What encrypt_v4 and its like return is made well.
LEMMA EncryptMakes ==
  ASSUME NEW pw \in Passwords \ {Empty}, NEW payload \in Payloads,
         NEW iterations \in 1..MaxIterations, NEW form, NEW blanks
  PROVE  WellMade(EncryptV4(pw, payload, iterations, form, blanks))
<1> DEFINE w == EncryptV4(pw, payload, iterations, form, blanks)
<1> DEFINE header == HeaderOf(form, iterations, payload)
<1> DEFINE key == Key(pw, header)
<1> DEFINE padded == Pad(payload)
<1> DEFINE c == EncryptBlocks(key, header, padded, blanks)
<1> DEFINE t == [tag |-> Tag(key, <<[header |-> header]>> \o c)]
<1> DEFINE s == <<[magic |-> 4], [num |-> 1], [header |-> header]>> \o c \o <<t>>
<1>1. w = [password |-> pw, payload |-> payload, form |-> form, container |-> s]
  BY DEF EncryptV4
<1>2. IsSeq(payload)
  BY V4Assumption DEF IsSeq
<1>3. /\ IsSeq(padded) /\ Len(padded) \in Nat /\ Len(padded) % BlockBytes = 0
  <2>1. IsSeq(padded) /\ Len(padded) % BlockBytes = 0
    BY <1>2, PadAdds
  <2> QED BY <2>1, SeqFacts
<1>4. header.iterations = iterations
  BY DEF HeaderOf
<1> HIDE DEF header, padded, key
<1>5. /\ IsSeq(c) /\ Len(c) = Len(padded)
      /\ \A i \in 1..Len(padded) :
           /\ DOMAIN c[i] = {"seed", "plain", "part", "blank"}
           /\ c[i].plain[((i - 1) % BlockBytes) + 1] = padded[i]
      /\ \A k \in 1..(Len(padded) \div BlockBytes) :
           Genuine(c, k, key, header.nonce, Rounds(header.version))
  BY <1>3, CipherFacts
<1> DEFINE n == Len(padded)
<1> HIDE DEF c, t, w
<1>m. PICK m : m = [magic |-> 4]
  OBVIOUS
<1>u. PICK u : u = [num |-> 1]
  OBVIOUS
<1>h. PICK h : h = [header |-> header]
  OBVIOUS
<1>s. s = <<m, u, h>> \o c \o <<t>>
  BY <1>m, <1>u, <1>h
<1>k. n \in Nat /\ IsSeq(c) /\ Len(c) = n
  BY <1>3, <1>5
<1> HIDE DEF s, n
<1>6. /\ IsSeq(s) /\ Len(s) = n + 4
      /\ s[1] = [magic |-> 4] /\ s[2] = [num |-> 1] /\ s[3] = [header |-> header]
      /\ s[n + 4] = t
      /\ \A i \in 1..n : s[i + 3] = c[i]
      /\ SubSeq(s, 4, n + 3) = c
      /\ SubSeq(s, 3, n + 3) = <<[header |-> header]>> \o c
  <2>1. /\ IsSeq(s) /\ Len(s) = n + 4
        /\ s[1] = m /\ s[2] = u /\ s[3] = h /\ s[n + 4] = t
        /\ \A i \in 1..n : s[i + 3] = c[i]
        /\ SubSeq(s, 4, n + 3) = c
        /\ SubSeq(s, 3, n + 3) = <<h>> \o c
    <3>1. Surrounds(s, c, n, m, u, h, t)
      BY <1>s, <1>k, Around
    <3> QED BY <3>1 DEF Surrounds
  <2> QED BY <2>1, <1>m, <1>u, <1>h
<1> HIDE DEF s
<1>7. w.password = pw /\ w.payload = payload /\ w.form = form /\ w.container = s
  BY <1>1
<1>8. Header(s) = header /\ HeaderLength(s) = 1
  BY <1>6 DEF Header, HeaderLength
<1>9. Ciphertext(s) = c
  <2>1. 3 + 1 = 4 /\ (n + 4) - 1 = n + 3
    BY <1>k
  <2> QED BY <1>6, <1>8, <2>1 DEF Ciphertext
<1>10. TagCell(w) = t
  <2>1. (n + 4) - 1 = n + 3
    BY <1>k
  <2> QED BY <1>6, <1>7, <1>8, <2>1 DEF TagCell, t, key
<1>11. header = HeaderOf(form, header.iterations, payload) /\ header.iterations \in 1..MaxIterations
  BY <1>4 DEF header
<1>12. /\ w.password \in Passwords \ {Empty}
       /\ IsSeq(w.payload) /\ IsSeq(w.container)
       /\ Len(w.container) = Len(Pad(w.payload)) + 4
       /\ w.container[1] = [magic |-> 4] /\ w.container[2] = [num |-> 1]
       /\ w.container[3] = [header |-> Header(w.container)]
  BY <1>2, <1>6, <1>7, <1>8 DEF padded, n
<1>13. /\ Header(w.container) = HeaderOf(w.form, Header(w.container).iterations, w.payload)
       /\ Header(w.container).iterations \in 1..MaxIterations
  BY <1>7, <1>8, <1>11
<1>14. w.container[Len(w.container)] = TagCell(w)
  BY <1>6, <1>7, <1>10
<1>15. IsSeq(Ciphertext(w.container)) /\ Len(Ciphertext(w.container)) = Len(Pad(w.payload))
  BY <1>5, <1>7, <1>9 DEF padded
<1>16. ASSUME NEW i \in 1..Len(Ciphertext(w.container))
       PROVE  /\ w.container[i + 3] = Ciphertext(w.container)[i]
              /\ DOMAIN Ciphertext(w.container)[i] = {"seed", "plain", "part", "blank"}
              /\ Ciphertext(w.container)[i].plain[((i - 1) % BlockBytes) + 1]
                   = Pad(w.payload)[i]
  <2>1. i \in 1..n /\ i \in 1..Len(padded)
    BY <1>5, <1>7, <1>9 DEF n
  <2> QED BY <1>5, <1>6, <1>7, <1>9, <2>1 DEF padded
<1>17. \A k \in 1..(Len(Ciphertext(w.container)) \div BlockBytes) :
         Genuine(Ciphertext(w.container), k, Key(w.password, Header(w.container)),
                 Header(w.container).nonce, Rounds(Header(w.container).version))
  BY <1>5, <1>7, <1>8, <1>9 DEF key
<1>18. WellMade(w)
  BY <1>12, <1>13, <1>14, <1>15, <1>16, <1>17 DEF WellMade
<1> QED BY <1>18 DEF w

\* No cell of a container that was written is out of the ordinary.
LEMMA WrittenCells ==
  ASSUME NEW w \in written, WellMade(w), NEW k \in 1..Len(w.container)
  PROVE  Sound(w.container[k])
<1> DEFINE n == Len(Pad(w.payload))
<1> DEFINE cell == w.container[k]
<1>1. /\ Len(w.container) = n + 4 /\ IsSeq(w.payload)
      /\ w.container[1] = [magic |-> 4] /\ w.container[2] = [num |-> 1]
      /\ w.container[3] = [header |-> Header(w.container)]
      /\ w.container[n + 4] = TagCell(w)
      /\ \A i \in 1..n : DOMAIN w.container[i + 3] = {"seed", "plain", "part", "blank"}
  BY DEF WellMade
<1>2. n \in Nat
  BY <1>1, PadAdds, SeqFacts
<1> HIDE DEF n
<1>3. CASE k = 1
  BY <1>1, <1>3 DEF Sound, Is
<1>4. CASE k = 2
  BY <1>1, <1>4 DEF Sound, Is
<1>5. CASE k = 3
  BY <1>1, <1>5 DEF Sound, Is
<1>6. CASE k = n + 4
  <2>1. cell = TagCell(w) /\ DOMAIN cell = {"tag"}
    BY <1>1, <1>6 DEF TagCell
  <2> QED BY <2>1 DEF Sound, Is
<1>7. CASE k \in 4..n + 3
  <2>1. k - 3 \in 1..n /\ (k - 3) + 3 = k
    BY <1>2, <1>7
  <2>2. DOMAIN cell = {"seed", "plain", "part", "blank"}
    BY <1>1, <2>1
  <2> QED BY <2>2 DEF Sound, Is
<1> QED BY <1>1, <1>2, <1>3, <1>4, <1>5, <1>6, <1>7

\* A field of a cell that is changed leaves it sound.
LEMMA ChangedCell ==
  ASSUME NEW cell, Sound(cell)
  PROVE  /\ \A n \in Nat : Sound([cell EXCEPT !.num = n])
         /\ Is(cell, "header") => \A h : Sound([cell EXCEPT !.header = h])
<1>1. ASSUME NEW n \in Nat PROVE Sound([cell EXCEPT !.num = n])
  <2> DEFINE e == [cell EXCEPT !.num = n]
  <2>1. DOMAIN e = DOMAIN cell
    OBVIOUS
  <2>2. Is(e, "tag") => \E w \in written : e = TagCell(w)
    <3> SUFFICES ASSUME Is(e, "tag") PROVE \E w \in written : e = TagCell(w)
      OBVIOUS
    <3>1. PICK w \in written : cell = TagCell(w)
      BY <2>1 DEF Sound, Is
    <3>2. e = cell
      BY <3>1 DEF TagCell
    <3> QED BY <3>1, <3>2
  <2>3. Is(e, "num") => e = [num |-> e.num] /\ e.num \in Nat
    <3> SUFFICES ASSUME Is(e, "num") PROVE e = [num |-> e.num] /\ e.num \in Nat
      OBVIOUS
    <3>1. cell = [num |-> cell.num]
      BY <2>1 DEF Sound, Is
    <3>2. e = [num |-> n]
      BY <3>1
    <3> QED BY <3>2
  <2> QED BY <2>2, <2>3 DEF Sound
<1>2. ASSUME Is(cell, "header"), NEW h PROVE Sound([cell EXCEPT !.header = h])
  <2> DEFINE e == [cell EXCEPT !.header = h]
  <2>1. DOMAIN e = DOMAIN cell
    OBVIOUS
  <2>2. ~Is(cell, "tag")
    <3> SUFFICES ASSUME Is(cell, "tag") PROVE FALSE
      OBVIOUS
    <3>1. PICK w \in written : cell = TagCell(w)
      BY DEF Sound
    <3>2. DOMAIN cell = {"tag"}
      BY <3>1 DEF TagCell
    <3> QED BY <1>2, <3>2 DEF Is
  <2>3. ~Is(cell, "num")
    <3> SUFFICES ASSUME Is(cell, "num") PROVE FALSE
      OBVIOUS
    <3>1. cell = [num |-> cell.num]
      BY DEF Sound
    <3>2. DOMAIN cell = {"num"}
      BY <3>1
    <3> QED BY <1>2, <3>2 DEF Is
  <2> HIDE DEF e
  <2> QED BY <2>1, <2>2, <2>3 DEF Sound, Is
<1> QED BY <1>1, <1>2

-----------------------------------------------------------------------------
(* Every step keeps the invariant.                                         *)

\* It holds at first.
LEMMA InitInv == Init => IInv
<1> SUFFICES ASSUME Init PROVE IInv
  OBVIOUS
<1>1. written = {} /\ stored = << >> /\ damages = 0 /\ password \in Passwords
      /\ answer = [r \in Readers |-> Waiting]
  BY DEF Init
<1>2. MaxWritten \in Nat /\ MaxDamages \in Nat
  BY V4Assumption
<1>3. Made
  BY <1>1, <1>2, FS_EmptySet DEF Made
<1>4. Kept
  <2>1. << >> \in Seq({}) /\ Len(<< >>) = 0 /\ 1..0 = {}
    OBVIOUS
  <2> QED BY <1>1, <2>1 DEF Kept, IsSeq
<1> QED BY <1>1, <1>2, <1>3, <1>4 DEF IInv, Answered

\* Writing adds a container that is made well, while none is stored.
LEMMA WriteInv == ASSUME NEW forms, IInv, Write(forms) PROVE IInv'
<1>1. PICK pw \in Passwords \ {Empty}, payload \in Payloads,
           iterations \in Iterations \cap 1..MaxIterations, form \in forms,
           blanks \in 0..BlockBytes :
        written' = written \cup {EncryptV4(pw, payload, iterations, form, blanks)}
  BY DEF Write
<1> DEFINE new == EncryptV4(pw, payload, iterations, form, blanks)
<1>2. WellMade(new)
  BY EncryptMakes
<1> HIDE DEF new
<1>3. /\ stored = << >> /\ Cardinality(written) < MaxWritten
      /\ UNCHANGED <<stored, damages, password, answer>>
  BY DEF Write
<1>4. Made'
  <2>1. IsFiniteSet(written) /\ Cardinality(written) \in Nat /\ MaxWritten \in Nat
    BY V4Assumption, FS_CardinalityType DEF IInv, Made
  <2>2. IsFiniteSet(written') /\ Cardinality(written') <= MaxWritten
    <3>1. /\ IsFiniteSet(written \cup {new})
          /\ Cardinality(written \cup {new})
               = IF new \in written THEN Cardinality(written) ELSE Cardinality(written) + 1
      BY <2>1, FS_AddElement
    <3> QED BY <1>1, <1>3, <2>1, <3>1 DEF new
  <2>3. \A w \in written' : WellMade(w)
    BY <1>1, <1>2 DEF IInv, Made, new
  <2> QED BY <2>2, <2>3 DEF Made
<1>5. Kept'
  <2>1. IsSeq(stored') /\ Len(stored') = 0 /\ stored' = << >>
    BY <1>3 DEF IInv, Kept
  <2> QED BY <2>1 DEF Kept
<1> QED BY <1>3, <1>4, <1>5 DEF IInv, Answered

\* One of them is stored.
LEMMA StoreInv == ASSUME IInv, Store PROVE IInv'
<1>1. PICK w \in written : stored' = w.container
  BY DEF Store
<1>2. stored = << >> /\ UNCHANGED <<written, damages, password, answer>>
  BY DEF Store
<1>3. WellMade(w)
  BY DEF IInv, Made
<1>4. Kept'
  <2>1. IsSeq(stored') /\ stored'[1] = [magic |-> 4]
    BY <1>1, <1>3 DEF WellMade
  <2>2. \A k \in 1..Len(stored') : Sound(stored'[k])
    BY <1>1, <1>3, WrittenCells
  <2> QED BY <1>2, <2>1, <2>2 DEF Kept, Sound
<1>5. Made'
  BY <1>2 DEF IInv, Made
<1>6. Answered'
  BY <1>2 DEF IInv, Answered
<1> QED BY <1>2, <1>4, <1>5, <1>6 DEF IInv

\* A change that leaves the magic in place and every cell sound.
LEMMA ChangeInv ==
  ASSUME NEW cells, IInv, Change(cells), IsSeq(cells),
         cells # << >> => cells[1] = [magic |-> 4],
         \A k \in 1..Len(cells) : Sound(cells[k])
  PROVE  IInv'
<1>1. /\ answer["rust"] = Waiting /\ stored # << >> /\ damages < MaxDamages
      /\ stored' = cells /\ damages' = damages + 1
      /\ UNCHANGED <<written, password, answer>>
  BY DEF Change
<1>2. Made'
  BY <1>1 DEF IInv, Made
<1>3. Kept'
  BY <1>1 DEF Kept, Sound
<1>4. Answered'
  <2>1. answer = [r \in Readers |-> Waiting]
    BY <1>1 DEF IInv, Answered
  <2> QED BY <1>1, <2>1 DEF Answered
<1>5. damages' \in 0..MaxDamages
  BY <1>1, V4Assumption DEF IInv
<1> QED BY <1>1, <1>2, <1>3, <1>4, <1>5 DEF IInv

\* What is stored, when it is changed.
LEMMA StoredFacts ==
  ASSUME IInv, NEW cells, Change(cells)
  PROVE  /\ IsSeq(stored) /\ stored[1] = [magic |-> 4]
         /\ Len(stored) \in Nat \ {0}
         /\ \A k \in 1..Len(stored) : Sound(stored[k])
<1>1. stored # << >>
  BY DEF Change
<1>2. /\ IsSeq(stored) /\ stored[1] = [magic |-> 4]
      /\ \A k \in 1..Len(stored) : Sound(stored[k])
  BY <1>1 DEF IInv, Kept
<1>3. Len(stored) \in Nat
  BY <1>2, SeqFacts
<1>4. Len(stored) # 0
  <2>1. << >> \in Seq({}) /\ Len(<< >>) = 0
    OBVIOUS
  <2>2. IsSeq(<< >>)
    BY <2>1 DEF IsSeq
  <2>3. Len(stored) = 0 => \A i \in 1..Len(stored) : stored[i] = (<< >>)[i]
    OBVIOUS
  <2> QED BY <1>1, <1>2, <2>1, <2>2, <2>3, SameElements
<1> QED BY <1>2, <1>3, <1>4

\* Cells of a container that was written take the place of others.
LEMMA OverwriteInv == ASSUME IInv, Overwrite PROVE IInv'
<1>1. PICK w \in written, i \in 1..Len(stored), j \in 1..Len(stored) :
        /\ i <= j /\ j <= Len(w.container)
        /\ Change([k \in 1..Len(stored) |->
                    IF k \in i..j THEN w.container[k] ELSE stored[k]])
  BY DEF Overwrite
<1> DEFINE n == Len(stored)
<1> DEFINE cells == [k \in 1..n |-> IF k \in i..j THEN w.container[k] ELSE stored[k]]
<1>2. Change(cells)
  BY <1>1
<1>3. /\ stored[1] = [magic |-> 4] /\ n \in Nat \ {0}
      /\ \A k \in 1..n : Sound(stored[k])
  BY <1>2, StoredFacts
<1>4. WellMade(w) /\ w.container[1] = [magic |-> 4] /\ Len(w.container) \in Nat
  <2>1. WellMade(w)
    BY DEF IInv, Made
  <2>2. w.container[1] = [magic |-> 4] /\ IsSeq(w.container)
    BY <2>1 DEF WellMade
  <2> QED BY <2>1, <2>2, SeqFacts
<1>5. IsSeq(cells) /\ Len(cells) = n
  BY <1>3, FunctionIsSeq
<1>6. cells[1] = [magic |-> 4]
  BY <1>3, <1>4
<1>7. ASSUME NEW k \in 1..n PROVE Sound(cells[k])
  <2>1. CASE k \in i..j
    <3>1. k \in 1..Len(w.container)
      BY <1>1, <1>3, <1>4, <2>1
    <3>2. Sound(w.container[k])
      BY <1>4, <3>1, WrittenCells
    <3> QED BY <2>1, <3>2
  <2>2. CASE k \notin i..j
    BY <1>3, <2>2
  <2> QED BY <2>1, <2>2
<1> HIDE DEF cells
<1> QED BY <1>2, <1>5, <1>6, <1>7, ChangeInv

\* The container is cut off.
LEMMA CutInv == ASSUME IInv, Cut PROVE IInv'
<1>1. PICK i \in 1..Len(stored) - 1 : Change(SubSeq(stored, 1, i))
  BY DEF Cut
<1>2. /\ IsSeq(stored) /\ stored[1] = [magic |-> 4] /\ Len(stored) \in Nat \ {0}
      /\ \A k \in 1..Len(stored) : Sound(stored[k])
  BY <1>1, StoredFacts
<1>3. PICK z \in Nat : z = 0
  OBVIOUS
<1>4. i \in Nat /\ i > 0 /\ z + i <= Len(stored) /\ z + 1 = 1 /\ z + i = i
      /\ \A k \in 1..i : k \in 1..Len(stored) /\ z + k = k
  BY <1>2, <1>3
<1>5. PartOf(SubSeq(stored, z + 1, z + i), stored, z, i)
  BY <1>2, <1>4, Sliced
<1>6. PICK cells : cells = SubSeq(stored, 1, i)
  OBVIOUS
<1>7. IsSeq(cells) /\ Len(cells) = i /\ \A k \in 1..i : cells[k] = stored[k]
  BY <1>4, <1>5, <1>6 DEF PartOf
<1>8. cells[1] = [magic |-> 4] /\ \A k \in 1..i : Sound(cells[k])
  BY <1>2, <1>4, <1>7
<1> QED BY <1>1, <1>6, <1>7, <1>8, ChangeInv

\* Its last cell stands twice.
LEMMA ExtendInv == ASSUME IInv, Extend PROVE IInv'
<1>1. PICK n : n = Len(stored)
  OBVIOUS
<1>2. PICK cells : cells = Append(stored, stored[n])
  OBVIOUS
<1>3. Change(cells)
  BY <1>1, <1>2 DEF Extend
<1>4. /\ IsSeq(stored) /\ stored[1] = [magic |-> 4] /\ n \in Nat \ {0}
      /\ \A k \in 1..n : Sound(stored[k])
  BY <1>1, <1>3, StoredFacts
<1>5. /\ IsSeq(cells) /\ Len(cells) = n + 1
      /\ \A k \in 1..n : cells[k] = stored[k]
      /\ cells[n + 1] = stored[n]
  BY <1>1, <1>2, <1>4, Appended
<1>6. cells[1] = [magic |-> 4]
  BY <1>4, <1>5
<1>7. ASSUME NEW k \in 1..(n + 1) PROVE Sound(cells[k])
  BY <1>4, <1>5
<1> QED BY <1>3, <1>5, <1>6, <1>7, ChangeInv

\* One cell is another, and not the magic.
LEMMA SpoilInv ==
  ASSUME IInv, NEW e \in (1..Len(stored)) \ {1}, NEW cell,
         Change([stored EXCEPT ![e] = cell]), Sound(cell)
  PROVE  IInv'
<1>1. PICK cells : cells = [stored EXCEPT ![e] = cell]
  OBVIOUS
<1>2. PICK n : n = Len(stored)
  OBVIOUS
<1>c. Change(cells)
  BY <1>1
<1>3. /\ IsSeq(stored) /\ stored[1] = [magic |-> 4] /\ n \in Nat \ {0}
      /\ \A k \in 1..n : Sound(stored[k])
  BY <1>2, <1>c, StoredFacts
<1>4. stored = [k \in 1..n |-> stored[k]]
  BY <1>2, <1>3, SeqFacts
<1>5. /\ cells = [k \in 1..n |-> cells[k]] /\ cells[e] = cell
      /\ \A k \in 1..n : k # e => cells[k] = stored[k]
  BY <1>1, <1>2, <1>4
<1>6. IsSeq(cells) /\ Len(cells) = n
  BY <1>3, <1>5, FunctionIsSeq
<1>7. cells[1] = [magic |-> 4]
  BY <1>3, <1>5
<1>8. ASSUME NEW k \in 1..n PROVE Sound(cells[k])
  <2>1. CASE k = e
    BY <1>5, <2>1
  <2>2. CASE k # e
    BY <1>3, <1>5, <2>2
  <2> QED BY <2>1, <2>2
<1> QED BY <1>8, <1>c, <1>6, <1>7, ChangeInv

\* A length or a header is changed.
LEMMA SetLengthInv == ASSUME IInv, SetLength PROVE IInv'
<1>1. PICK n \in 0..(MaxHeader + 1) : Change([stored EXCEPT ![2].num = n])
  BY DEF SetLength
<1>2. Len(stored) > 1
  BY DEF SetLength
<1>3. n \in Nat
  BY V4Assumption
<1>4. PICK cell : cell = [stored[2] EXCEPT !.num = n]
  OBVIOUS
<1>5. Change([stored EXCEPT ![2] = cell])
  BY <1>1, <1>4
<1>6. 2 \in (1..Len(stored)) \ {1} /\ Sound(stored[2])
  BY <1>1, <1>2, StoredFacts
<1>7. Sound(cell)
  BY <1>3, <1>4, <1>6, ChangedCell
<1> QED BY <1>5, <1>6, <1>7, SpoilInv

\* The header is another, its length or its soundness.
LEMMA SpoilHeaderInv == ASSUME IInv, SpoilHeader PROVE IInv'
<1>1. Len(stored) > 2 /\ Is(stored[3], "header")
  BY DEF SpoilHeader
<1>2. \E h : Change([stored EXCEPT ![3].header = h])
  <2>1. ASSUME NEW n, Change([stored EXCEPT ![3].header.iterations = n])
        PROVE  \E h : Change([stored EXCEPT ![3].header = h])
    <3>1. [stored EXCEPT ![3].header.iterations = n]
            = [stored EXCEPT ![3].header = [stored[3].header EXCEPT !.iterations = n]]
      OBVIOUS
    <3> QED BY <2>1, <3>1
  <2>2. ASSUME NEW v, NEW s,
               Change([stored EXCEPT ![3].header.version = v, ![3].header.style = s])
        PROVE  \E h : Change([stored EXCEPT ![3].header = h])
    <3>1. [stored EXCEPT ![3].header.version = v, ![3].header.style = s]
            = [stored EXCEPT ![3].header =
                [stored[3].header EXCEPT !.version = v, !.style = s]]
      OBVIOUS
    <3> QED BY <2>2, <3>1
  <2>3. ASSUME Change([stored EXCEPT ![3].header.length = @ + 1])
        PROVE  \E h : Change([stored EXCEPT ![3].header = h])
    <3>1. [stored EXCEPT ![3].header.length = @ + 1]
            = [stored EXCEPT ![3].header = [stored[3].header EXCEPT !.length = @ + 1]]
      OBVIOUS
    <3> QED BY <2>3, <3>1
  <2>5. ASSUME Change([stored EXCEPT ![3].header.magic = FALSE])
        PROVE  \E h : Change([stored EXCEPT ![3].header = h])
    <3>1. [stored EXCEPT ![3].header.magic = FALSE]
            = [stored EXCEPT ![3].header = [stored[3].header EXCEPT !.magic = FALSE]]
      OBVIOUS
    <3> QED BY <2>5, <3>1
  <2>4. ASSUME Change([stored EXCEPT ![3].header.sound = FALSE])
        PROVE  \E h : Change([stored EXCEPT ![3].header = h])
    <3>1. [stored EXCEPT ![3].header.sound = FALSE]
            = [stored EXCEPT ![3].header = [stored[3].header EXCEPT !.sound = FALSE]]
      OBVIOUS
    <3> QED BY <2>4, <3>1
  <2> QED BY <2>1, <2>2, <2>3, <2>4, <2>5 DEF SpoilHeader
<1>3. PICK h : Change([stored EXCEPT ![3].header = h])
  BY <1>2
<1>4. PICK cell : cell = [stored[3] EXCEPT !.header = h]
  OBVIOUS
<1>5. Change([stored EXCEPT ![3] = cell])
  BY <1>3, <1>4
<1>6. 3 \in (1..Len(stored)) \ {1} /\ Sound(stored[3])
  BY <1>1, <1>3, StoredFacts
<1>7. Sound(cell)
  BY <1>1, <1>4, <1>6, ChangedCell
<1> QED BY <1>5, <1>6, <1>7, SpoilInv

-----------------------------------------------------------------------------
(* What a reader returns.                                                  *)

\* The parts of a container whose header is inside it.
LEMMA FramedParts ==
  ASSUME NEW c, IsSeq(c), Framed(c), NEW n, n = HeaderLength(c), NEW m, m = Len(c) - n - 3
  PROVE  /\ n \in Nat \ {0} /\ m \in Nat /\ Len(c) = n + m + 3
         /\ PartOf(HeaderBytes(c), c, 2, n)
         /\ PartOf(Ciphertext(c), c, n + 2, m)
<1>1. Len(c) \in Nat
  BY SeqFacts
<1>2. n \in 1..MaxHeader /\ MaxHeader \in Nat /\ 2 + n + 1 <= Len(c)
  BY V4Assumption DEF Framed
<1>3. n \in Nat \ {0} /\ m \in Nat /\ Len(c) = n + m + 3
  <2>1. n \in Nat /\ n # 0
    BY <1>2
  <2>2. n + 3 <= Len(c)
    BY <1>2, <2>1
  <2> QED BY <1>1, <2>1, <2>2
<1>4. PICK z \in Nat : z = 2
  OBVIOUS
<1>5. PartOf(HeaderBytes(c), c, 2, n)
  <2>1. z + n <= Len(c) /\ z + 1 = 3 /\ z + n = 2 + n
    BY <1>3, <1>4
  <2>2. PartOf(SubSeq(c, z + 1, z + n), c, z, n)
    BY <1>3, <2>1, Sliced
  <2> QED BY <1>4, <2>1, <2>2 DEF HeaderBytes
<1>6. PICK x \in Nat, y \in Nat : x = n /\ y = m
  BY <1>3
<1>7. PICK l \in Nat : l = Len(c)
  BY <1>1
<1>8. l = x + y + 3
  BY <1>3, <1>6, <1>7
<1>9. PICK a \in Nat : a = x + 2
  OBVIOUS
<1>10. a + y <= l /\ a + 1 = 3 + x /\ a + y = l - 1
  BY <1>8, <1>9
<1>11. PartOf(Ciphertext(c), c, a, y)
  <2>1. PartOf(SubSeq(c, a + 1, a + y), c, a, y)
    BY <1>7, <1>10, Sliced
  <2> QED BY <1>6, <1>7, <1>10, <2>1 DEF Ciphertext
<1>12. PartOf(Ciphertext(c), c, n + 2, m)
  BY <1>6, <1>9, <1>11
<1> QED BY <1>3, <1>5, <1>12

\* Opening blocks gives as many bytes, whatever the blocks are.
LEMMA AnyOpening ==
  ASSUME NEW cells, IsSeq(cells), NEW key, NEW nonce, NEW rounds,
         NEW padded \in DecryptBlocks(cells, key, nonce, rounds)
  PROVE  IsSeq(padded) /\ Len(padded) = Len(cells)
<1>1. padded = [i \in 1..Len(cells) |-> padded[i]]
  BY DEF DecryptBlocks
<1>2. Len(cells) \in Nat
  BY SeqFacts
<1> QED BY <1>1, <1>2, FunctionIsSeq

\* The fields of what is returned with an error.
LEMMA RefusedIs ==
  /\ \A e, p : Refused(e, p).verdict = e /\ Refused(e, p).padded = p
  /\ \A e, p : Refused(e, p).data = << >>
  /\ \A e : Error(e).verdict = e /\ Error(e).padded = << >> /\ IsSeq(<< >>)
  /\ \A e : Error(e).data = << >>
<1>1. IsSeq(<< >>)
  <2>1. << >> \in Seq({})
    OBVIOUS
  <2> QED BY <2>1 DEF IsSeq
<1> QED BY <1>1 DEF Refused, Error

\* What was decrypted is a sequence, and data was unpadded from it.
Plain(out, errors) ==
  /\ out.verdict \in {"ok"} \cup errors
  /\ IsSeq(out.padded)
  /\ out.verdict = "ok" => UnpadVerdict(out.padded) = "ok" /\ out.data = Unpad(out.padded)

\* An error is no data.
LEMMA ErrorPlain ==
  ASSUME NEW errors, NEW e \in errors, e # "ok"
  PROVE  Plain(Error(e), errors)
BY RefusedIs DEF Plain

\* Unpadding gives data or one of two errors.
LEMMA UnpaddedPlain ==
  ASSUME NEW h, NEW padded, IsSeq(padded), NEW error, NEW errors,
         error["Format"] \in errors, error["Authentication"] \in errors, "ok" \notin errors
  PROVE  Plain(Unpadded(h, padded, error), errors)
<1>1. UnpadVerdict(padded) \in {"ok", "Format", "Authentication"}
  BY DEF UnpadVerdict
<1>2. CASE UnpadVerdict(padded) # "ok"
  <2>1. Unpadded(h, padded, error) = Refused(error[UnpadVerdict(padded)], padded)
    BY <1>2 DEF Unpadded
  <2>2. error[UnpadVerdict(padded)] \in errors
    BY <1>1, <1>2
  <2> QED BY <2>1, <2>2, RefusedIs DEF Plain
<1>3. CASE UnpadVerdict(padded) = "ok" /\ Len(Unpad(padded)) # h.length
  <2>1. Unpadded(h, padded, error) = Refused(error["Authentication"], padded)
    BY <1>3 DEF Unpadded
  <2> QED BY <2>1, RefusedIs DEF Plain
<1>4. CASE UnpadVerdict(padded) = "ok" /\ Len(Unpad(padded)) = h.length
  <2>1. Unpadded(h, padded, error)
          = [verdict |-> "ok", data |-> Unpad(padded), padded |-> padded]
    BY <1>4 DEF Unpadded
  <2> QED BY <1>4, <2>1 DEF Plain
<1> QED BY <1>2, <1>3, <1>4

\* The ways decrypt_v4 ends, in the order of its checks.
RustAnswers(c, pw, out) ==
  LET h == Header(c)
  IN  \/ ~Framed(c) /\ out = Error("Format")
      \/ Framed(c) /\ HeaderV4Error(h) # "none" /\ out = Error(HeaderV4Error(h))
      \/ /\ Framed(c) /\ HeaderV4Error(h) = "none"
         /\ \/ pw = Empty /\ out = Error("InvalidPassword")
            \/ pw # Empty /\ ~TagMatches(c, pw) /\ out = Error("Authentication")
            \/ /\ pw # Empty /\ TagMatches(c, pw)
               /\ \/ ~Aligned(Ciphertext(c)) /\ out = Error("Format")
                  \/ /\ Aligned(Ciphertext(c))
                     /\ \E padded \in DecryptBlocks(Ciphertext(c), Key(pw, h), h.nonce, 4) :
                          out = Unpadded(h, padded, RustError)

\* There is no other.
LEMMA RustCases ==
  ASSUME NEW c, NEW pw, NEW out \in DecryptV4(c, pw)
  PROVE  RustAnswers(c, pw, out)
<1>1. CASE ~Framed(c)
  BY <1>1 DEF DecryptV4, RustAnswers
<1>2. CASE Framed(c) /\ HeaderV4Error(Header(c)) # "none"
  BY <1>2 DEF DecryptV4, RustAnswers
<1>3. CASE Framed(c) /\ HeaderV4Error(Header(c)) = "none" /\ pw = Empty
  BY <1>3 DEF DecryptV4, RustAnswers
<1>4. CASE /\ Framed(c) /\ HeaderV4Error(Header(c)) = "none" /\ pw # Empty
           /\ ~TagMatches(c, pw)
  BY <1>4 DEF DecryptV4, RustAnswers
<1>5. CASE /\ Framed(c) /\ HeaderV4Error(Header(c)) = "none" /\ pw # Empty
           /\ TagMatches(c, pw) /\ ~Aligned(Ciphertext(c))
  BY <1>5 DEF DecryptV4, RustAnswers
<1>6. CASE /\ Framed(c) /\ HeaderV4Error(Header(c)) = "none" /\ pw # Empty
           /\ TagMatches(c, pw) /\ Aligned(Ciphertext(c))
  BY <1>6 DEF DecryptV4, RustAnswers
<1> QED BY <1>1, <1>2, <1>3, <1>4, <1>5, <1>6

\* The ways decrypt_bytes ends: the blocks left to the native module are
\* opened with the rounds of their version too.
PythonAnswers(c, pw, native, out) ==
  LET h == Header(c)
  IN  \/ ~Framed(c) /\ out = Error("FormatError")
      \/ Framed(c) /\ HeaderError(h) # "none" /\ out = Error(HeaderError(h))
      \/ /\ Framed(c) /\ HeaderError(h) = "none"
         /\ \/ pw = Empty /\ out = Error("ValueError")
            \/ pw # Empty /\ ~TagMatches(c, pw) /\ out = Error("AuthenticationError")
            \/ /\ pw # Empty /\ TagMatches(c, pw)
               /\ \/ /\ ~Aligned(Ciphertext(c))
                     /\ out = Error(IF UsesNative(native, h.version)
                                    THEN "ValueError" ELSE "FormatError")
                  \/ /\ Aligned(Ciphertext(c))
                     /\ \E padded \in DecryptBlocks(Ciphertext(c), Key(pw, h), h.nonce,
                                                     Rounds(h.version)) :
                          out = Unpadded(h, padded, PythonError)

\* There is no other.
LEMMA PythonCases ==
  ASSUME NEW c, NEW pw, NEW native, NEW out \in DecryptBytes(c, pw, native)
  PROVE  PythonAnswers(c, pw, native, out)
<1> DEFINE h == Header(c)
<1> DEFINE toNative == UsesNative(native, h.version)
<1> DEFINE error == IF toNative THEN NativeError(h.version, Ciphertext(c))
                    ELSE IF Aligned(Ciphertext(c)) THEN "none" ELSE "FormatError"
<1>1. CASE ~Framed(c)
  BY <1>1 DEF DecryptBytes, PythonAnswers
<1>2. CASE Framed(c) /\ HeaderError(h) # "none"
  BY <1>2 DEF DecryptBytes, PythonAnswers
<1>3. CASE Framed(c) /\ HeaderError(h) = "none" /\ pw = Empty
  BY <1>3 DEF DecryptBytes, PythonAnswers
<1>4. CASE Framed(c) /\ HeaderError(h) = "none" /\ pw # Empty /\ ~TagMatches(c, pw)
  BY <1>4 DEF DecryptBytes, PythonAnswers
<1>5. /\ toNative => h.version = 4
      /\ (IF toNative THEN 4 ELSE Rounds(h.version)) = Rounds(h.version)
      /\ error = IF Aligned(Ciphertext(c)) THEN "none"
                 ELSE IF toNative THEN "ValueError" ELSE "FormatError"
  BY DEF UsesNative, Rounds, NativeError
<1>6. CASE /\ Framed(c) /\ HeaderError(h) = "none" /\ pw # Empty /\ TagMatches(c, pw)
           /\ ~Aligned(Ciphertext(c))
  <2>1. error # "none" /\ error = IF toNative THEN "ValueError" ELSE "FormatError"
    BY <1>5, <1>6
  <2>2. out = Error(error)
    BY <1>6, <2>1 DEF DecryptBytes
  <2> HIDE DEF error
  <2> QED BY <1>6, <2>1, <2>2 DEF PythonAnswers
<1>7. CASE /\ Framed(c) /\ HeaderError(h) = "none" /\ pw # Empty /\ TagMatches(c, pw)
           /\ Aligned(Ciphertext(c))
  <2>1. error = "none"
    BY <1>5, <1>7
  <2>2. \E padded \in DecryptBlocks(Ciphertext(c), Key(pw, h), h.nonce,
                                    IF toNative THEN 4 ELSE Rounds(h.version)) :
          out = Unpadded(h, padded, PythonError)
    BY <1>7, <2>1 DEF DecryptBytes
  <2> HIDE DEF error
  <2> QED BY <1>5, <1>7, <2>2 DEF PythonAnswers
<1> QED BY <1>1, <1>2, <1>3, <1>4, <1>6, <1>7

\* decrypt_v4 returns data or one of the errors of krcm-core.
LEMMA RustPlain ==
  ASSUME NEW c, IsSeq(c), NEW pw, NEW out \in DecryptV4(c, pw)
  PROVE  Plain(out, RustErrors)
<1>1. {"Format", "UnsupportedVersion", "InvalidPassword", "Authentication"} \subseteq RustErrors
      /\ "ok" \notin RustErrors
  BY DEF RustErrors
<1>2. \/ \E e \in RustErrors : out = Error(e)
      \/ /\ Framed(c)
         /\ \E padded \in DecryptBlocks(Ciphertext(c), Key(pw, Header(c)),
                                         Header(c).nonce, 4) :
              out = Unpadded(Header(c), padded, RustError)
  <2>1. HeaderV4Error(Header(c)) \in {"none", "Format", "UnsupportedVersion"}
    BY DEF HeaderV4Error
  <2> QED BY <1>1, <2>1, RustCases DEF RustAnswers
<1>3. CASE \E e \in RustErrors : out = Error(e)
  BY <1>1, <1>3, ErrorPlain
<1>4. ASSUME Framed(c), NEW key, NEW nonce, NEW rounds,
             NEW padded \in DecryptBlocks(Ciphertext(c), key, nonce, rounds),
             out = Unpadded(Header(c), padded, RustError)
      PROVE  Plain(out, RustErrors)
  <2>1. IsSeq(Ciphertext(c))
    BY <1>4, FramedParts DEF PartOf
  <2>2. IsSeq(padded)
    BY <2>1, AnyOpening
  <2>3. RustError["Format"] = "Format" /\ RustError["Authentication"] = "Authentication"
    BY DEF RustError
  <2> QED BY <1>1, <1>4, <2>2, <2>3, UnpaddedPlain
<1> QED BY <1>2, <1>3, <1>4

\* decrypt_bytes returns data or one of the errors of core.py.
LEMMA PythonPlain ==
  ASSUME NEW c, IsSeq(c), NEW pw, NEW native, NEW out \in DecryptBytes(c, pw, native)
  PROVE  Plain(out, PythonErrors)
<1>1. {"FormatError", "ValueError", "AuthenticationError", "AttributeError"} \subseteq PythonErrors
      /\ "ok" \notin PythonErrors
  BY DEF PythonErrors
<1>2. \/ \E e \in PythonErrors : out = Error(e)
      \/ /\ Framed(c)
         /\ \E padded \in DecryptBlocks(Ciphertext(c), Key(pw, Header(c)), Header(c).nonce,
                                         Rounds(Header(c).version)) :
              out = Unpadded(Header(c), padded, PythonError)
  <2>1. HeaderError(Header(c)) \in {"none", "AttributeError", "FormatError"}
    BY DEF HeaderError
  <2> QED BY <1>1, <2>1, PythonCases DEF PythonAnswers
<1>3. CASE \E e \in PythonErrors : out = Error(e)
  BY <1>1, <1>3, ErrorPlain
<1>4. ASSUME Framed(c), NEW key, NEW nonce, NEW rounds,
             NEW padded \in DecryptBlocks(Ciphertext(c), key, nonce, rounds),
             out = Unpadded(Header(c), padded, PythonError)
      PROVE  Plain(out, PythonErrors)
  <2>1. IsSeq(Ciphertext(c))
    BY <1>4, FramedParts DEF PartOf
  <2>2. IsSeq(padded)
    BY <2>1, AnyOpening
  <2>3. PythonError["Format"] = "FormatError"
        /\ PythonError["Authentication"] = "AuthenticationError"
    BY DEF PythonError
  <2> QED BY <1>1, <1>4, <2>2, <2>3, UnpaddedPlain
<1> QED BY <1>2, <1>3, <1>4

\* Opening answers from what is stored.
LEMMA OpenInv == ASSUME IInv, Open PROVE IInv'
<1>1. /\ stored # << >>
      /\ UNCHANGED <<written, stored, damages, password>>
  BY DEF Open
<1>2. PICK rust   \in DecryptV4(stored, password),
           python \in DecryptBytes(stored, password, FALSE),
           native \in DecryptBytes(stored, password, TRUE) :
        answer' = [r \in Readers |->
                    CASE r = "rust"     -> rust
                      [] r = "bindings" -> Exported(rust)
                      [] r = "python"   -> python
                      [] r = "native"   -> native]
  BY DEF Open
<1>3. /\ answer'["rust"] = rust /\ answer'["bindings"] = Exported(rust)
      /\ answer'["python"] = python /\ answer'["native"] = native
  BY <1>2 DEF Readers
<1>4. rust # Waiting
  <2>1. Plain(rust, RustErrors)
    BY RustPlain DEF IInv, Kept
  <2>2. rust.verdict # "none" /\ Waiting.verdict = "none"
    BY <2>1, RefusedIs DEF Plain, RustErrors, Waiting
  <2> QED BY <2>2
<1>5. Made'
  BY <1>1 DEF IInv, Made
<1>6. Kept'
  BY <1>1 DEF IInv, Kept, Sound
<1>7. Answered'
  <2>1. /\ answer'["rust"] \in DecryptV4(stored', password')
        /\ answer'["python"] \in DecryptBytes(stored', password', FALSE)
        /\ answer'["native"] \in DecryptBytes(stored', password', TRUE)
    BY <1>1, <1>2, <1>3
  <2> QED BY <1>1, <1>3, <1>4, <2>1 DEF Answered
<1> QED BY <1>1, <1>5, <1>6, <1>7 DEF IInv

\* Every step keeps the invariant.
LEMMA NextInv == ASSUME IInv, [Next]_vars PROVE IInv'
<1>1. CASE Encrypt
  BY <1>1, WriteInv DEF Encrypt
<1>2. CASE EncryptElsewhere
  BY <1>2, WriteInv DEF EncryptElsewhere
<1>3. CASE Store
  BY <1>3, StoreInv
<1>4. CASE Overwrite
  BY <1>4, OverwriteInv
<1>5. CASE Cut
  BY <1>5, CutInv
<1>6. CASE Extend
  BY <1>6, ExtendInv
<1>7. CASE SetLength
  BY <1>7, SetLengthInv
<1>8. CASE SpoilHeader
  BY <1>8, SpoilHeaderInv
<1>9. CASE Open
  BY <1>9, OpenInv
<1>10. CASE UNCHANGED vars
  <2>1. UNCHANGED <<written, stored, damages, password, answer>>
    BY <1>10 DEF vars
  <2> QED BY <2>1 DEF IInv, Made, Kept, Sound, Answered
<1> QED BY <1>1, <1>2, <1>3, <1>4, <1>5, <1>6, <1>7, <1>8, <1>9, <1>10 DEF Next

\* The invariant of every reachable state.
THEOREM Invariant == Spec => []IInv
<1>1. Init => IInv
  BY InitInv
<1>2. IInv /\ [Next]_vars => IInv'
  BY NextInv
<1> QED BY <1>1, <1>2, PTL DEF Spec

-----------------------------------------------------------------------------
(* Types and padding.                                                      *)

\* What each reader has answered is plain.
LEMMA AnswersPlain ==
  ASSUME IInv, NEW r \in Readers
  PROVE  \/ answer[r] = Waiting
         \/ Plain(answer[r], IF r = "rust" THEN RustErrors ELSE PythonErrors)
<1>1. CASE answer = [q \in Readers |-> Waiting]
  BY <1>1
<1>2. CASE /\ answer["rust"] \in DecryptV4(stored, password)
           /\ answer["bindings"] = Exported(answer["rust"])
           /\ answer["python"] \in DecryptBytes(stored, password, FALSE)
           /\ answer["native"] \in DecryptBytes(stored, password, TRUE)
  <2>1. Plain(answer["rust"], RustErrors)
    BY <1>2, RustPlain DEF IInv, Kept
  <2>2. Plain(answer["python"], PythonErrors) /\ Plain(answer["native"], PythonErrors)
    BY <1>2, PythonPlain DEF IInv, Kept
  <2>3. Plain(answer["bindings"], PythonErrors)
    <3>1. CASE answer["rust"].verdict = "ok"
      <4>1. answer["bindings"] = answer["rust"]
        BY <1>2, <3>1 DEF Exported
      <4> QED BY <2>1, <3>1, <4>1 DEF Plain
    <3>2. CASE answer["rust"].verdict # "ok"
      <4>1. answer["bindings"] = Refused("ValueError", answer["rust"].padded)
        BY <1>2, <3>2 DEF Exported
      <4>2. "ValueError" \in PythonErrors
        BY DEF PythonErrors
      <4> QED BY <2>1, <4>1, <4>2, RefusedIs DEF Plain
    <3> QED BY <3>1, <3>2
  <2> QED BY <2>1, <2>2, <2>3 DEF Readers
<1> QED BY <1>1, <1>2 DEF IInv, Answered

\* The types follow from the invariant.
LEMMA IInvTypes == ASSUME IInv PROVE TypeOK
<1>1. ASSUME NEW w \in written
      PROVE  Aligned(Ciphertext(w.container)) /\ Len(Ciphertext(w.container)) > Len(w.payload)
  <2>1. IsSeq(w.payload) /\ Len(Ciphertext(w.container)) = Len(Pad(w.payload))
    BY DEF IInv, Made, WellMade
  <2>2. /\ Len(Pad(w.payload)) % BlockBytes = 0
        /\ Len(Pad(w.payload)) = Len(w.payload) + PadLength(w.payload)
        /\ PadLength(w.payload) \in 1..BlockBytes
    BY <2>1, PadAdds
  <2>3. PICK n \in Nat, k \in Nat : n = Len(w.payload) /\ k = PadLength(w.payload)
    BY <2>1, <2>2, SeqFacts, BlockAssumption
  <2>4. k >= 1 /\ n + k > n
    BY <2>2, <2>3, BlockAssumption
  <2> QED BY <2>1, <2>2, <2>3, <2>4 DEF Aligned
<1>2. ASSUME NEW r \in Readers
      PROVE  /\ answer[r].verdict \in {"none", "ok"} \cup
                  IF r = "rust" THEN RustErrors ELSE PythonErrors
             /\ answer[r].verdict = "ok" => Len(answer[r].data) < Len(answer[r].padded)
  <2>1. CASE answer[r] = Waiting
    BY <2>1, RefusedIs DEF Waiting
  <2>2. CASE Plain(answer[r], IF r = "rust" THEN RustErrors ELSE PythonErrors)
    BY <2>2, UnpadPads DEF Plain
  <2> QED BY <2>1, <2>2, AnswersPlain
<1> QED BY <1>1, <1>2 DEF TypeOK, IInv, Made

\* The variables keep their types; a ciphertext is whole blocks, and data is
\* shorter than what it was unpadded from.
THEOREM TypeCorrect == Spec => []TypeOK
BY Invariant, IInvTypes, PTL

\* What unpad accepts, pad makes again.
LEMMA IInvPadding == ASSUME IInv PROVE PadUnpad
<1> SUFFICES ASSUME NEW r \in Readers, UnpadVerdict(answer[r].padded) = "ok"
             PROVE  Pad(Unpad(answer[r].padded)) = answer[r].padded
  BY DEF PadUnpad
<1>1. IsSeq(answer[r].padded)
  <2>1. CASE answer[r] = Waiting
    BY <2>1, RefusedIs DEF Waiting
  <2>2. CASE Plain(answer[r], IF r = "rust" THEN RustErrors ELSE PythonErrors)
    BY <2>2 DEF Plain
  <2> QED BY <2>1, <2>2, AnswersPlain
<1> QED BY <1>1, UnpadPads

\* unpad takes off only what pad puts on, of blocks of any size and whatever
\* bytes a container opened at the wrong place gives.
THEOREM UnpadInverse == Spec => []PadUnpad
BY Invariant, IInvPadding, PTL

-----------------------------------------------------------------------------
(* What the tag binds.                                                     *)

\* The tag is made over the cells from the header to the last but one, however
\* many of them the length takes for the header.
LEMMA TaggedCells ==
  ASSUME NEW c, IsSeq(c), Framed(c)
  PROVE  /\ Len(c) - 3 \in Nat
         /\ PartOf(HeaderBytes(c) \o Ciphertext(c), c, 2, Len(c) - 3)
<1>1. PICK n, m : n = HeaderLength(c) /\ m = Len(c) - n - 3
  OBVIOUS
<1>2. /\ n \in Nat \ {0} /\ m \in Nat /\ Len(c) = n + m + 3
      /\ PartOf(HeaderBytes(c), c, 2, n)
      /\ PartOf(Ciphertext(c), c, n + 2, m)
  BY <1>1, FramedParts
<1>3. PICK l, h, p : l = Len(c) /\ h = HeaderBytes(c) /\ p = Ciphertext(c)
  OBVIOUS
<1>4. PICK a \in Nat, b \in Nat : a = n /\ b = m
  BY <1>2
<1>5. PICK f \in Nat, g \in Nat : f = 2 /\ g = a + 2
  OBVIOUS
<1>6. l = a + b + 3 /\ PartOf(h, c, f, a) /\ PartOf(p, c, g, b)
  BY <1>2, <1>3, <1>4, <1>5
<1>7. /\ IsSeq(h) /\ Len(h) = a /\ \A i \in 1..a : h[i] = c[f + i]
      /\ IsSeq(p) /\ Len(p) = b /\ \A i \in 1..b : p[i] = c[g + i]
  BY <1>6 DEF PartOf
<1>8. PICK s : s = h \o p
  OBVIOUS
<1>9. /\ IsSeq(s) /\ Len(s) = a + b
      /\ \A i \in 1..a : s[i] = h[i]
      /\ \A i \in 1..b : s[a + i] = p[i]
  <2>1. Joins(s, h, p)
    BY <1>7, <1>8, Joined
  <2> QED BY <1>7, <2>1 DEF Joins
<1>10. ASSUME NEW i \in 1..(a + b) PROVE s[i] = c[f + i]
  <2>1. CASE i <= a
    <3>1. i \in 1..a
      BY <2>1
    <3> QED BY <1>7, <1>9, <3>1
  <2>2. CASE ~(i <= a)
    <3>1. PICK j \in 1..b : i = a + j
      <4>1. i - a \in 1..b /\ i = a + (i - a)
        BY <2>2
      <4> QED BY <4>1
    <3>2. g + j = f + i
      BY <1>5, <3>1
    <3> QED BY <1>7, <1>9, <3>1, <3>2
  <2> QED BY <2>1, <2>2
<1>11. PICK e \in Nat : e = a + b
  OBVIOUS
<1>12. l - 3 = e
  BY <1>6, <1>11
<1>13. PartOf(s, c, f, e)
  BY <1>9, <1>10, <1>11 DEF PartOf
<1> QED BY <1>3, <1>5, <1>8, <1>11, <1>12, <1>13

\* What a container has in common with one that was written with a password.
Bound(c, w, pw) ==
  /\ w.password = pw /\ Len(c) = Len(w.container)
  /\ Header(c) = Header(w.container)
  /\ \A k \in 1..Len(c) : k # 2 => c[k] = w.container[k]
  /\ HeaderLength(c) = 1 => c = w.container

\* A tag that matches was written, over the same cells and with the same
\* password: all that is left open is the length of the header.
LEMMA TagBinds ==
  ASSUME IInv, NEW pw, Framed(stored), TagMatches(stored, pw)
  PROVE  \E w \in written : WellMade(w) /\ Bound(stored, w, pw)
<1>1. PICK c : c = stored
  OBVIOUS
<1>2. PICK l : l = Len(c)
  OBVIOUS
<1>3. Framed(c) /\ TagMatches(c, pw) /\ IsSeq(c) /\ l \in Nat
  BY <1>1, <1>2, SeqFacts DEF IInv, Kept
<1>4. l >= 3
  BY <1>2, <1>3 DEF Framed
<1>5. c # << >>
  <2>1. Len(<< >>) = 0
    OBVIOUS
  <2> QED BY <1>2, <1>4, <2>1
<1>6. c[1] = [magic |-> 4] /\ \A k \in 1..l : Sound(c[k])
  BY <1>1, <1>2, <1>5 DEF IInv, Kept
<1>7. c[l] = [tag |-> Tag(Key(pw, Header(c)), HeaderBytes(c) \o Ciphertext(c))]
  BY <1>2, <1>3 DEF TagMatches
<1>8. PICK w \in written : c[l] = TagCell(w)
  <2>1. l \in 1..l
    BY <1>3, <1>4
  <2>2. Is(c[l], "tag")
    BY <1>7 DEF Is
  <2> QED BY <1>6, <2>1, <2>2 DEF Sound
<1>9. WellMade(w)
  BY DEF IInv, Made
<1>10. PICK d : d = w.container
  OBVIOUS
<1>11. PICK q : q = Len(d)
  OBVIOUS
<1>12. /\ IsSeq(d) /\ q \in Nat /\ d[1] = [magic |-> 4] /\ d[2] = [num |-> 1]
       /\ d[q] = TagCell(w) /\ q >= 4
  <2>1. /\ IsSeq(d) /\ d[1] = [magic |-> 4] /\ d[2] = [num |-> 1]
        /\ d[q] = TagCell(w) /\ q = Len(Pad(w.payload)) + 4 /\ IsSeq(w.payload)
    BY <1>9, <1>10, <1>11 DEF WellMade
  <2>2. Len(Pad(w.payload)) \in Nat
    BY <2>1, PadAdds, SeqFacts
  <2> QED BY <2>1, <2>2
<1>13. PICK s, t : s = HeaderBytes(c) \o Ciphertext(c) /\ t = SubSeq(d, 3, q - 1)
  OBVIOUS
<1>14. s = t /\ pw = w.password
  <2>1. TagCell(w) = [tag |-> Tag(Key(w.password, Header(d)), t)]
    BY <1>10, <1>11, <1>13 DEF TagCell
  <2>2. c[l] = [tag |-> Tag(Key(pw, Header(c)), s)]
    BY <1>7, <1>13
  <2>3. Tag(Key(pw, Header(c)), s) = Tag(Key(w.password, Header(d)), t)
    <3>1. c[l].tag = Tag(Key(pw, Header(c)), s) /\ c[l].tag = Tag(Key(w.password, Header(d)), t)
      BY <1>8, <2>1, <2>2
    <3> QED BY <3>1
  <2>4. s = t /\ Key(pw, Header(c)) = Key(w.password, Header(d))
    BY <2>3 DEF Tag
  <2>5. \A x, h : Key(x, h).password = x
    BY DEF Key
  <2> QED BY <2>4, <2>5
<1>15. PICK f \in Nat : f = 2
  OBVIOUS
<1>16. PICK e \in Nat : e = l - 3
  BY <1>3, <1>4
<1>17. IsSeq(s) /\ Len(s) = e /\ \A i \in 1..e : s[i] = c[f + i]
  <2>1. PartOf(s, c, f, e)
    BY <1>2, <1>3, <1>13, <1>15, <1>16, TaggedCells
  <2> QED BY <2>1 DEF PartOf
<1>18. PICK g \in Nat : g = q - 3
  BY <1>12
<1>19. IsSeq(t) /\ Len(t) = g /\ \A i \in 1..g : t[i] = d[f + i]
  <2>1. f + g <= q /\ f + 1 = 3 /\ f + g = q - 1
    BY <1>12, <1>15, <1>18
  <2>2. PartOf(SubSeq(d, f + 1, f + g), d, f, g)
    BY <1>11, <1>12, <2>1, Sliced
  <2> QED BY <1>13, <2>1, <2>2 DEF PartOf
<1>20. e = g /\ l = q
  <2>1. e = g
    BY <1>14, <1>17, <1>19
  <2> QED BY <1>3, <1>12, <1>16, <1>18, <2>1
<1>21. ASSUME NEW k \in 1..l, k # 2 PROVE c[k] = d[k]
  <2>1. CASE k = 1
    BY <1>6, <1>12, <2>1
  <2>2. CASE k = l
    BY <1>8, <1>12, <1>20, <2>2
  <2>3. CASE k # 1 /\ k # l
    <3>1. PICK i \in 1..e : k = f + i
      <4>1. k - 2 \in 1..e /\ k = f + (k - 2)
        BY <1>3, <1>15, <1>16, <1>21, <2>3
      <4> QED BY <4>1
    <3> QED BY <1>14, <1>17, <1>19, <1>20, <3>1
  <2> QED BY <2>1, <2>2, <2>3
<1>22. Header(c) = Header(d)
  <2>1. 3 \in 1..l
    BY <1>3, <1>4
  <2>2. c[3] = d[3]
    BY <1>21, <2>1
  <2> QED BY <2>2 DEF Header
<1>23. ASSUME HeaderLength(c) = 1 PROVE c = d
  <2>1. 2 \in 1..l
    BY <1>3, <1>4
  <2>2. c[2] = [num |-> c[2].num]
    <3>1. Is(c[2], "num")
      BY <1>3 DEF Framed
    <3> QED BY <1>6, <2>1, <3>1 DEF Sound
  <2>3. c[2] = d[2]
    BY <1>12, <1>23, <2>2 DEF HeaderLength
  <2>4. \A k \in 1..l : c[k] = d[k]
    BY <1>21, <2>3
  <2> QED BY <1>2, <1>3, <1>11, <1>12, <1>20, <2>4, SameElements
<1> QED BY <1>1, <1>2, <1>9, <1>10, <1>11, <1>14, <1>20, <1>21, <1>22, <1>23 DEF Bound

-----------------------------------------------------------------------------
(* What opening gives when the tag matches.                                *)

\* Between two multiples there is room for one more block.
LEMMA Multiples ==
  ASSUME NEW x \in Nat, NEW y \in Nat, NEW d \in Nat \ {0},
         x % d = 0, y % d = 0, x < y
  PROVE  x + d <= y
<1> DEFINE p == x \div d
<1> DEFINE q == y \div d
<1>1. p \in Nat /\ x = p * d
  <2>1. p \in Nat /\ x = p * d + (x % d)
    BY DivMod
  <2> HIDE DEF p
  <2>2. p * d \in Nat
    <3>1. \A a, b \in Nat : a * b \in Nat
      OBVIOUS
    <3> QED BY <2>1, <3>1
  <2> QED BY <2>1, <2>2
<1>2. q \in Nat /\ y = q * d
  <2>1. q \in Nat /\ y = q * d + (y % d)
    BY DivMod
  <2> HIDE DEF q
  <2>2. q * d \in Nat
    <3>1. \A a, b \in Nat : a * b \in Nat
      OBVIOUS
    <3> QED BY <2>1, <3>1
  <2> QED BY <2>1, <2>2
<1> HIDE DEF p, q
<1>3. p < q
  <2> SUFFICES ASSUME p >= q PROVE FALSE
    BY <1>1, <1>2
  <2>1. p - q \in Nat
    BY <1>1, <1>2
  <2>2. (p - q) * d \in Nat
    <3>1. \A a, b \in Nat : a * b \in Nat
      OBVIOUS
    <3> QED BY <2>1, <3>1
  <2>3. (p - q) * d = p * d - q * d
    BY <1>1, <1>2
  <2> QED BY <1>1, <1>2, <2>2, <2>3
<1>4. q - p - 1 \in Nat
  BY <1>1, <1>2, <1>3
<1>5. (q - p - 1) * d \in Nat
  <2>1. \A a, b \in Nat : a * b \in Nat
    OBVIOUS
  <2> QED BY <1>4, <2>1
<1>6. (q - p - 1) * d = q * d - p * d - d
  BY <1>1, <1>2
<1> QED BY <1>1, <1>2, <1>5, <1>6

\* Of a container that was written the length makes a header of one cell.
LEMMA HeaderFields ==
  ASSUME NEW w, WellMade(w)
  PROVE  LET h == Header(w.container)
         IN  /\ h.version = w.form.version /\ h.style = w.form.style
             /\ h.magic = TRUE /\ h.sound = TRUE
             /\ h.iterations \in 1..MaxIterations /\ h.length = Len(w.payload)
<1> DEFINE h == Header(w.container)
<1>1. h = HeaderOf(w.form, h.iterations, w.payload) /\ h.iterations \in 1..MaxIterations
  BY DEF WellMade
<1>2. PICK it, g : it = h.iterations /\ g = h
  OBVIOUS
<1>3. g = [version |-> w.form.version, style |-> w.form.style,
           magic |-> TRUE, sound |-> TRUE,
           iterations |-> it, salt |-> 0, nonce |-> 0, length |-> Len(w.payload)]
  BY <1>1, <1>2 DEF HeaderOf
<1> QED BY <1>1, <1>2, <1>3

\* With another length of the header there are too few blocks left for what
\* the header says was encrypted, and every reader refuses them alike.
LEMMA ShiftedRefused ==
  ASSUME NEW c, IsSeq(c), NEW w, WellMade(w), NEW pw, Bound(c, w, pw),
         Framed(c), HeaderLength(c) # 1, Aligned(Ciphertext(c)),
         NEW padded, IsSeq(padded), Len(padded) = Len(Ciphertext(c)), NEW error
  PROVE  Unpadded(Header(c), padded, error)
           = Refused(IF Len(Ciphertext(c)) = 0 THEN error["Format"]
                     ELSE error["Authentication"], padded)
<1>1. PICK n, m : n = HeaderLength(c) /\ m = Len(c) - n - 3
  OBVIOUS
<1>2. /\ n \in Nat \ {0} /\ m \in Nat /\ Len(c) = n + m + 3
      /\ Len(Ciphertext(c)) = m
  BY <1>1, FramedParts DEF PartOf
<1>3. PICK B : B = BlockBytes
  OBVIOUS
<1>4. B \in Nat \ {0}
  BY <1>3, BlockAssumption
<1>5. PICK a, k, p : a = Len(w.payload) /\ k = PadLength(w.payload) /\ p = Len(Pad(w.payload))
  OBVIOUS
<1>6. /\ a \in Nat /\ k \in 1..B /\ p = a + k /\ p % B = 0 /\ Len(c) = p + 4
  <2>1. IsSeq(w.payload) /\ Len(c) = p + 4
    BY <1>5 DEF WellMade, Bound
  <2> QED BY <1>3, <1>5, <2>1, PadAdds, SeqFacts
<1>7. PICK x \in Nat, y \in Nat, z \in Nat, e \in Nat : x = n /\ y = m /\ z = p /\ e = k
  BY <1>2, <1>4, <1>6
<1>8. x >= 2 /\ z + 4 = x + y + 3
  <2>1. x # 1 /\ x # 0
    BY <1>1, <1>2, <1>7
  <2>2. PICK l : l = Len(c)
    OBVIOUS
  <2>3. l = x + y + 3 /\ l = z + 4
    BY <1>2, <1>6, <1>7, <2>2
  <2> QED BY <2>1, <2>3
<1>9. y % B = 0 /\ z % B = 0 /\ y < z
  <2>1. y % B = 0
    BY <1>2, <1>3, <1>7 DEF Aligned
  <2>2. y < z
    BY <1>8
  <2> QED BY <1>6, <1>7, <2>1, <2>2
<1>10. y + B <= z
  BY <1>4, <1>9, Multiples
<1>11. y <= a
  <2>1. z = a + e /\ e <= B
    BY <1>4, <1>6, <1>7
  <2> QED BY <1>4, <1>6, <1>10, <2>1
<1>12. Header(c).length = a
  BY <1>5, HeaderFields DEF Bound
<1>13. Len(padded) = y
  BY <1>2, <1>7
<1>14. CASE y = 0
  <2>1. padded = << >>
    <3>1. << >> \in Seq({}) /\ Len(<< >>) = 0
      OBVIOUS
    <3>2. IsSeq(<< >>)
      BY <3>1 DEF IsSeq
    <3>3. \A i \in 1..Len(padded) : padded[i] = (<< >>)[i]
      BY <1>13, <1>14
    <3> QED BY <1>13, <1>14, <3>1, <3>2, <3>3, SameElements
  <2>2. UnpadVerdict(padded) = "Format"
    BY <2>1 DEF UnpadVerdict
  <2> QED BY <1>2, <1>7, <1>14, <2>2 DEF Unpadded
<1>15. CASE y # 0
  <2>1. padded # << >> /\ Aligned(padded)
    <3>1. Len(<< >>) = 0
      OBVIOUS
    <3> QED BY <1>3, <1>9, <1>13, <1>15, <3>1 DEF Aligned
  <2>2. UnpadVerdict(padded) \in {"ok", "Authentication"}
    BY <2>1 DEF UnpadVerdict
  <2>3. UnpadVerdict(padded) = "ok" => Len(Unpad(padded)) # Header(c).length
    <3> SUFFICES ASSUME UnpadVerdict(padded) = "ok" PROVE Len(Unpad(padded)) # Header(c).length
      OBVIOUS
    <3>1. Len(Unpad(padded)) \in Nat /\ Len(Unpad(padded)) < y
      BY <1>13, UnpadPads
    <3> QED BY <1>6, <1>11, <1>12, <3>1
  <2>4. Unpadded(Header(c), padded, error) = Refused(error["Authentication"], padded)
    BY <2>2, <2>3 DEF Unpadded
  <2> QED BY <1>2, <1>7, <1>15, <2>4
<1> QED BY <1>14, <1>15

\* Blocks that stand where they were encrypted open to what was padded, when
\* the rounds are those of their version.
LEMMA GenuineOpens ==
  ASSUME NEW w, WellMade(w), NEW key, key = Key(w.password, Header(w.container)),
         NEW rounds, rounds = Rounds(Header(w.container).version),
         NEW padded \in DecryptBlocks(Ciphertext(w.container), key,
                                      Header(w.container).nonce, rounds)
  PROVE  padded = Pad(w.payload)
<1>1. PICK c, d, nonce : /\ c = Ciphertext(w.container) /\ d = Pad(w.payload)
                         /\ nonce = Header(w.container).nonce
  OBVIOUS
<1>2. PICK n : n = Len(c)
  OBVIOUS
<1>3. IsSeq(w.payload)
  BY DEF WellMade
<1>4. /\ IsSeq(d) /\ Len(d) = n /\ n \in Nat /\ n % BlockBytes = 0
      /\ \A i \in 1..n : c[i].plain[((i - 1) % BlockBytes) + 1] = d[i]
      /\ \A k \in 1..(n \div BlockBytes) : Genuine(c, k, key, nonce, rounds)
  <2>1. IsSeq(d) /\ Len(d) % BlockBytes = 0
    BY <1>1, <1>3, PadAdds
  <2>2. /\ Len(d) = n
        /\ \A i \in 1..n : c[i].plain[((i - 1) % BlockBytes) + 1] = d[i]
        /\ \A k \in 1..(n \div BlockBytes) : Genuine(c, k, key, nonce, rounds)
    BY <1>1, <1>2 DEF WellMade
  <2> QED BY <2>1, <2>2, SeqFacts
<1>5. PICK N \in Nat : n = N * BlockBytes /\ N = n \div BlockBytes
  <2> DEFINE N == n \div BlockBytes
  <2>0. n \in Nat
    BY <1>4
  <2>1. N \in Nat /\ n = N * BlockBytes + (n % BlockBytes)
    BY ONLY <2>0, BlockAssumption, DivMod
  <2> HIDE DEF N
  <2>2. N * BlockBytes \in Nat
    <3>1. \A a, b \in Nat : a * b \in Nat
      OBVIOUS
    <3> QED BY <2>1, <3>1, BlockAssumption
  <2>3. N \in Nat /\ n = N * BlockBytes
    BY <1>4, <2>1, <2>2
  <2> QED BY <2>3 DEF N
<1>6. ASSUME NEW i \in 1..n
      PROVE  Genuine(c, ((i - 1) \div BlockBytes) + 1, key, nonce, rounds)
  <2>1. PICK k \in 1..N : ((i - 1) \div BlockBytes) + 1 = k
    BY <1>5, PlaceOf
  <2>2. Genuine(c, k, key, nonce, rounds)
    BY <1>4, <1>5
  <2> QED BY <2>1, <2>2
<1> DEFINE wrong == {i \in 1..Len(c) :
                      ~Genuine(c, ((i - 1) \div BlockBytes) + 1, key, nonce, rounds)}
<1>7. wrong = {}
  BY <1>2, <1>6
<1>p. padded \in DecryptBlocks(c, key, nonce, rounds)
  BY <1>1
<1>8. \E any \in [wrong -> Bytes] :
        padded = [i \in 1..Len(c) |-> IF i \in wrong THEN any[i]
                                      ELSE c[i].plain[((i - 1) % BlockBytes) + 1]]
  BY <1>p DEF DecryptBlocks
<1> HIDE DEF wrong
<1>9. padded = [i \in 1..n |-> padded[i]]
      /\ \A i \in 1..n : padded[i] = c[i].plain[((i - 1) % BlockBytes) + 1]
  BY <1>2, <1>7, <1>8
<1>10. IsSeq(padded) /\ Len(padded) = n
  BY <1>4, <1>9, FunctionIsSeq
<1>11. \A i \in 1..n : padded[i] = d[i]
  BY <1>4, <1>9
<1> QED BY <1>1, <1>4, <1>10, <1>11, SameElements

\* They unpad to the payload.
LEMMA GenuineData ==
  ASSUME NEW w, WellMade(w), NEW error, NEW h, h = Header(w.container)
  PROVE  Unpadded(h, Pad(w.payload), error)
           = [verdict |-> "ok", data |-> w.payload, padded |-> Pad(w.payload)]
<1>1. IsSeq(w.payload)
  BY DEF WellMade
<1>2. UnpadVerdict(Pad(w.payload)) = "ok" /\ Unpad(Pad(w.payload)) = w.payload
  BY <1>1, UnpadInverts
<1>3. h.length = Len(w.payload)
  BY HeaderFields
<1> QED BY <1>2, <1>3 DEF Unpadded

\* A container that was written is framed, and its tag matches one password.
LEMMA WrittenMatches ==
  ASSUME NEW w, WellMade(w), NEW pw
  PROVE  /\ Framed(w.container) /\ Aligned(Ciphertext(w.container))
         /\ TagMatches(w.container, pw) <=> pw = w.password
<1>1. PICK c, h, p : c = w.container /\ h = Header(c) /\ p = Len(Pad(w.payload))
  OBVIOUS
<1>2. PICK l : l = Len(c)
  OBVIOUS
<1>3. /\ IsSeq(c) /\ l = p + 4 /\ p \in Nat /\ p % BlockBytes = 0
      /\ c[2] = [num |-> 1] /\ c[3] = [header |-> h]
      /\ Len(Ciphertext(c)) = p
      /\ c[l] = TagCell(w)
  <2>1. /\ IsSeq(c) /\ l = p + 4 /\ IsSeq(w.payload)
        /\ c[2] = [num |-> 1] /\ c[3] = [header |-> h]
        /\ Len(Ciphertext(c)) = p
        /\ c[l] = TagCell(w)
    BY <1>1, <1>2 DEF WellMade
  <2> QED BY <1>1, <2>1, PadAdds, SeqFacts
<1>4. Framed(c)
  <2>1. Is(c[2], "num") /\ HeaderLength(c) = 1 /\ Is(c[3], "header")
    BY <1>3 DEF Is, HeaderLength
  <2>2. 1 \in 1..MaxHeader /\ l >= 3 /\ 2 + 1 + 1 <= l /\ 2..1 = {}
    BY <1>3, V4Assumption
  <2> QED BY <1>2, <2>1, <2>2 DEF Framed
<1>5. Aligned(Ciphertext(c))
  BY <1>3 DEF Aligned
<1>6. PICK s, t : s = HeaderBytes(c) \o Ciphertext(c) /\ t = SubSeq(c, 3, l - 1)
  OBVIOUS
<1>7. s = t
  <2>1. PICK f \in Nat, e \in Nat : f = 2 /\ e = l - 3
    BY <1>3
  <2>2. IsSeq(s) /\ Len(s) = e /\ \A i \in 1..e : s[i] = c[f + i]
    <3>1. PartOf(s, c, f, e)
      BY <1>2, <1>3, <1>4, <1>6, <2>1, TaggedCells
    <3> QED BY <3>1 DEF PartOf
  <2>3. IsSeq(t) /\ Len(t) = e /\ \A i \in 1..e : t[i] = c[f + i]
    <3>1. f + e <= l /\ f + 1 = 3 /\ f + e = l - 1
      BY <1>3, <2>1
    <3>2. PartOf(SubSeq(c, f + 1, f + e), c, f, e)
      BY <1>2, <1>3, <2>1, <3>1, Sliced
    <3> QED BY <1>6, <3>1, <3>2 DEF PartOf
  <2> QED BY <2>2, <2>3, SameElements
<1>8. TagCell(w) = [tag |-> Tag(Key(w.password, h), t)]
  BY <1>1, <1>2, <1>6 DEF TagCell
<1>9. TagMatches(c, pw) <=> c[l] = [tag |-> Tag(Key(pw, h), s)]
  BY <1>1, <1>2, <1>6 DEF TagMatches
<1>10. TagMatches(c, pw) => pw = w.password
  <2> SUFFICES ASSUME TagMatches(c, pw) PROVE pw = w.password
    OBVIOUS
  <2>1. c[l].tag = Tag(Key(pw, h), s) /\ c[l].tag = Tag(Key(w.password, h), t)
    BY <1>3, <1>8, <1>9
  <2>2. Key(pw, h) = Key(w.password, h)
    BY <2>1 DEF Tag
  <2>3. \A x : Key(x, h).password = x
    BY DEF Key
  <2> QED BY <2>2, <2>3
<1>11. pw = w.password => TagMatches(c, pw)
  BY <1>3, <1>7, <1>8, <1>9
<1> QED BY <1>1, <1>4, <1>5, <1>10, <1>11

\* What is returned of a container whose tag matches.
Revealed(c, w, rounds, error, out) ==
  /\ HeaderLength(c) = 1 /\ rounds = Rounds(Header(c).version)
       => out = [verdict |-> "ok", data |-> w.payload, padded |-> Pad(w.payload)]
  /\ HeaderLength(c) # 1
       => /\ out.verdict = IF Len(Ciphertext(c)) = 0 THEN error["Format"]
                           ELSE error["Authentication"]
          /\ out.data = << >>

\* Every reader returns that, whatever its names for the errors are.
LEMMA Opening ==
  ASSUME NEW c, IsSeq(c), NEW w, WellMade(w), NEW pw, Bound(c, w, pw),
         Framed(c), Aligned(Ciphertext(c)), NEW rounds, NEW error,
         NEW padded \in DecryptBlocks(Ciphertext(c), Key(pw, Header(c)),
                                      Header(c).nonce, rounds)
  PROVE  Revealed(c, w, rounds, error, Unpadded(Header(c), padded, error))
<1>1. ASSUME HeaderLength(c) = 1, rounds = Rounds(Header(c).version)
      PROVE  Unpadded(Header(c), padded, error)
               = [verdict |-> "ok", data |-> w.payload, padded |-> Pad(w.payload)]
  <2>1. c = w.container /\ w.password = pw
    BY <1>1 DEF Bound
  <2>2. padded = Pad(w.payload)
    BY <1>1, <2>1, GenuineOpens
  <2> QED BY <2>1, <2>2, GenuineData
<1>2. ASSUME HeaderLength(c) # 1
      PROVE  /\ Unpadded(Header(c), padded, error).verdict
                  = IF Len(Ciphertext(c)) = 0 THEN error["Format"]
                    ELSE error["Authentication"]
             /\ Unpadded(Header(c), padded, error).data = << >>
  <2>1. IsSeq(Ciphertext(c))
    BY FramedParts DEF PartOf
  <2>2. IsSeq(padded) /\ Len(padded) = Len(Ciphertext(c))
    BY <2>1, AnyOpening
  <2>3. Unpadded(Header(c), padded, error)
          = Refused(IF Len(Ciphertext(c)) = 0 THEN error["Format"]
                    ELSE error["Authentication"], padded)
    BY <1>2, <2>2, ShiftedRefused
  <2> QED BY <2>3, RefusedIs
<1> QED BY <1>1, <1>2 DEF Revealed

-----------------------------------------------------------------------------
(* Only what was encrypted is returned.                                    *)

\* What decrypt_v4 returns.
LEMMA RustAuthentic ==
  ASSUME IInv, NEW out \in DecryptV4(stored, password), out.verdict = "ok"
  PROVE  \E w \in written :
           /\ w.container = stored /\ w.password = password
           /\ Rounds(w.form.version) = 4 => out.data = w.payload
<1> DEFINE h == Header(stored)
<1>1. HeaderV4Error(h) # "ok"
  BY DEF HeaderV4Error
<1>2. /\ Framed(stored) /\ TagMatches(stored, password) /\ Aligned(Ciphertext(stored))
      /\ \E padded \in DecryptBlocks(Ciphertext(stored), Key(password, h), h.nonce, 4) :
           out = Unpadded(h, padded, RustError)
  BY <1>1, RustCases, RefusedIs DEF RustAnswers
<1>3. PICK padded \in DecryptBlocks(Ciphertext(stored), Key(password, h), h.nonce, 4) :
        out = Unpadded(h, padded, RustError)
  BY <1>2
<1>4. PICK w \in written : WellMade(w) /\ Bound(stored, w, password)
  BY <1>2, TagBinds
<1>5. IsSeq(stored)
  BY DEF IInv, Kept
<1>6. Revealed(stored, w, 4, RustError, out)
  BY <1>2, <1>3, <1>4, <1>5, Opening
<1>7. HeaderLength(stored) = 1
  BY <1>6 DEF Revealed, RustError
<1>8. stored = w.container /\ w.password = password
  BY <1>4, <1>7 DEF Bound
<1>9. h.version = w.form.version
  BY <1>4, <1>8, HeaderFields
<1>10. Rounds(w.form.version) = 4 => out.data = w.payload
  BY <1>6, <1>7, <1>9 DEF Revealed
<1> QED BY <1>8, <1>10

\* What decrypt_bytes returns, with or without its native module.
LEMMA PythonAuthentic ==
  ASSUME IInv, NEW native, NEW out \in DecryptBytes(stored, password, native),
         out.verdict = "ok"
  PROVE  \E w \in written :
           w.container = stored /\ w.password = password /\ out.data = w.payload
<1> DEFINE h == Header(stored)
<1>1. HeaderError(h) # "ok"
  BY DEF HeaderError
<1>2. /\ Framed(stored) /\ TagMatches(stored, password) /\ Aligned(Ciphertext(stored))
      /\ \E padded \in DecryptBlocks(Ciphertext(stored), Key(password, h), h.nonce,
                                     Rounds(h.version)) :
           out = Unpadded(h, padded, PythonError)
  BY <1>1, PythonCases, RefusedIs DEF PythonAnswers
<1>3. PICK padded \in DecryptBlocks(Ciphertext(stored), Key(password, h), h.nonce,
                                    Rounds(h.version)) :
        out = Unpadded(h, padded, PythonError)
  BY <1>2
<1>4. PICK w \in written : WellMade(w) /\ Bound(stored, w, password)
  BY <1>2, TagBinds
<1>5. IsSeq(stored)
  BY DEF IInv, Kept
<1>6. Revealed(stored, w, Rounds(h.version), PythonError, out)
  BY <1>2, <1>3, <1>4, <1>5, Opening
<1>7. HeaderLength(stored) = 1
  BY <1>6 DEF Revealed, PythonError
<1> QED BY <1>4, <1>6, <1>7 DEF Bound, Revealed

\* The invariant gives it for all four.
LEMMA IInvAuthentic == ASSUME IInv PROVE OnlyAuthentic
<1> SUFFICES ASSUME NEW r \in Readers, answer[r].verdict = "ok"
             PROVE  \E w \in written :
                      /\ w.container = stored /\ w.password = password
                      /\ Knows(r, w.form.version) => answer[r].data = w.payload
  BY DEF OnlyAuthentic
<1>1. /\ answer["rust"] \in DecryptV4(stored, password)
      /\ answer["bindings"] = Exported(answer["rust"])
      /\ answer["python"] \in DecryptBytes(stored, password, FALSE)
      /\ answer["native"] \in DecryptBytes(stored, password, TRUE)
  <2>1. answer[r] # Waiting
    BY RefusedIs DEF Waiting
  <2> QED BY <2>1 DEF IInv, Answered
<1>2. CASE r = "rust"
  BY <1>1, <1>2, RustAuthentic DEF Knows
<1>3. CASE r = "bindings"
  <2>1. answer["bindings"] = answer["rust"] /\ answer["rust"].verdict = "ok"
    BY <1>1, <1>3, RefusedIs DEF Exported
  <2> QED BY <1>1, <1>3, <2>1, RustAuthentic DEF Knows
<1>4. CASE r \in {"python", "native"}
  BY <1>1, <1>4, PythonAuthentic
<1> QED BY <1>2, <1>3, <1>4 DEF Readers

\* A reader returns data only for a container that is, cell for cell, one that
\* was made with that password, and what it returns is what was put in.
THEOREM ReadersReturnOnlyAuthentic == Spec => []OnlyAuthentic
BY Invariant, IInvAuthentic, PTL

-----------------------------------------------------------------------------
(* What was written opens.                                                 *)

\* A container that was written is bound to itself.
LEMMA OwnBound ==
  ASSUME NEW w, WellMade(w)
  PROVE  HeaderLength(w.container) = 1 /\ Bound(w.container, w, w.password)
BY DEF WellMade, HeaderLength, Bound

\* The header every reader accepts.
LEMMA HeaderAccepted ==
  ASSUME NEW w, WellMade(w), NEW h, h = Header(w.container)
  PROVE  /\ w.form.style = "numbers" /\ w.form.version \in {2, 4} => HeaderV4Error(h) = "none"
         /\ w.form.style # "list" /\ w.form.version \in 2..4 => HeaderError(h) = "none"
<1>1. /\ h.version = w.form.version /\ h.style = w.form.style
      /\ h.magic = TRUE /\ h.sound = TRUE
      /\ h.iterations \in 1..MaxIterations
  BY HeaderFields
<1>2. h.version \in {2, 4} => h.version % 256 \in 2..4
  OBVIOUS
<1> QED BY <1>1, <1>2 DEF HeaderV4Error, HeaderError

\* decrypt_v4 opens it with the password it was written with.
LEMMA IntactRust ==
  ASSUME IInv, NEW w \in written, stored = w.container,
         w.form.style = "numbers", w.form.version \in {2, 4},
         NEW out \in DecryptV4(stored, password)
  PROVE  /\ password = w.password => out.verdict = "ok" /\ out.data = w.payload
         /\ password = Empty => out.verdict = "InvalidPassword"
         /\ password \notin {w.password, Empty} => out.verdict = "Authentication"
<1> DEFINE h == Header(stored)
<1>1. WellMade(w) /\ IsSeq(stored)
  BY DEF IInv, Made, Kept
<1>2. /\ Framed(stored) /\ Aligned(Ciphertext(stored))
      /\ TagMatches(stored, password) <=> password = w.password
  BY <1>1, WrittenMatches
<1>3. HeaderV4Error(h) = "none" /\ Rounds(h.version) = 4
  <2>1. h.version \in {2, 4}
    BY <1>1, HeaderFields
  <2> QED BY <1>1, <2>1, HeaderAccepted DEF Rounds
<1>4. CASE password = Empty
  <2>1. out = Error("InvalidPassword") /\ w.password # Empty
    BY <1>1, <1>2, <1>3, <1>4, RustCases DEF RustAnswers, WellMade
  <2> QED BY <1>4, <2>1, RefusedIs
<1>5. CASE password \notin {w.password, Empty}
  <2>1. out = Error("Authentication")
    BY <1>2, <1>3, <1>5, RustCases DEF RustAnswers
  <2> QED BY <1>5, <2>1, RefusedIs
<1>6. CASE password = w.password /\ password # Empty
  <2>1. \E padded \in DecryptBlocks(Ciphertext(stored), Key(password, h), h.nonce, 4) :
          out = Unpadded(h, padded, RustError)
    BY <1>2, <1>3, <1>6, RustCases DEF RustAnswers
  <2>2. HeaderLength(stored) = 1 /\ Bound(stored, w, password)
    BY <1>1, <1>6, OwnBound
  <2>3. Revealed(stored, w, 4, RustError, out)
    BY <1>1, <1>2, <2>1, <2>2, Opening
  <2>4. out.verdict = "ok" /\ out.data = w.payload
    BY <1>3, <2>2, <2>3 DEF Revealed
  <2> QED BY <1>6, <2>4
<1> QED BY <1>4, <1>5, <1>6

\* So does decrypt_bytes, with or without its native module.
LEMMA IntactPython ==
  ASSUME IInv, NEW w \in written, stored = w.container,
         w.form.style # "list", w.form.version \in 2..4,
         NEW native, NEW out \in DecryptBytes(stored, password, native)
  PROVE  /\ password = w.password => out.verdict = "ok" /\ out.data = w.payload
         /\ password = Empty => out.verdict = "ValueError"
         /\ password \notin {w.password, Empty} => out.verdict = "AuthenticationError"
<1> DEFINE h == Header(stored)
<1>1. WellMade(w) /\ IsSeq(stored)
  BY DEF IInv, Made, Kept
<1>2. /\ Framed(stored) /\ Aligned(Ciphertext(stored))
      /\ TagMatches(stored, password) <=> password = w.password
  BY <1>1, WrittenMatches
<1>3. HeaderError(h) = "none"
  BY <1>1, HeaderAccepted
<1>4. CASE password = Empty
  <2>1. out = Error("ValueError") /\ w.password # Empty
    BY <1>1, <1>2, <1>3, <1>4, PythonCases DEF PythonAnswers, WellMade
  <2> QED BY <1>4, <2>1, RefusedIs
<1>5. CASE password \notin {w.password, Empty}
  <2>1. out = Error("AuthenticationError")
    BY <1>2, <1>3, <1>5, PythonCases DEF PythonAnswers
  <2> QED BY <1>5, <2>1, RefusedIs
<1>6. CASE password = w.password /\ password # Empty
  <2>1. \E padded \in DecryptBlocks(Ciphertext(stored), Key(password, h), h.nonce,
                                    Rounds(h.version)) :
          out = Unpadded(h, padded, PythonError)
    BY <1>2, <1>3, <1>6, PythonCases DEF PythonAnswers
  <2>2. HeaderLength(stored) = 1 /\ Bound(stored, w, password)
    BY <1>1, <1>6, OwnBound
  <2>3. Revealed(stored, w, Rounds(h.version), PythonError, out)
    BY <1>1, <1>2, <2>1, <2>2, Opening
  <2>4. out.verdict = "ok" /\ out.data = w.payload
    BY <2>2, <2>3 DEF Revealed
  <2> QED BY <1>6, <2>4
<1> QED BY <1>4, <1>5, <1>6

\* The invariant gives the verdict of all four.
LEMMA IInvIntact == ASSUME IInv PROVE IntactVerdict
<1> SUFFICES ASSUME NEW w \in written, NEW r \in Readers,
                    w.container = stored, answer[r] # Waiting, Opens(r, w.form)
             PROVE  IF password = w.password
                    THEN answer[r].verdict = "ok" /\ answer[r].data = w.payload
                    ELSE IF password = Empty
                    THEN answer[r].verdict \in {"InvalidPassword", "ValueError"}
                    ELSE answer[r].verdict =
                           CASE r = "rust" -> "Authentication"
                             [] r = "bindings" -> "ValueError"
                             [] OTHER -> "AuthenticationError"
  BY DEF IntactVerdict
<1>1. /\ answer["rust"] \in DecryptV4(stored, password)
      /\ answer["bindings"] = Exported(answer["rust"])
      /\ answer["python"] \in DecryptBytes(stored, password, FALSE)
      /\ answer["native"] \in DecryptBytes(stored, password, TRUE)
  BY DEF IInv, Answered
<1>2. ASSUME r \in {"rust", "bindings"}
      PROVE  /\ password = w.password
                  => answer["rust"].verdict = "ok" /\ answer["rust"].data = w.payload
             /\ password = Empty => answer["rust"].verdict = "InvalidPassword"
             /\ password \notin {w.password, Empty}
                  => answer["rust"].verdict = "Authentication"
  <2>1. w.form.style = "numbers" /\ w.form.version \in {2, 4}
    BY <1>2 DEF Opens, Ours
  <2> QED BY <1>1, <2>1, IntactRust
<1>3. CASE r = "rust"
  BY <1>2, <1>3
<1>4. CASE r = "bindings"
  <2>1. answer["rust"].verdict = "ok" => answer[r] = answer["rust"]
    BY <1>1, <1>4 DEF Exported
  <2>2. answer["rust"].verdict # "ok" => answer[r].verdict = "ValueError"
    BY <1>1, <1>4, RefusedIs DEF Exported
  <2> QED BY <1>2, <1>4, <2>1, <2>2
<1>5. CASE r \in {"python", "native"}
  <2>1. w.form.style # "list" /\ w.form.version \in 2..4
    BY <1>5 DEF Opens, Ours
  <2>2. \E native : answer[r] \in DecryptBytes(stored, password, native)
    BY <1>1, <1>5
  <2>3. /\ password = w.password => answer[r].verdict = "ok" /\ answer[r].data = w.payload
        /\ password = Empty => answer[r].verdict = "ValueError"
        /\ password \notin {w.password, Empty} => answer[r].verdict = "AuthenticationError"
    BY <2>1, <2>2, IntactPython
  <2> QED BY <1>5, <2>3
<1> QED BY <1>3, <1>4, <1>5 DEF Readers

\* A container of version 4 comes back from every reader, an older one from
\* those that have its rounds; a wrong password is an authentication failure,
\* and the empty one is told apart from it.
THEOREM IntactOpens == Spec => []IntactVerdict
BY Invariant, IInvIntact, PTL

-----------------------------------------------------------------------------
(* The readers agree.                                                      *)

\* The two return the same, or part ways as they are known to.
Agree(rust, python) ==
  \/ AsPython(rust.verdict) = python.verdict /\ rust.data = python.data
  \/ Is(stored[3], "header") /\ PartWays(Header(stored), rust, python)

\* An error of the one is that error of the other.
LEMMA SameError ==
  ASSUME NEW e, NEW f, AsPython(e) = f
  PROVE  Agree(Error(e), Error(f))
BY RefusedIs DEF Agree

\* decrypt_v4 and decrypt_bytes give one answer, or part where they are said to.
LEMMA SameOutcome ==
  ASSUME IInv, NEW rust \in DecryptV4(stored, password),
         NEW python \in DecryptBytes(stored, password, FALSE)
  PROVE  Agree(rust, python)
<1> DEFINE h == Header(stored)
<1>1. RustAnswers(stored, password, rust)
  BY RustCases
<1>2. PythonAnswers(stored, password, FALSE, python)
  BY PythonCases
<1>3. CASE ~Framed(stored)
  <2>1. rust = Error("Format") /\ python = Error("FormatError")
    BY <1>1, <1>2, <1>3 DEF RustAnswers, PythonAnswers
  <2>2. AsPython("Format") = "FormatError"
    BY DEF AsPython
  <2> QED BY <2>1, <2>2, SameError
<1>4. CASE Framed(stored) /\ h.style # "numbers"
  <2>1. HeaderV4Error(h) = "Format"
    BY <1>4 DEF HeaderV4Error
  <2>2. rust = Error("Format")
    BY <1>1, <1>4, <2>1 DEF RustAnswers
  <2>3. rust.verdict = "Format" /\ Is(stored[3], "header")
    BY <1>4, <2>2, RefusedIs DEF Framed
  <2> QED BY <1>4, <2>3 DEF Agree, PartWays
<1>5. CASE Framed(stored) /\ h.style = "numbers" /\ h.version \notin 2..4
  <2>1. HeaderError(h) = "FormatError"
    BY <1>5 DEF HeaderError
  <2>2. python = Error("FormatError")
    BY <1>2, <1>5, <2>1 DEF PythonAnswers
  <2>3. CASE h.version % 256 \in 2..4
    <3>1. python.verdict = "FormatError" /\ Is(stored[3], "header")
      BY <1>5, <2>2, RefusedIs DEF Framed
    <3> QED BY <1>5, <2>3, <3>1 DEF Agree, PartWays
  <2>4. CASE h.version % 256 \notin 2..4
    <3>1. HeaderV4Error(h) \in {"Format", "UnsupportedVersion"}
      BY <2>4 DEF HeaderV4Error
    <3>2. rust = Error(HeaderV4Error(h))
      BY <1>1, <1>5, <3>1 DEF RustAnswers
    <3>3. AsPython(HeaderV4Error(h)) = "FormatError"
      BY <3>1 DEF AsPython
    <3> QED BY <2>2, <3>2, <3>3, SameError
  <2> QED BY <2>3, <2>4
<1>6. CASE Framed(stored) /\ h.style = "numbers" /\ h.version \in 2..4
  <2>2. h.version % 256 \in 2..4 /\ ~UsesNative(FALSE, h.version)
    BY <1>6 DEF UsesNative
  <2>3. \/ HeaderV4Error(h) = "Format" /\ HeaderError(h) = "FormatError"
        \/ HeaderV4Error(h) = "none" /\ HeaderError(h) = "none"
    BY <1>6, <2>2 DEF HeaderV4Error, HeaderError
  <2>a. /\ AsPython("Format") = "FormatError"
        /\ AsPython("InvalidPassword") = "ValueError"
        /\ AsPython("Authentication") = "AuthenticationError"
    BY DEF AsPython
  <2>4. CASE HeaderV4Error(h) # "none"
    <3>1. rust = Error("Format") /\ python = Error("FormatError")
      BY <1>1, <1>2, <1>6, <2>3, <2>4 DEF RustAnswers, PythonAnswers
    <3> QED BY <2>a, <3>1, SameError
  <2>5. CASE HeaderV4Error(h) = "none" /\ password = Empty
    <3>1. rust = Error("InvalidPassword") /\ python = Error("ValueError")
      BY <1>1, <1>2, <1>6, <2>3, <2>5 DEF RustAnswers, PythonAnswers
    <3> QED BY <2>a, <3>1, SameError
  <2>6. CASE HeaderV4Error(h) = "none" /\ password # Empty /\ ~TagMatches(stored, password)
    <3>1. rust = Error("Authentication") /\ python = Error("AuthenticationError")
      BY <1>1, <1>2, <1>6, <2>3, <2>6 DEF RustAnswers, PythonAnswers
    <3> QED BY <2>a, <3>1, SameError
  <2>7. CASE /\ HeaderV4Error(h) = "none" /\ password # Empty /\ TagMatches(stored, password)
             /\ ~Aligned(Ciphertext(stored))
    <3>1. rust = Error("Format") /\ python = Error("FormatError")
      BY <1>1, <1>2, <1>6, <2>2, <2>3, <2>7 DEF RustAnswers, PythonAnswers
    <3> QED BY <2>a, <3>1, SameError
  <2>8. CASE /\ HeaderV4Error(h) = "none" /\ password # Empty /\ TagMatches(stored, password)
             /\ Aligned(Ciphertext(stored))
    <3>1. PICK p \in DecryptBlocks(Ciphertext(stored), Key(password, h), h.nonce, 4) :
            rust = Unpadded(h, p, RustError)
      BY <1>1, <1>6, <2>8 DEF RustAnswers
    <3>2. PICK q \in DecryptBlocks(Ciphertext(stored), Key(password, h), h.nonce,
                                   Rounds(h.version)) :
            python = Unpadded(h, q, PythonError)
      BY <1>2, <1>6, <2>2, <2>3, <2>8 DEF PythonAnswers
    <3>3. PICK w \in written : WellMade(w) /\ Bound(stored, w, password)
      BY <1>6, <2>8, TagBinds
    <3>4. IsSeq(stored)
      BY DEF IInv, Kept
    <3>5. Revealed(stored, w, 4, RustError, rust)
      BY <1>6, <2>8, <3>1, <3>3, <3>4, Opening
    <3>6. Revealed(stored, w, Rounds(h.version), PythonError, python)
      BY <1>6, <2>8, <3>2, <3>3, <3>4, Opening
    <3>7. CASE HeaderLength(stored) # 1
      <4>1. AsPython(rust.verdict) = python.verdict /\ rust.data = python.data
        BY <3>5, <3>6, <3>7 DEF Revealed, AsPython, RustError, PythonError
      <4> QED BY <4>1 DEF Agree
    <3>8. CASE HeaderLength(stored) = 1 /\ Rounds(h.version) = 4
      <4>1. AsPython(rust.verdict) = python.verdict /\ rust.data = python.data
        BY <3>5, <3>6, <3>8 DEF Revealed, AsPython
      <4> QED BY <4>1 DEF Agree
    <3>9. CASE HeaderLength(stored) = 1 /\ Rounds(h.version) # 4
      <4>1. h.version = 3
        BY <3>9 DEF Rounds
      <4>2. python.verdict = "ok"
        BY <3>6, <3>9 DEF Revealed
      <4>3. Is(stored[3], "header")
        BY <1>6 DEF Framed
      <4> QED BY <4>1, <4>2, <4>3 DEF Agree, PartWays
    <3> QED BY <3>7, <3>8, <3>9
  <2> QED BY <2>4, <2>5, <2>6, <2>7, <2>8
<1> QED BY <1>3, <1>4, <1>5, <1>6

\* The invariant gives the agreement of the two implementations.
LEMMA IInvSame == ASSUME IInv PROVE SameVerdict
<1>1. CASE answer = [r \in Readers |-> Waiting]
  <2>1. answer["rust"] = answer["python"] /\ answer["rust"].verdict = "none"
    BY <1>1, RefusedIs DEF Readers, Waiting
  <2> QED BY <2>1 DEF SameVerdict, AsPython
<1>2. CASE /\ answer["rust"] \in DecryptV4(stored, password)
           /\ answer["python"] \in DecryptBytes(stored, password, FALSE)
  BY <1>2, SameOutcome DEF SameVerdict, Agree
<1> QED BY <1>1, <1>2 DEF IInv, Answered

\* However a container was changed, and whichever version its header gives, the
\* Rust program and the Python reference return the same data or the same kind
\* of error, but where PartWays says how they differ.
THEOREM ReadersAgree == Spec => []SameVerdict
BY Invariant, IInvSame, PTL

\* The native module changes nothing but the name of one error.
LEMMA NativeOutcome ==
  ASSUME IInv, NEW python \in DecryptBytes(stored, password, FALSE),
         NEW native \in DecryptBytes(stored, password, TRUE)
  PROVE  /\ native.verdict \in {python.verdict, "ValueError"}
         /\ python.verdict = "ok" => native = python
<1> DEFINE h == Header(stored)
<1>1. PythonAnswers(stored, password, FALSE, python)
      /\ PythonAnswers(stored, password, TRUE, native)
  BY PythonCases
<1>2. CASE ~Framed(stored) \/ HeaderError(h) # "none" \/ password = Empty
           \/ ~TagMatches(stored, password)
  <2>1. CASE ~Framed(stored)
    <3>1. native = Error("FormatError") /\ python = Error("FormatError")
      BY <1>1, <2>1 DEF PythonAnswers
    <3> QED BY <3>1
  <2>2. CASE Framed(stored) /\ HeaderError(h) # "none"
    <3>1. native = Error(HeaderError(h)) /\ python = Error(HeaderError(h))
      BY <1>1, <2>2 DEF PythonAnswers
    <3> QED BY <3>1
  <2>3. CASE Framed(stored) /\ HeaderError(h) = "none" /\ password = Empty
    <3>1. native = Error("ValueError") /\ python = Error("ValueError")
      BY <1>1, <2>3 DEF PythonAnswers
    <3> QED BY <3>1
  <2>4. CASE /\ Framed(stored) /\ HeaderError(h) = "none" /\ password # Empty
             /\ ~TagMatches(stored, password)
    <3>1. native = Error("AuthenticationError") /\ python = Error("AuthenticationError")
      BY <1>1, <2>4 DEF PythonAnswers
    <3> QED BY <3>1
  <2> QED BY <1>2, <2>1, <2>2, <2>3, <2>4
<1>3. CASE /\ Framed(stored) /\ HeaderError(h) = "none" /\ password # Empty
           /\ TagMatches(stored, password) /\ ~Aligned(Ciphertext(stored))
  <2>1. python = Error("FormatError")
    BY <1>1, <1>3 DEF PythonAnswers, UsesNative
  <2>2. native = Error("FormatError") \/ native = Error("ValueError")
    BY <1>1, <1>3 DEF PythonAnswers
  <2> QED BY <2>1, <2>2, RefusedIs
<1>4. CASE /\ Framed(stored) /\ HeaderError(h) = "none" /\ password # Empty
           /\ TagMatches(stored, password) /\ Aligned(Ciphertext(stored))
  <2>1. PICK p \in DecryptBlocks(Ciphertext(stored), Key(password, h), h.nonce,
                                 Rounds(h.version)) :
          python = Unpadded(h, p, PythonError)
    BY <1>1, <1>4 DEF PythonAnswers
  <2>2. PICK q \in DecryptBlocks(Ciphertext(stored), Key(password, h), h.nonce,
                                 Rounds(h.version)) :
          native = Unpadded(h, q, PythonError)
    BY <1>1, <1>4 DEF PythonAnswers
  <2>3. PICK w \in written : WellMade(w) /\ Bound(stored, w, password)
    BY <1>4, TagBinds
  <2>4. IsSeq(stored)
    BY DEF IInv, Kept
  <2>5. Revealed(stored, w, Rounds(h.version), PythonError, python)
    BY <1>4, <2>1, <2>3, <2>4, Opening
  <2>6. Revealed(stored, w, Rounds(h.version), PythonError, native)
    BY <1>4, <2>2, <2>3, <2>4, Opening
  <2> QED BY <2>5, <2>6 DEF Revealed, PythonError
<1> QED BY <1>2, <1>3, <1>4

\* The invariant gives the agreement of core.py with its native module.
LEMMA IInvNative == ASSUME IInv PROVE NativeAgrees
<1>1. CASE answer = [r \in Readers |-> Waiting]
  <2>1. answer["native"] = answer["python"]
    BY <1>1 DEF Readers
  <2> QED BY <2>1 DEF NativeAgrees
<1>2. CASE /\ answer["python"] \in DecryptBytes(stored, password, FALSE)
           /\ answer["native"] \in DecryptBytes(stored, password, TRUE)
  BY <1>2, NativeOutcome DEF NativeAgrees
<1> QED BY <1>1, <1>2 DEF IInv, Answered

\* With its native module core.py returns what it returns without, but for the
\* error it has for blocks that are not whole.
THEOREM NativeAgreement == Spec => []NativeAgrees
BY Invariant, IInvNative, PTL
=============================================================================
