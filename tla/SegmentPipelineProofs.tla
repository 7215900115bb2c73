------------------------ MODULE SegmentPipelineProofs ------------------------
(* Proofs that the table and the ciphertext of encrypt_segments are those  *)
(* of one thread that encrypts the segments in order, for any number of    *)
(* threads, and that decrypt_segments reads them back, for inner data,     *)
(* segment sizes, blocks and words of any size.                            *)
EXTENDS SegmentPipeline, FiniteSetTheorems, SequenceTheorems, TLAPS

IsSeq(s) == \E S : s \in Seq(S)

HasSize == verdict \notin {"typed", "InvalidParameter"}

\* The length of a padded segment that is not the last one.
Full == SegmentSize + (BlockBytes - (SegmentSize % BlockBytes))

Padded(i) == Len(Pad(Plain(i)))

\* What the table says of segment i.
EntryOf(i) ==
  [index |-> i, plainOffset |-> i * SegmentSize, plainLength |-> Len(Plain(i)),
   cipherOffset |-> i * Full, cipherLength |-> Padded(i)]

\* The option is read once, and nothing is done before it is.
Asked ==
  /\ inner \in Inners
  /\ typed \in [number : Numbers, unit : {1, Kilo, Kilo * Kilo}]
  /\ verdict \in {"typed", "InvalidParameter", "encrypting", "parsing", "decrypting", "opened"}
  /\ HasSize => requested = Exact /\ requested \in 1..MaxWord
  /\ ~HasSize => /\ requested = 0 /\ running = {}
                 /\ table = << >> /\ ciphertext = << >>
                 /\ plainOffset = 0 /\ cipherOffset = 0
  /\ ragged = FALSE
  /\ verdict \in BeforeReading =>
       entries = << >> /\ plainEnd = 0 /\ cipherEnd = 0

\* The pool: a result, once it is there, is that of its segment.
Pool ==
  /\ IsFiniteSet(running) /\ Cardinality(running) <= Threads
  /\ running \subseteq Indexes
  /\ HasSize => /\ DOMAIN result = Indexes
                /\ \A i \in Indexes : result[i] \in {None, EncryptSegment(i)}
  /\ \A i \in running : result[i] = None

\* Where the segment after the first m of them begins, among those put
\* together or read.
At(m, plain, sealed) ==
  /\ m < Chunks => plain = m * SegmentSize /\ sealed = m * Full
  /\ m > 0 => /\ plain = (m - 1) * SegmentSize + Len(Plain(m - 1))
              /\ sealed = (m - 1) * Full + Padded(m - 1)

\* The table and the ciphertext put together so far.
Assembled ==
  HasSize =>
    /\ IsSeq(table) /\ IsSeq(ciphertext)
    /\ Len(table) <= Chunks
    /\ \A k \in 1..Len(table) : table[k] = EntryOf(k - 1)
    /\ At(Len(table), plainOffset, cipherOffset)
    /\ cipherOffset = Len(ciphertext)
    /\ \A i \in 0..Len(table) - 1 :
         /\ i * Full + Padded(i) <= Len(ciphertext)
         /\ \A b \in 1..Padded(i) :
              ciphertext[i * Full + b] = Encrypt(i, Pad(Plain(i)))[b]

\* The entries read so far.
Parsed ==
  verdict \notin BeforeReading =>
    /\ Len(table) = Chunks /\ count = Chunks /\ cipherLen = Len(ciphertext)
    /\ IsSeq(entries) /\ Len(entries) <= Chunks
    /\ \A k \in 1..Len(entries) : entries[k] = EntryOf(k - 1)
    /\ At(Len(entries), plainEnd, cipherEnd)
    /\ verdict # "parsing" => Len(entries) = Chunks

\* The segments decrypted so far.
Opened ==
  /\ lengths \in Seq(Nat) /\ IsSeq(output)
  /\ verdict \notin {"decrypting", "opened"} => lengths = << >> /\ output = << >>
  /\ verdict \in {"decrypting", "opened"} =>
       /\ Len(lengths) <= Chunks
       /\ Len(lengths) < Chunks => Len(output) = Len(lengths) * SegmentSize
       /\ Len(lengths) = Chunks => Len(output) = Len(inner)
       /\ \A b \in 1..Len(output) : output[b] = inner[b]
       /\ verdict = "opened" => Len(lengths) = Chunks

IInv == Asked /\ Pool /\ Assembled /\ Parsed /\ Opened

-----------------------------------------------------------------------------
(* Sequences and numbers.                                                  *)

\* A sequence has a length, and is a function.
LEMMA SeqFacts ==
  ASSUME NEW s, IsSeq(s)
  PROVE  Len(s) \in Nat /\ DOMAIN s = 1..Len(s) /\ s = [i \in 1..Len(s) |-> s[i]]
BY DEF IsSeq

\* A function on 1..n is a sequence.
LEMMA FunctionIsSeq ==
  ASSUME NEW n \in Nat, NEW s, s = [i \in 1..n |-> s[i]]
  PROVE  IsSeq(s) /\ Len(s) = n
<1> DEFINE S == {s[i] : i \in 1..n}
<1>1. s \in [1..n -> S]
  OBVIOUS
<1>2. s \in Seq(S) /\ Len(s) = n
  BY <1>1
<1> QED BY <1>2 DEF IsSeq

\* Two sequences, one after the other.
LEMMA Concatenated ==
  ASSUME NEW s, NEW t, IsSeq(s), IsSeq(t)
  PROVE  /\ IsSeq(s \o t) /\ Len(s \o t) = Len(s) + Len(t)
         /\ \A i \in 1..Len(s) + Len(t) :
              (s \o t)[i] = IF i <= Len(s) THEN s[i] ELSE t[i - Len(s)]
<1>1. PICK S : s \in Seq(S)
  BY DEF IsSeq
<1>2. PICK T : t \in Seq(T)
  BY DEF IsSeq
<1>3. s \in Seq(S \cup T) /\ t \in Seq(S \cup T)
  BY <1>1, <1>2
<1> QED BY <1>3, ConcatProperties DEF IsSeq

\* Part of a sequence.
LEMMA Between ==
  ASSUME NEW s, IsSeq(s), NEW a \in Nat \ {0}, NEW b \in Nat, b <= Len(s), a <= b + 1
  PROVE  /\ IsSeq(SubSeq(s, a, b)) /\ Len(SubSeq(s, a, b)) = b - a + 1
         /\ \A i \in 1..(b - a + 1) : SubSeq(s, a, b)[i] = s[a + i - 1]
<1>1. PICK S : s \in Seq(S)
  BY DEF IsSeq
<1>2. SubSeq(s, a, b) \in Seq(S)
  BY <1>1
<1>3. Len(SubSeq(s, a, b)) = b - a + 1
  BY <1>1
<1>4. \A i \in 1..(b - a + 1) : SubSeq(s, a, b)[i] = s[a + i - 1]
  BY <1>1
<1> QED BY <1>2, <1>3, <1>4 DEF IsSeq

\* A sequence with one more element.
LEMMA Appended ==
  ASSUME NEW s, IsSeq(s), NEW e
  PROVE  /\ IsSeq(Append(s, e)) /\ Len(Append(s, e)) = Len(s) + 1
         /\ \A i \in 1..Len(s) : Append(s, e)[i] = s[i]
         /\ Append(s, e)[Len(s) + 1] = e
<1>1. PICK S : s \in Seq(S)
  BY DEF IsSeq
<1>2. s \in Seq(S \cup {e}) /\ e \in S \cup {e}
  BY <1>1
<1>3. Append(s, e) \in Seq(S \cup {e})
  BY <1>2
<1>4. Len(Append(s, e)) = Len(s) + 1
      /\ \A i \in 1..Len(s) : Append(s, e)[i] = s[i]
      /\ Append(s, e)[Len(s) + 1] = e
  BY <1>2
<1> QED BY <1>3, <1>4 DEF IsSeq

\* Two sequences of one length with the same elements are one.
LEMMA SameElements ==
  ASSUME NEW s, NEW t, IsSeq(s), IsSeq(t), Len(s) = Len(t),
         \A i \in 1..Len(s) : s[i] = t[i]
  PROVE  s = t
<1>1. s = [i \in 1..Len(s) |-> s[i]] /\ t = [i \in 1..Len(t) |-> t[i]]
  BY SeqFacts
<1> QED BY <1>1

\* A remainder is less than the modulus and a quotient times it is the rest.
LEMMA DivMod ==
  ASSUME NEW n \in Nat, NEW d \in Nat \ {0}
  PROVE  /\ n % d \in 0..(d - 1)
         /\ n \div d \in Nat
         /\ n = (n \div d) * d + (n % d)
OBVIOUS

\* A multiple leaves no remainder.
LEMMA MultipleOf ==
  ASSUME NEW d \in Nat \ {0}, NEW q \in Nat
  PROVE  (q * d) % d = 0
<1> DEFINE n == q * d
<1> DEFINE s == n % d
<1> DEFINE p == n \div d
<1>1. n \in Nat
  OBVIOUS
<1>2. s \in 0..(d - 1) /\ p \in Nat /\ n = p * d + s
  BY <1>1, DivMod
<1> HIDE DEF n, s, p
<1>3. (q - p) * d = s
  BY <1>2 DEF n
<1>4. CASE q - p >= 1
  <2>1. (q - p) * d >= d
    <3>1. q - p - 1 \in Nat
      BY <1>2, <1>4
    <3>2. (q - p - 1) * d \in Nat
      BY <3>1
    <3>3. (q - p - 1) * d = (q - p) * d - d
      BY <1>2
    <3> QED BY <3>2, <3>3, <1>2
  <2> QED BY <1>2, <1>3, <2>1
<1>5. CASE p - q >= 1
  <2>1. (p - q) * d >= d
    BY <1>2, <1>5
  <2>2. (p - q) * d = 0 - s
    BY <1>2, <1>3
  <2> QED BY <1>2, <2>1, <2>2
<1>6. CASE p = q
  <2>1. s = 0
    BY <1>2, <1>3, <1>6
  <2> QED BY <2>1 DEF s, n
<1> QED BY <1>2, <1>4, <1>5, <1>6

\* What is cut into pieces of size S has as many of them as its length
\* divided by S, rounded up, and only the last one may be shorter.
LEMMA Pieces ==
  ASSUME NEW L \in Nat \ {0}, NEW S \in Nat \ {0}, NEW N, N = (L + S - 1) \div S
  PROVE  N \in Nat \ {0} /\ (N - 1) * S < L /\ L <= N * S
<1> DEFINE n == L + S - 1
<1> DEFINE r == n % S
<1>1. n \in Nat
  OBVIOUS
<1>2. r \in 0..(S - 1) /\ N \in Nat /\ n = N * S + r
  BY <1>1, DivMod
<1> HIDE DEF r
<1>3. N * S = L + S - 1 - r
  BY <1>2
<1>4. L <= N * S /\ N * S - S < L
  BY <1>2, <1>3
<1>5. N # 0
  BY <1>4
<1>6. (N - 1) * S = N * S - S
  BY <1>2
<1> QED BY <1>2, <1>4, <1>5, <1>6

-----------------------------------------------------------------------------
(* Padding.                                                                *)

\* Padding is one byte to a block of them, and fills the last block.
LEMMA PadAdds ==
  ASSUME NEW p, IsSeq(p)
  PROVE  /\ PadLength(p) \in 1..BlockBytes
         /\ PadLength(p) = BlockBytes - (Len(p) % BlockBytes)
         /\ IsSeq(Pad(p)) /\ Len(Pad(p)) = Len(p) + PadLength(p)
         /\ Len(Pad(p)) % BlockBytes = 0
         /\ \A i \in 1..Len(p) : Pad(p)[i] = p[i]
         /\ \A i \in (Len(p) + 1)..Len(Pad(p)) : Pad(p)[i] = PadLength(p)
<1> DEFINE B == BlockBytes
<1> DEFINE n == Len(p)
<1> DEFINE k == PadLength(p)
<1> DEFINE t == [i \in 1..k |-> k]
<1>1. B \in Nat \ {0} /\ n \in Nat
  BY SeqFacts, BlockAssumption
<1>2. k = B - (n % B)
  BY DEF PadLength
<1>3. (n % B) \in 0..(B - 1) /\ n \div B \in Nat /\ n = (n \div B) * B + (n % B)
  BY <1>1, DivMod
<1>4. k \in 1..B
  BY <1>1, <1>2, <1>3
<1>5. Pad(p) = p \o t
  BY DEF Pad
<1>6. IsSeq(t) /\ Len(t) = k
  BY <1>4, FunctionIsSeq
<1>7. \A i \in 1..k : t[i] = k
  OBVIOUS
<1> HIDE DEF k, t
<1>8. /\ IsSeq(p \o t) /\ Len(p \o t) = n + k
      /\ \A i \in 1..n + k : (p \o t)[i] = IF i <= n THEN p[i] ELSE t[i - n]
  BY <1>6, Concatenated
<1>9. (n + k) % B = 0
  <2> DEFINE q == n \div B
  <2> DEFINE r == n % B
  <2>1. q \in Nat /\ r \in 0..(B - 1) /\ n = q * B + r /\ k = B - r
    BY <1>2, <1>3
  <2> HIDE DEF n, q, r, B
  <2>2. n + k = (q + 1) * B
    <3>1. (q + 1) * B = q * B + B
      BY <2>1, <1>1
    <3>2. q * B \in Nat
      BY <2>1, <1>1
    <3> QED BY <3>1, <3>2, <2>1, <1>1
  <2>3. q + 1 \in Nat
    BY <2>1
  <2> QED BY <2>2, <2>3, <1>1, MultipleOf
<1>10. \A i \in 1..n : (p \o t)[i] = p[i]
  BY <1>1, <1>4, <1>8
<1>11. ASSUME NEW i \in (n + 1)..(n + k) PROVE (p \o t)[i] = k
  <2>1. i \in 1..n + k /\ ~(i <= n) /\ i - n \in 1..k
    BY <1>1, <1>4
  <2> QED BY <2>1, <1>7, <1>8
<1> QED BY <1>2, <1>4, <1>5, <1>8, <1>9, <1>10, <1>11 DEF k

\* What was padded is accepted by unpad, which takes the padding away.
LEMMA UnpadInverts ==
  ASSUME NEW p, IsSeq(p)
  PROVE  UnpadVerdict(Pad(p)) = "ok" /\ Unpad(Pad(p)) = p
<1> DEFINE d == Pad(p)
<1> DEFINE k == PadLength(p)
<1>1. /\ k \in 1..BlockBytes /\ IsSeq(d) /\ Len(d) = Len(p) + k
      /\ Len(d) % BlockBytes = 0
      /\ \A i \in 1..Len(p) : d[i] = p[i]
      /\ \A i \in (Len(p) + 1)..Len(d) : d[i] = k
  BY PadAdds
<1>2. Len(p) \in Nat /\ BlockBytes \in Nat
  BY SeqFacts, BlockAssumption
<1> HIDE DEF d, k
<1>3. d[Len(d)] = k /\ d # << >>
  <2>1. Len(d) \in (Len(p) + 1)..Len(d) /\ Len(d) # 0
    BY <1>1, <1>2
  <2>2. Len(<< >>) = 0
    OBVIOUS
  <2> QED BY <1>1, <2>1, <2>2
<1>4. Len(d) - k + 1 = Len(p) + 1 /\ Len(d) - k = Len(p)
  BY <1>1, <1>2
<1>5. UnpadVerdict(d) = "ok"
  BY <1>1, <1>3, <1>4 DEF UnpadVerdict, Aligned
<1>6. Unpad(d) = SubSeq(d, 1, Len(p))
  BY <1>3, <1>4 DEF Unpad
<1>7. /\ IsSeq(SubSeq(d, 1, Len(p))) /\ Len(SubSeq(d, 1, Len(p))) = Len(p)
      /\ \A i \in 1..Len(p) : SubSeq(d, 1, Len(p))[i] = d[i]
  <2>1. 1 \in Nat \ {0} /\ Len(p) <= Len(d) /\ 1 <= Len(p) + 1 /\ Len(p) - 1 + 1 = Len(p)
        /\ \A i \in 1..Len(p) : 1 + i - 1 = i
    BY <1>1, <1>2
  <2> QED BY <1>1, <1>2, <2>1, Between
<1>8. SubSeq(d, 1, Len(p)) = p
  BY <1>1, <1>7, SameElements
<1> QED BY <1>5, <1>6, <1>8 DEF d

\* Decryption at its own place inverts encryption.
LEMMA DecryptInverts ==
  ASSUME NEW i, NEW bytes, IsSeq(bytes)
  PROVE  /\ IsSeq(Encrypt(i, bytes)) /\ Len(Encrypt(i, bytes)) = Len(bytes)
         /\ Decrypt(i, Encrypt(i, bytes)) = bytes
<1> DEFINE c == Encrypt(i, bytes)
<1>1. Len(bytes) \in Nat /\ bytes = [k \in 1..Len(bytes) |-> bytes[k]]
  BY SeqFacts
<1>2. c = [k \in 1..Len(bytes) |-> <<i, k, bytes[k]>>]
  BY DEF Encrypt
<1>3. IsSeq(c) /\ Len(c) = Len(bytes)
  BY <1>1, <1>2, FunctionIsSeq
<1>4. \A k \in 1..Len(bytes) : c[k][1] = i /\ c[k][2] = k /\ c[k][3] = bytes[k]
  BY <1>2
<1> HIDE DEF c
<1>5. Decrypt(i, c) = [k \in 1..Len(bytes) |-> bytes[k]]
  BY <1>3, <1>4 DEF Decrypt
<1> QED BY <1>1, <1>3, <1>5 DEF c

-----------------------------------------------------------------------------
(* How the inner data is cut.                                              *)

\* The numbers there are to reason about.
LEMMA Sizes ==
  ASSUME Asked
  PROVE  /\ IsSeq(inner) /\ Len(inner) \in Nat \ {0}
         /\ BlockBytes \in Nat \ {0} /\ MaxWord \in Nat
         /\ 2 * Len(inner) + BlockBytes <= MaxWord
         /\ SegmentSize \in Nat \ {0} /\ SegmentSize >= BlockBytes
<1>1. inner \in Inners /\ requested \in Nat
  BY PipelineAssumption DEF Asked
<1>2. inner \in Seq({inner[i] : i \in DOMAIN inner}) /\ inner # << >>
      /\ 2 * Len(inner) + BlockBytes <= MaxWord
  BY <1>1, PipelineAssumption
<1>3. Len(inner) \in Nat /\ Len(inner) # 0
  BY <1>2
<1>4. BlockBytes \in Nat \ {0} /\ MaxWord \in Nat
  BY BlockAssumption, PipelineAssumption
<1>5. SegmentSize \in Nat \ {0} /\ SegmentSize >= BlockBytes
  BY <1>1, <1>4 DEF SegmentSize
<1> QED BY <1>2, <1>3, <1>4, <1>5 DEF IsSeq

\* There are segments, and all but the last are as long as was asked for.
LEMMA Cut ==
  ASSUME Asked
  PROVE  /\ Chunks \in Nat \ {0} /\ Chunks <= Len(inner)
         /\ \A i \in Indexes :
              /\ i \in Nat /\ i < Chunks
              /\ i * SegmentSize \in Nat
              /\ IsSeq(Plain(i)) /\ Len(Plain(i)) \in Nat \ {0}
              /\ i * SegmentSize + Len(Plain(i)) <= Len(inner)
              /\ i + 1 < Chunks => Len(Plain(i)) = SegmentSize
              /\ i + 1 = Chunks => i * SegmentSize + Len(Plain(i)) = Len(inner)
              /\ \A b \in 1..Len(Plain(i)) : Plain(i)[b] = inner[i * SegmentSize + b]
<1> DEFINE L == Len(inner)
<1> DEFINE S == SegmentSize
<1> DEFINE N == Chunks
<1>1. IsSeq(inner) /\ L \in Nat \ {0} /\ S \in Nat \ {0}
  BY Sizes
<1>2. N = (L + S - 1) \div S
  BY DEF Chunks
<1> HIDE DEF L, S, N
<1>3. N \in Nat \ {0} /\ (N - 1) * S < L /\ L <= N * S
  BY <1>1, <1>2, Pieces
<1>m. ASSUME NEW m \in Nat, NEW n \in Nat, m <= n PROVE m * S <= n * S /\ m * S \in Nat
  <2>1. n - m \in Nat
    BY <1>m
  <2>2. (n - m) * S \in Nat
    BY <1>1, <2>1
  <2>3. (n - m) * S = n * S - m * S
    BY <1>1, <1>m
  <2>4. m * S \in Nat /\ n * S \in Nat
    BY <1>1
  <2> QED BY <2>2, <2>3, <2>4
<1>4. N <= L
  <2> SUFFICES ASSUME N - 1 >= L PROVE FALSE
    BY <1>1, <1>3
  <2>1. N - 1 \in Nat
    BY <1>3
  <2>2. (N - 1) * (S - 1) \in Nat
    BY <1>1, <2>1
  <2>3. (N - 1) * (S - 1) = (N - 1) * S - (N - 1)
    BY <1>1, <2>1
  <2>4. (N - 1) * S \in Nat
    BY <1>1, <2>1
  <2> QED BY <1>1, <1>3, <2>1, <2>2, <2>3, <2>4
<1>5. ASSUME NEW i \in 0..(N - 1)
      PROVE  /\ i \in Nat /\ i < N /\ i * S \in Nat
             /\ IsSeq(Plain(i)) /\ Len(Plain(i)) \in Nat \ {0}
             /\ i * S + Len(Plain(i)) <= L
             /\ i + 1 < N => Len(Plain(i)) = S
             /\ i + 1 = N => i * S + Len(Plain(i)) = L
             /\ \A b \in 1..Len(Plain(i)) : Plain(i)[b] = inner[i * S + b]
  <2> DEFINE a == i * S
  <2> DEFINE e == (i + 1) * S
  <2> DEFINE z == IF e < L THEN e ELSE L
  <2>1. i \in Nat /\ i < N /\ i <= N - 1 /\ N - 1 \in Nat
    BY <1>3
  <2>2. a \in Nat /\ a < L
    BY <1>1, <1>3, <1>m, <2>1
  <2>3. e = a + S
    BY <1>1, <2>1
  <2>4. i + 1 < N => e < L
    <3>1. i + 1 < N => i + 1 <= N - 1 /\ i + 1 \in Nat
      BY <1>3, <2>1
    <3>2. i + 1 < N => e <= (N - 1) * S
      BY <1>m, <2>1, <3>1
    <3> HIDE DEF e
    <3>3. e \in Nat /\ (N - 1) * S \in Nat
      BY <1>1, <1>m, <2>1, <2>2, <2>3
    <3> QED BY <1>1, <1>3, <3>2, <3>3
  <2>5. i + 1 = N => ~(e < L)
    BY <1>1, <1>3, <2>2, <2>3
  <2> HIDE DEF a, e
  <2>6. z \in Nat /\ a < z /\ z <= L
    BY <1>1, <2>2, <2>3
  <2>7. Plain(i) = SubSeq(inner, a + 1, z)
    BY DEF Plain, a, e, S, L
  <2>8. (i + 1 < N => z = a + S) /\ (i + 1 = N => z = L)
    BY <2>3, <2>4, <2>5
  <2> HIDE DEF z
  <2>9. /\ IsSeq(Plain(i)) /\ Len(Plain(i)) = z - a
        /\ \A b \in 1..(z - a) : Plain(i)[b] = inner[a + b]
    <3>1. PICK f \in Nat \ {0} : f = a + 1
      BY <2>2
    <3>2. z <= Len(inner) /\ f <= z + 1 /\ z - f + 1 = z - a
          /\ \A b \in 1..(z - a) : f + b - 1 = a + b
      BY <2>2, <2>6, <3>1 DEF L
    <3>3. Plain(i) = SubSeq(inner, f, z)
      BY <2>7, <3>1
    <3>4. /\ IsSeq(SubSeq(inner, f, z)) /\ Len(SubSeq(inner, f, z)) = z - f + 1
          /\ \A b \in 1..(z - f + 1) : SubSeq(inner, f, z)[b] = inner[f + b - 1]
      BY <1>1, <2>6, <3>2, Between
    <3> QED BY <3>2, <3>3, <3>4
  <2>10. /\ Len(Plain(i)) \in Nat \ {0} /\ a + Len(Plain(i)) <= L
         /\ i + 1 < N => Len(Plain(i)) = S
         /\ i + 1 = N => a + Len(Plain(i)) = L
         /\ \A b \in 1..Len(Plain(i)) : Plain(i)[b] = inner[a + b]
    BY <1>1, <2>2, <2>6, <2>8, <2>9
  <2> QED BY <2>1, <2>2, <2>9, <2>10 DEF a
<1> QED BY <1>3, <1>4, <1>5 DEF Indexes, L, S, N

\* The same of the padded segments.
LEMMA Sealed ==
  ASSUME Asked
  PROVE  /\ Full \in Nat \ {0} /\ Full <= 2 * SegmentSize
         /\ \A i \in Indexes :
              /\ i * Full \in Nat /\ Padded(i) \in Nat \ {0}
              /\ Padded(i) <= Len(Plain(i)) + BlockBytes
              /\ Padded(i) % BlockBytes = 0
              /\ i + 1 < Chunks => Padded(i) = Full
              /\ IsSeq(Pad(Plain(i)))
<1>1. BlockBytes \in Nat \ {0} /\ SegmentSize \in Nat \ {0} /\ SegmentSize >= BlockBytes
  BY Sizes
<1>2. (SegmentSize % BlockBytes) \in 0..(BlockBytes - 1)
  BY <1>1, DivMod
<1>3. Full \in Nat \ {0} /\ Full <= 2 * SegmentSize
  BY <1>1, <1>2 DEF Full
<1>4. ASSUME NEW i \in Indexes
      PROVE  /\ i * Full \in Nat /\ Padded(i) \in Nat \ {0}
             /\ Padded(i) <= Len(Plain(i)) + BlockBytes
             /\ Padded(i) % BlockBytes = 0
             /\ i + 1 < Chunks => Padded(i) = Full
             /\ IsSeq(Pad(Plain(i)))
  <2>1. /\ i \in Nat /\ IsSeq(Plain(i)) /\ Len(Plain(i)) \in Nat \ {0}
        /\ i + 1 < Chunks => Len(Plain(i)) = SegmentSize
    BY Cut
  <2>2. /\ PadLength(Plain(i)) \in 1..BlockBytes
        /\ PadLength(Plain(i)) = BlockBytes - (Len(Plain(i)) % BlockBytes)
        /\ IsSeq(Pad(Plain(i)))
        /\ Padded(i) = Len(Plain(i)) + PadLength(Plain(i))
        /\ Padded(i) % BlockBytes = 0
    BY <2>1, PadAdds DEF Padded
  <2>3. i * Full \in Nat
    <3>1. \A m, n \in Nat : m * n \in Nat
      OBVIOUS
    <3>2. i \in Nat /\ Full \in Nat
      BY <1>3, <2>1
    <3> QED BY <3>1, <3>2
  <2>4. Padded(i) \in Nat \ {0} /\ Padded(i) <= Len(Plain(i)) + BlockBytes
    BY <1>1, <2>1, <2>2
  <2>5. i + 1 < Chunks => Padded(i) = Full
    BY <2>1, <2>2 DEF Full
  <2> QED BY <2>2, <2>3, <2>4, <2>5
<1> QED BY <1>3, <1>4

\* There are segments, and both kinds have a length.
Numbered == /\ Chunks \in Nat \ {0}
            /\ SegmentSize \in Nat \ {0} /\ Full \in Nat \ {0}

\* They are in every state.
LEMMA NumbersAre == Asked => Numbered
BY Sizes, Cut, Sealed DEF Numbered

\* The same, primed.
LEMMA NumbersNext == Asked' => Numbered'
BY NumbersAre, PTL

\* From one segment to the next.
LEMMA AtNext ==
  ASSUME Asked, NEW m \in Nat, m < Chunks, NEW plain, NEW sealed, At(m, plain, sealed)
  PROVE  /\ plain = m * SegmentSize /\ sealed = m * Full
         /\ At(m + 1, plain + Len(Plain(m)), sealed + Padded(m))
<1>0. Chunks \in Nat /\ m \in Indexes /\ m + 1 - 1 = m
  BY Cut DEF Indexes
<1>1. plain = m * SegmentSize /\ sealed = m * Full
  BY DEF At
<1>2. m + 1 < Chunks => Len(Plain(m)) = SegmentSize /\ Padded(m) = Full
  BY <1>0, Cut, Sealed
<1>3. ASSUME NEW n \in Nat PROVE m * n + n = (m + 1) * n
  BY <1>3
<1>4. SegmentSize \in Nat /\ Full \in Nat
  BY Sizes, Sealed
<1>5. m * SegmentSize + SegmentSize = (m + 1) * SegmentSize /\ m * Full + Full = (m + 1) * Full
  BY <1>3, <1>4
<1>6. m + 1 < Chunks =>
        /\ plain + Len(Plain(m)) = (m + 1) * SegmentSize
        /\ sealed + Padded(m) = (m + 1) * Full
  BY <1>1, <1>2, <1>5
<1> QED BY <1>0, <1>1, <1>6 DEF At

\* After the last one all of the data is there, in no more bytes than a word
\* counts.
LEMMA AtEnd ==
  ASSUME Asked, NEW plain, NEW sealed, At(Chunks, plain, sealed)
  PROVE  plain = Len(inner) /\ sealed \in 0..MaxWord
<1> DEFINE S == SegmentSize
<1> DEFINE m == Chunks - 1
<1>1. m \in Nat /\ m \in Indexes /\ m + 1 = Chunks /\ Chunks > 0
  BY Cut DEF Indexes
<1>2. plain = m * S + Len(Plain(m)) /\ sealed = m * Full + Padded(m)
  BY <1>1 DEF At
<1>3. m * S \in Nat /\ m * S + Len(Plain(m)) = Len(inner) /\ Len(Plain(m)) \in Nat \ {0}
  BY <1>1, Cut
<1>4. Full \in Nat /\ Full <= 2 * S /\ m * Full \in Nat /\ Padded(m) \in Nat
      /\ Padded(m) <= Len(Plain(m)) + BlockBytes
  BY <1>1, Sealed
<1>5. S \in Nat /\ BlockBytes \in Nat /\ Len(inner) \in Nat /\ MaxWord \in Nat
      /\ 2 * Len(inner) + BlockBytes <= MaxWord
  BY Sizes
<1> HIDE DEF S, m
<1>6. m * Full <= 2 * (m * S)
  <2> DEFINE F == Full
  <2>0. F \in Nat /\ F <= 2 * S
    BY <1>4
  <2> HIDE DEF F
  <2>1. 2 * S - F \in Nat
    BY <1>5, <2>0
  <2>2. m * (2 * S - F) \in Nat
    <3>1. \A x, y \in Nat : x * y \in Nat
      OBVIOUS
    <3> QED BY <1>1, <2>1, <3>1
  <2>3. m * (2 * S - F) = 2 * (m * S) - m * F
    BY <1>1, <1>5, <2>0
  <2>4. m * F \in Nat /\ m * S \in Nat
    BY <1>3, <1>4 DEF F
  <2> QED BY <2>2, <2>3, <2>4 DEF F
<1>7. sealed <= 2 * Len(inner) + BlockBytes
  <2>1. PICK a \in Nat, b \in Nat : a = m * S /\ b = m * Full
    BY <1>3, <1>4
  <2>2. PICK c \in Nat, d \in Nat : c = Len(Plain(m)) /\ d = Padded(m)
    BY <1>3, <1>4
  <2>3. sealed = b + d /\ a + c = Len(inner) /\ b <= 2 * a /\ d <= c + BlockBytes
    BY <1>2, <1>3, <1>4, <1>6, <2>1, <2>2
  <2> QED BY <1>5, <2>3
<1>8. plain = Len(inner) /\ sealed \in Nat
  BY <1>2, <1>3, <1>4
<1> QED BY <1>5, <1>7, <1>8

\* Steps that leave the data and the size alone leave the cut alone.
LEMMA SameCut ==
  ASSUME UNCHANGED <<inner, requested>>
  PROVE  /\ SegmentSize' = SegmentSize /\ Full' = Full
         /\ Chunks' = Chunks /\ Indexes' = Indexes
         /\ \A i : /\ Plain(i)' = Plain(i) /\ Padded(i)' = Padded(i)
                   /\ EntryOf(i)' = EntryOf(i) /\ EncryptSegment(i)' = EncryptSegment(i)
BY DEF SegmentSize, Full, Chunks, Indexes, Plain, Padded, EntryOf, EncryptSegment

-----------------------------------------------------------------------------
(* The invariant.                                                          *)

\* Nothing has happened.
LEMMA InitInv == Init => IInv
<1> SUFFICES ASSUME Init PROVE IInv
  OBVIOUS
<1>1. << >> \in Seq(Nat) /\ IsSeq(<< >>) /\ Len(<< >>) = 0
  <2>1. << >> \in Seq(Nat)
    OBVIOUS
  <2> QED BY <2>1 DEF IsSeq
<1>2. Asked
  BY DEF Init, Asked, HasSize, BeforeReading
<1>3. Pool
  <2>1. IsFiniteSet({}) /\ Cardinality({}) = 0
    BY FS_EmptySet
  <2> QED BY <2>1, PipelineAssumption DEF Init, Pool, HasSize
<1>4. Assembled /\ Parsed
  BY DEF Init, Assembled, Parsed, HasSize, BeforeReading
<1>5. Opened
  BY <1>1 DEF Init, Opened
<1> QED BY <1>2, <1>3, <1>4, <1>5 DEF IInv

\* The option is read, or refused.
LEMMA ParseSizeStep == ASSUME IInv, ParseSize PROVE IInv'
<1>0. Asked /\ Pool /\ Opened
  BY DEF IInv
<1>1. /\ verdict = "typed"
      /\ UNCHANGED <<inner, typed, parallel, running, tableVars, readerVars, output>>
  BY DEF ParseSize
<1>2. /\ requested = 0 /\ running = {} /\ table = << >> /\ ciphertext = << >>
      /\ plainOffset = 0 /\ cipherOffset = 0 /\ ragged = FALSE
      /\ entries = << >> /\ plainEnd = 0 /\ cipherEnd = 0
  BY <1>0, <1>1 DEF Asked, HasSize, BeforeReading
<1>3. CASE Exact \in 1..MaxWord
  <2>1. /\ requested' = Exact /\ verdict' = "encrypting"
        /\ result' = [i \in Indexes' |-> None]
    BY <1>3 DEF ParseSize, Exact
  <2>2. Asked'
    BY <1>0, <1>1, <1>2, <1>3, <2>1
       DEF Asked, HasSize, Exact, tableVars, readerVars, BeforeReading
  <2>3. Pool'
    BY <1>0, <1>1, <1>2, <2>1 DEF Pool
  <2>4. Assembled'
    <3>1. IsSeq(<< >>) /\ Len(<< >>) = 0
      <4>1. << >> \in Seq(Nat)
        OBVIOUS
      <4> QED BY <4>1 DEF IsSeq
    <3>2. table' = << >> /\ ciphertext' = << >> /\ plainOffset' = 0 /\ cipherOffset' = 0
      BY <1>1, <1>2 DEF tableVars
    <3>3. Chunks' \in Nat \ {0} /\ SegmentSize' \in Nat /\ Full' \in Nat
      BY <2>2, NumbersNext DEF Numbered
    <3>4. At(0, 0, 0)'
      <4>1. \A n \in Nat : 0 * n = 0
        OBVIOUS
      <4>2. 0 * SegmentSize' = 0 /\ 0 * Full' = 0
        BY <3>3, <4>1
      <4> QED BY <4>2 DEF At
    <3> QED BY <3>1, <3>2, <3>3, <3>4 DEF Assembled
  <2>5. Parsed' /\ Opened'
    BY <1>0, <1>1, <2>1 DEF Parsed, Opened, BeforeReading, readerVars
  <2> QED BY <2>2, <2>3, <2>4, <2>5 DEF IInv
<1>4. CASE ~(Exact \in 1..MaxWord)
  <2>1. verdict' = "InvalidParameter" /\ UNCHANGED <<requested, result>>
    BY <1>4 DEF ParseSize, Exact
  <2>2. Asked'
    BY <1>0, <1>1, <1>2, <2>1 DEF Asked, HasSize, tableVars, readerVars, BeforeReading
  <2>3. Pool'
    BY <1>0, <1>1, <1>2, <2>1 DEF Pool, HasSize
  <2>4. Assembled' /\ Parsed' /\ Opened'
    BY <1>0, <1>1, <2>1 DEF Assembled, HasSize, Parsed, Opened, BeforeReading, readerVars
  <2> QED BY <2>2, <2>3, <2>4 DEF IInv
<1> QED BY <1>3, <1>4

\* A step that leaves alone what is put together keeps what is known of it.
LEMMA KeepAssembled ==
  ASSUME Assembled, UNCHANGED <<inner, requested, tableVars>>, HasSize' => HasSize
  PROVE  Assembled'
<1>1. UNCHANGED <<table, ciphertext, plainOffset, cipherOffset>>
  BY DEF tableVars
<1>2. /\ Chunks' = Chunks /\ SegmentSize' = SegmentSize /\ Full' = Full
      /\ \A i : Plain(i)' = Plain(i) /\ Padded(i)' = Padded(i) /\ EntryOf(i)' = EntryOf(i)
  BY SameCut
<1>3. At(Len(table), plainOffset, cipherOffset)' <=> At(Len(table), plainOffset, cipherOffset)
  BY <1>1, <1>2 DEF At
<1> QED BY <1>1, <1>2, <1>3 DEF Assembled

\* The same of what is read.
LEMMA KeepParsed ==
  ASSUME Parsed, UNCHANGED <<inner, requested, table, ciphertext, count, cipherLen,
                             entries, plainEnd, cipherEnd>>,
         verdict' \notin BeforeReading => /\ verdict \notin BeforeReading
                                          /\ verdict' = "parsing" => verdict = "parsing"
                                          /\ verdict = "parsing" => verdict' = "parsing"
  PROVE  Parsed'
<1>1. /\ Chunks' = Chunks /\ \A i : EntryOf(i)' = EntryOf(i)
      /\ SegmentSize' = SegmentSize /\ Full' = Full
      /\ \A i : Plain(i)' = Plain(i) /\ Padded(i)' = Padded(i)
  BY SameCut
<1>2. At(Len(entries), plainEnd, cipherEnd)' <=> At(Len(entries), plainEnd, cipherEnd)
  BY <1>1 DEF At
<1> QED BY <1>1, <1>2 DEF Parsed, BeforeReading

\* The same of what is decrypted.
LEMMA KeepOpened ==
  ASSUME Opened, UNCHANGED <<inner, requested, verdict, lengths, output>>
  PROVE  Opened'
BY SameCut DEF Opened

\* A thread takes a segment: there are never more at work than threads.
LEMMA TakeStep == ASSUME IInv, NEW i \in Indexes, Take(i) PROVE IInv'
<1>0. Asked /\ Pool /\ Assembled /\ Parsed /\ Opened
  BY DEF IInv
<1>1. /\ verdict = "encrypting" /\ i \notin running /\ result[i] = None
      /\ running' = running \cup {i}
      /\ UNCHANGED <<inputVars, result, tableVars, verdict, readerVars, output>>
      /\ Cardinality(running) < Threads \/ running = {}
  BY DEF Take, Todo
<1>2. Asked'
  BY <1>0, <1>1 DEF Asked, HasSize, inputVars, tableVars, readerVars, BeforeReading, Exact
<1>3. UNCHANGED <<inner, requested>>
  BY <1>1 DEF inputVars
<1>4. Pool'
  <2>1. IsFiniteSet(running') /\ Cardinality(running') <= Threads
    <3>1. IsFiniteSet(running) /\ Threads \in Nat \ {0}
      BY <1>0, PipelineAssumption DEF Pool
    <3>2. /\ Cardinality(running) \in Nat
          /\ IsFiniteSet(running \cup {i})
          /\ Cardinality(running \cup {i}) = Cardinality(running) + 1
      BY <1>1, <3>1, FS_AddElement, FS_CardinalityType
    <3>3. Cardinality(running) < Threads
      <4>1. CASE running = {}
        BY <3>1, <4>1, FS_EmptySet
      <4> QED BY <1>1, <4>1
    <3> QED BY <1>1, <3>1, <3>2, <3>3
  <2> QED BY <1>0, <1>1, <1>3, <2>1, SameCut DEF Pool, HasSize
<1>5. Assembled' /\ Parsed' /\ Opened'
  BY <1>0, <1>1, <1>3, KeepAssembled, KeepParsed, KeepOpened
     DEF HasSize, tableVars, readerVars
<1> QED BY <1>2, <1>4, <1>5 DEF IInv

\* The result of a segment is kept at its place.
LEMMA FinishStep == ASSUME IInv, NEW i \in Indexes, Finish(i) PROVE IInv'
<1>0. Asked /\ Pool /\ Assembled /\ Parsed /\ Opened
  BY DEF IInv
<1>1. /\ i \in running /\ running' = running \ {i}
      /\ result' = [result EXCEPT ![i] = EncryptSegment(i)]
      /\ UNCHANGED <<inputVars, tableVars, verdict, readerVars, output>>
  BY DEF Finish
<1>2. HasSize
  BY <1>0, <1>1 DEF Asked
<1>3. UNCHANGED <<inner, requested>>
  BY <1>1 DEF inputVars
<1>4. Asked'
  BY <1>0, <1>1, <1>2 DEF Asked, HasSize, inputVars, tableVars, readerVars, BeforeReading, Exact
<1>5. Pool'
  <2>1. IsFiniteSet(running') /\ Cardinality(running') <= Threads
    <3>1. IsFiniteSet(running) /\ Threads \in Nat /\ Cardinality(running) <= Threads
      BY <1>0, PipelineAssumption DEF Pool
    <3>2. /\ Cardinality(running) \in Nat
          /\ IsFiniteSet(running \ {i})
          /\ Cardinality(running \ {i}) = Cardinality(running) - 1
      BY <1>1, <3>1, FS_RemoveElement, FS_CardinalityType
    <3> QED BY <1>1, <3>1, <3>2
  <2>2. DOMAIN result' = Indexes
        /\ \A j \in Indexes : result'[j] = IF j = i THEN EncryptSegment(i) ELSE result[j]
    BY <1>0, <1>1, <1>2 DEF Pool
  <2>3. \A j : EncryptSegment(j)' = EncryptSegment(j)
    BY <1>3, SameCut
  <2>4. Indexes' = Indexes
    BY <1>3, SameCut
  <2>5. \A j \in Indexes : result'[j] \in {None, EncryptSegment(j)}
    BY <1>0, <1>2, <2>2 DEF Pool
  <2>6. running' \subseteq Indexes /\ \A j \in running' : result'[j] = None
    BY <1>0, <1>1, <2>2 DEF Pool
  <2> QED BY <2>1, <2>2, <2>3, <2>4, <2>5, <2>6 DEF Pool
<1>6. Assembled' /\ Parsed' /\ Opened'
  BY <1>0, <1>1, <1>3, KeepAssembled, KeepParsed, KeepOpened
     DEF HasSize, tableVars, readerVars
<1> QED BY <1>4, <1>5, <1>6 DEF IInv

\* The next result is put at the end of the table and of the ciphertext.
LEMMA AssembleStep == ASSUME IInv, Assemble PROVE IInv'
<1> DEFINE m == Len(table)
<1> DEFINE r == result[m]
<1> DEFINE c == Encrypt(m, Pad(Plain(m)))
<1>0. Asked /\ Pool /\ Assembled /\ Parsed /\ Opened
  BY DEF IInv
<1>1. /\ verdict = "encrypting" /\ AllReady /\ m < Chunks
      /\ table' = Append(table, [index |-> r.index, plainOffset |-> plainOffset,
                                 plainLength |-> r.plainLength,
                                 cipherOffset |-> cipherOffset,
                                 cipherLength |-> Len(r.bytes)])
      /\ plainOffset' = plainOffset + r.plainLength
      /\ cipherOffset' = cipherOffset + Len(r.bytes)
      /\ ciphertext' = ciphertext \o r.bytes
      /\ UNCHANGED <<inputVars, running, result, verdict, readerVars, output>>
  BY DEF Assemble
<1>2. HasSize
  BY <1>1 DEF HasSize
<1>3. UNCHANGED <<inner, requested>>
  BY <1>1 DEF inputVars
<1>4. /\ IsSeq(table) /\ IsSeq(ciphertext)
      /\ \A k \in 1..m : table[k] = EntryOf(k - 1)
      /\ At(m, plainOffset, cipherOffset) /\ cipherOffset = Len(ciphertext)
      /\ \A i \in 0..m - 1 :
           /\ i * Full + Padded(i) <= Len(ciphertext)
           /\ \A b \in 1..Padded(i) :
                ciphertext[i * Full + b] = Encrypt(i, Pad(Plain(i)))[b]
  BY <1>0, <1>2 DEF Assembled
<1>5. m \in Nat /\ m \in Indexes /\ Len(ciphertext) \in Nat /\ Chunks \in Nat
  <2>1. m \in Nat /\ Len(ciphertext) \in Nat
    BY <1>4, SeqFacts
  <2>2. Chunks \in Nat
    BY <1>0, Cut
  <2> QED BY <1>1, <2>1, <2>2 DEF Indexes
<1>6. r = EncryptSegment(m)
  BY <1>0, <1>1, <1>2, <1>5 DEF Pool, AllReady
<1>7. r.index = m /\ r.plainLength = Len(Plain(m)) /\ r.bytes = c
  BY <1>6 DEF EncryptSegment
<1>8. IsSeq(c) /\ Len(c) = Padded(m) /\ Padded(m) \in Nat /\ Padded(m) = Len(Pad(Plain(m)))
  <2>1. IsSeq(Pad(Plain(m))) /\ Padded(m) \in Nat
    BY <1>0, <1>5, Sealed
  <2> QED BY <2>1, DecryptInverts DEF Padded
<1>9. /\ plainOffset = m * SegmentSize /\ cipherOffset = m * Full
      /\ At(m + 1, plainOffset + Len(Plain(m)), cipherOffset + Padded(m))
  BY <1>0, <1>1, <1>4, <1>5, AtNext
<1> HIDE DEF r, c
<1>10. table' = Append(table, EntryOf(m))
  BY <1>1, <1>7, <1>8, <1>9 DEF EntryOf
<1>11. /\ IsSeq(table') /\ Len(table') = m + 1
       /\ \A k \in 1..m : table'[k] = table[k]
       /\ table'[m + 1] = EntryOf(m)
  BY <1>4, <1>10, Appended
<1>12. /\ IsSeq(ciphertext') /\ Len(ciphertext') = Len(ciphertext) + Padded(m)
       /\ \A b \in 1..Len(ciphertext) + Padded(m) :
            ciphertext'[b] = IF b <= Len(ciphertext) THEN ciphertext[b]
                             ELSE c[b - Len(ciphertext)]
  <2>1. ciphertext' = ciphertext \o c
    BY <1>1, <1>7
  <2>2. IsSeq(ciphertext) /\ IsSeq(c) /\ Len(c) = Padded(m)
    BY <1>4, <1>8
  <2> QED BY ONLY <2>1, <2>2, Concatenated
<1>13. plainOffset' = plainOffset + Len(Plain(m)) /\ cipherOffset' = cipherOffset + Padded(m)
  BY <1>1, <1>7, <1>8
<1> HIDE DEF m
<1>14. \A k \in 1..m + 1 : table'[k] = EntryOf(k - 1)
  <2>1. \A k \in 1..m + 1 : k \in 1..m \/ k = m + 1
    BY <1>5
  <2>2. (m + 1) - 1 = m
    BY <1>5
  <2> QED BY <1>4, <1>11, <2>1, <2>2
<1>15. ASSUME NEW i \in 0..m
       PROVE  /\ i * Full + Padded(i) <= Len(ciphertext')
              /\ \A b \in 1..Padded(i) :
                   ciphertext'[i * Full + b] = Encrypt(i, Pad(Plain(i)))[b]
  <2>1. CASE i = m
    <3>1. i * Full = Len(ciphertext)
      BY <1>4, <1>9, <2>1
    <3>2. \A b \in 1..Padded(m) : /\ Len(ciphertext) + b \in 1..Len(ciphertext) + Padded(m)
                                  /\ ~(Len(ciphertext) + b <= Len(ciphertext))
                                  /\ Len(ciphertext) + b - Len(ciphertext) = b
      BY <1>5, <1>8
    <3>3. \A b \in 1..Padded(m) : ciphertext'[Len(ciphertext) + b] = c[b]
      BY <1>12, <3>2
    <3>4. Len(ciphertext) + Padded(m) <= Len(ciphertext')
      BY <1>5, <1>8, <1>12
    <3> QED BY <2>1, <3>1, <3>3, <3>4 DEF c
  <2>2. CASE i # m
    <3>1. i \in 0..m - 1 /\ i \in Indexes
      BY <1>1, <1>5, <2>2 DEF Indexes, m
    <3>2. i * Full \in Nat /\ Padded(i) \in Nat
      BY <1>0, <3>1, Sealed
    <3>3. /\ i * Full + Padded(i) <= Len(ciphertext)
          /\ \A b \in 1..Padded(i) :
               ciphertext[i * Full + b] = Encrypt(i, Pad(Plain(i)))[b]
      BY <1>4, <3>1
    <3> DEFINE a == i * Full
    <3> HIDE DEF a
    <3>4. a \in Nat /\ a + Padded(i) <= Len(ciphertext)
      BY <3>2, <3>3 DEF a
    <3>5. \A b \in 1..Padded(i) : /\ a + b \in 1..Len(ciphertext) + Padded(m)
                                  /\ a + b <= Len(ciphertext)
      BY <1>5, <1>8, <3>2, <3>4
    <3>6. \A b \in 1..Padded(i) : ciphertext'[a + b] = ciphertext[a + b]
      BY <1>12, <3>5
    <3>7. a + Padded(i) <= Len(ciphertext')
      BY <1>5, <1>8, <1>12, <3>2, <3>4
    <3> QED BY <3>3, <3>6, <3>7 DEF a
  <2> QED BY <2>1, <2>2
<1>16. /\ Chunks' = Chunks /\ SegmentSize' = SegmentSize /\ Full' = Full
       /\ \A i : Plain(i)' = Plain(i) /\ Padded(i)' = Padded(i) /\ EntryOf(i)' = EntryOf(i)
       /\ Indexes' = Indexes /\ \A i : EncryptSegment(i)' = EncryptSegment(i)
  BY <1>3, SameCut
<1>17. Assembled'
  <2>1. At(m + 1, plainOffset + Len(Plain(m)), cipherOffset + Padded(m))
        => At(Len(table), plainOffset, cipherOffset)'
    BY <1>11, <1>13, <1>16 DEF At
  <2>2. Len(table') <= Chunks /\ Len(table') - 1 = m
    BY <1>1, <1>5, <1>11 DEF m
  <2>3. cipherOffset' = Len(ciphertext')
    BY <1>4, <1>12, <1>13
  <2> QED BY <1>9, <1>11, <1>12, <1>14, <1>15, <1>16, <2>1, <2>2, <2>3 DEF Assembled
<1>18. Asked'
  BY <1>0, <1>1, <1>2 DEF Asked, HasSize, inputVars, readerVars, BeforeReading, Exact
<1>19. Pool'
  BY <1>0, <1>1, <1>2, <1>16 DEF Pool, HasSize
<1>20. Parsed' /\ Opened'
  BY <1>0, <1>1, <1>3, KeepOpened DEF Parsed, BeforeReading, readerVars
<1> QED BY <1>17, <1>18, <1>19, <1>20 DEF IInv

\* The container is complete.
LEMMA HandStep == ASSUME IInv, Hand PROVE IInv'
<1>0. Asked /\ Pool /\ Assembled /\ Parsed /\ Opened
  BY DEF IInv
<1>1. /\ verdict = "encrypting" /\ Len(table) = Chunks /\ verdict' = "parsing"
      /\ count' = Len(table) /\ cipherLen' = Len(ciphertext)
      /\ UNCHANGED <<inputVars, running, result, tableVars, ragged, entries,
                     plainEnd, cipherEnd, lengths, output>>
  BY DEF Hand
<1>2. UNCHANGED <<inner, requested, table, ciphertext>> /\ HasSize /\ HasSize'
  BY <1>1 DEF inputVars, tableVars, HasSize
<1>3. /\ Chunks' = Chunks /\ Indexes' = Indexes
      /\ \A i : EncryptSegment(i)' = EncryptSegment(i)
  BY <1>2, SameCut
<1>4. Asked'
  BY <1>0, <1>1, <1>2 DEF Asked, HasSize, inputVars, tableVars, BeforeReading, Exact
<1>5. Pool'
  BY <1>0, <1>1, <1>2, <1>3 DEF Pool
<1>6. Assembled'
  BY <1>0, <1>1, <1>2, KeepAssembled
<1>7. Parsed'
  <2>1. entries' = << >> /\ plainEnd' = 0 /\ cipherEnd' = 0
    BY <1>0, <1>1 DEF Asked, BeforeReading
  <2>2. IsSeq(<< >>) /\ Len(<< >>) = 0
    <3>1. << >> \in Seq(Nat)
      OBVIOUS
    <3> QED BY <3>1 DEF IsSeq
  <2>3. Chunks' \in Nat \ {0} /\ SegmentSize' \in Nat /\ Full' \in Nat
    BY <1>4, NumbersNext DEF Numbered
  <2>4. At(0, 0, 0)'
    <3>1. \A n \in Nat : 0 * n = 0
      OBVIOUS
    <3>2. 0 * SegmentSize' = 0 /\ 0 * Full' = 0
      BY <2>3, <3>1
    <3> QED BY <3>2 DEF At
  <2> QED BY <1>1, <1>2, <1>3, <2>1, <2>2, <2>3, <2>4 DEF Parsed
<1>8. Opened'
  BY <1>0, <1>1 DEF Opened
<1> QED BY <1>4, <1>5, <1>6, <1>7, <1>8 DEF IInv

\* What the entries of the table are to the reader.
LEMMA EntryFacts ==
  ASSUME IInv, verdict \notin BeforeReading, NEW i \in Indexes
  PROVE  /\ Len(ciphertext) \in 0..MaxWord
         /\ i * SegmentSize + Len(Plain(i)) <= MaxWord
         /\ i * Full + Padded(i) <= Len(ciphertext)
         /\ Padded(i) # 0 /\ Padded(i) % BlockBytes = 0
         /\ EntryOf(i) \in Reader!Entry
<1>0. Asked /\ Assembled /\ Parsed
  BY DEF IInv
<1>1. HasSize /\ Len(table) = Chunks
  BY <1>0 DEF HasSize, BeforeReading, Parsed
<1>2. At(Chunks, plainOffset, cipherOffset) /\ cipherOffset = Len(ciphertext)
  BY <1>0, <1>1 DEF Assembled
<1>3. Len(ciphertext) \in 0..MaxWord
  BY <1>0, <1>2, AtEnd
<1>4. /\ i \in Nat /\ i < Chunks /\ i * SegmentSize \in Nat /\ Len(Plain(i)) \in Nat \ {0}
      /\ i * SegmentSize + Len(Plain(i)) <= Len(inner) /\ Chunks \in Nat
      /\ Chunks <= Len(inner)
  BY <1>0, Cut
<1>5. i * Full \in Nat /\ Padded(i) \in Nat \ {0} /\ Padded(i) % BlockBytes = 0
  BY <1>0, Sealed
<1>6. Len(inner) \in Nat /\ Len(inner) <= MaxWord /\ MaxWord \in Nat
  BY <1>0, Sizes
<1>7. i * Full + Padded(i) <= Len(ciphertext)
  <2>1. i \in 0..Len(table) - 1
    BY <1>1, <1>4
  <2> QED BY <1>0, <1>1, <2>1 DEF Assembled
<1>8. i * SegmentSize + Len(Plain(i)) <= MaxWord
  BY <1>4, <1>6
<1>9. /\ i \in 0..MaxWord /\ i * SegmentSize \in 0..MaxWord /\ Len(Plain(i)) \in 0..MaxWord
      /\ i * Full \in 0..MaxWord /\ Padded(i) \in 0..MaxWord
  BY <1>3, <1>4, <1>5, <1>6, <1>7, <1>8
<1>10. EntryOf(i) \in Reader!Entry
  BY <1>9 DEF EntryOf, Reader!Entry, Reader!Words
<1> QED BY <1>3, <1>5, <1>7, <1>8, <1>10

\* A step of the reader that leaves the writer alone, once its own part is known.
LEMMA ReaderStep ==
  ASSUME IInv, UNCHANGED <<inputVars, running, result, tableVars>>,
         verdict \notin BeforeReading, verdict' \in {"parsing", "decrypting", "opened"},
         ragged' = ragged, Parsed', Opened'
  PROVE  IInv'
<1>0. Asked /\ Pool /\ Assembled
  BY DEF IInv
<1>1. HasSize /\ HasSize' /\ UNCHANGED <<inner, requested>>
  BY DEF HasSize, BeforeReading, inputVars
<1>2. Asked'
  BY <1>0, <1>1 DEF Asked, HasSize, inputVars, tableVars, BeforeReading, Exact
<1>3. Indexes' = Indexes /\ \A i : EncryptSegment(i)' = EncryptSegment(i)
  BY <1>1, SameCut
<1>4. Pool'
  BY <1>0, <1>1, <1>3 DEF Pool
<1>5. Assembled'
  BY <1>0, <1>1, KeepAssembled
<1> QED BY <1>2, <1>4, <1>5 DEF IInv

\* No entry of the table is refused.
LEMMA ReadEntryStep ==
  ASSUME IInv, Len(entries) < Len(table), Reader!ReadEntry(table[Len(entries) + 1]),
         UNCHANGED writerVars
  PROVE  IInv'
<1> DEFINE n == Len(entries)
<1> DEFINE e == EntryOf(n)
<1>0. Asked /\ Assembled /\ Parsed /\ Opened
  BY DEF IInv
<1>1. verdict = "parsing"
  BY DEF Reader!ReadEntry
<1>2. HasSize /\ verdict \notin BeforeReading
  BY <1>1 DEF HasSize, BeforeReading
<1>3. /\ Len(table) = Chunks /\ IsSeq(entries)
      /\ \A k \in 1..n : entries[k] = EntryOf(k - 1)
      /\ At(n, plainEnd, cipherEnd)
  BY <1>0, <1>2 DEF Parsed
<1>4. n \in Nat /\ Chunks \in Nat /\ n \in Indexes
  BY <1>0, <1>3, Cut, SeqFacts DEF Indexes
<1>5. table[n + 1] = e
  <2>1. n + 1 \in 1..Len(table) /\ (n + 1) - 1 = n
    BY <1>3, <1>4
  <2> QED BY <1>0, <1>2, <2>1 DEF Assembled
<1>6. /\ plainEnd = n * SegmentSize /\ cipherEnd = n * Full
      /\ At(n + 1, plainEnd + Len(Plain(n)), cipherEnd + Padded(n))
  BY <1>0, <1>3, <1>4, AtNext
<1>7. /\ Len(ciphertext) \in 0..MaxWord
      /\ n * SegmentSize + Len(Plain(n)) <= MaxWord
      /\ n * Full + Padded(n) <= Len(ciphertext)
      /\ Padded(n) # 0 /\ Padded(n) % BlockBytes = 0
  BY <1>2, <1>4, EntryFacts
<1>8. /\ e.index = n /\ e.plainOffset = n * SegmentSize /\ e.plainLength = Len(Plain(n))
      /\ e.cipherOffset = n * Full /\ e.cipherLength = Padded(n)
  BY DEF EntryOf
<1>9. n * SegmentSize \in Nat /\ Len(Plain(n)) \in Nat /\ n * Full \in Nat /\ Padded(n) \in Nat
      /\ MaxWord \in Nat
  BY <1>0, <1>4, Cut, Sealed, Sizes
<1> HIDE DEF n, e
<1>10. Reader!Contiguous(e)
  BY <1>6, <1>7, <1>8 DEF Reader!Contiguous, n
<1>11. Reader!Fits(e)
  BY <1>6, <1>7, <1>8, <1>9 DEF Reader!Fits
<1>12. /\ entries' = Append(entries, e)
       /\ plainEnd' = (plainEnd + e.plainLength) % (MaxWord + 1)
       /\ cipherEnd' = (cipherEnd + e.cipherLength) % (MaxWord + 1)
       /\ UNCHANGED <<verdict, count, ragged, cipherLen, lengths>>
  BY <1>5, <1>10, <1>11 DEF Reader!ReadEntry, Reader!tableVars, n
<1>13. plainEnd' = plainEnd + Len(Plain(n)) /\ cipherEnd' = cipherEnd + Padded(n)
  <2>1. ASSUME NEW a \in Nat, a <= MaxWord PROVE a % (MaxWord + 1) = a
    BY <1>9, <2>1
  <2>p. PICK p \in Nat, c \in Nat : p = n * SegmentSize /\ c = n * Full
    BY <1>9
  <2>2. /\ p + Len(Plain(n)) <= MaxWord /\ c + Padded(n) <= Len(ciphertext)
        /\ plainEnd = p /\ cipherEnd = c
    BY <1>6, <1>7, <2>p
  <2>3. p + Len(Plain(n)) \in Nat /\ c + Padded(n) \in Nat /\ c + Padded(n) <= MaxWord
    <3>1. Len(ciphertext) \in 0..MaxWord
      BY <1>7
    <3>2. Len(Plain(n)) \in Nat /\ Padded(n) \in Nat /\ MaxWord \in Nat
      BY <1>9
    <3> QED BY ONLY <2>2, <3>1, <3>2, p \in Nat, c \in Nat
  <2>4. plainEnd + e.plainLength = p + Len(Plain(n)) /\ cipherEnd + e.cipherLength = c + Padded(n)
    BY <1>8, <2>2
  <2>5. (p + Len(Plain(n))) % (MaxWord + 1) = p + Len(Plain(n))
    BY <2>1, <2>2, <2>3
  <2>6. (c + Padded(n)) % (MaxWord + 1) = c + Padded(n)
    BY <2>1, <2>3
  <2>7. plainEnd' = p + Len(Plain(n))
    <3>1. plainEnd' = (plainEnd + e.plainLength) % (MaxWord + 1)
      BY <1>12
    <3> QED BY ONLY <2>4, <2>5, <3>1
  <2>8. cipherEnd' = c + Padded(n)
    <3>1. cipherEnd' = (cipherEnd + e.cipherLength) % (MaxWord + 1)
      BY <1>12
    <3> QED BY ONLY <2>4, <2>6, <3>1
  <2> QED BY <2>2, <2>7, <2>8
<1>14. UNCHANGED <<inputVars, running, result, tableVars, output>>
  BY DEF writerVars
<1>15. UNCHANGED <<inner, requested, table, ciphertext>>
  BY <1>14 DEF inputVars, tableVars
<1>16. /\ Chunks' = Chunks /\ SegmentSize' = SegmentSize /\ Full' = Full
       /\ \A i : Plain(i)' = Plain(i) /\ Padded(i)' = Padded(i) /\ EntryOf(i)' = EntryOf(i)
  BY <1>15, SameCut
<1>17. /\ IsSeq(entries') /\ Len(entries') = n + 1
       /\ \A k \in 1..n + 1 : entries'[k] = EntryOf(k - 1)
  <2>1. /\ IsSeq(entries') /\ Len(entries') = n + 1
        /\ \A k \in 1..n : entries'[k] = entries[k]
        /\ entries'[n + 1] = EntryOf(n)
    BY <1>3, <1>12, Appended DEF n, e
  <2>2. \A k \in 1..n + 1 : k \in 1..n \/ k = n + 1
    BY <1>4
  <2>3. (n + 1) - 1 = n
    BY <1>4
  <2> QED BY <1>3, <2>1, <2>2, <2>3
<1>18. At(n + 1, plainEnd + Len(Plain(n)), cipherEnd + Padded(n))
       => At(Len(entries), plainEnd, cipherEnd)'
  BY <1>13, <1>16, <1>17 DEF At
<1>19. n + 1 <= Chunks
  BY <1>3, <1>4 DEF n
<1>20. Parsed'
  BY <1>0, <1>1, <1>2, <1>6, <1>12, <1>15, <1>16, <1>17, <1>18, <1>19 DEF Parsed
<1>21. Opened'
  BY <1>0, <1>12, <1>14, <1>15, KeepOpened
<1> QED BY <1>1, <1>2, <1>12, <1>14, <1>20, <1>21, ReaderStep

\* Nor is the table: it ends where the ciphertext does.
LEMMA EndTableStep == ASSUME IInv, Reader!EndTable, UNCHANGED writerVars PROVE IInv'
<1>0. Asked /\ Assembled /\ Parsed /\ Opened
  BY DEF IInv
<1>1. /\ verdict = "parsing" /\ Len(entries) = count
      /\ verdict' = (IF cipherEnd # cipherLen THEN "Format" ELSE "decrypting")
      /\ UNCHANGED <<count, ragged, cipherLen, entries, plainEnd, cipherEnd, lengths>>
  BY DEF Reader!EndTable, Reader!Refuse, Reader!tableVars
<1>2. HasSize /\ verdict \notin BeforeReading
  BY <1>1 DEF HasSize, BeforeReading
<1>3. /\ Len(table) = Chunks /\ count = Chunks /\ cipherLen = Len(ciphertext)
      /\ At(Chunks, plainEnd, cipherEnd)
  BY <1>0, <1>1, <1>2 DEF Parsed
<1>4. At(Chunks, plainOffset, cipherOffset) /\ cipherOffset = Len(ciphertext)
  BY <1>0, <1>2, <1>3 DEF Assembled
<1>5. cipherEnd = cipherOffset
  <2>1. Chunks > 0
    BY <1>0, Cut
  <2> QED BY <1>3, <1>4, <2>1 DEF At
<1>6. verdict' = "decrypting"
  BY <1>1, <1>3, <1>4, <1>5
<1>7. UNCHANGED <<inputVars, running, result, tableVars, output>>
      /\ UNCHANGED <<inner, requested, table, ciphertext>>
  BY DEF writerVars, inputVars, tableVars
<1>8. /\ Chunks' = Chunks /\ SegmentSize' = SegmentSize /\ Full' = Full
      /\ \A i : Plain(i)' = Plain(i) /\ Padded(i)' = Padded(i) /\ EntryOf(i)' = EntryOf(i)
  BY <1>7, SameCut
<1>9. Parsed'
  <2>1. At(Len(entries), plainEnd, cipherEnd)' <=> At(Len(entries), plainEnd, cipherEnd)
    BY <1>1, <1>8 DEF At
  <2> QED BY <1>0, <1>1, <1>2, <1>3, <1>7, <1>8, <2>1 DEF Parsed
<1>10. Opened'
  <2>1. lengths = << >> /\ output = << >>
    BY <1>0, <1>1 DEF Opened
  <2>2. Len(<< >>) = 0
    OBVIOUS
  <2>3. Chunks \in Nat \ {0} /\ SegmentSize \in Nat
    BY <1>0, Cut, Sizes
  <2>4. 0 * SegmentSize = 0
    <3>1. \A n \in Nat : 0 * n = 0
      OBVIOUS
    <3> QED BY <2>3, <3>1
  <2> QED BY <1>0, <1>1, <1>6, <1>7, <1>8, <2>1, <2>2, <2>3, <2>4 DEF Opened
<1> QED BY <1>1, <1>2, <1>6, <1>7, <1>9, <1>10, ReaderStep

\* The last segment was decrypted.
LEMMA EndSegmentsStep == ASSUME IInv, EndSegments PROVE IInv'
<1>0. Asked /\ Parsed /\ Opened
  BY DEF IInv
<1>1. /\ verdict = "decrypting" /\ Len(lengths) = Len(entries) /\ verdict' = "opened"
      /\ UNCHANGED <<count, ragged, cipherLen, entries, plainEnd, cipherEnd, lengths>>
      /\ UNCHANGED <<inputVars, running, result, tableVars, output>>
  BY DEF EndSegments, Reader!EndSegments, Reader!Refuse, Reader!tableVars, writerVars
<1>2. UNCHANGED <<inner, requested, table, ciphertext>>
  BY <1>1 DEF inputVars, tableVars
<1>3. Parsed'
  BY <1>0, <1>1, <1>2, KeepParsed DEF BeforeReading
<1>4. Len(lengths) = Chunks
  BY <1>0, <1>1 DEF Parsed, BeforeReading
<1>5. Chunks' = Chunks /\ SegmentSize' = SegmentSize
  BY <1>2, SameCut
<1>6. Opened'
  BY <1>0, <1>1, <1>2, <1>4, <1>5 DEF Opened
<1> QED BY <1>1, <1>3, <1>6, ReaderStep DEF BeforeReading

\* The bytes of a segment of the complete ciphertext are what its encryption
\* gave, and decrypt to what was encrypted.
LEMMA SliceOpens ==
  ASSUME IInv, verdict \notin BeforeReading, NEW i \in Indexes
  PROVE  /\ SubSeq(ciphertext, i * Full + 1, i * Full + Padded(i))
               = Encrypt(i, Pad(Plain(i)))
         /\ Decrypt(i, SubSeq(ciphertext, i * Full + 1, i * Full + Padded(i)))
               = Pad(Plain(i))
<1> DEFINE a == i * Full
<1> DEFINE k == Padded(i)
<1> DEFINE c == Encrypt(i, Pad(Plain(i)))
<1>0. Asked /\ Assembled /\ Parsed /\ HasSize
  BY DEF IInv, HasSize, BeforeReading
<1>1. a \in Nat /\ k \in Nat \ {0} /\ IsSeq(Pad(Plain(i)))
  BY <1>0, Sealed
<1>2. IsSeq(c) /\ Len(c) = k /\ Decrypt(i, c) = Pad(Plain(i))
  BY <1>1, DecryptInverts DEF Padded
<1>3. i \in 0..Len(table) - 1
  BY <1>0 DEF Parsed, Indexes
<1>4. /\ IsSeq(ciphertext) /\ a + k <= Len(ciphertext)
      /\ \A b \in 1..k : ciphertext[a + b] = c[b]
  BY <1>0, <1>3 DEF Assembled
<1> HIDE DEF a, k, c
<1>5. PICK f \in Nat \ {0} : f = a + 1
  BY <1>1
<1>6. PICK z \in Nat : z = a + k
  BY <1>1
<1>7. z <= Len(ciphertext) /\ f <= z + 1 /\ z - f + 1 = k
      /\ \A b \in 1..k : f + b - 1 = a + b
  BY <1>1, <1>4, <1>5, <1>6
<1> DEFINE s == SubSeq(ciphertext, f, z)
<1>8. IsSeq(s) /\ Len(s) = z - f + 1
      /\ \A b \in 1..(z - f + 1) : s[b] = ciphertext[f + b - 1]
  BY <1>4, <1>7, Between
<1> HIDE DEF s
<1>9. Len(s) = Len(c) /\ \A b \in 1..Len(s) : s[b] = c[b]
  BY <1>2, <1>4, <1>7, <1>8
<1>10. s = c
  BY <1>2, <1>8, <1>9, SameElements
<1>11. SubSeq(ciphertext, a + 1, a + k) = c
  BY <1>5, <1>6, <1>10 DEF s
<1> QED BY <1>2, <1>11 DEF a, k, c

\* A segment is decrypted to what was encrypted, and is never refused.
LEMMA DecryptSegmentStep == ASSUME IInv, DecryptSegment PROVE IInv'
<1> DEFINE m == Len(lengths)
<1> DEFINE e == entries[m + 1]
<1> DEFINE slice == SubSeq(ciphertext, e.cipherOffset + 1,
                           e.cipherOffset + e.cipherLength)
<1> DEFINE bytes == Decrypt(e.index, slice)
<1>0. Asked /\ Parsed /\ Opened
  BY DEF IInv
<1>1. /\ verdict = "decrypting" /\ m < Len(entries)
      /\ IF UnpadVerdict(bytes) = "ok" /\ Len(Unpad(bytes)) = e.plainLength
         THEN /\ output' = output \o Unpad(bytes)
              /\ lengths' = Append(lengths, Len(Unpad(bytes)))
              /\ UNCHANGED verdict
         ELSE /\ verdict' = "Authentication"
              /\ UNCHANGED <<output, lengths>>
      /\ UNCHANGED <<inputVars, running, result, tableVars, count, ragged,
                     cipherLen, entries, plainEnd, cipherEnd>>
  BY DEF DecryptSegment
<1>2. verdict \notin BeforeReading
  BY <1>1 DEF BeforeReading
<1>3. Len(entries) = Chunks /\ \A k \in 1..Chunks : entries[k] = EntryOf(k - 1)
  BY <1>0, <1>1, <1>2 DEF Parsed
<1>4. m \in Nat /\ Chunks \in Nat /\ m \in Indexes /\ m < Chunks /\ lengths \in Seq(Nat)
  BY <1>0, <1>1, <1>3, Cut DEF Opened, Indexes
<1>5. e = EntryOf(m)
  <2>1. m + 1 \in 1..Chunks /\ (m + 1) - 1 = m
    BY <1>4
  <2> QED BY <1>3, <2>1
<1>6. /\ e.index = m /\ e.plainLength = Len(Plain(m))
      /\ e.cipherOffset = m * Full /\ e.cipherLength = Padded(m)
  BY <1>5 DEF EntryOf
<1>7. bytes = Pad(Plain(m))
  BY <1>2, <1>4, <1>6, SliceOpens
<1>8. /\ IsSeq(Plain(m)) /\ Len(Plain(m)) \in Nat /\ m * SegmentSize \in Nat
      /\ m + 1 < Chunks => Len(Plain(m)) = SegmentSize
      /\ m + 1 = Chunks => m * SegmentSize + Len(Plain(m)) = Len(inner)
      /\ \A b \in 1..Len(Plain(m)) : Plain(m)[b] = inner[m * SegmentSize + b]
  BY <1>0, <1>4, Cut
<1>9. UnpadVerdict(bytes) = "ok" /\ Unpad(bytes) = Plain(m)
  BY <1>7, <1>8, UnpadInverts
<1> HIDE DEF bytes, e
<1>10. /\ output' = output \o Plain(m)
       /\ lengths' = Append(lengths, Len(Plain(m)))
       /\ verdict' = "decrypting"
  BY <1>1, <1>6, <1>9
<1>11. /\ IsSeq(output) /\ Len(output) = m * SegmentSize
       /\ \A b \in 1..Len(output) : output[b] = inner[b]
  BY <1>0, <1>1, <1>4 DEF Opened
<1>12. /\ IsSeq(output') /\ Len(output') = Len(output) + Len(Plain(m))
       /\ \A b \in 1..Len(output) + Len(Plain(m)) :
            output'[b] = IF b <= Len(output) THEN output[b] ELSE Plain(m)[b - Len(output)]
  BY <1>8, <1>10, <1>11, Concatenated
<1>13. lengths' \in Seq(Nat) /\ Len(lengths') = m + 1
  BY <1>4, <1>8, <1>10
<1> DEFINE o == Len(output)
<1> HIDE DEF m
<1>14. o \in Nat /\ o = m * SegmentSize
  BY <1>8, <1>11
<1> HIDE DEF o
<1>15. \A b \in 1..Len(output') : output'[b] = inner[b]
  <2> SUFFICES ASSUME NEW b \in 1..o + Len(Plain(m)) PROVE output'[b] = inner[b]
    BY <1>12 DEF o
  <2>1. CASE b <= o
    BY <1>11, <1>12, <1>14, <2>1 DEF o
  <2>2. CASE ~(b <= o)
    <3>1. b - o \in 1..Len(Plain(m)) /\ o + (b - o) = b
      BY <1>8, <1>14, <2>2
    <3>2. output'[b] = Plain(m)[b - o]
      BY <1>12, <2>2 DEF o
    <3>3. Plain(m)[b - o] = inner[o + (b - o)]
      BY <1>8, <1>14, <3>1
    <3> QED BY <3>1, <3>2, <3>3
  <2> QED BY <2>1, <2>2
<1>16. m + 1 < Chunks => Len(output') = (m + 1) * SegmentSize
  <2>1. \A x, y \in Nat : (x + 1) * y = x * y + y
    OBVIOUS
  <2>2. SegmentSize \in Nat
    BY <1>0, Sizes
  <2>3. (m + 1) * SegmentSize = m * SegmentSize + SegmentSize
    BY <1>4, <2>1, <2>2
  <2> QED BY <1>8, <1>12, <1>14, <2>3 DEF o
<1>17. m + 1 = Chunks => Len(output') = Len(inner)
  BY <1>8, <1>12, <1>14 DEF o
<1>18. UNCHANGED <<inner, requested, table, ciphertext>>
       /\ UNCHANGED <<count, ragged, cipherLen, entries, plainEnd, cipherEnd>>
  BY <1>1 DEF inputVars, tableVars
<1>19. Chunks' = Chunks /\ SegmentSize' = SegmentSize
  BY <1>18, SameCut
<1>20. Opened'
  <2>1. m + 1 <= Chunks /\ IsSeq(output')
    BY <1>4, <1>12
  <2>2. m + 1 < Chunks => Len(output') = Len(lengths') * SegmentSize'
    BY <1>13, <1>16, <1>19
  <2>3. inner' = inner /\ verdict' = "decrypting"
    BY <1>10, <1>18
  <2> HIDE DEF IsSeq
  <2>4. Len(lengths') <= Chunks'
    BY <1>13, <1>19, <2>1
  <2>5. Len(lengths') < Chunks' => Len(output') = Len(lengths') * SegmentSize'
    BY <1>13, <1>19, <2>2
  <2>6. Len(lengths') = Chunks' => Len(output') = Len(inner')
    BY <1>13, <1>17, <1>19, <2>3
  <2>7. \A b \in 1..Len(output') : output'[b] = inner'[b]
    BY <1>15, <2>3
  <2> QED BY <1>13, <2>1, <2>3, <2>4, <2>5, <2>6, <2>7 DEF Opened
<1>21. Parsed'
  BY <1>0, <1>1, <1>10, <1>18, KeepParsed
<1> QED BY <1>1, <1>2, <1>10, <1>18, <1>20, <1>21, ReaderStep

\* Every step keeps the invariant.
LEMMA NextInv == IInv /\ [Next]_vars => IInv'
<1> SUFFICES ASSUME IInv, [Next]_vars PROVE IInv'
  OBVIOUS
<1>1. CASE ParseSize
  BY <1>1, ParseSizeStep
<1>2. CASE \E i \in Indexes : Take(i) \/ Finish(i)
  BY <1>2, TakeStep, FinishStep
<1>3. CASE Assemble
  BY <1>3, AssembleStep
<1>4. CASE Hand
  BY <1>4, HandStep
<1>5. CASE Parse
  BY <1>5, ReadEntryStep, EndTableStep DEF Parse
<1>6. CASE DecryptSegment
  BY <1>6, DecryptSegmentStep
<1>7. CASE EndSegments
  BY <1>7, EndSegmentsStep
<1>8. CASE UNCHANGED vars
  <2>1. UNCHANGED <<inputVars, running, result, tableVars, verdict, readerVars, output>>
    BY <1>8 DEF vars
  <2>2. Asked /\ Pool /\ Assembled /\ Parsed /\ Opened
    BY DEF IInv
  <2>3. UNCHANGED <<inner, requested>>
    BY <2>1 DEF inputVars
  <2>4. Asked'
    BY <2>1, <2>2 DEF Asked, HasSize, inputVars, tableVars, readerVars, BeforeReading, Exact
  <2>5. Pool'
    BY <2>1, <2>2, <2>3, SameCut DEF Pool, HasSize
  <2>6. Assembled' /\ Parsed' /\ Opened'
    BY <2>1, <2>2, <2>3, KeepAssembled, KeepParsed, KeepOpened
       DEF HasSize, tableVars, readerVars
  <2> QED BY <2>4, <2>5, <2>6 DEF IInv
<1> QED BY <1>1, <1>2, <1>3, <1>4, <1>5, <1>6, <1>7, <1>8 DEF Next

-----------------------------------------------------------------------------
(* The theorems.                                                           *)

\* The option, the pool, what is put together, what is read and what is
\* decrypted are as the invariant says in every state.
THEOREM Invariant == Spec => []IInv
<1>1. Init => IInv
  BY InitInv
<1>2. IInv /\ [Next]_vars => IInv'
  BY NextInv
<1> QED BY <1>1, <1>2, PTL DEF Spec

\* The pool never runs a segment twice, and the reader keeps its types.
THEOREM TypeCorrect == Spec => []TypeOK
<1>1. IInv => TypeOK
  <2> SUFFICES ASSUME IInv PROVE TypeOK
    OBVIOUS
  <2>0. Asked /\ Pool /\ Assembled /\ Parsed /\ Opened
    BY DEF IInv
  <2>1. requested \in 0..MaxWord
    <3>1. MaxWord \in Nat
      BY PipelineAssumption
    <3> QED BY <2>0, <3>1 DEF Asked
  <2>2. ASSUME verdict \notin BeforeReading PROVE Reader!TypeOK
    <3>1. /\ count = Chunks /\ cipherLen = Len(ciphertext)
          /\ IsSeq(entries) /\ Len(entries) <= Chunks
          /\ \A k \in 1..Len(entries) : entries[k] = EntryOf(k - 1)
          /\ At(Len(entries), plainEnd, cipherEnd)
      BY <2>0, <2>2 DEF Parsed
    <3>2. /\ Chunks \in Nat \ {0} /\ Chunks <= Len(inner)
          /\ 2 * Len(inner) + BlockBytes <= MaxWord /\ MaxWord \in Nat
          /\ Len(inner) \in Nat /\ BlockBytes \in Nat
      BY <2>0, Cut, Sizes
    <3>3. 0 \in Indexes /\ Len(ciphertext) \in 0..MaxWord
      <4>1. 0 \in Indexes
        BY <3>2 DEF Indexes
      <4> QED BY <2>2, <4>1, EntryFacts
    <3>4. count \in 0..MaxWord
      BY <3>1, <3>2
    <3>5. entries \in Seq(Reader!Entry)
      <4> DEFINE n == Len(entries)
      <4>1. n \in Nat /\ entries = [k \in 1..n |-> entries[k]]
        BY <3>1, SeqFacts
      <4>2. ASSUME NEW k \in 1..n PROVE entries[k] \in Reader!Entry
        <5>1. k - 1 \in Indexes
          BY <3>1, <3>2, <4>1 DEF Indexes
        <5> QED BY <2>2, <3>1, <5>1, EntryFacts
      <4> HIDE DEF n
      <4>3. entries \in [1..n -> Reader!Entry]
        BY <4>1, <4>2
      <4> QED BY <4>1, <4>3
    <3>6. plainEnd \in 0..MaxWord /\ cipherEnd \in 0..MaxWord
      <4> DEFINE n == Len(entries)
      <4>1. n \in Nat
        BY <3>1, SeqFacts
      <4>2. CASE n < Chunks
        <5>1. n \in Indexes
          BY <3>2, <4>1, <4>2 DEF Indexes
        <5>2. plainEnd = n * SegmentSize /\ cipherEnd = n * Full
          BY <3>1, <4>2 DEF At
        <5>3. EntryOf(n) \in Reader!Entry
          BY <2>2, <5>1, EntryFacts
        <5>4. EntryOf(n).plainOffset = plainEnd /\ EntryOf(n).cipherOffset = cipherEnd
          BY <5>2 DEF EntryOf
        <5> HIDE DEF n
        <5> QED BY <5>3, <5>4 DEF Reader!Entry, Reader!Words
      <4>3. CASE ~(n < Chunks)
        <5>1. n = Chunks
          BY <3>1, <3>2, <4>1, <4>3
        <5>2. plainEnd = Len(inner) /\ cipherEnd \in 0..MaxWord
          BY <2>0, <3>1, <5>1, AtEnd
        <5> QED BY <3>2, <5>2
      <4> QED BY <4>2, <4>3
    <3>7. verdict \in {"parsing", "decrypting", "opened"} /\ ragged = FALSE
      BY <2>0, <2>2 DEF Asked, BeforeReading
    <3>8. lengths \in Seq(Nat) /\ Len(entries) <= count
      BY <2>0, <3>1 DEF Opened
    <3> QED BY <3>1, <3>3, <3>4, <3>5, <3>6, <3>7, <3>8 DEF Reader!TypeOK, Reader!Words
  <2> QED BY <2>0, <2>1, <2>2 DEF TypeOK, Pool
<1> QED BY <1>1, Invariant, PTL

\* The last byte of a segment is the last of all for the last one alone.
LEMMA LastByte ==
  ASSUME Asked, NEW i \in Indexes
  PROVE  (IF (i + 1) * SegmentSize < Len(inner) THEN (i + 1) * SegmentSize
                                                ELSE Len(inner))
           = (IF i = Chunks - 1 THEN Len(inner) ELSE (i + 1) * SegmentSize)
<1> DEFINE L == Len(inner)
<1> DEFINE S == SegmentSize
<1> DEFINE N == Chunks
<1>1. L \in Nat \ {0} /\ S \in Nat \ {0} /\ N = (L + S - 1) \div S
  BY Sizes DEF Chunks
<1>2. i \in Nat /\ i < N /\ N \in Nat \ {0}
  BY Cut
<1>3. i + 1 < N => /\ (i + 1) * S \in Nat /\ (i + 1) * S + Len(Plain(i + 1)) <= L
                   /\ Len(Plain(i + 1)) \in Nat \ {0}
  <2>1. i + 1 < N => i + 1 \in Indexes
    BY <1>2 DEF Indexes
  <2> QED BY <2>1, Cut
<1> HIDE DEF L, S, N
<1>4. L <= N * S
  BY <1>1, Pieces
<1> DEFINE e == (i + 1) * S
<1>5. i + 1 < N => e < L
  <2> DEFINE q == Len(Plain(i + 1))
  <2>1. i + 1 < N => e \in Nat /\ e + q <= L /\ q \in Nat \ {0}
    BY <1>3
  <2> HIDE DEF e, q
  <2> QED BY <1>1, <2>1
<1>6. i + 1 = N => ~(e < L)
  <2>1. i + 1 = N => e = N * S
    OBVIOUS
  <2>2. N * S \in Nat
    <3>1. \A x, y \in Nat : x * y \in Nat
      OBVIOUS
    <3> QED BY <1>1, <1>2, <3>1
  <2> HIDE DEF e
  <2> QED BY <1>1, <1>4, <2>1, <2>2
<1>7. i = N - 1 <=> i + 1 = N
  BY <1>2
<1>8. ~(i + 1 = N) => i + 1 < N
  BY <1>2
<1> HIDE DEF e
<1>9. (IF e < L THEN e ELSE L) = (IF i = N - 1 THEN L ELSE e)
  BY <1>5, <1>6, <1>7, <1>8
<1> QED BY <1>9 DEF e, L, S, N

\* Table and ciphertext are those of one thread that takes the segments in
\* order, in words that hold any number.
THEOREM SequentialResult == Spec => []SameAsSequential
<1> DEFINE size == IF Exact > BlockBytes THEN Exact ELSE BlockBytes
<1> DEFINE segments == (Len(inner) + size - 1) \div size
<1> DEFINE piece(i) == SubSeq(inner, i * size + 1,
                              IF i = segments - 1 THEN Len(inner) ELSE (i + 1) * size)
<1>1. ASSUME IInv, verdict \notin BeforeReading
      PROVE  /\ Len(table) = segments
             /\ \A i \in 0..segments - 1 :
                  /\ table[i + 1].index = i
                  /\ table[i + 1].plainOffset = i * size
                  /\ table[i + 1].plainLength = Len(piece(i))
                  /\ table[i + 1].cipherOffset = i * (size + PadLength(piece(0)))
                  /\ SubSeq(ciphertext, table[i + 1].cipherOffset + 1,
                            table[i + 1].cipherOffset + table[i + 1].cipherLength)
                       = Encrypt(i, Pad(piece(i)))
             /\ table[segments].cipherOffset + table[segments].cipherLength
                  = Len(ciphertext)
  <2>0. Asked /\ Assembled /\ Parsed /\ HasSize
    BY <1>1 DEF IInv, HasSize, BeforeReading
  <2>1. size = SegmentSize
    BY <2>0 DEF Asked, SegmentSize
  <2>2. segments = Chunks
    BY <2>1 DEF Chunks
  <2>3. Chunks \in Nat \ {0} /\ SegmentSize \in Nat \ {0}
    BY <2>0, Cut, Sizes
  <2>4. \A i \in Indexes : piece(i) = Plain(i)
    <3> SUFFICES ASSUME NEW i \in Indexes PROVE piece(i) = Plain(i)
      OBVIOUS
    <3>1. piece(i) = SubSeq(inner, i * SegmentSize + 1,
                            IF i = Chunks - 1 THEN Len(inner) ELSE (i + 1) * SegmentSize)
      BY <2>1, <2>2
    <3> QED BY <2>0, <3>1, LastByte DEF Plain
  <2> HIDE DEF size, segments, piece
  <2>5. Len(table) = Chunks /\ \A k \in 1..Chunks : table[k] = EntryOf(k - 1)
    BY <2>0, <1>1 DEF Parsed, Assembled
  <2>6. ASSUME NEW i \in Indexes PROVE i * Full = i * (SegmentSize + PadLength(Plain(0)))
    <3>1. 0 \in Indexes /\ i \in Nat
      BY <2>3 DEF Indexes
    <3>2. /\ IsSeq(Plain(0))
          /\ 0 + 1 < Chunks => Len(Plain(0)) = SegmentSize
      BY <2>0, <3>1, Cut
    <3>3. /\ PadLength(Plain(0)) \in 1..BlockBytes
          /\ PadLength(Plain(0)) = BlockBytes - (Len(Plain(0)) % BlockBytes)
      BY <3>2, PadAdds
    <3>4. CASE i = 0
      <4>1. \A n \in Nat : 0 * n = 0
        OBVIOUS
      <4>2. Full \in Nat /\ SegmentSize + PadLength(Plain(0)) \in Nat
        <5>1. BlockBytes \in Nat
          BY BlockAssumption
        <5> QED BY <2>0, <2>3, <3>3, <5>1, Sealed
      <4>3. 0 * Full = 0 /\ 0 * (SegmentSize + PadLength(Plain(0))) = 0
        <5>1. PICK x \in Nat : x = SegmentSize + PadLength(Plain(0))
          BY <4>2
        <5>2. 0 * x = 0 /\ 0 * Full = 0
          BY <4>1, <4>2
        <5> QED BY <5>1, <5>2
      <4> QED BY <3>4, <4>3
    <3>5. CASE i # 0
      <4>1. 0 + 1 < Chunks
        BY <2>3, <3>5 DEF Indexes
      <4>2. Full = SegmentSize + PadLength(Plain(0))
        BY <3>2, <3>3, <4>1 DEF Full
      <4> QED BY <4>2
    <3> QED BY <3>4, <3>5
  <2>7. ASSUME NEW i \in Indexes
        PROVE  /\ table[i + 1].index = i
               /\ table[i + 1].plainOffset = i * SegmentSize
               /\ table[i + 1].plainLength = Len(Plain(i))
               /\ table[i + 1].cipherOffset = i * Full
               /\ table[i + 1].cipherLength = Padded(i)
    <3>1. i + 1 \in 1..Chunks /\ (i + 1) - 1 = i
      BY <2>3 DEF Indexes
    <3>2. table[i + 1] = EntryOf(i)
      BY <2>5, <3>1
    <3> QED BY <3>2 DEF EntryOf
  <2>8. ASSUME NEW i \in 0..segments - 1
        PROVE  /\ table[i + 1].index = i
               /\ table[i + 1].plainOffset = i * size
               /\ table[i + 1].plainLength = Len(piece(i))
               /\ table[i + 1].cipherOffset = i * (size + PadLength(piece(0)))
               /\ SubSeq(ciphertext, table[i + 1].cipherOffset + 1,
                         table[i + 1].cipherOffset + table[i + 1].cipherLength)
                    = Encrypt(i, Pad(piece(i)))
    <3>1. i \in Indexes /\ 0 \in Indexes
      BY <2>2, <2>3 DEF Indexes
    <3>2. piece(i) = Plain(i) /\ piece(0) = Plain(0)
      BY <2>4, <3>1
    <3>3. table[i + 1].cipherOffset = i * (size + PadLength(piece(0)))
      BY <2>1, <2>6, <2>7, <3>1, <3>2
    <3>4. SubSeq(ciphertext, table[i + 1].cipherOffset + 1,
                 table[i + 1].cipherOffset + table[i + 1].cipherLength)
            = Encrypt(i, Pad(piece(i)))
      <4>1. SubSeq(ciphertext, i * Full + 1, i * Full + Padded(i)) = Encrypt(i, Pad(Plain(i)))
        BY <1>1, <3>1, SliceOpens
      <4> QED BY <2>7, <3>1, <3>2, <4>1
    <3> QED BY <2>1, <2>7, <3>1, <3>2, <3>3, <3>4
  <2>9. table[segments].cipherOffset + table[segments].cipherLength = Len(ciphertext)
    <3>1. PICK m \in Nat : m = Chunks - 1
      BY <2>3
    <3>2. m \in Indexes /\ m + 1 = Chunks /\ Chunks > 0
      BY <2>3, <3>1 DEF Indexes
    <3>3. cipherOffset = m * Full + Padded(m) /\ cipherOffset = Len(ciphertext)
      BY <2>0, <2>5, <3>1, <3>2 DEF Assembled, At
    <3> QED BY <2>2, <2>7, <3>2, <3>3
  <2> QED BY <2>2, <2>5, <2>8, <2>9
<1>2. IInv => SameAsSequential
  BY <1>1 DEF SameAsSequential
<1> QED BY <1>2, Invariant, PTL

\* What encrypt_segments wrote is never refused, and reads back as it was.
THEOREM DataReadBack == Spec => []ReadsBack
<1>1. IInv => ReadsBack
  <2> SUFFICES ASSUME IInv PROVE ReadsBack
    OBVIOUS
  <2>0. Asked /\ Opened
    BY DEF IInv
  <2>1. verdict \notin {"Format", "Authentication"}
    BY <2>0 DEF Asked
  <2>2. ASSUME verdict = "opened" PROVE output = inner
    <3>1. /\ IsSeq(output) /\ Len(output) = Len(inner)
          /\ \A b \in 1..Len(output) : output[b] = inner[b]
      BY <2>0, <2>2 DEF Opened
    <3>2. IsSeq(inner)
      BY <2>0, Sizes
    <3> QED BY <3>1, <3>2, SameElements
  <2> QED BY <2>1, <2>2 DEF ReadsBack
<1> QED BY <1>1, Invariant, PTL
=============================================================================
