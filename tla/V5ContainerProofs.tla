-------------------------- MODULE V5ContainerProofs --------------------------
(* Proofs that V5Container keeps its type, that no key and nonce encrypt   *)
(* two inputs, that decrypt_v5 returns what was encrypted with its         *)
(* password or nothing, whatever was done to the container, also by those  *)
(* who know a password and make its tag anew, that it returns all of it    *)
(* when nothing was done, and that it returns data of no container but one *)
(* that was written, cell for cell, where the header tells the segment     *)
(* sizes in use apart.                                                     *)
EXTENDS V5Container, FiniteSetTheorems, SequenceTheorems, WellFoundedInduction, TLAPS

IsSeq(s) == \E S : s \in Seq(S)

HeaderOf(w) == w.container[2].header
SivOf(w)    == w.container[3].siv

\* What encrypt_v5 made.
Made(w) ==
  \E pw \in Passwords \ {Empty}, kdf \in Kdfs, payload \in Payloads,
     policy \in {0, 1}, random \in 0..MaxRandom, size \in Sizes,
     salt \in Salts, nonce \in Nonces :
    Sound(kdf) /\ w = EncryptV5(pw, payload, kdf, policy, random, size, salt, nonce)

AllMade == IsFiniteSet(written) /\ \A w \in written : Made(w)

\* A synthetic IV can be copied; nobody makes one but encrypt_v5.
Copied(cell) == "siv" \in DOMAIN cell =>
                  \E w \in written : cell = [siv |-> SivOf(w)]

\* A length is eight bytes.
Length(cell) == "num" \in DOMAIN cell => cell.num \in 0..MaxWord

Cells == /\ IsSeq(stored)
         /\ \A i \in 1..Len(stored) : Copied(stored[i]) /\ Length(stored[i])

\* What decrypt_v5 knows of the cells at each of its steps.
Read ==
  /\ at \in {"table", "segments", "siv", "inner", "done"} => Has(3, "siv")
  /\ at \in {"inner", "done"} => stored[3].siv = Siv(root, header, inner)

Returned == at = "done" => /\ Len(output) < Len(inner)
                           /\ output = SubSeq(inner, 2, inner[1].length + 1)

\* decrypt_v5 returns data only if it was encrypted with that password under
\* the header and synthetic IV that the container has.
DataAuthentic ==
  at = "done" => \E w \in written : /\ w.password = password
                                    /\ Bytes(w.payload) = output
                                    /\ HeaderOf(w) = stored[2].header
                                    /\ SivOf(w) = stored[3].siv

IInv == TypeOK /\ AllMade /\ Cells /\ Read /\ Returned

\* decrypt_v5 has read the lengths.
Stages == {"derive", "verify", "table", "segments", "siv", "inner", "done"}

\* How far decrypt_v5 comes with a container that is as it was written.
Verdict(w) ==
  /\ at \in Stages => sizes = [table |-> Len(w.cipher), cipher |-> Len(w.cipher)]
  /\ w.password = password => /\ at \notin Errors \cup {"panic"}
                              /\ at \in {"siv", "inner", "done"} => inner = w.inner
  /\ w.password # password =>
       at \in {"stored", "derive", "verify",
               IF password = Empty THEN "InvalidParameter" ELSE "Authentication"}

\* The verdict decrypt_v5 is on its way to.
VInv ==
  /\ at = "writing" => stored = << >>
  /\ at \in {"verify", "table", "segments", "siv", "inner", "done"} => password # Empty
  /\ \A w \in written : w.container = stored => Verdict(w)

-----------------------------------------------------------------------------
(* Sequences.                                                              *)

\* A sequence has a length, and is a function.
LEMMA SeqFacts ==
  ASSUME NEW s, IsSeq(s)
  PROVE  Len(s) \in Nat /\ DOMAIN s = 1..Len(s) /\ s = [i \in 1..Len(s) |-> s[i]]
BY DEF IsSeq

\* A function on 1..n is a sequence.
LEMMA FunctionIsSeq ==
  ASSUME NEW n \in Nat, NEW s, s = [i \in 1..n |-> s[i]]
  PROVE  IsSeq(s) /\ Len(s) = n
<1> DEFINE S == {s[i] : i \in 1..n}
<1>1. s \in [1..n -> S]
  OBVIOUS
<1>2. s \in Seq(S) /\ Len(s) = n
  BY <1>1
<1> QED BY <1>2 DEF IsSeq

\* Two sequences, one after the other.
LEMMA Concatenated ==
  ASSUME NEW s, NEW t, IsSeq(s), IsSeq(t)
  PROVE  /\ IsSeq(s \o t) /\ Len(s \o t) = Len(s) + Len(t)
         /\ \A i \in 1..Len(s) + Len(t) :
              (s \o t)[i] = IF i <= Len(s) THEN s[i] ELSE t[i - Len(s)]
<1>1. PICK S : s \in Seq(S)
  BY DEF IsSeq
<1>2. PICK T : t \in Seq(T)
  BY DEF IsSeq
<1>3. s \in Seq(S \cup T) /\ t \in Seq(S \cup T)
  BY <1>1, <1>2
<1> QED BY <1>3, ConcatProperties DEF IsSeq

\* Part of a sequence.
LEMMA Between ==
  ASSUME NEW s, IsSeq(s), NEW a \in Nat \ {0}, NEW b \in Nat, b <= Len(s), a <= b + 1
  PROVE  /\ IsSeq(SubSeq(s, a, b)) /\ Len(SubSeq(s, a, b)) = b - a + 1
         /\ \A i \in 1..(b - a + 1) : SubSeq(s, a, b)[i] = s[a + i - 1]
<1>1. PICK S : s \in Seq(S)
  BY DEF IsSeq
<1>2. SubSeq(s, a, b) \in Seq(S)
  BY <1>1
<1>3. Len(SubSeq(s, a, b)) = b - a + 1
  BY <1>1
<1>4. \A i \in 1..(b - a + 1) : SubSeq(s, a, b)[i] = s[a + i - 1]
  BY <1>1
<1> QED BY <1>2, <1>3, <1>4 DEF IsSeq

\* Sequences are equal if their elements are.
LEMMA SameElements ==
  ASSUME NEW s, NEW t, IsSeq(s), IsSeq(t), Len(s) = Len(t),
         \A i \in 1..Len(s) : s[i] = t[i]
  PROVE  s = t
<1>1. s = [i \in 1..Len(s) |-> s[i]] /\ t = [i \in 1..Len(t) |-> t[i]]
  BY SeqFacts
<1> QED BY <1>1

\* What z has after the first m of its cells.
At(z, m, s) == \A i \in 1..Len(s) : z[m + i] = s[i]

\* A sequence is put after another, which is where it was.
Longer(y, z, s) ==
  /\ IsSeq(z) /\ Len(z) = Len(y) + Len(s)
  /\ \A i \in 1..Len(y) : z[i] = y[i]
  /\ At(z, Len(y), s)

\* What concatenation does.
LEMMA Lengthened ==
  ASSUME NEW y, NEW s, IsSeq(y), IsSeq(s)
  PROVE  Longer(y, y \o s, s)
<1>1. PICK z : z = y \o s
  OBVIOUS
<1>2. PICK m \in Nat : m = Len(y)
  BY SeqFacts
<1>3. PICK n \in Nat : n = Len(s)
  BY SeqFacts
<1>4. /\ IsSeq(z) /\ Len(z) = m + n
      /\ \A i \in 1..m + n : z[i] = IF i <= m THEN y[i] ELSE s[i - m]
  BY <1>1, <1>2, <1>3, Concatenated
<1>5. ASSUME NEW i \in 1..m PROVE z[i] = y[i]
  <2>1. i \in 1..m + n /\ i <= m
    OBVIOUS
  <2> QED BY <1>4, <2>1
<1>6. ASSUME NEW i \in 1..n PROVE z[m + i] = s[i]
  <2>1. m + i \in 1..m + n /\ ~(m + i <= m) /\ (m + i) - m = i
    OBVIOUS
  <2> QED BY <1>4, <2>1
<1> QED BY <1>1, <1>2, <1>3, <1>4, <1>5, <1>6 DEF Longer, At

\* One cell is a sequence of one cell.
LEMMA OneCell ==
  ASSUME NEW a
  PROVE  IsSeq(<<a>>) /\ Len(<<a>>) = 1 /\ <<a>>[1] = a
<1>1. <<a>> \in Seq({a})
  OBVIOUS
<1> QED BY <1>1 DEF IsSeq

\* Four cells are a sequence of four cells.
LEMMA CellsInOrder ==
  ASSUME NEW a, NEW b, NEW c, NEW d
  PROVE  /\ IsSeq(<<a, b, c, d>>) /\ Len(<<a, b, c, d>>) = 4
         /\ <<a, b, c, d>>[1] = a /\ <<a, b, c, d>>[2] = b
         /\ <<a, b, c, d>>[3] = c /\ <<a, b, c, d>>[4] = d
<1>1. <<a, b, c, d>> \in Seq({a, b, c, d})
  OBVIOUS
<1> QED BY <1>1 DEF IsSeq

-----------------------------------------------------------------------------
(* Powers of two.                                                          *)

\* A power of two counts subsets: it is a number.
LEMMA PowerIs ==
  ASSUME NEW n \in Nat
  PROVE  /\ IsFiniteSet(1..n) /\ Cardinality(1..n) = n
         /\ IsFiniteSet(SUBSET (1..n)) /\ Cardinality(SUBSET (1..n)) = 2^n
         /\ 2^n \in Nat
<1>1. IsFiniteSet(1..n) /\ Cardinality(1..n) = n
  <2>1. 1 \in Int /\ n \in Int /\ (IF 1 > n THEN 0 ELSE n-1+1) = n
    OBVIOUS
  <2> QED BY <2>1, FS_Interval
<1>2. IsFiniteSet(SUBSET (1..n)) /\ Cardinality(SUBSET (1..n)) = 2^n
  BY <1>1, FS_SUBSET
<1>3. 2^n \in Nat
  BY <1>2, FS_CardinalityType
<1> QED BY <1>1, <1>2, <1>3

\* A set has as many subsets of one element as elements.
LEMMA PowerExceeds ==
  ASSUME NEW n \in Nat
  PROVE  n <= 2^n
<1> DEFINE f == [x \in 1..n |-> {x}]
<1>1. f \in Injection(1..n, SUBSET (1..n))
  <2>1. f \in [1..n -> SUBSET (1..n)]
    OBVIOUS
  <2>2. \A a, b \in 1..n : f[a] = f[b] => a = b
    OBVIOUS
  <2> QED BY <2>1, <2>2 DEF Injection, IsInjective
<1>2. Cardinality(1..n) <= Cardinality(SUBSET (1..n))
  BY <1>1, PowerIs, FS_Injection
<1> QED BY <1>2, PowerIs

\* With one element more, each subset is there with and without it.
LEMMA PowerDoubles ==
  ASSUME NEW n \in Nat
  PROVE  2^(n + 1) = 2 * 2^n
<1> DEFINE m == n + 1
<1> DEFINE A == SUBSET (1..n)
<1> DEFINE f == [X \in A |-> X \cup {m}]
<1> DEFINE B == {f[X] : X \in A}
<1>0. m \in Nat /\ m \notin 1..n /\ 1..m = (1..n) \cup {m}
  OBVIOUS
<1>1. SUBSET (1..m) = A \cup B
  <2>1. ASSUME NEW X \in SUBSET (1..m) PROVE X \in A \cup B
    <3>1. CASE m \notin X
      BY <1>0, <3>1
    <3>2. CASE m \in X
      <4>1. X \ {m} \in A /\ f[X \ {m}] = X
        BY <1>0, <3>2
      <4> QED BY <4>1
    <3> QED BY <3>1, <3>2
  <2>2. ASSUME NEW X \in A \cup B PROVE X \in SUBSET (1..m)
    BY <1>0
  <2> QED BY <2>1, <2>2
<1>2. A \cap B = {}
  BY <1>0
<1>3. f \in Bijection(A, B)
  <2>1. f \in [A -> B]
    OBVIOUS
  <2>2. ASSUME NEW X \in A, NEW Y \in A, f[X] = f[Y] PROVE X = Y
    <3>1. m \notin X /\ m \notin Y /\ X \cup {m} = Y \cup {m}
      BY <1>0, <2>2
    <3> QED BY <3>1
  <2>3. \A b \in B : \E a \in A : f[a] = b
    OBVIOUS
  <2> HIDE DEF A, B, f, m
  <2>4. f \in Injection(A, B)
    BY <2>1, <2>2 DEF Injection, IsInjective
  <2>5. f \in Surjection(A, B)
    BY <2>1, <2>3 DEF Surjection
  <2> QED BY <2>4, <2>5 DEF Bijection
<1>4. IsFiniteSet(A) /\ Cardinality(A) = 2^n /\ 2^n \in Nat
  BY PowerIs
<1> HIDE DEF A, B, f
<1>5. IsFiniteSet(B) /\ Cardinality(B) = Cardinality(A)
  BY <1>3, <1>4, FS_Bijection DEF ExistsBijection
<1>6. Cardinality(A \cup B) = Cardinality(A) + Cardinality(B) - 0
  BY <1>2, <1>4, <1>5, FS_Union, FS_EmptySet
<1>7. Cardinality(SUBSET (1..m)) = 2^m
  BY <1>0, PowerIs
<1> HIDE DEF m
<1>8. 2^m = 2^n + 2^n
  <2>1. Cardinality(A \cup B) = 2^m
    BY <1>1, <1>7
  <2> QED BY <1>4, <1>5, <1>6, <2>1
<1>9. PICK p \in Nat : p = 2^n
  BY <1>4
<1>a. 2^m = 2 * p
  BY <1>8, <1>9
<1> QED BY <1>9, <1>a DEF m

\* A set of numbers that is not empty has a least one.
LEMMA Least ==
  ASSUME NEW S \in SUBSET Nat, S # {}
  PROVE  \E n \in S : \A m \in S : n <= m
<1> DEFINE R == OpToRel(<, Nat)
<1>1. IsWellFoundedOn(R, Nat)
  BY NatLessThanWellFounded
<1>2. R = {ss \in Nat \X Nat : ss[1] < ss[2]}
  BY DEF OpToRel
<1> HIDE DEF R
<1>3. PICK n \in S : \A m \in S : ~(<<m, n>> \in R)
  BY <1>1, WFMin
<1>4. \A m \in S : ~(m < n)
  BY <1>2, <1>3
<1> QED BY <1>4

\* A set of numbers with zero and the successor of each of its own has all.
LEMMA Induct ==
  ASSUME NEW S \in SUBSET Nat, 0 \in S, \A n \in S : n + 1 \in S
  PROVE  S = Nat
<1> SUFFICES ASSUME Nat \ S # {} PROVE FALSE
  OBVIOUS
<1>1. PICK t \in Nat \ S : \A m \in Nat \ S : t <= m
  <2>1. Nat \ S \in SUBSET Nat
    OBVIOUS
  <2> QED BY <2>1, Least
<1>2. t # 0 /\ t - 1 \in Nat /\ ~(t <= t - 1) /\ (t - 1) + 1 = t
  OBVIOUS
<1>3. t - 1 \in S
  BY <1>1, <1>2
<1> QED BY <1>2, <1>3

-----------------------------------------------------------------------------
(* What encrypt_v5 makes.                                                  *)

\* A cell that is neither a synthetic IV nor a length.
Plain(cell) == "siv" \notin DOMAIN cell /\ "num" \notin DOMAIN cell

\* A container with the header h and the synthetic IV v.
WellMade(z, h, v) ==
  /\ IsSeq(z) /\ z[2] = [header |-> h] /\ z[3] = [siv |-> v]
  /\ \A i \in 1..Len(z) : /\ "siv" \in DOMAIN z[i] => z[i] = [siv |-> v]
                          /\ Length(z[i])

\* The parts of a container: the header is its second cell, the synthetic IV
\* the third and no other, and its lengths are those of its table and of its
\* ciphertext.
LEMMA ContainerParts ==
  ASSUME NEW r, NEW h, NEW v, NEW t, NEW c, IsSeq(t), IsSeq(c),
         Len(t) <= MaxWord, Len(c) <= MaxWord,
         \A k \in 1..Len(t) : Plain(t[k]),
         \A k \in 1..Len(c) : Plain(c[k])
  PROVE  WellMade(Container(r, h, v, t, c), h, v)
<1> DEFINE A == <<[prefix |-> 5], [header |-> h], [siv |-> v], [num |-> Len(t)]>>
<1> DEFINE B == <<[num |-> Len(c)]>>
<1> DEFINE T == <<[tag |-> Tag(r, h, v, t, c)]>>
<1> DEFINE Fine(cell) == ("siv" \in DOMAIN cell => cell = [siv |-> v]) /\ Length(cell)
<1>n. Len(t) \in 0..MaxWord /\ Len(c) \in 0..MaxWord
  BY ContainerAssumption, SeqFacts
<1>0. /\ Fine([prefix |-> 5]) /\ Fine([header |-> h]) /\ Fine([siv |-> v])
      /\ Fine([num |-> Len(t)]) /\ Fine([num |-> Len(c)])
      /\ Fine([tag |-> Tag(r, h, v, t, c)])
  BY <1>n DEF Length
<1>p. ASSUME NEW cell, Plain(cell) PROVE Fine(cell)
  BY <1>p DEF Plain, Length
<1>a. /\ IsSeq(A) /\ Len(A) = 4 /\ A[1] = [prefix |-> 5] /\ A[2] = [header |-> h]
      /\ A[3] = [siv |-> v] /\ A[4] = [num |-> Len(t)]
  <2>1. PICK p, q, s, u : /\ p = [prefix |-> 5] /\ q = [header |-> h]
                          /\ s = [siv |-> v] /\ u = [num |-> Len(t)]
    OBVIOUS
  <2>2. A = <<p, q, s, u>>
    BY <2>1
  <2> HIDE DEF A
  <2>3. IsSeq(A) /\ Len(A) = 4 /\ A[1] = p /\ A[2] = q /\ A[3] = s /\ A[4] = u
    BY ONLY <2>2, CellsInOrder
  <2> QED BY <2>1, <2>3
<1>2. IsSeq(B) /\ Len(B) = 1 /\ B[1] = [num |-> Len(c)]
  BY ONLY OneCell
<1>3. IsSeq(T) /\ Len(T) = 1 /\ T[1] = [tag |-> Tag(r, h, v, t, c)]
  BY ONLY OneCell
<1>b. (\A i \in 1..Len(B) : Fine(B[i])) /\ (\A i \in 1..Len(T) : Fine(T[i]))
  <2> HIDE DEF B, T, Fine
  <2> QED BY <1>0, <1>2, <1>3
<1>c. (\A i \in 1..Len(t) : Fine(t[i])) /\ (\A i \in 1..Len(c) : Fine(c[i]))
  <2> HIDE DEF Fine
  <2> QED BY <1>p
<1>1. \A i \in 1..4 : Fine(A[i])
  <2> HIDE DEF A, Fine
  <2>1. \A i \in 1..4 : i \in {1, 2, 3, 4}
    OBVIOUS
  <2> QED BY <2>1, <1>0, <1>a
<1>4. Container(r, h, v, t, c) = A \o t \o B \o c \o T
  BY DEF Container
<1> HIDE DEF A, B, T, Fine
<1> DEFINE Ends(z) == /\ IsSeq(z) /\ Len(z) >= 4
                      /\ z[2] = [header |-> h] /\ z[3] = [siv |-> v]
                      /\ \A i \in 1..Len(z) : Fine(z[i])
<1>5. ASSUME NEW z, NEW y, Ends(z), IsSeq(y), \A i \in 1..Len(y) : Fine(y[i])
      PROVE  Ends(z \o y)
  <2>1. /\ IsSeq(z \o y) /\ Len(z \o y) = Len(z) + Len(y)
        /\ \A i \in 1..Len(z) + Len(y) :
             (z \o y)[i] = IF i <= Len(z) THEN z[i] ELSE y[i - Len(z)]
    BY <1>5, Concatenated
  <2>2. Len(z) \in Nat /\ Len(y) \in Nat
    BY <1>5, SeqFacts
  <2>3. (z \o y)[2] = z[2] /\ (z \o y)[3] = z[3] /\ Len(z \o y) >= 4
    BY <1>5, <2>1, <2>2
  <2>4. ASSUME NEW i \in 1..Len(z \o y) PROVE Fine((z \o y)[i])
    <3>1. CASE i <= Len(z)
      BY <1>5, <2>1, <2>2, <3>1
    <3>2. CASE ~(i <= Len(z))
      <4>1. i - Len(z) \in 1..Len(y)
        BY <2>1, <2>2, <3>2
      <4> QED BY <1>5, <2>1, <3>2, <4>1
    <3> QED BY <3>1, <3>2
  <2> QED BY <1>5, <2>1, <2>3, <2>4
<1>6. Ends(A)
  BY <1>1, <1>a
<1> HIDE DEF Ends
<1>7. Ends(A \o t \o B \o c \o T)
  BY <1>2, <1>3, <1>b, <1>c, <1>5, <1>6
<1> QED BY <1>4, <1>7 DEF Ends, Fine, WellMade

\* Where the parts of a container of n segments are.
Laid(z, r, h, v, t, c, n) ==
  /\ IsSeq(z) /\ Len(z) = 2 * n + 6
  /\ z[1] = [prefix |-> 5] /\ z[2] = [header |-> h] /\ z[3] = [siv |-> v]
  /\ z[4] = [num |-> n] /\ z[n + 5] = [num |-> n]
  /\ SubSeq(z, 5, n + 4) = t /\ SubSeq(z, n + 6, 2 * n + 5) = c
  /\ z[2 * n + 6] = [tag |-> Tag(r, h, v, t, c)]

\* The cells of a container, in the order encrypt_v5 writes them.
LEMMA ContainerLaid ==
  ASSUME NEW r, NEW h, NEW v, NEW t, NEW c, IsSeq(t), IsSeq(c),
         NEW n \in Nat, Len(t) = n, Len(c) = n
  PROVE  Laid(Container(r, h, v, t, c), r, h, v, t, c, n)
<1>1. PICK a : a = <<[prefix |-> 5], [header |-> h], [siv |-> v], [num |-> n]>>
  OBVIOUS
<1>2. PICK b : b = <<[num |-> n]>>
  OBVIOUS
<1>3. PICK e : e = <<[tag |-> Tag(r, h, v, t, c)]>>
  OBVIOUS
<1>4. PICK z1 : z1 = a \o t
  OBVIOUS
<1>5. PICK z2 : z2 = z1 \o b
  OBVIOUS
<1>6. PICK z3 : z3 = z2 \o c
  OBVIOUS
<1>7. PICK z : z = z3 \o e
  OBVIOUS
<1>8. Container(r, h, v, t, c) = z
  BY <1>1, <1>2, <1>3, <1>4, <1>5, <1>6, <1>7 DEF Container
<1>9. /\ IsSeq(a) /\ Len(a) = 4 /\ a[1] = [prefix |-> 5] /\ a[2] = [header |-> h]
      /\ a[3] = [siv |-> v] /\ a[4] = [num |-> n]
  <2>1. PICK c1, c2, c3, c4 : /\ c1 = [prefix |-> 5] /\ c2 = [header |-> h]
                              /\ c3 = [siv |-> v] /\ c4 = [num |-> n]
    OBVIOUS
  <2>2. a = <<c1, c2, c3, c4>>
    BY <1>1, <2>1
  <2>3. /\ IsSeq(a) /\ Len(a) = 4
        /\ a[1] = c1 /\ a[2] = c2 /\ a[3] = c3 /\ a[4] = c4
    BY ONLY <2>2, CellsInOrder
  <2> QED BY <2>1, <2>3
<1>10. IsSeq(b) /\ Len(b) = 1 /\ b[1] = [num |-> n]
  BY <1>2, OneCell
<1>11. IsSeq(e) /\ Len(e) = 1 /\ e[1] = [tag |-> Tag(r, h, v, t, c)]
  BY <1>3, OneCell
<1>12. Longer(a, z1, t) /\ IsSeq(z1) /\ Len(z1) = 4 + n
  <2>1. Longer(a, z1, t)
    BY <1>4, <1>9, Lengthened
  <2> QED BY <1>9, <2>1 DEF Longer
<1>13. Longer(z1, z2, b) /\ IsSeq(z2) /\ Len(z2) = n + 5
  <2>1. Longer(z1, z2, b)
    BY <1>5, <1>10, <1>12, Lengthened
  <2> QED BY <1>10, <1>12, <2>1 DEF Longer
<1>14. Longer(z2, z3, c) /\ IsSeq(z3) /\ Len(z3) = 2 * n + 5
  <2>1. Longer(z2, z3, c)
    BY <1>6, <1>13, Lengthened
  <2>2. n + 5 + n = 2 * n + 5
    OBVIOUS
  <2> QED BY <1>13, <2>1, <2>2 DEF Longer
<1>15. Longer(z3, z, e) /\ IsSeq(z) /\ Len(z) = 2 * n + 6
  <2>1. Longer(z3, z, e)
    BY <1>7, <1>11, <1>14, Lengthened
  <2>2. 2 * n + 5 + 1 = 2 * n + 6
    OBVIOUS
  <2> QED BY <1>11, <1>14, <2>1, <2>2 DEF Longer
<1>16. \A i \in 1..n + 5 : z[i] = z2[i]
  <2>1. ASSUME NEW i \in 1..n + 5 PROVE z[i] = z2[i]
    <3>1. i \in 1..2 * n + 5
      OBVIOUS
    <3> QED BY <1>13, <1>14, <1>15, <3>1 DEF Longer
  <2> QED BY <2>1
<1>17. \A i \in 1..n + 4 : z[i] = z1[i]
  <2>1. ASSUME NEW i \in 1..n + 4 PROVE z[i] = z1[i]
    <3>1. i \in 1..n + 5 /\ i \in 1..4 + n
      OBVIOUS
    <3> QED BY <1>12, <1>13, <1>16, <3>1 DEF Longer
  <2> QED BY <2>1
<1>18. \A i \in 1..4 : z[i] = a[i]
  <2>1. ASSUME NEW i \in 1..4 PROVE z[i] = a[i]
    <3>1. i \in 1..n + 4
      OBVIOUS
    <3> QED BY <1>9, <1>12, <1>17, <3>1 DEF Longer
  <2> QED BY <2>1
<1>19. \A i \in 1..n : z[4 + i] = t[i]
  <2>1. ASSUME NEW i \in 1..n PROVE z[4 + i] = t[i]
    <3>1. PICK j \in 1..n + 4 : j = 4 + i
      OBVIOUS
    <3>2. z1[4 + i] = t[i]
      BY <1>9, <1>12 DEF Longer, At
    <3> QED BY <1>17, <3>1, <3>2
  <2> QED BY <2>1
<1>20. z[n + 5] = [num |-> n]
  <2>1. PICK j \in 1..n + 5 : j = n + 5
    OBVIOUS
  <2>2. z2[4 + n + 1] = b[1]
    <3>1. 1 \in 1..1
      OBVIOUS
    <3> QED BY <1>10, <1>12, <1>13, <3>1 DEF Longer, At
  <2>3. 4 + n + 1 = n + 5
    OBVIOUS
  <2> QED BY <1>10, <1>16, <2>1, <2>2, <2>3
<1>21. \A i \in 1..n : z[n + 5 + i] = c[i]
  <2>1. ASSUME NEW i \in 1..n PROVE z[n + 5 + i] = c[i]
    <3>1. PICK j \in 1..2 * n + 5 : j = n + 5 + i
      OBVIOUS
    <3>2. z3[n + 5 + i] = c[i]
      BY <1>13, <1>14 DEF Longer, At
    <3>3. z[j] = z3[j]
      BY <1>14, <1>15 DEF Longer
    <3> QED BY <3>1, <3>2, <3>3
  <2> QED BY <2>1
<1>22. z[2 * n + 6] = [tag |-> Tag(r, h, v, t, c)]
  <2>1. z[2 * n + 5 + 1] = e[1]
    <3>1. 1 \in 1..1
      OBVIOUS
    <3> QED BY <1>11, <1>14, <1>15, <3>1 DEF Longer, At
  <2>2. 2 * n + 5 + 1 = 2 * n + 6
    OBVIOUS
  <2> QED BY <1>11, <2>1, <2>2
<1>23. SubSeq(z, 5, n + 4) = t
  <2>1. PICK lo \in Nat \ {0} : lo = 5
    OBVIOUS
  <2>2. PICK hi \in Nat : hi = n + 4
    OBVIOUS
  <2>3. hi <= Len(z) /\ lo <= hi + 1 /\ hi - lo + 1 = n /\ \A i \in 1..n : lo + i - 1 = 4 + i
    BY <1>15, <2>1, <2>2
  <2>4. PICK s : s = SubSeq(z, lo, hi)
    OBVIOUS
  <2>5. IsSeq(s) /\ Len(s) = n /\ \A i \in 1..n : s[i] = z[lo + i - 1]
    <3>1. IsSeq(z)
      BY <1>15
    <3> QED BY ONLY <2>3, <2>4, <3>1, lo \in Nat \ {0}, hi \in Nat, Between
  <2>6. \A i \in 1..n : s[i] = t[i]
    BY <1>19, <2>3, <2>5
  <2>7. s = t
    BY <2>5, <2>6, SameElements
  <2> QED BY <2>1, <2>2, <2>4, <2>7
<1>24. SubSeq(z, n + 6, 2 * n + 5) = c
  <2>1. PICK lo \in Nat \ {0} : lo = n + 6
    OBVIOUS
  <2>2. PICK hi \in Nat : hi = 2 * n + 5
    OBVIOUS
  <2>3. hi <= Len(z) /\ lo <= hi + 1 /\ hi - lo + 1 = n /\ \A i \in 1..n : lo + i - 1 = n + 5 + i
    BY <1>15, <2>1, <2>2
  <2>4. PICK s : s = SubSeq(z, lo, hi)
    OBVIOUS
  <2>5. IsSeq(s) /\ Len(s) = n /\ \A i \in 1..n : s[i] = z[lo + i - 1]
    <3>1. IsSeq(z)
      BY <1>15
    <3> QED BY ONLY <2>3, <2>4, <3>1, lo \in Nat \ {0}, hi \in Nat, Between
  <2>6. \A i \in 1..n : s[i] = c[i]
    BY <1>21, <2>3, <2>5
  <2>7. s = c
    BY <2>5, <2>6, SameElements
  <2> QED BY <2>1, <2>2, <2>4, <2>7
<1>25. 1 \in 1..4 /\ 2 \in 1..4 /\ 3 \in 1..4 /\ 4 \in 1..4
  OBVIOUS
<1>26. z[1] = a[1] /\ z[2] = a[2] /\ z[3] = a[3] /\ z[4] = a[4]
  BY <1>18, <1>25
<1> QED BY <1>8, <1>9, <1>15, <1>20, <1>22, <1>23, <1>24, <1>26 DEF Laid

\* The cells of bytes, and inner data.
LEMMA BytesAre ==
  ASSUME NEW s, Len(s) \in Nat
  PROVE  /\ IsSeq(Bytes(s)) /\ Len(Bytes(s)) = Len(s)
         /\ \A i \in 1..Len(s) : Bytes(s)[i] = [byte |-> s[i]]
<1>1. Bytes(s) = [i \in 1..Len(s) |-> Bytes(s)[i]]
  BY DEF Bytes
<1>2. \A i \in 1..Len(s) : Bytes(s)[i] = [byte |-> s[i]]
  BY DEF Bytes
<1> QED BY <1>1, <1>2, FunctionIsSeq

\* Inner data says where the payload ends.
LEMMA InnerIs ==
  ASSUME NEW s, Len(s) \in Nat, NEW n \in Nat
  PROVE  /\ IsSeq(PackInner(s, n)) /\ Len(PackInner(s, n)) = 1 + Len(s) + n
         /\ PackInner(s, n)[1] = [length |-> Len(s), hash |-> Bytes(s)]
         /\ SubSeq(PackInner(s, n), 2, Len(s) + 1) = Bytes(s)
<1> DEFINE H == <<[length |-> Len(s), hash |-> Bytes(s)]>>
<1> DEFINE R == [i \in 1..n |-> Random]
<1> DEFINE P == Bytes(R)
<1>1. IsSeq(H) /\ Len(H) = 1 /\ H[1] = [length |-> Len(s), hash |-> Bytes(s)]
  BY ONLY OneCell
<1>2. IsSeq(P) /\ Len(P) = n
  <2>1. IsSeq(R) /\ Len(R) = n
    BY FunctionIsSeq
  <2> HIDE DEF R
  <2> QED BY <2>1, BytesAre
<1>3. IsSeq(Bytes(s)) /\ Len(Bytes(s)) = Len(s)
  BY BytesAre
<1>4. PackInner(s, n) = H \o Bytes(s) \o P
  BY DEF PackInner
<1> HIDE DEF H, R, P
<1>5. /\ IsSeq(H \o Bytes(s)) /\ Len(H \o Bytes(s)) = 1 + Len(s)
      /\ \A i \in 1..1 + Len(s) :
           (H \o Bytes(s))[i] = IF i <= 1 THEN H[i] ELSE Bytes(s)[i - 1]
  <2> DEFINE B == Bytes(s)
  <2>0. IsSeq(B) /\ Len(B) = Len(s)
    BY <1>3
  <2> HIDE DEF B
  <2>1. /\ IsSeq(H \o B) /\ Len(H \o B) = Len(H) + Len(B)
        /\ \A i \in 1..Len(H) + Len(B) :
             (H \o B)[i] = IF i <= Len(H) THEN H[i] ELSE B[i - Len(H)]
    BY <2>0, <1>1, Concatenated
  <2>2. \A i \in 1..1 + Len(s) : (H \o B)[i] = IF i <= 1 THEN H[i] ELSE B[i - 1]
    BY <2>0, <2>1, <1>1
  <2> QED BY <2>0, <2>1, <2>2, <1>1 DEF B
<1> DEFINE Z == H \o Bytes(s)
<1> DEFINE W == Z \o P
<1>6. /\ IsSeq(W) /\ Len(W) = 1 + Len(s) + n
      /\ \A i \in 1..1 + Len(s) : W[i] = Z[i]
  <2>1. /\ IsSeq(W) /\ Len(W) = Len(Z) + Len(P)
        /\ \A i \in 1..Len(Z) + Len(P) : W[i] = IF i <= Len(Z) THEN Z[i] ELSE P[i - Len(Z)]
    BY <1>2, <1>5, Concatenated
  <2> HIDE DEF W, Z
  <2> QED BY <2>1, <1>2, <1>5 DEF Z
<1> HIDE DEF W
<1>7. W[1] = H[1] /\ \A i \in 1..Len(s) : W[i + 1] = Bytes(s)[i]
  <2>1. Z[1] = H[1]
    BY <1>5
  <2>2. ASSUME NEW i \in 1..Len(s) PROVE Z[i + 1] = Bytes(s)[i]
    <3>1. i + 1 \in 1..1 + Len(s) /\ ~(i + 1 <= 1) /\ (i + 1) - 1 = i
      OBVIOUS
    <3> QED BY <3>1, <1>5
  <2>3. ASSUME NEW i \in 1..Len(s) PROVE i + 1 \in 1..1 + Len(s)
    OBVIOUS
  <2> HIDE DEF Z
  <2> QED BY <2>1, <2>2, <2>3, <1>6
<1>8. SubSeq(W, 2, Len(s) + 1) = Bytes(s)
  <2>1. /\ IsSeq(SubSeq(W, 2, Len(s) + 1)) /\ Len(SubSeq(W, 2, Len(s) + 1)) = Len(s)
        /\ \A i \in 1..Len(s) : SubSeq(W, 2, Len(s) + 1)[i] = W[i + 1]
    <3>1. 2 \in Nat \ {0} /\ Len(s) + 1 \in Nat /\ Len(s) + 1 <= Len(W)
          /\ 2 <= (Len(s) + 1) + 1 /\ (Len(s) + 1) - 2 + 1 = Len(s)
      BY <1>6
    <3>2. \A i \in 1..Len(s) : 2 + i - 1 = i + 1
      OBVIOUS
    <3> QED BY <3>1, <3>2, <1>6, Between
  <2>2. SubSeq(W, 2, Len(s) + 1) = [i \in 1..Len(s) |-> SubSeq(W, 2, Len(s) + 1)[i]]
    BY <2>1, SeqFacts
  <2>3. Bytes(s) = [i \in 1..Len(s) |-> Bytes(s)[i]]
    BY <1>3, SeqFacts
  <2> QED BY <2>1, <2>2, <2>3, <1>7
<1> QED BY <1>1, <1>4, <1>6, <1>7, <1>8 DEF W, Z

\* Segments are as long as the size asked for, but for the last; none is empty.
LEMMA SegmentsTile ==
  ASSUME NEW plain, Len(plain) \in Nat \ {0}, NEW size \in Nat, NEW n, NEW S,
         n = Segments(plain, size), S = SegmentSize(size)
  PROVE  /\ S \in Nat \ {0} /\ n \in Nat \ {0}
         /\ (n - 1) * S < Len(plain) /\ Len(plain) <= n * S
<1>1. S \in Nat \ {0}
  BY ContainerAssumption DEF SegmentSize
<1>2. PICK L \in Nat \ {0} : L = Len(plain)
  OBVIOUS
<1>3. PICK a \in Nat : a = L + S - 1
  BY <1>1
<1>4. n = a \div S
  BY <1>2, <1>3 DEF Segments
<1>5. ASSUME NEW d \in Nat \ {0}
      PROVE  a \div d \in Nat /\ \E r \in 0..d-1 : a = (a \div d) * d + r
  <2>1. a % d \in 0..d-1 /\ a = (a \div d) * d + (a % d) /\ a \div d \in Nat
    BY <1>5
  <2> QED BY <2>1
<1>6. PICK r \in 0..S-1 : n \in Nat /\ a = n * S + r
  BY <1>1, <1>4, <1>5
<1>7. PICK m \in Nat : m = n * S
  BY <1>1, <1>6
<1>8. L <= m /\ m <= L + S - 1
  <2>1. PICK s \in Nat \ {0} : s = S
    BY <1>1
  <2>2. r \in 0..s-1 /\ a = m + r /\ a = L + s - 1
    BY <1>3, <1>6, <1>7, <2>1
  <2>3. L <= m /\ m <= L + s - 1
    BY ONLY <2>2, r \in Int, a \in Nat, s \in Nat, m \in Nat, L \in Nat
  <2> QED BY <2>1, <2>3
<1>9. n # 0
  <2> SUFFICES ASSUME n = 0 PROVE FALSE
    OBVIOUS
  <2>1. m = 0
    BY <1>1, <1>7
  <2> QED BY <1>8, <2>1
<1>a. (n - 1) * S = m - S
  BY <1>1, <1>6, <1>7
<1>b. (n - 1) * S < L
  <2>1. S \in Nat
    BY <1>1
  <2>2. m - S < L
    BY ONLY <1>8, <2>1, m \in Nat, L \in Nat
  <2> QED BY <1>a, <2>2
<1> QED BY <1>1, <1>2, <1>6, <1>7, <1>8, <1>9, <1>b

\* A segment starts after those before it and is as long as they are, but for
\* the last, which ends where the plaintext does.
PartIs(plain, n, S, i, part) ==
  /\ IsSeq(part)
  /\ Len(part) = IF i = n - 1 THEN Len(plain) - i * S ELSE S
  /\ Len(part) \in 1..S
  /\ \A j \in 1..Len(part) : part[j] = plain[i * S + j]

\* Where a segment starts and ends.
LEMMA SegmentEnds ==
  ASSUME NEW L \in Nat \ {0}, NEW n \in Nat \ {0}, NEW S \in Nat \ {0}, NEW i \in 0..n-1,
         (n - 1) * S < L, L <= n * S,
         NEW a, a = i * S, NEW e, e = IF (i + 1) * S < L THEN (i + 1) * S ELSE L
  PROVE  /\ a \in Nat /\ e \in Nat /\ a < e /\ e <= L /\ e - a \in 1..S
         /\ e = IF i = n - 1 THEN L ELSE a + S
<1>1. a \in Nat /\ (i + 1) * S = a + S
  OBVIOUS
<1>2. CASE i = n - 1
  <2>1. (n - 1) * S = a /\ n * S = a + S
    BY <1>1, <1>2
  <2>2. a < L /\ L <= a + S
    BY <2>1
  <2> QED BY <1>1, <1>2, <2>2
<1>3. CASE i # n - 1
  <2>1. PICK d \in Nat : n - 1 = i + 1 + d
    <3>1. n - 1 - i - 1 \in Nat /\ n - 1 = i + 1 + (n - 1 - i - 1)
      BY <1>3
    <3> QED BY <3>1
  <2>2. (n - 1) * S = a + S + d * S
    BY <1>1, <2>1
  <2>3. d * S \in Nat
    OBVIOUS
  <2>4. a + S < L
    <3>1. PICK q \in Nat : q = d * S
      BY <2>3
    <3>2. a + S + q < L
      BY <2>2, <3>1
    <3> QED BY ONLY <3>2, q \in Nat, S \in Nat, a \in Nat, L \in Nat, <1>1
  <2>5. e = a + S
    BY <1>1, <2>4
  <2> QED BY <1>1, <1>3, <2>4, <2>5
<1> QED BY <1>2, <1>3

\* What encrypt_segments takes for each segment.
LEMMA PartFacts ==
  ASSUME NEW plain, IsSeq(plain), Len(plain) \in Nat \ {0}, NEW size \in Nat, NEW n, NEW S,
         n = Segments(plain, size), S = SegmentSize(size), NEW i \in 0..n-1
  PROVE  PartIs(plain, n, S, i, Part(plain, size, i))
<1>1. /\ S \in Nat \ {0} /\ n \in Nat \ {0}
      /\ (n - 1) * S < Len(plain) /\ Len(plain) <= n * S
  BY SegmentsTile
<1>2. PICK L \in Nat \ {0} : L = Len(plain)
  OBVIOUS
<1>3. PICK a : a = i * S
  OBVIOUS
<1>4. PICK e : e = IF (i + 1) * S < L THEN (i + 1) * S ELSE L
  OBVIOUS
<1>5. /\ a \in Nat /\ e \in Nat /\ a < e /\ e <= L /\ e - a \in 1..S
      /\ e = IF i = n - 1 THEN L ELSE a + S
  BY ONLY <1>1, <1>2, <1>3, <1>4, i \in 0..n-1, SegmentEnds
<1>6. PICK f \in Nat \ {0} : f = a + 1
  BY <1>5
<1>7. Part(plain, size, i) = SubSeq(plain, f, e)
  BY <1>2, <1>3, <1>4, <1>6 DEF Part
<1>8. /\ IsSeq(SubSeq(plain, f, e)) /\ Len(SubSeq(plain, f, e)) = e - f + 1
      /\ \A j \in 1..(e - f + 1) : SubSeq(plain, f, e)[j] = plain[f + j - 1]
  BY <1>2, <1>5, <1>6, Between
<1>9. PICK len \in 1..S : len = e - a
  BY <1>5
<1>10. e - f + 1 = len /\ \A j \in 1..len : f + j - 1 = a + j
  BY <1>5, <1>6, <1>9
<1>11. PICK part : part = SubSeq(plain, f, e)
  OBVIOUS
<1>12. IsSeq(part) /\ Len(part) = len /\ \A j \in 1..len : part[j] = plain[a + j]
  BY <1>8, <1>10, <1>11
<1>13. len = IF i = n - 1 THEN L - a ELSE S
  BY ONLY <1>5, <1>9, a \in Nat, e \in Nat, <1>1
<1>14. PartIs(plain, n, S, i, part)
  BY <1>2, <1>3, <1>9, <1>12, <1>13 DEF PartIs
<1> QED BY <1>7, <1>11, <1>14

\* The size in the header is the least power of two that holds a segment.
LEMMA SizeLogIs ==
  ASSUME NEW size \in Nat, NEW S, S = SegmentSize(size), NEW k, k = SizeLog(size)
  PROVE  k \in Nat /\ 2^k \in Nat /\ S <= 2^k /\ 2^k < 2 * S
<1>1. S \in Nat \ {0}
  BY ContainerAssumption DEF SegmentSize
<1>2. \A j \in Nat : 2^j \in Nat
  BY PowerIs
<1> DEFINE Enough == {j \in 0..S : 2^j >= S}
<1>3. Enough \in SUBSET Nat /\ Enough # {}
  <2>1. S <= 2^S /\ 2^S \in Nat /\ S \in 0..S
    BY <1>1, <1>2, PowerExceeds
  <2>2. 2^S >= S
    BY <1>1, <2>1
  <2> QED BY <1>1, <2>1, <2>2
<1>4. PICK least \in Enough : \A j \in Enough : least <= j
  BY <1>3, Least
<1>5. 2^least >= S /\ \A j \in 0..least-1 : 2^j < S
  <2>1. ASSUME NEW j \in 0..least-1 PROVE 2^j < S
    <3>1. j \in 0..S /\ ~(least <= j) /\ 2^j \in Nat
      BY <1>1, <1>2, <1>4
    <3>2. ~(2^j >= S)
      BY <1>4, <3>1
    <3> QED BY <1>1, <3>1, <3>2
  <2> QED BY <1>4, <2>1
<1>6. \E j \in 0..S : 2^j >= S /\ \A i \in 0..j-1 : 2^i < S
  BY <1>4, <1>5
<1>7. k \in 0..S /\ 2^k >= S /\ \A j \in 0..k-1 : 2^j < S
  BY <1>6 DEF SizeLog
<1>8. PICK p \in Nat : p = 2^k
  BY <1>1, <1>2, <1>7
<1>9. p < 2 * S
  <2>1. CASE k = 0
    <3>1. 2^k = 1
      BY <2>1
    <3> QED BY <1>1, <1>8, <3>1
  <2>2. CASE k # 0
    <3>1. PICK j \in Nat : k = j + 1 /\ j \in 0..k-1
      <4>1. k - 1 \in Nat /\ k = (k - 1) + 1 /\ k - 1 \in 0..k-1
        BY <1>1, <1>7, <2>2
      <4> QED BY <4>1
    <3>2. PICK h \in Nat : h = 2^j
      BY <1>2
    <3>3. 2^(j + 1) = 2 * 2^j
      BY PowerDoubles
    <3>4. p = 2 * h /\ h < S
      BY <1>7, <1>8, <3>1, <3>2, <3>3
    <3> QED BY <1>1, <3>4
  <2> QED BY <2>1, <2>2
<1> QED BY <1>1, <1>7, <1>8, <1>9

\* What is known of everything that was encrypted.
LEMMA MadeParts ==
  ASSUME NEW w, Made(w)
  PROVE  /\ IsSeq(w.container)
         /\ w.container[2] = [header |-> HeaderOf(w)]
         /\ w.container[3] = [siv |-> SivOf(w)]
         /\ \A i \in 1..Len(w.container) :
              /\ "siv" \in DOMAIN w.container[i] =>
                   w.container[i] = [siv |-> SivOf(w)]
              /\ Length(w.container[i])
         /\ SivOf(w) = Siv(Root(w.password, HeaderOf(w)), HeaderOf(w), w.inner)
         /\ w.inner[1].length = Len(w.payload)
         /\ SubSeq(w.inner, 2, w.inner[1].length + 1) = Bytes(w.payload)
         /\ Len(Bytes(w.payload)) < Len(w.inner)
         /\ DOMAIN w.cipher \subseteq Nat
         /\ \A i \in DOMAIN w.cipher :
              w.cipher[i].nonce =
                SegmentNonce(Root(w.password, HeaderOf(w)), HeaderOf(w), SivOf(w), i - 1)
<1>1. PICK pw \in Passwords \ {Empty}, kdf \in Kdfs, payload \in Payloads,
           policy \in {0, 1}, random \in 0..MaxRandom, size \in Sizes,
           salt \in Salts, nonce \in Nonces :
        w = EncryptV5(pw, payload, kdf, policy, random, size, salt, nonce)
  BY DEF Made
<1> DEFINE h == Header(kdf, policy, size, salt, nonce)
<1> DEFINE r == Root(pw, h)
<1> DEFINE p == PackInner(payload, random)
<1> DEFINE v == Siv(r, h, p)
<1> DEFINE c == Cipher(r, h, v, p, size)
<1> DEFINE t == Table(p, size)
<1> DEFINE z == Container(r, h, v, t, c)
<1>2. w = [password |-> pw, payload |-> payload, inner |-> p, cipher |-> c, container |-> z]
  BY <1>1 DEF EncryptV5
<1>3. Len(payload) \in Nat /\ random \in Nat /\ size \in Nat /\ MaxWord \in Nat
  BY ContainerAssumption
<1>4. /\ IsSeq(p) /\ Len(p) = 1 + Len(payload) + random
      /\ p[1] = [length |-> Len(payload), hash |-> Bytes(payload)]
      /\ SubSeq(p, 2, Len(payload) + 1) = Bytes(payload)
  BY <1>3, InnerIs
<1>5. Len(Bytes(payload)) = Len(payload)
  BY <1>3, BytesAre
<1>n. Segments(p, size) \in Nat /\ Segments(p, size) <= MaxWord
  <2>1. 2 * Segments(p, size) + 6 <= MaxWord
    BY LengthAssumption
  <2> HIDE DEF p
  <2>2. Len(p) \in Nat \ {0}
    BY <1>3, <1>4
  <2>3. PICK m \in Nat : m = Segments(p, size)
    BY <1>3, <2>2, SegmentsTile
  <2>4. 2 * m + 6 <= MaxWord
    BY <2>1, <2>3
  <2>5. m <= MaxWord
    BY ONLY <1>3, <2>4, m \in Nat
  <2> QED BY <2>3, <2>5
<1> HIDE DEF p
<1>6. /\ IsSeq(c) /\ DOMAIN c = 1..Segments(p, size)
      /\ Len(c) <= MaxWord /\ \A k \in 1..Len(c) : Plain(c[k])
      /\ \A k \in 1..Segments(p, size) : c[k].nonce = SegmentNonce(r, h, v, k - 1)
  <2>1. c = [k \in 1..Segments(p, size) |->
              [key |-> r, nonce |-> SegmentNonce(r, h, v, k - 1), plain |-> Part(p, size, k - 1)]]
    BY DEF Cipher
  <2>2. IsSeq(c) /\ Len(c) = Segments(p, size)
    BY <2>1, <1>n, FunctionIsSeq
  <2>3. DOMAIN c = 1..Segments(p, size)
    BY <2>1
  <2>4. ASSUME NEW k \in 1..Segments(p, size)
        PROVE  Plain(c[k]) /\ c[k].nonce = SegmentNonce(r, h, v, k - 1)
    <3>1. c[k] = [key |-> r, nonce |-> SegmentNonce(r, h, v, k - 1), plain |-> Part(p, size, k - 1)]
      BY <2>1
    <3> HIDE DEF h, r, v, c
    <3> QED BY <3>1 DEF Plain
  <2> HIDE DEF h, r, v, c
  <2> QED BY <1>n, <2>2, <2>3, <2>4
<1>7. IsSeq(t) /\ Len(t) <= MaxWord /\ \A k \in 1..Len(t) : Plain(t[k])
  <2>1. IsSeq(t) /\ Len(t) = Segments(p, size)
    BY <1>n, FunctionIsSeq DEF Table
  <2>2. \A k \in 1..Segments(p, size) : DOMAIN t[k] = {"entry"}
    BY DEF Table
  <2> QED BY <1>n, <2>1, <2>2 DEF Plain
<1> HIDE DEF h, r, v, c, t
<1>8. /\ IsSeq(z) /\ z[2] = [header |-> h] /\ z[3] = [siv |-> v]
      /\ \A i \in 1..Len(z) : /\ "siv" \in DOMAIN z[i] => z[i] = [siv |-> v]
                              /\ Length(z[i])
  <2>1. /\ IsSeq(t) /\ Len(t) <= MaxWord /\ \A k \in 1..Len(t) : Plain(t[k])
        /\ IsSeq(c) /\ Len(c) <= MaxWord /\ \A k \in 1..Len(c) : Plain(c[k])
    BY <1>6, <1>7
  <2>2. WellMade(z, h, v)
    BY ONLY <2>1, ContainerParts
  <2> QED BY <2>2 DEF WellMade
<1> HIDE DEF z
<1>9. HeaderOf(w) = h /\ SivOf(w) = v /\ Root(w.password, h) = r /\ w.inner = p
      /\ w.payload = payload /\ w.container = z /\ w.cipher = c
  BY <1>2, <1>8 DEF HeaderOf, SivOf, r
<1>a. v = Siv(r, h, p)
  BY DEF v
<1>b. w.inner[1].length = Len(payload) /\ Len(Bytes(payload)) < Len(p)
  BY <1>3, <1>4, <1>5, <1>9
<1> QED BY <1>4, <1>6, <1>8, <1>9, <1>a, <1>b

RootOf(w)  == Root(w.password, HeaderOf(w))
TableOf(w) == SubSeq(w.container, 5, Len(w.cipher) + 4)

\* A segment, its ciphertext and its entry.
SegmentIs(w, n, S, k) ==
  /\ TableOf(w)[k] = [entry |-> [index |-> k - 1, plainOffset |-> (k - 1) * S,
                                 plainLength |-> Len(w.cipher[k].plain),
                                 cipherOffset |-> k - 1, cipherLength |-> 1]]
  /\ w.cipher[k] = [key |-> RootOf(w),
                     nonce |-> SegmentNonce(RootOf(w), HeaderOf(w), SivOf(w), k - 1),
                     plain |-> w.cipher[k].plain]
  /\ PartIs(w.inner, n, S, k - 1, w.cipher[k].plain)

\* Inner data of at least one cell, in n segments of S cells, but for the last.
InSegments(w, n, S) ==
  /\ n \in Nat \ {0} /\ S \in Nat \ {0}
  /\ IsSeq(w.cipher) /\ Len(w.cipher) = n
  /\ IsSeq(w.inner) /\ Len(w.inner) \in Nat \ {0}
  /\ (n - 1) * S < Len(w.inner) /\ Len(w.inner) <= n * S
  /\ IsSeq(TableOf(w)) /\ Len(TableOf(w)) = n
  /\ \A k \in 1..n : SegmentIs(w, n, S, k)

\* The header, which is sound and has the least power of two that holds S.
HeaderIs(w, S) ==
  /\ HeaderOf(w).reserved = 0 /\ HeaderOf(w).policy \in {0, 1}
  /\ Sound(HeaderOf(w).kdf)
  /\ 2^(HeaderOf(w).sizeLog) \in Nat
  /\ S <= 2^(HeaderOf(w).sizeLog) /\ 2^(HeaderOf(w).sizeLog) < 2 * S
  /\ \E size \in Sizes : HeaderOf(w).sizeLog = SizeLog(size) /\ S = SegmentSize(size)

\* The inner data begins with the payload's length and hash, and the payload.
InnerOf(w) ==
  /\ Len(w.payload) \in Nat
  /\ w.inner[1] = [length |-> Len(w.payload), hash |-> Bytes(w.payload)]
  /\ 1 + Len(w.payload) <= Len(w.inner)
  /\ SubSeq(w.inner, 2, Len(w.payload) + 1) = Bytes(w.payload)

\* What decrypt_v5 relies on in a container that is as it was written.
Opens(w, n, S) ==
  /\ InSegments(w, n, S) /\ HeaderIs(w, S) /\ InnerOf(w) /\ w.password # Empty
  /\ 2 * n + 6 <= MaxWord
  /\ Laid(w.container, RootOf(w), HeaderOf(w), SivOf(w), TableOf(w), w.cipher, n)
  /\ SivOf(w) = Siv(RootOf(w), HeaderOf(w), w.inner)

\* Containers are written so.
LEMMA MadeOpens ==
  ASSUME NEW w, Made(w)
  PROVE  \E n, S : Opens(w, n, S)
<1>1. PICK pw \in Passwords \ {Empty}, kdf \in Kdfs, payload \in Payloads,
           policy \in {0, 1}, random \in 0..MaxRandom, size \in Sizes,
           salt \in Salts, nonce \in Nonces :
        Sound(kdf) /\ w = EncryptV5(pw, payload, kdf, policy, random, size, salt, nonce)
  BY DEF Made
<1>2. PICK h : h = Header(kdf, policy, size, salt, nonce)
  OBVIOUS
<1>3. PICK r : r = Root(pw, h)
  OBVIOUS
<1>4. PICK p : p = PackInner(payload, random)
  OBVIOUS
<1>5. PICK v : v = Siv(r, h, p)
  OBVIOUS
<1>6. PICK c : c = Cipher(r, h, v, p, size)
  OBVIOUS
<1>7. PICK t : t = Table(p, size)
  OBVIOUS
<1>8. PICK z : z = Container(r, h, v, t, c)
  OBVIOUS
<1>9. w = [password |-> pw, payload |-> payload, inner |-> p, cipher |-> c, container |-> z]
  BY <1>1, <1>2, <1>3, <1>4, <1>5, <1>6, <1>7, <1>8 DEF EncryptV5
<1>10. w.password = pw /\ w.payload = payload /\ w.inner = p /\ w.cipher = c
       /\ w.container = z
  BY <1>9
<1>11. Len(payload) \in Nat /\ random \in Nat /\ size \in Nat /\ MaxWord \in Nat
  BY ContainerAssumption
<1>12. PICK n : n = Segments(p, size)
  OBVIOUS
<1>13. PICK S : S = SegmentSize(size)
  OBVIOUS
<1>14. 2 * n + 6 <= MaxWord
  BY <1>4, <1>12, LengthAssumption
<1>15. /\ IsSeq(p) /\ Len(p) = 1 + Len(payload) + random /\ Len(p) \in Nat \ {0}
       /\ p[1] = [length |-> Len(payload), hash |-> Bytes(payload)]
       /\ SubSeq(p, 2, Len(payload) + 1) = Bytes(payload)
  <2>1. PICK m \in Nat : m = Len(payload)
    BY <1>11
  <2>2. /\ IsSeq(p) /\ Len(p) = 1 + m + random
        /\ p[1] = [length |-> Len(payload), hash |-> Bytes(payload)]
        /\ SubSeq(p, 2, Len(payload) + 1) = Bytes(payload)
    BY <1>4, <1>11, <2>1, InnerIs
  <2>3. 1 + m + random \in Nat \ {0}
    BY <1>11
  <2> QED BY <2>1, <2>2, <2>3
<1>16. /\ S \in Nat \ {0} /\ n \in Nat \ {0}
       /\ (n - 1) * S < Len(p) /\ Len(p) <= n * S
  BY <1>11, <1>12, <1>13, <1>15, SegmentsTile
<1>17. \A i \in 0..n-1 : PartIs(p, n, S, i, Part(p, size, i))
  BY <1>11, <1>12, <1>13, <1>15, PartFacts
<1>18. /\ IsSeq(c) /\ Len(c) = n
       /\ \A k \in 1..n :
            /\ c[k] = [key |-> r, nonce |-> SegmentNonce(r, h, v, k - 1), plain |-> c[k].plain]
            /\ c[k].plain = Part(p, size, k - 1)
  <2>1. c = [k \in 1..n |->
              [key |-> r, nonce |-> SegmentNonce(r, h, v, k - 1), plain |-> Part(p, size, k - 1)]]
    BY <1>6, <1>12 DEF Cipher
  <2>2. IsSeq(c) /\ Len(c) = n
    BY <1>16, <2>1, FunctionIsSeq
  <2>3. ASSUME NEW k \in 1..n
        PROVE  /\ c[k] = [key |-> r, nonce |-> SegmentNonce(r, h, v, k - 1),
                           plain |-> c[k].plain]
               /\ c[k].plain = Part(p, size, k - 1)
    <3>1. c[k] = [key |-> r, nonce |-> SegmentNonce(r, h, v, k - 1), plain |-> Part(p, size, k - 1)]
      BY <2>1
    <3> QED BY <3>1
  <2> QED BY <2>2, <2>3
<1>19. /\ IsSeq(t) /\ Len(t) = n
       /\ \A k \in 1..n : t[k] = [entry |-> [index |-> k - 1, plainOffset |-> (k - 1) * S,
                                             plainLength |-> Len(c[k].plain),
                                             cipherOffset |-> k - 1, cipherLength |-> 1]]
  <2>1. t = [k \in 1..n |->
              [entry |-> [index |-> k - 1, plainOffset |-> (k - 1) * S,
                          plainLength |-> Len(Part(p, size, k - 1)),
                          cipherOffset |-> k - 1, cipherLength |-> 1]]]
    BY <1>7, <1>12, <1>13 DEF Table
  <2>2. IsSeq(t) /\ Len(t) = n
    BY <1>16, <2>1, FunctionIsSeq
  <2>3. ASSUME NEW k \in 1..n
        PROVE  t[k] = [entry |-> [index |-> k - 1, plainOffset |-> (k - 1) * S,
                                  plainLength |-> Len(c[k].plain),
                                  cipherOffset |-> k - 1, cipherLength |-> 1]]
    BY <1>18, <2>1
  <2> QED BY <2>2, <2>3
<1>20. Laid(z, r, h, v, t, c, n)
  BY <1>8, <1>16, <1>18, <1>19, ContainerLaid
<1>21. HeaderOf(w) = h /\ SivOf(w) = v /\ RootOf(w) = r /\ TableOf(w) = t
  <2>1. HeaderOf(w) = h /\ SivOf(w) = v
    BY <1>10, <1>20 DEF Laid, HeaderOf, SivOf
  <2>2. TableOf(w) = t
    BY <1>10, <1>18, <1>20 DEF Laid, TableOf
  <2> QED BY <1>3, <1>10, <2>1, <2>2 DEF RootOf
<1>22. \A k \in 1..n : SegmentIs(w, n, S, k)
  <2>1. ASSUME NEW k \in 1..n PROVE SegmentIs(w, n, S, k)
    <3>1. k - 1 \in 0..n-1
      BY <1>16
    <3>2. PartIs(w.inner, n, S, k - 1, w.cipher[k].plain)
      BY <1>10, <1>17, <1>18, <3>1
    <3>3. w.cipher[k] = c[k] /\ TableOf(w)[k] = t[k]
      BY <1>10, <1>21
    <3> QED BY <1>18, <1>19, <1>21, <3>2, <3>3 DEF SegmentIs
  <2> QED BY <2>1
<1>23. InSegments(w, n, S)
  BY <1>10, <1>13, <1>15, <1>16, <1>18, <1>19, <1>21, <1>22 DEF InSegments
<1>24. HeaderIs(w, S)
  <2>1. PICK k : k = SizeLog(size)
    OBVIOUS
  <2>2. h.reserved = 0 /\ h.policy = policy /\ h.kdf = kdf /\ h.sizeLog = k
    BY <1>2, <2>1 DEF Header
  <2>3. k \in Nat /\ 2^k \in Nat /\ S <= 2^k /\ 2^k < 2 * S
    BY <1>11, <1>13, <2>1, SizeLogIs
  <2> QED BY <1>1, <1>13, <1>21, <2>1, <2>2, <2>3 DEF HeaderIs
<1>25. InnerOf(w)
  BY <1>10, <1>11, <1>15 DEF InnerOf
<1>26. Opens(w, n, S)
  BY <1>5, <1>10, <1>14, <1>20, <1>21, <1>23, <1>24, <1>25 DEF Opens
<1> QED BY <1>26

-----------------------------------------------------------------------------
(* The invariant.                                                          *)

\* Nothing is written, and the invariant holds.
LEMMA InitInv == Init => IInv
<1> SUFFICES ASSUME Init PROVE IInv
  OBVIOUS
<1>1. Cardinality(written) = 0 /\ IsFiniteSet(written)
  BY FS_EmptySet DEF Init
<1>2. MaxWritten \in Nat /\ MaxDamages \in Nat /\ MaxWord \in Nat
  BY ContainerAssumption
<1>3. TypeOK
  BY <1>1, <1>2 DEF Init, TypeOK
<1>4. IsSeq(stored) /\ Len(stored) = 0
  <2>1. << >> \in Seq({}) /\ Len(<< >>) = 0
    OBVIOUS
  <2> QED BY <2>1 DEF Init, IsSeq
<1>5. Cells
  BY <1>4 DEF Cells
<1>6. AllMade /\ Read /\ Returned
  BY <1>1 DEF Init, AllMade, Read, Returned
<1> QED BY <1>3, <1>5, <1>6 DEF IInv

\* A step that leaves a stored container with the cells it may have, of those
\* already encrypted.
LEMMA StoredStep ==
  ASSUME IInv, at = "stored", at' = "stored", damages' \in 0..MaxDamages,
         UNCHANGED <<written, password, sizes, inner, output>>,
         IsSeq(stored'),
         \A i \in 1..Len(stored') : Copied(stored'[i]) /\ Length(stored'[i])
  PROVE  IInv'
<1>1. TypeOK'
  BY DEF IInv, TypeOK
<1>2. AllMade'
  BY DEF IInv, AllMade
<1>3. Cells'
  BY DEF Cells, Copied, Length
<1>4. Read' /\ Returned'
  BY DEF Read, Returned
<1> QED BY <1>1, <1>2, <1>3, <1>4 DEF IInv

\* The same of a change.
LEMMA ChangeStep ==
  ASSUME NEW cells, IInv, Change(cells), IsSeq(cells),
         \A i \in 1..Len(cells) : Copied(cells[i]) /\ Length(cells[i])
  PROVE  IInv'
<1>1. damages' \in 0..MaxDamages
  BY ContainerAssumption DEF Change, IInv, TypeOK
<1> QED BY <1>1, StoredStep DEF Change

\* A cell is replaced by one that a container may have.
LEMMA CellReplaced ==
  ASSUME NEW s, IsSeq(s), \A k \in 1..Len(s) : Copied(s[k]) /\ Length(s[k]),
         NEW i \in 1..Len(s), NEW cell, Copied(cell), Length(cell)
  PROVE  /\ IsSeq([s EXCEPT ![i] = cell]) /\ Len([s EXCEPT ![i] = cell]) = Len(s)
         /\ \A k \in 1..Len(s) : [s EXCEPT ![i] = cell][k] = IF k = i THEN cell ELSE s[k]
         /\ \A k \in 1..Len([s EXCEPT ![i] = cell]) :
              Copied([s EXCEPT ![i] = cell][k]) /\ Length([s EXCEPT ![i] = cell][k])
<1> DEFINE cells == [s EXCEPT ![i] = cell]
<1>1. Len(s) \in Nat /\ DOMAIN s = 1..Len(s)
  BY SeqFacts
<1>2. cells = [k \in 1..Len(s) |-> cells[k]]
  BY <1>1
<1>3. IsSeq(cells) /\ Len(cells) = Len(s)
  BY <1>1, <1>2, FunctionIsSeq
<1>4. \A k \in 1..Len(s) : cells[k] = IF k = i THEN cell ELSE s[k]
  BY <1>1
<1> HIDE DEF cells
<1>5. \A k \in 1..Len(cells) : Copied(cells[k]) /\ Length(cells[k])
  BY <1>3, <1>4
<1> QED BY <1>3, <1>4, <1>5 DEF cells

\* A field of a cell is written over: the cell is no synthetic IV, and if the
\* field is a length it is one of eight bytes.
LEMMA FieldStep ==
  ASSUME NEW i \in 1..Len(stored), NEW f \in {"num", "entry", "header"}, NEW value, IInv,
         Has(i, f), Change([stored EXCEPT ![i] = [stored[i] EXCEPT ![f] = value]]),
         f = "num" => value \in 0..MaxWord
  PROVE  IInv'
<1> DEFINE cell == [stored[i] EXCEPT ![f] = value]
<1>1. f \in DOMAIN stored[i] /\ Copied(stored[i]) /\ Length(stored[i])
  BY DEF Has, IInv, Cells
<1>2. "siv" \notin DOMAIN stored[i]
  <2> SUFFICES ASSUME "siv" \in DOMAIN stored[i] PROVE FALSE
    OBVIOUS
  <2>1. PICK w \in written : stored[i] = [siv |-> SivOf(w)]
    BY <1>1 DEF Copied
  <2>2. DOMAIN stored[i] = {"siv"}
    BY <2>1
  <2> QED BY <1>1, <2>2
<1>3. DOMAIN cell = DOMAIN stored[i]
  OBVIOUS
<1>4. "num" \in DOMAIN stored[i] => cell.num = IF f = "num" THEN value ELSE stored[i].num
  BY <1>1
<1>5. Copied(cell)
  BY <1>2, <1>3 DEF Copied
<1>6. Length(cell)
  BY <1>1, <1>3, <1>4 DEF Length
<1> HIDE DEF cell
<1>7. Change([stored EXCEPT ![i] = cell])
  BY DEF cell
<1>8. /\ IsSeq([stored EXCEPT ![i] = cell])
      /\ \A k \in 1..Len([stored EXCEPT ![i] = cell]) :
           Copied([stored EXCEPT ![i] = cell][k]) /\ Length([stored EXCEPT ![i] = cell][k])
  BY <1>5, <1>6, CellReplaced DEF IInv, Cells
<1> QED BY <1>7, <1>8, ChangeStep

\* decrypt_v5 goes on to its next step, or refuses.
LEMMA RefuseStep ==
  ASSUME NEW e, IInv, Refuse(e),
         e \in {"derive", "verify", "table", "segments", "siv", "inner", "panic"}
                \cup Errors,
         e \in {"derive", "verify", "table", "segments", "siv", "inner"} =>
           6 + sizes.table + sizes.cipher = Len(stored),
         e \in {"table", "segments", "siv", "inner"} => Has(3, "siv"),
         e = "inner" => stored[3].siv = Siv(root, header, inner)
  PROVE  IInv'
<1>1. at' = e /\ UNCHANGED <<written, stored, damages, password, sizes, inner, output>>
  BY DEF Refuse
<1>2. TypeOK'
  BY <1>1 DEF IInv, TypeOK, Errors
<1>3. AllMade' /\ Cells'
  BY <1>1 DEF IInv, AllMade, Made, Cells, Copied, Length
<1>4. Read'
  BY <1>1 DEF Read, Has, Siv, root, header, Root, Errors
<1>5. Returned'
  BY <1>1 DEF Returned, Errors
<1> QED BY <1>2, <1>3, <1>4, <1>5 DEF IInv

\* encrypt_v5 writes one more container.
LEMMA EncryptStep == ASSUME IInv, Encrypt PROVE IInv'
<1>1. PICK pw \in Passwords \ {Empty}, kdf \in Kdfs, payload \in Payloads,
           policy \in {0, 1}, random \in 0..MaxRandom, size \in Sizes,
           salt \in Salts, nonce \in Nonces :
        Sound(kdf) /\ written' = written \cup
          {EncryptV5(pw, payload, kdf, policy, random, size, salt, nonce)}
  BY DEF Encrypt
<1> DEFINE w == EncryptV5(pw, payload, kdf, policy, random, size, salt, nonce)
<1>2. Made(w)
  BY <1>1 DEF Made
<1>3. at = "writing" /\ Cardinality(written) < MaxWritten
      /\ UNCHANGED <<stored, damages, password, at, sizes, inner, output>>
  BY DEF Encrypt
<1>e. written' = written \cup {w}
  BY <1>1
<1> HIDE DEF w
<1>4. IsFiniteSet(written') /\ Cardinality(written') <= MaxWritten
  <2>1. IsFiniteSet(written) /\ MaxWritten \in Nat
    BY ContainerAssumption DEF IInv, AllMade
  <2>2. Cardinality(written) \in Nat
    BY <2>1, FS_CardinalityType
  <2>3. IsFiniteSet(written \cup {w})
        /\ (\/ Cardinality(written \cup {w}) = Cardinality(written)
            \/ Cardinality(written \cup {w}) = Cardinality(written) + 1)
    BY <2>1, FS_AddElement
  <2> QED BY <1>3, <1>e, <2>1, <2>2, <2>3
<1>5. TypeOK'
  BY <1>3, <1>4 DEF IInv, TypeOK, Errors
<1>6. AllMade'
  BY <1>2, <1>4, <1>e DEF IInv, AllMade, Made
<1>7. Cells'
  BY <1>3, <1>e DEF IInv, Cells, Copied, Length
<1>8. Read' /\ Returned'
  BY <1>3 DEF Read, Returned
<1> QED BY <1>5, <1>6, <1>7, <1>8 DEF IInv

\* One of the containers is stored.
LEMMA StoreStep == ASSUME IInv, Store PROVE IInv'
<1>1. PICK w \in written : stored' = w.container
  BY DEF Store
<1>2. at = "writing" /\ at' = "stored"
      /\ UNCHANGED <<written, damages, password, sizes, inner, output>>
  BY DEF Store
<1>3. Made(w)
  BY DEF IInv, AllMade
<1>4. IsSeq(w.container)
      /\ \A i \in 1..Len(w.container) :
           /\ "siv" \in DOMAIN w.container[i] => w.container[i] = [siv |-> SivOf(w)]
           /\ Length(w.container[i])
  BY <1>3, MadeParts
<1>5. TypeOK'
  BY <1>2 DEF IInv, TypeOK
<1>6. AllMade'
  BY <1>2 DEF IInv, AllMade, Made
<1>7. Cells'
  BY <1>1, <1>2, <1>4 DEF Cells, Copied, Length
<1>8. Read' /\ Returned'
  BY <1>2 DEF Read, Returned
<1> QED BY <1>5, <1>6, <1>7, <1>8 DEF IInv

\* A range is written over, or cells are cut off or added.
LEMMA RangeStep == ASSUME IInv, Overwrite \/ Cut \/ Extend PROVE IInv'
<1>1. IsSeq(stored) /\ \A k \in 1..Len(stored) : Copied(stored[k]) /\ Length(stored[k])
  BY DEF IInv, Cells
<1>2. Len(stored) \in Nat /\ DOMAIN stored = 1..Len(stored)
  BY <1>1, SeqFacts
<1>3. CASE Overwrite
  <2>0. PICK w \in written, i \in 1..Len(stored) : \E j \in i..Len(stored) :
          /\ j <= Len(w.container)
          /\ Change([k \in 1..Len(stored) |->
                      IF k \in i..j THEN w.container[k] ELSE stored[k]])
    BY <1>3 DEF Overwrite
  <2>1. PICK j \in i..Len(stored) :
          /\ j <= Len(w.container)
          /\ Change([k \in 1..Len(stored) |->
                      IF k \in i..j THEN w.container[k] ELSE stored[k]])
    BY <2>0
  <2> DEFINE cells == [k \in 1..Len(stored) |->
                        IF k \in i..j THEN w.container[k] ELSE stored[k]]
  <2>2. IsSeq(cells) /\ Len(cells) = Len(stored)
    BY <1>2, FunctionIsSeq
  <2>3. IsSeq(w.container)
        /\ \A k \in 1..Len(w.container) : Copied(w.container[k]) /\ Length(w.container[k])
    <3>1. Made(w)
      BY DEF IInv, AllMade
    <3> QED BY <3>1, MadeParts DEF Copied
  <2>4. Len(w.container) \in Nat
    BY <2>3, SeqFacts
  <2>5. \A k \in 1..Len(stored) :
          \/ cells[k] = stored[k]
          \/ k \in 1..Len(w.container) /\ cells[k] = w.container[k]
    BY <1>2, <2>1, <2>4
  <2>6. Change(cells)
    BY <2>1
  <2> HIDE DEF cells
  <2>7. \A k \in 1..Len(cells) : Copied(cells[k]) /\ Length(cells[k])
    BY <1>1, <2>2, <2>3, <2>5
  <2> QED BY <2>2, <2>6, <2>7, ChangeStep
<1>4. CASE Cut
  <2>1. PICK i \in 0..Len(stored) - 1 : Change(SubSeq(stored, 1, i))
    BY <1>4 DEF Cut
  <2>2. /\ IsSeq(SubSeq(stored, 1, i)) /\ Len(SubSeq(stored, 1, i)) = i
        /\ \A k \in 1..i : SubSeq(stored, 1, i)[k] = stored[k]
    <3>1. i \in Nat /\ i <= Len(stored) /\ 1 \in Nat \ {0} /\ 1 <= i + 1 /\ i - 1 + 1 = i
          /\ \A k \in 1..i : 1 + k - 1 = k
      BY <1>2
    <3> QED BY <1>1, <3>1, Between
  <2>3. \A k \in 1..i : k \in 1..Len(stored)
    BY <1>2
  <2>4. \A k \in 1..Len(SubSeq(stored, 1, i)) :
          Copied(SubSeq(stored, 1, i)[k]) /\ Length(SubSeq(stored, 1, i)[k])
    BY <1>1, <2>2, <2>3
  <2> QED BY <2>1, <2>2, <2>4, ChangeStep
<1>5. CASE Extend
  <2> DEFINE cells == Append(stored, stored[Len(stored)])
  <2>1. stored # << >> /\ Change(cells)
    BY <1>5 DEF Extend
  <2>2. Len(stored) \in 1..Len(stored)
    BY <1>1, <1>2, <2>1 DEF IsSeq
  <2>3. IsSeq(cells) /\ Len(cells) = Len(stored) + 1
        /\ \A k \in 1..Len(stored) + 1 :
             cells[k] = IF k <= Len(stored) THEN stored[k] ELSE stored[Len(stored)]
    <3>1. PICK S : stored \in Seq(S)
      BY <1>1 DEF IsSeq
    <3>2. stored[Len(stored)] \in S
      BY <3>1, <2>2
    <3>3. cells \in Seq(S)
      BY <3>1, <3>2
    <3>4. Len(cells) = Len(stored) + 1
          /\ \A k \in 1..Len(stored) + 1 :
               cells[k] = IF k <= Len(stored) THEN stored[k] ELSE stored[Len(stored)]
      BY <3>1, <3>2
    <3> QED BY <3>3, <3>4 DEF IsSeq
  <2> HIDE DEF cells
  <2>4. \A k \in 1..Len(cells) : Copied(cells[k]) /\ Length(cells[k])
    BY <1>1, <1>2, <2>2, <2>3
  <2> QED BY <2>1, <2>3, <2>4, ChangeStep
<1> QED BY <1>3, <1>4, <1>5

\* A length, an entry or the header is written over.
LEMMA SpoilStep == ASSUME IInv, SetLength \/ SpoilEntry \/ SpoilHeader PROVE IInv'
<1>1. IsSeq(stored)
  BY DEF IInv, Cells
<1>2. Len(stored) \in Nat /\ DOMAIN stored = 1..Len(stored)
  BY <1>1, SeqFacts
<1>3. CASE SetLength
  <2>1. PICK i \in 1..Len(stored), n \in 0..MaxWord :
          Has(i, "num") /\ Change([stored EXCEPT ![i].num = n])
    BY <1>3 DEF SetLength
  <2>2. [stored EXCEPT ![i].num = n] = [stored EXCEPT ![i] = [stored[i] EXCEPT !["num"] = n]]
    BY <1>2
  <2> QED BY <2>1, <2>2, FieldStep
<1>4. CASE SpoilEntry
  <2>1. PICK i \in 1..Len(stored), n \in {0, 1} :
          /\ Has(i, "entry")
          /\ Change([stored EXCEPT ![i].entry.plainLength = @ + 1,
                                   ![i].entry.plainOffset = @ + n])
    BY <1>4 DEF SpoilEntry
  <2> DEFINE e == [stored[i].entry EXCEPT !.plainLength = @ + 1, !.plainOffset = @ + n]
  <2>2. [stored EXCEPT ![i].entry.plainLength = @ + 1, ![i].entry.plainOffset = @ + n]
          = [stored EXCEPT ![i] = [stored[i] EXCEPT !["entry"] = e]]
    BY <1>2, <2>1 DEF Has
  <2> HIDE DEF e
  <2> QED BY <2>1, <2>2, FieldStep
<1>5. CASE SpoilHeader
  <2>1. Has(2, "header") /\ 2 \in 1..Len(stored)
    BY <1>2, <1>5 DEF SpoilHeader, Has
  <2>2. PICK h : Change([stored EXCEPT ![2] = [stored[2] EXCEPT !["header"] = h]])
    <3>1. CASE \E kdf \in Kdfs : Change([stored EXCEPT ![2].header.kdf = kdf])
      <4>1. PICK kdf \in Kdfs : Change([stored EXCEPT ![2].header.kdf = kdf])
        BY <3>1
      <4>2. [stored EXCEPT ![2].header.kdf = kdf] =
              [stored EXCEPT ![2] = [stored[2] EXCEPT
                !["header"] = [stored[2].header EXCEPT !.kdf = kdf]]]
        BY <1>2, <2>1
      <4> QED BY <4>1, <4>2
    <3>2. CASE \E policy \in 0..2 : Change([stored EXCEPT ![2].header.policy = policy])
      <4>1. PICK policy \in 0..2 : Change([stored EXCEPT ![2].header.policy = policy])
        BY <3>2
      <4>2. [stored EXCEPT ![2].header.policy = policy] =
              [stored EXCEPT ![2] = [stored[2] EXCEPT
                !["header"] = [stored[2].header EXCEPT !.policy = policy]]]
        BY <1>2, <2>1
      <4> QED BY <4>1, <4>2
    <3>3. CASE Change([stored EXCEPT ![2].header.reserved = 1])
      <4>1. [stored EXCEPT ![2].header.reserved = 1] =
              [stored EXCEPT ![2] = [stored[2] EXCEPT
                !["header"] = [stored[2].header EXCEPT !.reserved = 1]]]
        BY <1>2, <2>1
      <4> QED BY <3>3, <4>1
    <3>4. CASE Change([stored EXCEPT ![2].header.sizeLog = @ + 1])
      <4>1. [stored EXCEPT ![2].header.sizeLog = @ + 1] =
              [stored EXCEPT ![2] = [stored[2] EXCEPT
                !["header"] = [stored[2].header EXCEPT !.sizeLog = @ + 1]]]
        BY <1>2, <2>1
      <4> QED BY <3>4, <4>1
    <3> QED BY <1>5, <3>1, <3>2, <3>3, <3>4 DEF SpoilHeader
  <2> QED BY <2>1, <2>2, FieldStep
<1> QED BY <1>3, <1>4, <1>5

\* Someone who knows a password makes the tag anew.
LEMMA ResealStep == ASSUME IInv, Reseal PROVE IInv'
<1>1. PICK tag : stored' = [stored EXCEPT ![Len(stored)] = [tag |-> tag]]
  BY DEF Reseal
<1>2. at = "stored" /\ at' = "stored" /\ 4 <= Len(stored)
      /\ UNCHANGED <<written, damages, password, sizes, inner, output>>
  BY DEF Reseal, Has
<1>3. IsSeq(stored) /\ \A k \in 1..Len(stored) : Copied(stored[k]) /\ Length(stored[k])
  BY DEF IInv, Cells
<1>4. Len(stored) \in 1..Len(stored)
  BY <1>2, <1>3, SeqFacts
<1> DEFINE cell == [tag |-> tag]
<1>5. Copied(cell) /\ Length(cell)
  BY DEF Copied, Length
<1>6. stored' = [stored EXCEPT ![Len(stored)] = cell]
  BY <1>1
<1> HIDE DEF cell
<1>7. /\ IsSeq([stored EXCEPT ![Len(stored)] = cell])
      /\ \A k \in 1..Len([stored EXCEPT ![Len(stored)] = cell]) :
           /\ Copied([stored EXCEPT ![Len(stored)] = cell][k])
           /\ Length([stored EXCEPT ![Len(stored)] = cell][k])
  BY <1>3, <1>4, <1>5, CellReplaced
<1>8. damages' \in 0..MaxDamages
  BY <1>2 DEF IInv, TypeOK
<1> QED BY <1>2, <1>6, <1>7, <1>8, StoredStep

\* A sum of two offsets wraps once at most.
LEMMA Wrapped ==
  ASSUME NEW n \in 0..(2 * MaxWord + 1)
  PROVE  Wrap(n) = IF n <= MaxWord THEN n ELSE n - (MaxWord + 1)
<1>1. MaxWord \in Nat
  BY ContainerAssumption
<1>2. ASSUME NEW a \in Nat, NEW d \in Nat \ {0}, a < d PROVE (a % d) = a
  BY <1>2
<1>3. ASSUME NEW a \in Nat, NEW d \in Nat \ {0}, d <= a, a < 2 * d PROVE (a % d) = a - d
  <2> DEFINE r == a % d
  <2> DEFINE q == a \div d
  <2>1. r \in 0..d-1 /\ q \in Nat /\ a = q * d + r
    BY <1>3
  <2> HIDE DEF r, q
  <2>2. q = 1
    <3>1. q # 0
      BY <1>3, <2>1
    <3>2. ASSUME q >= 2 PROVE FALSE
      <4>1. PICK k \in Nat : q = 2 + k
        <5>1. q - 2 \in Nat /\ q = 2 + (q - 2)
          BY <2>1, <3>2
        <5> QED BY <5>1
      <4>2. q * d = 2 * d + k * d
        BY <4>1
      <4>3. k * d \in Nat
        BY <4>1
      <4> QED BY <1>3, <2>1, <4>2, <4>3
    <3> QED BY <2>1, <3>1, <3>2
  <2>3. a = d + r
    BY <2>1, <2>2
  <2> QED BY <2>1, <2>3 DEF r
<1>4. n \in Nat /\ MaxWord + 1 \in Nat \ {0} /\ n < 2 * (MaxWord + 1)
  BY <1>1
<1>5. CASE n <= MaxWord
  <2>1. n < MaxWord + 1
    BY <1>1, <1>5
  <2> QED BY <1>2, <1>4, <1>5, <2>1 DEF Wrap
<1>6. CASE ~(n <= MaxWord)
  <2>1. MaxWord + 1 <= n
    BY <1>1, <1>4, <1>6
  <2> QED BY <1>3, <1>4, <1>6, <2>1 DEF Wrap
<1> QED BY <1>5, <1>6

\* Whatever a cell is, it is read as a length of eight bytes.
LEMMA NumberIs ==
  ASSUME NEW cell, Length(cell), NEW n \in Number(cell)
  PROVE  n \in 0..MaxWord /\ Copied([num |-> n]) /\ Length([num |-> n])
BY DEF Number, Length, Copied

\* Where no sum wraps, and where a sum that does is found out, the lengths
\* that were read add up to the container.
LEMMA LengthsFit ==
  ASSUME NEW n \in Nat, NEW t \in 0..MaxWord, NEW c \in 0..MaxWord, NEW offset,
         offset = Wrap(4 + t), offset < n, offset >= 4,
         Wrap(offset + c + 2) = n, Wrap(offset + 1 + c) >= offset + 1
  PROVE  offset = 4 + t /\ 6 + t + c = n
<1>1. MaxWord \in Nat /\ MaxWord > 4
  BY ContainerAssumption
<1>w. ASSUME NEW m \in 0..(2 * MaxWord + 1), Wrap(m) # m
      PROVE  m > MaxWord /\ Wrap(m) = m - (MaxWord + 1)
  BY <1>1, <1>w, Wrapped
<1>2. PICK i \in Nat : i = 4 + t
  BY <1>1
<1>3. offset = 4 + t /\ offset <= MaxWord
  <2>1. i \in 0..(2 * MaxWord + 1) /\ offset = Wrap(i)
    BY <1>1, <1>2
  <2>2. Wrap(i) = i
    BY <1>1, <1>2, <1>w, <2>1
  <2>3. Wrap(i) = IF i <= MaxWord THEN i ELSE i - (MaxWord + 1)
    BY <2>1, Wrapped
  <2> QED BY <1>1, <1>2, <2>1, <2>2, <2>3
<1>4. PICK j \in Nat : j = offset + 1 + c
  BY <1>1, <1>3
<1>5. j <= MaxWord
  <2>1. j \in 0..(2 * MaxWord + 1) /\ Wrap(j) >= offset + 1
    BY <1>1, <1>3, <1>4
  <2>2. Wrap(j) = IF j <= MaxWord THEN j ELSE j - (MaxWord + 1)
    BY <2>1, Wrapped
  <2> QED BY <1>1, <1>3, <1>4, <2>1, <2>2
<1>6. PICK k \in Nat : k = offset + c + 2
  BY <1>1, <1>3
<1>7. k = n
  <2>1. k \in 0..(2 * MaxWord + 1) /\ Wrap(k) = n
    BY <1>1, <1>3, <1>4, <1>5, <1>6
  <2>2. Wrap(k) = IF k <= MaxWord THEN k ELSE k - (MaxWord + 1)
    BY <2>1, Wrapped
  <2>3. k <= MaxWord + 1
    BY <1>1, <1>3, <1>4, <1>5, <1>6
  <2> QED BY <1>1, <1>3, <1>6, <2>1, <2>2, <2>3
<1> QED BY <1>1, <1>3, <1>6, <1>7

\* The public parts are read, with the two lengths, or refused.
LEMMA ReadOuterStep == ASSUME IInv, ReadOuter PROVE IInv'
<1>1. CASE \E e \in {"Format", "InvalidParameter", "panic"} : Refuse(e)
  <2>1. PICK e \in {"Format", "InvalidParameter", "panic"} : Refuse(e)
    BY <1>1
  <2> QED BY <2>1, RefuseStep DEF Errors
<1>2. CASE ~\E e \in {"Format", "InvalidParameter", "panic"} : Refuse(e)
  <2>1. ~Refuse("Format") /\ ~Refuse("InvalidParameter") /\ ~Refuse("panic")
    BY <1>2
  <2>2. ~(Len(stored) < 4 \/ ~Has(1, "prefix") \/ ~Has(2, "header"))
    BY <2>1 DEF ReadOuter
  <2>3. PICK t \in Number(stored[4]) :
          LET offset == Wrap(4 + t)
          IN  IF offset >= Len(stored) THEN Refuse("Format")
              ELSE IF offset < 4 THEN Refuse("panic")
              ELSE \E c \in Number(stored[offset + 1]) :
                IF ~EndsThere(offset, c) THEN Refuse("Format")
                ELSE IF Wrap(offset + 1 + c) < offset + 1 THEN Refuse("panic")
                ELSE /\ sizes' = [table |-> t, cipher |-> c]
                     /\ stored' = [stored EXCEPT ![4] = [num |-> t],
                                                 ![offset + 1] = [num |-> c]]
                     /\ at' = "derive"
                     /\ UNCHANGED <<written, damages, password, inner, output>>
    BY <2>1, <2>2 DEF ReadOuter
  <2> DEFINE offset == Wrap(4 + t)
  <2>4. ~(offset >= Len(stored)) /\ ~(offset < 4)
    BY <2>1, <2>3
  <2>5. PICK c \in Number(stored[offset + 1]) :
          /\ EndsThere(offset, c)
          /\ ~(Wrap(offset + 1 + c) < offset + 1)
          /\ sizes' = [table |-> t, cipher |-> c]
          /\ stored' = [stored EXCEPT ![4] = [num |-> t], ![offset + 1] = [num |-> c]]
          /\ at' = "derive"
          /\ UNCHANGED <<written, damages, password, inner, output>>
    BY <2>1, <2>3, <2>4
  <2>6. IsSeq(stored) /\ \A k \in 1..Len(stored) : Copied(stored[k]) /\ Length(stored[k])
    BY DEF IInv, Cells
  <2>7. Len(stored) \in Nat /\ 4 \in 1..Len(stored) /\ MaxWord \in Nat
    BY <2>2, <2>6, SeqFacts, ContainerAssumption
  <2>8. t \in 0..MaxWord /\ Copied([num |-> t]) /\ Length([num |-> t])
    BY <2>6, <2>7, NumberIs
  <2>o. offset \in Nat
    BY <2>7, <2>8 DEF Wrap
  <2> HIDE DEF offset
  <2>9. offset >= 4 /\ offset < Len(stored) /\ offset + 1 \in 1..Len(stored)
    BY <2>4, <2>7, <2>o
  <2>10. c \in 0..MaxWord /\ Copied([num |-> c]) /\ Length([num |-> c])
    BY <2>5, <2>6, <2>9, NumberIs
  <2>11. offset = 4 + t /\ 6 + t + c = Len(stored)
    <3>1. Wrap(offset + c + 2) = Len(stored)
      BY <2>5 DEF EndsThere
    <3>2. Wrap(offset + 1 + c) >= offset + 1
      <4>1. offset + 1 + c \in Nat
        BY <2>o, <2>10
      <4>2. Wrap(offset + 1 + c) \in Nat
        BY <4>1, <2>7 DEF Wrap
      <4> QED BY <4>2, <2>5, <2>o
    <3> QED BY <3>1, <3>2, <2>7, <2>8, <2>9, <2>10, LengthsFit DEF offset
  <2> DEFINE one == [stored EXCEPT ![4] = [num |-> t]]
  <2>12. /\ IsSeq(one) /\ Len(one) = Len(stored)
         /\ \A k \in 1..Len(one) : Copied(one[k]) /\ Length(one[k])
    BY <2>6, <2>7, <2>8, CellReplaced
  <2>13. stored' = [one EXCEPT ![offset + 1] = [num |-> c]]
    BY <2>5
  <2> HIDE DEF one
  <2>14. /\ IsSeq(stored') /\ Len(stored') = Len(stored)
         /\ \A k \in 1..Len(stored') : Copied(stored'[k]) /\ Length(stored'[k])
    BY <2>9, <2>10, <2>12, <2>13, CellReplaced
  <2>15. TypeOK'
    BY <2>5, <2>8, <2>10, <2>11, <2>14 DEF IInv, TypeOK
  <2>16. AllMade'
    BY <2>5 DEF IInv, AllMade, Made
  <2>17. Cells'
    BY <2>5, <2>14 DEF Cells, Copied, Length
  <2>18. Read' /\ Returned'
    BY <2>5 DEF Read, Returned
  <2> QED BY <2>15, <2>16, <2>17, <2>18 DEF IInv
<1> QED BY <1>1, <1>2

\* The tag is verified, the table is parsed, the segments are decrypted and
\* the synthetic IV is compared.
LEMMA VerdictSteps ==
  ASSUME IInv, DeriveRootKey \/ VerifyTag \/ ParseTable \/ VerifySiv
  PROVE  IInv'
<1>1. at \in {"derive", "verify", "table", "siv"} =>
        6 + sizes.table + sizes.cipher = Len(stored)
  BY DEF IInv, TypeOK
<1>2. at \in {"table", "siv"} => Has(3, "siv")
  BY DEF IInv, Read
<1>3. CASE DeriveRootKey
  <2>1. PICK e \in {"InvalidParameter", "verify"} : Refuse(e)
    BY <1>3 DEF DeriveRootKey
  <2>2. at = "derive"
    BY <1>3 DEF DeriveRootKey
  <2> QED BY <1>1, <2>1, <2>2, RefuseStep DEF Errors
<1>4. CASE VerifyTag
  <2>1. PICK e \in {"table", "Authentication"} : Refuse(e) /\ (e = "table" => Has(3, "siv"))
    BY <1>4 DEF VerifyTag, TagMatches
  <2>2. at = "verify"
    BY <1>4 DEF VerifyTag
  <2> QED BY <1>1, <2>1, <2>2, RefuseStep DEF Errors
<1>5. CASE ParseTable
  <2>1. PICK e \in {"segments", "Format"} : Refuse(e)
    BY <1>5 DEF ParseTable
  <2>2. at = "table"
    BY <1>5 DEF ParseTable
  <2> QED BY <1>1, <1>2, <2>1, <2>2, RefuseStep DEF Errors
<1>6. CASE VerifySiv
  <2>1. PICK e \in {"inner", "Authentication"} :
          Refuse(e) /\ (e = "inner" => stored[3].siv = Siv(root, header, inner))
    BY <1>6 DEF VerifySiv
  <2>2. at = "siv"
    BY <1>6 DEF VerifySiv
  <2> QED BY <1>1, <1>2, <2>1, <2>2, RefuseStep DEF Errors
<1> QED BY <1>3, <1>4, <1>5, <1>6

\* The segments give inner data, or one of them refuses.
LEMMA DecryptStep == ASSUME IInv, DecryptSegments PROVE IInv'
<1>1. at = "segments"
  BY DEF DecryptSegments
<1>2. 6 + sizes.table + sizes.cipher = Len(stored) /\ Has(3, "siv")
  BY <1>1 DEF IInv, TypeOK, Read
<1>3. CASE Refuse("Authentication")
  BY <1>3, RefuseStep DEF Errors
<1>4. CASE at' = "siv" /\ UNCHANGED <<written, stored, damages, password, sizes, output>>
  <2>1. TypeOK'
    BY <1>2, <1>4 DEF IInv, TypeOK
  <2>2. AllMade' /\ Cells'
    BY <1>4 DEF IInv, AllMade, Made, Cells, Copied, Length
  <2>3. Read' /\ Returned'
    BY <1>2, <1>4 DEF Read, Returned, Has
  <2> QED BY <2>1, <2>2, <2>3 DEF IInv
<1> QED BY <1>3, <1>4 DEF DecryptSegments

\* What inner data is, of which the synthetic IV is in the container.
LEMMA InnerKnown ==
  ASSUME IInv, at \in {"inner", "done"}
  PROVE  \E w \in written : /\ Made(w)
                            /\ w.inner = inner /\ w.password = password
                            /\ HeaderOf(w) = header /\ SivOf(w) = stored[3].siv
<1>1. Has(3, "siv") /\ stored[3].siv = Siv(root, header, inner)
  BY DEF IInv, Read
<1>2. 3 \in 1..Len(stored)
  <2>1. Len(stored) \in Nat
    BY SeqFacts DEF IInv, Cells
  <2> QED BY <1>1, <2>1 DEF Has
<1>3. PICK w \in written : stored[3] = [siv |-> SivOf(w)]
  BY <1>1, <1>2 DEF IInv, Cells, Copied, Has
<1>4. Made(w)
  BY DEF IInv, AllMade
<1>5. SivOf(w) = Siv(Root(w.password, HeaderOf(w)), HeaderOf(w), w.inner)
  BY <1>4, MadeParts
<1>6. stored[3].siv = SivOf(w)
  BY <1>3
<1>7. /\ Root(w.password, HeaderOf(w)) = root
      /\ HeaderOf(w) = header /\ w.inner = inner
  <2>1. Siv(Root(w.password, HeaderOf(w)), HeaderOf(w), w.inner) = Siv(root, header, inner)
    BY <1>1, <1>5, <1>6
  <2>2. ASSUME NEW a, NEW b, NEW c, NEW d, NEW e, NEW f, Siv(a, b, c) = Siv(d, e, f)
        PROVE  a = d /\ b = e /\ c = f
    BY <2>2 DEF Siv
  <2> QED BY <2>1, <2>2
<1>8. w.password = password
  <2>1. ASSUME NEW a, NEW b, NEW c, NEW d, Root(a, b) = Root(c, d) PROVE a = c
    BY <2>1 DEF Root
  <2> QED BY <1>7, <2>1 DEF root
<1> QED BY <1>4, <1>6, <1>7, <1>8

\* The payload is taken out of the inner data, whose length and hash it has.
LEMMA UnpackStep == ASSUME IInv, UnpackInner PROVE IInv'
<1>1. at = "inner"
  BY DEF UnpackInner
<1>2. CASE Refuse("Authentication")
  BY <1>2, RefuseStep DEF Errors
<1>3. CASE ~Refuse("Authentication")
  <2>1. /\ output' = SubSeq(inner, 2, inner[1].length + 1) /\ at' = "done"
        /\ UNCHANGED <<written, stored, damages, password, sizes, inner>>
    BY <1>3 DEF UnpackInner
  <2>2. PICK w \in written : Made(w) /\ w.inner = inner
    BY <1>1, InnerKnown
  <2>3. /\ SubSeq(inner, 2, inner[1].length + 1) = Bytes(w.payload)
        /\ Len(Bytes(w.payload)) < Len(inner)
    BY <2>2, MadeParts
  <2>4. Len(output') < Len(inner')
    BY <2>1, <2>3
  <2>5. TypeOK'
    BY <1>1, <2>1, <2>4 DEF IInv, TypeOK
  <2>6. AllMade' /\ Cells'
    BY <2>1 DEF IInv, AllMade, Made, Cells, Copied, Length
  <2>7. Read'
    <3>1. Has(3, "siv") /\ stored[3].siv = Siv(root, header, inner)
      BY <1>1 DEF IInv, Read
    <3> QED BY <2>1, <3>1 DEF Read, Has, Siv, root, header, Root
  <2>8. Returned'
    BY <2>1, <2>4 DEF Returned
  <2> QED BY <2>5, <2>6, <2>7, <2>8 DEF IInv
<1> QED BY <1>2, <1>3

\* No step breaks the invariant.
LEMMA NextInv == ASSUME IInv, [Next]_vars PROVE IInv'
<1>1. CASE Next
  BY <1>1, EncryptStep, StoreStep, RangeStep, SpoilStep, ResealStep, ReadOuterStep,
     VerdictSteps, DecryptStep, UnpackStep DEF Next
<1>2. CASE UNCHANGED vars
  BY <1>2 DEF vars, IInv, TypeOK, AllMade, Made, Cells, Copied, Length, Read, Returned,
              Has, Siv, root, header, Root
<1> QED BY <1>1, <1>2

-----------------------------------------------------------------------------
(* The verdict on a container that is as it was written.                   *)

\* A container that is as it was written, at the step that decrypt_v5 takes.
Facing(w, n, S) == w \in written /\ w.container = stored /\ Opens(w, n, S)

\* The parts that decrypt_v5 reads are those written.
LEMMA Faced ==
  ASSUME NEW w, NEW n, NEW S, Facing(w, n, S)
  PROVE  /\ n \in Nat \ {0} /\ 2 * n + 6 <= MaxWord /\ Len(stored) = 2 * n + 6
         /\ stored[1] = [prefix |-> 5] /\ stored[2] = [header |-> HeaderOf(w)]
         /\ stored[3] = [siv |-> SivOf(w)]
         /\ stored[4] = [num |-> n] /\ stored[n + 5] = [num |-> n]
         /\ stored[2 * n + 6] =
              [tag |-> Tag(RootOf(w), HeaderOf(w), SivOf(w), TableOf(w), w.cipher)]
         /\ header = HeaderOf(w) /\ stored[3].siv = SivOf(w)
         /\ root = RootOf(w) <=> password = w.password
         /\ Len(w.cipher) = n
         /\ sizes = [table |-> n, cipher |-> n] => table = TableOf(w) /\ cipher = w.cipher
<1>1. /\ n \in Nat \ {0} /\ 2 * n + 6 <= MaxWord
      /\ Laid(stored, RootOf(w), HeaderOf(w), SivOf(w), TableOf(w), w.cipher, n)
      /\ Len(w.cipher) = n
  BY DEF Facing, Opens, InSegments
<1>2. header = HeaderOf(w) /\ stored[3].siv = SivOf(w)
  BY <1>1 DEF Laid, header
<1>3. root = RootOf(w) <=> password = w.password
  <2>1. root = Root(password, HeaderOf(w)) /\ RootOf(w) = Root(w.password, HeaderOf(w))
    BY <1>2 DEF root, RootOf
  <2>2. ASSUME NEW a, NEW b, NEW c, NEW d, Root(a, b) = Root(c, d) PROVE a = c
    BY <2>2 DEF Root
  <2> QED BY <2>1, <2>2
<1>4. ASSUME sizes = [table |-> n, cipher |-> n]
      PROVE  table = TableOf(w) /\ cipher = w.cipher
  <2>1. sizes.table = n /\ sizes.cipher = n
    BY <1>4
  <2>2. table = SubSeq(stored, 5, 4 + n) /\ cipher = SubSeq(stored, 6 + n, 5 + n + n)
    BY <2>1 DEF table, cipher
  <2>3. 4 + n = n + 4 /\ 6 + n = n + 6 /\ 5 + n + n = 2 * n + 5
    BY <1>1
  <2> QED BY <1>1, <2>2, <2>3 DEF Laid
<1> QED BY <1>1, <1>2, <1>3, <1>4 DEF Laid

\* Everything written can be read back.
LEMMA Faces ==
  ASSUME IInv, NEW w \in written, w.container = stored
  PROVE  \E n, S : Facing(w, n, S)
<1>1. Made(w)
  BY DEF IInv, AllMade
<1> QED BY <1>1, MadeOpens DEF Facing

\* The lengths are those written, none is too large to add up, and the public
\* parts are in bounds: nothing is refused.
LEMMA ReadsOuter ==
  ASSUME IInv, ReadOuter, NEW w, NEW n, NEW S, Facing(w, n, S)
  PROVE  at' = "derive"
<1>1. /\ n \in Nat \ {0} /\ 2 * n + 6 <= MaxWord /\ Len(stored) = 2 * n + 6
      /\ stored[1] = [prefix |-> 5] /\ stored[2] = [header |-> HeaderOf(w)]
      /\ stored[4] = [num |-> n] /\ stored[n + 5] = [num |-> n]
  BY Faced
<1>2. HeaderOf(w).reserved = 0 /\ HeaderOf(w).policy \in {0, 1}
  BY DEF Facing, Opens, HeaderIs
<1>3. ~(Len(stored) < 4 \/ ~Has(1, "prefix") \/ ~Has(2, "header"))
  <2>1. Has(1, "prefix") /\ Has(2, "header")
    <3>1. 1 <= Len(stored) /\ 2 <= Len(stored)
      BY <1>1
    <3> QED BY <1>1, <3>1 DEF Has
  <2>2. ~(Len(stored) < 4)
    BY <1>1
  <2> QED BY <2>1, <2>2
<1>4. stored[2].header.reserved = 0 /\ ~(stored[2].header.policy > 1)
  BY <1>1, <1>2
<1>5. Number(stored[4]) = {n} /\ Number(stored[n + 5]) = {n}
  BY <1>1 DEF Number
<1>6. PICK t \in Number(stored[4]) :
        LET offset == Wrap(4 + t)
        IN  IF offset >= Len(stored) THEN Refuse("Format")
            ELSE IF offset < 4 THEN Refuse("panic")
            ELSE \E c \in Number(stored[offset + 1]) :
              IF ~EndsThere(offset, c) THEN Refuse("Format")
              ELSE IF Wrap(offset + 1 + c) < offset + 1 THEN Refuse("panic")
              ELSE /\ sizes' = [table |-> t, cipher |-> c]
                   /\ stored' = [stored EXCEPT ![4] = [num |-> t],
                                               ![offset + 1] = [num |-> c]]
                   /\ at' = "derive"
                   /\ UNCHANGED <<written, damages, password, inner, output>>
  BY <1>3, <1>4 DEF ReadOuter
<1>7. t = n
  BY <1>5, <1>6
<1>w. MaxWord \in Nat
  BY ContainerAssumption
<1>8. \A m \in 0..MaxWord : Wrap(m) = m
  <2>1. ASSUME NEW m \in 0..MaxWord PROVE Wrap(m) = m
    <3>1. m \in 0..(2 * MaxWord + 1) /\ m <= MaxWord
      BY <1>w
    <3> QED BY <3>1, Wrapped
  <2> QED BY <2>1
<1>9. PICK offset \in 0..MaxWord : offset = 4 + n
  BY <1>1, <1>w
<1>10. Wrap(4 + t) = offset /\ offset + 1 = n + 5
  <2>1. 4 + t = offset /\ offset + 1 = n + 5
    BY <1>1, <1>7, <1>9
  <2>2. Wrap(offset) = offset
    BY <1>8
  <2> QED BY <2>1, <2>2
<1>11. ~(offset >= Len(stored)) /\ ~(offset < 4)
  BY <1>1, <1>9
<1>12. PICK c \in Number(stored[offset + 1]) :
         IF ~EndsThere(offset, c) THEN Refuse("Format")
         ELSE IF Wrap(offset + 1 + c) < offset + 1 THEN Refuse("panic")
         ELSE at' = "derive"
  BY <1>6, <1>10, <1>11
<1>13. c = n
  BY <1>5, <1>10, <1>12
<1>14. EndsThere(offset, c)
  <2>1. PICK m \in 0..MaxWord : m = offset + c + 2 /\ m = 2 * n + 6
    BY <1>1, <1>9, <1>13, <1>w
  <2> QED BY <1>1, <1>8, <2>1 DEF EndsThere
<1>15. ~(Wrap(offset + 1 + c) < offset + 1)
  <2>1. PICK m \in 0..MaxWord : m = offset + 1 + c /\ ~(m < offset + 1)
    BY <1>1, <1>9, <1>13, <1>w
  <2> QED BY <1>8, <2>1
<1> QED BY <1>12, <1>14, <1>15

\* What ReadOuter can do.
LEMMA ReadOuterDoes ==
  ASSUME IInv, ReadOuter
  PROVE  /\ UNCHANGED <<written, damages, password, inner, output>>
         /\ \/ at' \in {"Format", "InvalidParameter", "panic"} /\ UNCHANGED stored
            \/ /\ at' = "derive"
               /\ 4 <= Len(stored) /\ Has(1, "prefix") /\ Has(2, "header")
               /\ \E t \in Nat : \E c :
                    /\ sizes' = [table |-> t, cipher |-> c]
                    /\ stored' = [stored EXCEPT ![4] = [num |-> t], ![5 + t] = [num |-> c]]
<1>1. CASE \E e \in {"Format", "InvalidParameter", "panic"} : Refuse(e)
  BY <1>1 DEF Refuse
<1>2. CASE ~\E e \in {"Format", "InvalidParameter", "panic"} : Refuse(e)
  <2>1. ~Refuse("Format") /\ ~Refuse("InvalidParameter") /\ ~Refuse("panic")
    BY <1>2
  <2>2. ~(Len(stored) < 4 \/ ~Has(1, "prefix") \/ ~Has(2, "header"))
    BY <2>1 DEF ReadOuter
  <2>3. PICK t \in Number(stored[4]) :
          LET offset == Wrap(4 + t)
          IN  IF offset >= Len(stored) THEN Refuse("Format")
              ELSE IF offset < 4 THEN Refuse("panic")
              ELSE \E c \in Number(stored[offset + 1]) :
                IF ~EndsThere(offset, c) THEN Refuse("Format")
                ELSE IF Wrap(offset + 1 + c) < offset + 1 THEN Refuse("panic")
                ELSE /\ sizes' = [table |-> t, cipher |-> c]
                     /\ stored' = [stored EXCEPT ![4] = [num |-> t],
                                                 ![offset + 1] = [num |-> c]]
                     /\ at' = "derive"
                     /\ UNCHANGED <<written, damages, password, inner, output>>
    BY <2>1, <2>2 DEF ReadOuter
  <2>4. PICK offset : offset = Wrap(4 + t)
    OBVIOUS
  <2>5. ~(offset >= Len(stored)) /\ ~(offset < 4)
    BY <2>1, <2>3, <2>4
  <2>6. PICK c :
          /\ sizes' = [table |-> t, cipher |-> c]
          /\ stored' = [stored EXCEPT ![4] = [num |-> t], ![offset + 1] = [num |-> c]]
          /\ at' = "derive"
          /\ UNCHANGED <<written, damages, password, inner, output>>
    BY <2>1, <2>3, <2>4, <2>5
  <2>7. Len(stored) \in Nat /\ 4 <= Len(stored) /\ MaxWord \in Nat
    BY <2>2, SeqFacts, ContainerAssumption DEF IInv, Cells
  <2>8. t \in 0..MaxWord
    <3>1. Length(stored[4])
      BY <2>7 DEF IInv, Cells
    <3> QED BY <3>1, NumberIs
  <2>9. offset = 4 + t
    <3>0. MaxWord > 4
      BY ContainerAssumption
    <3>1. PICK i \in 0..(2 * MaxWord + 1) : i = 4 + t
      BY <2>7, <2>8, <3>0
    <3>2. Wrap(i) = IF i <= MaxWord THEN i ELSE i - (MaxWord + 1)
      BY Wrapped
    <3>3. CASE i <= MaxWord
      BY <2>4, <3>1, <3>2, <3>3
    <3>4. CASE ~(i <= MaxWord)
      <4>1. offset = i - (MaxWord + 1)
        BY <2>4, <3>1, <3>2, <3>4
      <4>2. offset < 4
        BY <2>7, <2>8, <3>0, <3>1, <4>1
      <4> QED BY <2>5, <4>2
    <3> QED BY <3>3, <3>4
  <2>10. t \in Nat /\ offset + 1 = 5 + t
    BY <2>7, <2>8, <2>9
  <2>11. Has(1, "prefix") /\ Has(2, "header")
    BY <2>2
  <2> QED BY <2>6, <2>7, <2>10, <2>11
<1> QED BY <1>1, <1>2

\* The verdict after a step that leaves the container alone.
LEMMA VerdictKept ==
  ASSUME IInv, VInv, UNCHANGED <<written, stored, password>>,
         at # "writing", at' # "writing",
         at' \in {"verify", "table", "segments", "siv", "inner", "done"} => password # Empty,
         \A w, n, S : Facing(w, n, S) /\ Verdict(w) => Verdict(w)'
  PROVE  VInv'
<1>1. ASSUME NEW w \in written', w.container = stored'
      PROVE  Verdict(w)'
  <2>1. w \in written /\ w.container = stored
    BY <1>1
  <2>2. PICK n, S : Facing(w, n, S)
    BY <2>1, Faces
  <2>3. Verdict(w)
    BY <2>1 DEF VInv
  <2> QED BY <2>2, <2>3
<1> QED BY <1>1 DEF VInv

\* The lengths are read.
LEMMA VerdictRead == ASSUME IInv, IInv', VInv, ReadOuter PROVE VInv'
<1>1. at = "stored"
  BY DEF ReadOuter
<1>2. /\ UNCHANGED <<written, damages, password, inner, output>>
      /\ \/ at' \in {"Format", "InvalidParameter", "panic"} /\ UNCHANGED stored
         \/ /\ at' = "derive"
            /\ 4 <= Len(stored)
            /\ \E t \in Nat : \E c :
                 /\ sizes' = [table |-> t, cipher |-> c]
                 /\ stored' = [stored EXCEPT ![4] = [num |-> t], ![5 + t] = [num |-> c]]
  BY ReadOuterDoes
<1>3. CASE at' \in {"Format", "InvalidParameter", "panic"} /\ UNCHANGED stored
  <2>1. ASSUME NEW w \in written, w.container = stored PROVE FALSE
    <3>1. PICK n, S : Facing(w, n, S)
      BY <2>1, Faces
    <3> QED BY <1>3, <3>1, ReadsOuter
  <2> QED BY <1>2, <1>3, <2>1 DEF VInv
<1>4. CASE /\ at' = "derive"
           /\ 4 <= Len(stored)
           /\ \E t \in Nat : \E c :
                /\ sizes' = [table |-> t, cipher |-> c]
                /\ stored' = [stored EXCEPT ![4] = [num |-> t], ![5 + t] = [num |-> c]]
  <2>0. PICK t \in Nat : \E c :
          /\ sizes' = [table |-> t, cipher |-> c]
          /\ stored' = [stored EXCEPT ![4] = [num |-> t], ![5 + t] = [num |-> c]]
    BY <1>4
  <2>1. PICK c : /\ sizes' = [table |-> t, cipher |-> c]
                 /\ stored' = [stored EXCEPT ![4] = [num |-> t], ![5 + t] = [num |-> c]]
    BY <2>0
  <2>2. 4 \in DOMAIN stored
    BY <1>4, SeqFacts DEF IInv, Cells
  <2>3. stored'[4] = [num |-> t]
    BY <2>1, <2>2
  <2>4. 6 + sizes'.table + sizes'.cipher = Len(stored') /\ sizes'.table \in Nat /\ sizes'.cipher \in Nat
    BY <1>4, ContainerAssumption DEF IInv, TypeOK
  <2>5. 6 + t + c = Len(stored') /\ t \in Nat /\ c \in Nat
    BY <2>1, <2>4
  <2>6. ASSUME NEW w \in written, w.container = stored' PROVE Verdict(w)'
    <3>1. Made(w)
      BY DEF IInv, AllMade
    <3>2. PICK n, S : Opens(w, n, S)
      BY <3>1, MadeOpens
    <3>3. n \in Nat /\ Len(w.cipher) = n /\ stored'[4] = [num |-> n] /\ Len(stored') = 2 * n + 6
      BY <2>6, <3>2 DEF Opens, InSegments, Laid
    <3>4. t = n
      BY <2>3, <3>3
    <3>5. c = n
      BY <2>5, <3>3, <3>4
    <3> QED BY <1>4, <2>1, <3>3, <3>4, <3>5 DEF Verdict, Errors
  <2> QED BY <1>2, <1>4, <2>6 DEF VInv
<1> QED BY <1>2, <1>3, <1>4

\* The key is derived, unless the password is empty.
LEMMA VerdictDerive == ASSUME IInv, VInv, DeriveRootKey PROVE VInv'
<1>1. at = "derive" /\ UNCHANGED <<written, stored, damages, password, sizes, inner, output>>
      /\ at' = IF password = Empty \/ ~Sound(header.kdf) THEN "InvalidParameter" ELSE "verify"
  BY DEF DeriveRootKey, Refuse
<1>2. ASSUME NEW w, NEW n, NEW S, Facing(w, n, S), Verdict(w) PROVE Verdict(w)'
  <2>1. header = HeaderOf(w)
    BY <1>2, Faced
  <2>2. Sound(header.kdf) /\ w.password # Empty
    BY <1>2, <2>1 DEF Facing, Opens, HeaderIs
  <2>3. CASE password = Empty
    BY <1>1, <1>2, <2>2, <2>3 DEF Verdict, Errors, Stages
  <2>4. CASE password # Empty
    BY <1>1, <1>2, <2>2, <2>4 DEF Verdict, Errors, Stages
  <2> QED BY <2>3, <2>4
<1> QED BY <1>1, <1>2, VerdictKept

\* The tag is that of the password that encrypted.
LEMMA VerdictTag == ASSUME IInv, VInv, VerifyTag PROVE VInv'
<1>1. at = "verify" /\ UNCHANGED <<written, stored, damages, password, sizes, inner, output>>
      /\ at' = IF TagMatches THEN "table" ELSE "Authentication"
  BY DEF VerifyTag, Refuse
<1>2. password # Empty
  BY <1>1 DEF VInv
<1>3. ASSUME NEW w, NEW n, NEW S, Facing(w, n, S), Verdict(w) PROVE Verdict(w)'
  <2>1. Len(w.cipher) = n /\ sizes = [table |-> n, cipher |-> n]
    <3>1. Len(w.cipher) = n
      BY <1>3, Faced
    <3>2. sizes = [table |-> Len(w.cipher), cipher |-> Len(w.cipher)]
      BY <1>1, <1>3 DEF Verdict, Stages
    <3> QED BY <3>1, <3>2
  <2>2. /\ n \in Nat \ {0} /\ Len(stored) = 2 * n + 6
        /\ stored[3] = [siv |-> SivOf(w)] /\ stored[3].siv = SivOf(w)
        /\ stored[2 * n + 6] =
             [tag |-> Tag(RootOf(w), HeaderOf(w), SivOf(w), TableOf(w), w.cipher)]
        /\ header = HeaderOf(w) /\ table = TableOf(w) /\ cipher = w.cipher
        /\ root = RootOf(w) <=> password = w.password
    BY <1>3, <2>1, Faced
  <2>3. Has(3, "siv") /\ Has(Len(stored), "tag")
    <3>1. 3 <= Len(stored) /\ Len(stored) <= Len(stored)
      BY <2>2
    <3>2. "siv" \in DOMAIN stored[3] /\ "tag" \in DOMAIN stored[Len(stored)]
      BY <2>2
    <3> QED BY <3>1, <3>2 DEF Has
  <2>4. TagMatches <=> password = w.password
    <3>1. TagMatches <=> Tag(RootOf(w), HeaderOf(w), SivOf(w), TableOf(w), w.cipher)
                           = Tag(root, HeaderOf(w), SivOf(w), TableOf(w), w.cipher)
      BY <2>2, <2>3 DEF TagMatches
    <3>2. ASSUME NEW a, NEW b, NEW c, NEW d, NEW e, NEW f, Tag(a, c, d, e, f) = Tag(b, c, d, e, f)
          PROVE  a = b
      BY <3>2 DEF Tag
    <3> QED BY <2>2, <3>1, <3>2
  <2>5. CASE password = w.password
    BY <1>1, <1>3, <2>4, <2>5 DEF Verdict, Errors, Stages
  <2>6. CASE password # w.password
    BY <1>1, <1>2, <1>3, <2>4, <2>6 DEF Verdict, Errors, Stages
  <2> QED BY <2>5, <2>6
<1> QED BY <1>1, <1>2, <1>3, VerdictKept

\* A segment's entry begins where the one before it ends.
LEMMA EntriesTile ==
  ASSUME NEW w, NEW n, NEW S, InSegments(w, n, S)
  PROVE  /\ n \in Nat \ {0} /\ Len(TableOf(w)) = n /\ Len(w.cipher) = n
         /\ TableOf(w) # << >>
         /\ \A k \in 1..n :
              /\ DOMAIN TableOf(w)[k] = {"entry"}
              /\ TableOf(w)[k].entry.index = k - 1
              /\ TableOf(w)[k].entry.cipherOffset = k - 1
              /\ TableOf(w)[k].entry.cipherLength = 1
              /\ TableOf(w)[k].entry.plainOffset = (k - 1) * S
              /\ TableOf(w)[k].entry.plainLength = Len(w.cipher[k].plain)
         /\ \A k \in 2..n :
              (k - 1) * S = (k - 2) * S + Len(w.cipher[k - 1].plain)
<1>1. /\ n \in Nat \ {0} /\ Len(TableOf(w)) = n /\ Len(w.cipher) = n /\ S \in Nat \ {0}
      /\ IsSeq(TableOf(w))
      /\ \A k \in 1..n : SegmentIs(w, n, S, k)
  BY DEF InSegments
<1>2. TableOf(w) # << >>
  BY <1>1
<1>3. ASSUME NEW k \in 1..n
      PROVE  /\ DOMAIN TableOf(w)[k] = {"entry"}
             /\ TableOf(w)[k].entry.index = k - 1
             /\ TableOf(w)[k].entry.cipherOffset = k - 1
             /\ TableOf(w)[k].entry.cipherLength = 1
             /\ TableOf(w)[k].entry.plainOffset = (k - 1) * S
             /\ TableOf(w)[k].entry.plainLength = Len(w.cipher[k].plain)
  <2>1. TableOf(w)[k] = [entry |-> [index |-> k - 1, plainOffset |-> (k - 1) * S,
                                    plainLength |-> Len(w.cipher[k].plain),
                                    cipherOffset |-> k - 1, cipherLength |-> 1]]
    BY <1>1 DEF SegmentIs
  <2> QED BY <2>1
<1>4. ASSUME NEW k \in 2..n
      PROVE  (k - 1) * S = (k - 2) * S + Len(w.cipher[k - 1].plain)
  <2>1. PICK j \in Nat : j = k - 2
    BY <1>1
  <2>2. k - 1 = j + 1 /\ k - 1 \in 1..n /\ (k - 1) - 1 # n - 1
    BY <1>1, <2>1
  <2>3. Len(w.cipher[k - 1].plain) = S
    BY <1>1, <2>2 DEF SegmentIs, PartIs
  <2>4. (j + 1) * S = j * S + S
    BY <1>1
  <2> QED BY <2>1, <2>2, <2>3, <2>4
<1> QED BY <1>1, <1>2, <1>3, <1>4

\* The table that was written is accepted.
LEMMA VerdictTable == ASSUME IInv, VInv, ParseTable PROVE VInv'
<1>1. at = "table" /\ UNCHANGED <<written, stored, damages, password, sizes, inner, output>>
      /\ at' = IF TableAccepted THEN "segments" ELSE "Format"
  BY DEF ParseTable, Refuse
<1>2. password # Empty
  BY <1>1 DEF VInv
<1>3. ASSUME NEW w, NEW n, NEW S, Facing(w, n, S), Verdict(w) PROVE Verdict(w)'
  <2>1. Len(w.cipher) = n /\ sizes = [table |-> n, cipher |-> n]
    <3>1. Len(w.cipher) = n
      BY <1>3, Faced
    <3>2. sizes = [table |-> Len(w.cipher), cipher |-> Len(w.cipher)]
      BY <1>1, <1>3 DEF Verdict, Stages
    <3> QED BY <3>1, <3>2
  <2>2. table = TableOf(w) /\ cipher = w.cipher
    BY <1>3, <2>1, Faced
  <2>3. /\ n \in Nat \ {0} /\ Len(table) = n /\ Len(cipher) = n
        /\ table # << >>
        /\ \A k \in 1..n :
             /\ DOMAIN table[k] = {"entry"}
             /\ table[k].entry.index = k - 1
             /\ table[k].entry.cipherOffset = k - 1
             /\ table[k].entry.cipherLength = 1
             /\ table[k].entry.plainOffset = (k - 1) * S
             /\ table[k].entry.plainLength = Len(w.cipher[k].plain)
        /\ \A k \in 2..n : (k - 1) * S = (k - 2) * S + Len(w.cipher[k - 1].plain)
    BY <1>3, <2>2, EntriesTile DEF Facing, Opens
  <2>s. S \in Nat
    BY <1>3 DEF Facing, Opens, InSegments
  <2>4. ASSUME NEW k \in 1..n
        PROVE  table[k].entry.plainOffset = IF k = 1 THEN 0
                 ELSE table[k - 1].entry.plainOffset + table[k - 1].entry.plainLength
    <3>1. CASE k = 1
      <4>1. (1 - 1) * S = 0
        BY <2>s
      <4> QED BY <2>3, <3>1, <4>1
    <3>2. CASE k # 1
      <4>1. PICK j \in 1..n : j = k - 1 /\ j - 1 = k - 2 /\ k \in 2..n
        BY <2>3, <3>2
      <4>2. /\ table[j].entry.plainOffset = (k - 2) * S
            /\ table[j].entry.plainLength = Len(w.cipher[j].plain)
        BY <2>3, <4>1
      <4>3. (k - 1) * S = (k - 2) * S + Len(w.cipher[j].plain)
        BY <2>3, <4>1
      <4> QED BY <2>3, <3>2, <4>1, <4>2, <4>3
    <3> QED BY <3>1, <3>2
  <2>5. TableAccepted
    BY <2>3, <2>4 DEF TableAccepted
  <2>6. w.password = password
    BY <1>1, <1>2, <1>3 DEF Verdict
  <2> QED BY <1>1, <1>3, <2>5, <2>6 DEF Verdict, Errors, Stages
<1> QED BY <1>1, <1>2, <1>3, VerdictKept

\* The inner data has the synthetic IV that was made of it.
LEMMA VerdictSiv == ASSUME IInv, VInv, VerifySiv PROVE VInv'
<1>1. at = "siv" /\ UNCHANGED <<written, stored, damages, password, sizes, inner, output>>
      /\ at' = IF stored[3].siv = Siv(root, header, inner) THEN "inner" ELSE "Authentication"
  BY DEF VerifySiv, Refuse
<1>2. password # Empty
  BY <1>1 DEF VInv
<1>3. ASSUME NEW w, NEW n, NEW S, Facing(w, n, S), Verdict(w) PROVE Verdict(w)'
  <2>1. w.password = password
    BY <1>1, <1>2, <1>3 DEF Verdict
  <2>2. inner = w.inner
    BY <1>1, <1>3, <2>1 DEF Verdict
  <2>3. stored[3].siv = SivOf(w) /\ header = HeaderOf(w) /\ root = RootOf(w)
    BY <1>3, <2>1, Faced
  <2>4. stored[3].siv = Siv(root, header, inner)
    BY <1>3, <2>2, <2>3 DEF Facing, Opens
  <2> QED BY <1>1, <1>3, <2>1, <2>2, <2>4 DEF Verdict, Errors, Stages
<1> QED BY <1>1, <1>2, <1>3, VerdictKept

\* The inner data has a payload of the length and with the hash that it says.
LEMMA VerdictUnpack == ASSUME IInv, VInv, UnpackInner PROVE VInv'
<1>1. at = "inner" /\ UNCHANGED <<written, stored, damages, password, sizes, inner>>
      /\ at' \in {"done", "Authentication"}
  BY DEF UnpackInner, Refuse
<1>2. password # Empty
  BY <1>1 DEF VInv
<1>3. ASSUME NEW w, NEW n, NEW S, Facing(w, n, S), Verdict(w) PROVE Verdict(w)'
  <2>1. w.password = password
    BY <1>1, <1>2, <1>3 DEF Verdict
  <2>2. inner = w.inner
    BY <1>1, <1>3, <2>1 DEF Verdict
  <2>3. /\ Len(w.payload) \in Nat
        /\ inner[1] = [length |-> Len(w.payload), hash |-> Bytes(w.payload)]
        /\ 1 + Len(w.payload) <= Len(inner)
        /\ SubSeq(inner, 2, Len(w.payload) + 1) = Bytes(w.payload)
    BY <1>3, <2>2 DEF Facing, Opens, InnerOf
  <2>4. /\ "length" \in DOMAIN inner[1] /\ inner[1].length = Len(w.payload)
        /\ inner[1].hash = Bytes(w.payload)
    BY <2>3
  <2>5. /\ "length" \in DOMAIN inner[1]
        /\ 1 + inner[1].length <= Len(inner)
        /\ inner[1].hash = SubSeq(inner, 2, inner[1].length + 1)
    BY <2>3, <2>4
  <2>6. at' = "done"
    BY <2>5 DEF UnpackInner
  <2> QED BY <1>1, <1>3, <2>1, <2>2, <2>6 DEF Verdict, Errors, Stages
<1> QED BY <1>1, <1>2, <1>3, VerdictKept

\* Every segment is decrypted to what was encrypted.
LEMMA SegmentsOpen ==
  ASSUME NEW w, NEW n, NEW S, Facing(w, n, S), password = w.password,
         sizes = [table |-> n, cipher |-> n], NEW k \in 1..n
  PROVE  Genuine(k) /\ Opened(k) = w.cipher[k].plain
<1>1. cipher = w.cipher /\ header = HeaderOf(w) /\ stored[3].siv = SivOf(w) /\ root = RootOf(w)
  BY Faced
<1>2. SegmentIs(w, n, S, k)
  BY DEF Facing, Opens, InSegments
<1>3. Genuine(k)
  BY <1>1, <1>2 DEF SegmentIs, Genuine
<1> QED BY <1>1, <1>3 DEF Opened

\* A place is in one of the segments.
LEMMA PlaceFound ==
  ASSUME NEW n \in Nat \ {0}, NEW S \in Nat \ {0}, NEW L \in Nat \ {0},
         (n - 1) * S < L, L <= n * S, NEW p \in 1..L
  PROVE  \E k \in 1..n : /\ (k - 1) * S < p
                         /\ p <= (k - 1) * S + (IF k = n THEN L - (n - 1) * S ELSE S)
<1>1. PICK a \in Nat : a = p - 1
  OBVIOUS
<1>2. PICK q \in Nat, r \in 0..S-1 : a = q * S + r
  <2>1. a % S \in 0..S-1 /\ a \div S \in Nat /\ a = (a \div S) * S + (a % S)
    OBVIOUS
  <2> QED BY <2>1
<1>3. PICK b \in Nat : b = q * S
  OBVIOUS
<1>4. b < p /\ p <= b + S
  BY <1>1, <1>2, <1>3
<1>5. q <= n - 1
  <2> SUFFICES ASSUME q >= n PROVE FALSE
    OBVIOUS
  <2>1. PICK d \in Nat : q = n + d
    <3>1. q - n \in Nat /\ q = n + (q - n)
      OBVIOUS
    <3> QED BY <3>1
  <2>2. b = n * S + d * S
    BY <1>3, <2>1
  <2>3. PICK e \in Nat : e = d * S
    OBVIOUS
  <2>4. PICK f \in Nat : f = n * S
    OBVIOUS
  <2>5. b = f + e /\ L <= f
    BY <2>2, <2>3, <2>4
  <2> QED BY ONLY <1>4, <2>5, b \in Nat, e \in Nat, f \in Nat, L \in Nat, p \in 1..L
<1>6. PICK k \in 1..n : k - 1 = q
  <2>1. q + 1 \in 1..n /\ (q + 1) - 1 = q
    BY <1>5
  <2> QED BY <2>1
<1>7. (k - 1) * S = b
  BY <1>3, <1>6
<1>8. p <= (k - 1) * S + (IF k = n THEN L - (n - 1) * S ELSE S)
  <2>1. CASE k = n
    <3>1. (n - 1) * S = b
      BY <1>7, <2>1
    <3>2. p <= b + (L - b)
      OBVIOUS
    <3> QED BY <1>7, <2>1, <3>1, <3>2
  <2>2. CASE k # n
    BY <1>4, <1>7, <2>2
  <2> QED BY <2>1, <2>2
<1>9. (k - 1) * S < p
  BY <1>4, <1>7
<1> QED BY <1>8, <1>9

\* What the segments give one after another is the inner data.
LEMMA JoinedIs ==
  ASSUME NEW w, NEW n, NEW S, Facing(w, n, S), password = w.password,
         sizes = [table |-> n, cipher |-> n]
  PROVE  Joined = w.inner
<1>1. /\ n \in Nat \ {0} /\ S \in Nat \ {0} /\ Len(w.inner) \in Nat \ {0} /\ IsSeq(w.inner)
      /\ (n - 1) * S < Len(w.inner) /\ Len(w.inner) <= n * S
      /\ \A k \in 1..n : SegmentIs(w, n, S, k)
  BY DEF Facing, Opens, InSegments
<1>2. PICK L \in Nat \ {0} : L = Len(w.inner)
  BY <1>1
<1>3. table = TableOf(w)
  BY Faced
<1>4. /\ Len(table) = n
      /\ \A k \in 1..n : /\ table[k].entry.plainOffset = (k - 1) * S
                         /\ table[k].entry.plainLength = Len(w.cipher[k].plain)
  BY <1>3, EntriesTile DEF Facing, Opens
<1>5. ASSUME NEW k \in 1..n
      PROVE  /\ Len(w.cipher[k].plain) = IF k = n THEN L - (n - 1) * S ELSE S
             /\ Len(w.cipher[k].plain) \in Nat
             /\ \A j \in 1..Len(w.cipher[k].plain) :
                  w.cipher[k].plain[j] = w.inner[(k - 1) * S + j]
  <2>1. PartIs(w.inner, n, S, k - 1, w.cipher[k].plain)
    BY <1>1 DEF SegmentIs
  <2>2. k - 1 = n - 1 <=> k = n
    BY <1>1
  <2>3. k = n => L - (k - 1) * S = L - (n - 1) * S
    OBVIOUS
  <2>4. Len(w.cipher[k].plain) = IF k = n THEN L - (n - 1) * S ELSE S
    BY <1>2, <2>1, <2>2, <2>3 DEF PartIs
  <2>5. Len(w.cipher[k].plain) \in Nat
    <3>1. Len(w.cipher[k].plain) \in 1..S
      BY <2>1 DEF PartIs
    <3> QED BY <1>1, <3>1
  <2>6. \A j \in 1..Len(w.cipher[k].plain) :
          w.cipher[k].plain[j] = w.inner[(k - 1) * S + j]
    BY <2>1 DEF PartIs
  <2> QED BY <2>4, <2>5, <2>6
<1>6. table[n].entry.plainOffset + table[n].entry.plainLength = L
  <2>1. PICK a \in Nat : a = (n - 1) * S
    BY <1>1
  <2>2. n \in 1..n
    BY <1>1
  <2>3. table[n].entry.plainOffset = a /\ table[n].entry.plainLength = L - a
    BY <1>4, <1>5, <2>1, <2>2
  <2>4. a + (L - a) = L
    BY <2>1
  <2> QED BY <2>3, <2>4
<1> DEFINE Holds(p, k) == LET e == table[k].entry
                          IN  p \in (e.plainOffset + 1)..(e.plainOffset + e.plainLength)
<1> DEFINE place(p) == CHOOSE k \in 1..n : Holds(p, k)
<1> DEFINE f == [p \in 1..L |-> Opened(place(p))[p - table[place(p)].entry.plainOffset]]
<1>7. Joined = f
  <2>1. Len(table) = n
    BY <1>4
  <2> QED BY <1>6, <2>1 DEF Joined
<1>8. ASSUME NEW p \in 1..L PROVE f[p] = w.inner[p]
  <2>1. \E k \in 1..n : Holds(p, k)
    <3>0. (n - 1) * S < L /\ L <= n * S /\ n \in Nat \ {0} /\ S \in Nat \ {0}
      BY <1>1, <1>2
    <3>1. PICK k \in 1..n :
            /\ (k - 1) * S < p
            /\ p <= (k - 1) * S + (IF k = n THEN L - (n - 1) * S ELSE S)
      BY ONLY <3>0, L \in Nat \ {0}, p \in 1..L, PlaceFound
    <3>2. PICK a \in Nat : a = (k - 1) * S
      BY <1>1
    <3>3. PICK len \in Nat : len = Len(w.cipher[k].plain)
      BY <1>5
    <3>4. a < p /\ p <= a + len
      BY <1>5, <3>1, <3>2, <3>3
    <3>5. table[k].entry.plainOffset = a /\ table[k].entry.plainLength = len
      BY <1>4, <3>2, <3>3
    <3>6. p \in (a + 1)..(a + len)
      BY <3>4
    <3> QED BY <3>5, <3>6
  <2> HIDE DEF Holds
  <2>2. PICK k \in 1..n : k = place(p) /\ Holds(p, k)
    BY <2>1
  <2>3. PICK a \in Nat : a = (k - 1) * S
    BY <1>1
  <2>4. PICK len \in Nat : len = Len(w.cipher[k].plain)
    BY <1>5
  <2>5. table[k].entry.plainOffset = a /\ table[k].entry.plainLength = len
    BY <1>4, <2>3, <2>4
  <2>6. p \in (a + 1)..(a + len)
    BY <2>2, <2>5 DEF Holds
  <2>7. PICK j \in 1..len : j = p - a /\ a + j = p
    <3>1. p - a \in 1..len /\ a + (p - a) = p
      BY <2>6
    <3> QED BY <3>1
  <2>8. w.cipher[k].plain[j] = w.inner[p]
    BY <1>5, <2>3, <2>4, <2>7
  <2>9. Opened(k) = w.cipher[k].plain
    BY SegmentsOpen
  <2>10. f[p] = Opened(k)[p - a]
    <3> HIDE DEF place
    <3>1. f[p] = Opened(place(p))[p - table[place(p)].entry.plainOffset]
      OBVIOUS
    <3> QED BY <2>2, <2>5, <3>1
  <2> QED BY <2>7, <2>8, <2>9, <2>10
<1>9. f = [p \in 1..L |-> f[p]]
  <2> HIDE DEF place
  <2> QED OBVIOUS
<1>10. w.inner = [p \in 1..L |-> w.inner[p]]
  BY <1>1, <1>2, SeqFacts
<1> HIDE DEF f
<1> QED BY <1>7, <1>8, <1>9, <1>10

\* The segments are decrypted, and none refuses.
LEMMA VerdictSegments == ASSUME IInv, VInv, DecryptSegments PROVE VInv'
<1>1. /\ at = "segments" /\ UNCHANGED <<written, stored, damages, password, sizes, output>>
      /\ \/ inner' = Joined /\ at' = "siv"
         \/ /\ at' = "Authentication"
            /\ \E k \in 1..Len(table) :
                 ~Genuine(k) \/ Len(Opened(k)) # table[k].entry.plainLength
  BY DEF DecryptSegments, Refuse
<1>2. password # Empty
  BY <1>1 DEF VInv
<1>3. ASSUME NEW w, NEW n, NEW S, Facing(w, n, S), Verdict(w) PROVE Verdict(w)'
  <2>1. w.password = password
    BY <1>1, <1>2, <1>3 DEF Verdict
  <2>2. Len(w.cipher) = n /\ sizes = [table |-> n, cipher |-> n]
    <3>1. Len(w.cipher) = n
      BY <1>3, Faced
    <3>2. sizes = [table |-> Len(w.cipher), cipher |-> Len(w.cipher)]
      BY <1>1, <1>3 DEF Verdict, Stages
    <3> QED BY <3>1, <3>2
  <2>3. table = TableOf(w)
    BY <1>3, <2>2, Faced
  <2>4. Len(table) = n /\ \A k \in 1..n : table[k].entry.plainLength = Len(w.cipher[k].plain)
    BY <1>3, <2>3, EntriesTile DEF Facing, Opens
  <2>5. \A k \in 1..n : Genuine(k) /\ Opened(k) = w.cipher[k].plain
    BY <1>3, <2>1, <2>2, SegmentsOpen
  <2>6. inner' = Joined /\ at' = "siv"
    BY <1>1, <2>4, <2>5
  <2>7. inner' = w.inner
    BY <1>3, <2>1, <2>2, <2>6, JoinedIs
  <2> QED BY <1>1, <1>3, <2>1, <2>6, <2>7 DEF Verdict, Errors, Stages
<1> QED BY <1>1, <1>2, <1>3, VerdictKept

\* What decrypt_v5 has not begun with.
LEMMA VerdictBefore ==
  ASSUME IInv, VInv,
         Encrypt \/ Store \/ Overwrite \/ Cut \/ Extend \/ SetLength \/ SpoilEntry
           \/ SpoilHeader \/ Reseal
  PROVE  VInv'
<1>1. CASE Encrypt
  <2>1. at = "writing" /\ at' = at /\ stored' = stored
    BY <1>1 DEF Encrypt
  <2>2. stored = << >>
    BY <2>1 DEF VInv
  <2>3. PICK pw \in Passwords \ {Empty}, kdf \in Kdfs, payload \in Payloads,
             policy \in {0, 1}, random \in 0..MaxRandom, size \in Sizes,
             salt \in Salts, nonce \in Nonces :
          Sound(kdf) /\ written' = written \cup
            {EncryptV5(pw, payload, kdf, policy, random, size, salt, nonce)}
    BY <1>1 DEF Encrypt
  <2>4. ASSUME NEW w \in written' PROVE Made(w)
    BY <2>3 DEF IInv, AllMade, Made
  <2>5. ASSUME NEW w \in written', w.container = stored' PROVE FALSE
    <3>1. PICK n, S : Opens(w, n, S)
      BY <2>4, MadeOpens
    <3>2. Len(stored') = 2 * n + 6 /\ n \in Nat
      BY <2>5, <3>1 DEF Opens, InSegments, Laid
    <3> QED BY <2>1, <2>2, <3>2
  <2> QED BY <2>1, <2>2, <2>5 DEF VInv
<1>2. CASE Store \/ Overwrite \/ Cut \/ Extend \/ SetLength \/ SpoilEntry \/ SpoilHeader
             \/ Reseal
  <2>1. at' = "stored"
    BY <1>2 DEF Store, Overwrite, Cut, Extend, SetLength, SpoilEntry, SpoilHeader, Reseal,
                Change
  <2> QED BY <2>1 DEF VInv, Verdict, Errors, Stages
<1> QED BY <1>1, <1>2

-----------------------------------------------------------------------------
(* The container that was written is the one that is read.                 *)

\* An entry that some container may have: encrypt_segments makes no empty
\* segment, and no change makes a length less.
EntryIs(e) ==
  /\ e = [index |-> e.index, plainOffset |-> e.plainOffset, plainLength |-> e.plainLength,
          cipherOffset |-> e.cipherOffset, cipherLength |-> e.cipherLength]
  /\ e.plainOffset \in Nat /\ e.plainLength \in Nat \ {0}

\* What a cell of a stored container is.
KnownOf(ws, cell) ==
  \/ cell = [prefix |-> 5]
  \/ \E h : cell = [header |-> h]
  \/ \E s : cell = [siv |-> s]
  \/ \E n : cell = [num |-> n]
  \/ \E t : cell = [tag |-> t]
  \/ \E e : cell = [entry |-> e] /\ EntryIs(e)
  \/ \E w \in ws : \E k \in DOMAIN w.cipher : cell = w.cipher[k]
Known(cell) == KnownOf(written, cell)

KnownCells == \A i \in 1..Len(stored) : Known(stored[i])

\* The cells of the table and of the ciphertext.
LEMMA LaidCells ==
  ASSUME NEW z, NEW r, NEW h, NEW v, NEW t, NEW c, NEW n \in Nat, Laid(z, r, h, v, t, c, n)
  PROVE  /\ \A k \in 1..n : t[k] = z[4 + k]
         /\ \A k \in 1..n : c[k] = z[n + 5 + k]
<1>1. /\ IsSeq(z) /\ Len(z) = 2 * n + 6
      /\ SubSeq(z, 5, n + 4) = t /\ SubSeq(z, n + 6, 2 * n + 5) = c
  BY DEF Laid
<1>2. ASSUME NEW lo \in Nat \ {0}, NEW hi \in Nat, hi <= Len(z), hi - lo + 1 = n
      PROVE  \A k \in 1..n : SubSeq(z, lo, hi)[k] = z[lo + k - 1]
  <2>1. lo <= hi + 1
    BY <1>2
  <2> QED BY <1>1, <1>2, <2>1, Between
<1>3. \A k \in 1..n : t[k] = z[4 + k]
  <2>1. PICK lo \in Nat \ {0} : lo = 5
    OBVIOUS
  <2>2. PICK hi \in Nat : hi = n + 4
    OBVIOUS
  <2>3. hi <= Len(z) /\ hi - lo + 1 = n /\ \A k \in 1..n : lo + k - 1 = 4 + k
    BY <1>1, <2>1, <2>2
  <2>4. \A k \in 1..n : SubSeq(z, lo, hi)[k] = z[lo + k - 1]
    BY <1>2, <2>3
  <2> QED BY <1>1, <2>1, <2>2, <2>3, <2>4
<1>4. \A k \in 1..n : c[k] = z[n + 5 + k]
  <2>1. PICK lo \in Nat \ {0} : lo = n + 6
    OBVIOUS
  <2>2. PICK hi \in Nat : hi = 2 * n + 5
    OBVIOUS
  <2>3. hi <= Len(z) /\ hi - lo + 1 = n /\ \A k \in 1..n : lo + k - 1 = n + 5 + k
    BY <1>1, <2>1, <2>2
  <2>4. \A k \in 1..n : SubSeq(z, lo, hi)[k] = z[lo + k - 1]
    BY <1>2, <2>3
  <2> QED BY <1>1, <2>1, <2>2, <2>3, <2>4
<1> QED BY <1>3, <1>4

\* The cell at i is the prefix, the header, the synthetic IV, a length or the tag.
FramePlace(w, n, i) ==
  \/ i = 1 /\ w.container[i] = [prefix |-> 5]
  \/ i = 2 /\ w.container[i] = [header |-> HeaderOf(w)]
  \/ i = 3 /\ w.container[i] = [siv |-> SivOf(w)]
  \/ i \in {4, n + 5} /\ w.container[i] = [num |-> n]
  \/ /\ i = 2 * n + 6
     /\ w.container[i] =
          [tag |-> Tag(RootOf(w), HeaderOf(w), SivOf(w), TableOf(w), w.cipher)]

\* It is an entry of the table, or a segment.
TablePlace(w, n, i)  == \E k \in 1..n : i = 4 + k /\ w.container[i] = TableOf(w)[k]
CipherPlace(w, n, i) == \E k \in 1..n : i = n + 5 + k /\ w.container[i] = w.cipher[k]

\* A cell of a container as it was written is one of these.
LEMMA PlacesAre ==
  ASSUME NEW w, NEW n, NEW S, Opens(w, n, S), NEW i \in 1..Len(w.container)
  PROVE  /\ n \in Nat \ {0}
         /\ FramePlace(w, n, i) \/ TablePlace(w, n, i) \/ CipherPlace(w, n, i)
<1>1. PICK z : z = w.container
  OBVIOUS
<1>2. /\ IsSeq(z) /\ Len(z) = 2 * n + 6
      /\ z[1] = [prefix |-> 5] /\ z[2] = [header |-> HeaderOf(w)] /\ z[3] = [siv |-> SivOf(w)]
      /\ z[4] = [num |-> n] /\ z[n + 5] = [num |-> n]
      /\ SubSeq(z, 5, n + 4) = TableOf(w) /\ SubSeq(z, n + 6, 2 * n + 5) = w.cipher
      /\ z[2 * n + 6] =
           [tag |-> Tag(RootOf(w), HeaderOf(w), SivOf(w), TableOf(w), w.cipher)]
  BY <1>1 DEF Opens, Laid
<1>3. n \in Nat \ {0}
  BY DEF Opens, InSegments
<1>4. /\ \A k \in 1..n : TableOf(w)[k] = z[4 + k]
      /\ \A k \in 1..n : w.cipher[k] = z[n + 5 + k]
  <2>1. Laid(z, RootOf(w), HeaderOf(w), SivOf(w), TableOf(w), w.cipher, n)
    BY <1>1 DEF Opens
  <2> QED BY <1>3, <2>1, LaidCells
<1>6. i \in 1..2 * n + 6
  BY <1>1, <1>2
<1>7. \/ i \in {1, 2, 3, 4} \/ i = n + 5 \/ i = 2 * n + 6
      \/ i - 4 \in 1..n
      \/ i - (n + 5) \in 1..n
  BY <1>3, <1>6
<1>8. CASE i \in {1, 2, 3, 4} \/ i = n + 5 \/ i = 2 * n + 6
  BY <1>1, <1>2, <1>3, <1>8 DEF FramePlace
<1>9. CASE i - 4 \in 1..n
  <2>1. PICK k \in 1..n : i = 4 + k
    <3>1. i = 4 + (i - 4)
      BY <1>6
    <3> QED BY <1>9, <3>1
  <2> QED BY <1>1, <1>3, <1>4, <2>1 DEF TablePlace
<1>10. CASE i - (n + 5) \in 1..n
  <2>1. PICK k \in 1..n : i = n + 5 + k
    <3>1. i = n + 5 + (i - (n + 5))
      BY <1>3, <1>6
    <3> QED BY <1>10, <3>1
  <2> QED BY <1>1, <1>3, <1>4, <2>1 DEF CipherPlace
<1> QED BY <1>7, <1>8, <1>9, <1>10

\* All the cells of what was written are known.
LEMMA WrittenKnown ==
  ASSUME IInv, NEW w \in written, NEW i \in 1..Len(w.container)
  PROVE  Known(w.container[i])
<1>1. Made(w)
  BY DEF IInv, AllMade
<1>2. PICK n, S : Opens(w, n, S)
  BY <1>1, MadeOpens
<1>3. /\ n \in Nat \ {0} /\ DOMAIN w.cipher = 1..n /\ S \in Nat \ {0}
      /\ \A k \in 1..n : SegmentIs(w, n, S, k)
  BY <1>2, SeqFacts DEF Opens, InSegments
<1>4. ASSUME NEW k \in 1..n PROVE Known(TableOf(w)[k]) /\ Known(w.cipher[k])
  <2>1. PICK e : e = [index |-> k - 1, plainOffset |-> (k - 1) * S,
                      plainLength |-> Len(w.cipher[k].plain),
                      cipherOffset |-> k - 1, cipherLength |-> 1]
    OBVIOUS
  <2>2. TableOf(w)[k] = [entry |-> e]
    BY <1>3, <2>1 DEF SegmentIs
  <2>3. Len(w.cipher[k].plain) \in Nat \ {0}
    <3>1. Len(w.cipher[k].plain) \in 1..S
      BY <1>3 DEF SegmentIs, PartIs
    <3> QED BY <1>3, <3>1
  <2>4. (k - 1) * S \in Nat
    <3>1. k - 1 \in Nat
      OBVIOUS
    <3> QED BY <1>3, <3>1
  <2>5. EntryIs(e)
    BY <2>1, <2>3, <2>4 DEF EntryIs
  <2> QED BY <1>3, <2>2, <2>5 DEF Known, KnownOf
<1>5. PICK cell : cell = w.container[i]
  OBVIOUS
<1>6. \/ cell = [prefix |-> 5] \/ cell = [header |-> HeaderOf(w)] \/ cell = [siv |-> SivOf(w)]
      \/ cell = [num |-> n]
      \/ cell = [tag |-> Tag(RootOf(w), HeaderOf(w), SivOf(w), TableOf(w), w.cipher)]
      \/ \E k \in 1..n : cell = TableOf(w)[k] \/ cell = w.cipher[k]
  <2>1. FramePlace(w, n, i) \/ TablePlace(w, n, i) \/ CipherPlace(w, n, i)
    BY <1>2, PlacesAre
  <2> QED BY <1>5, <2>1 DEF FramePlace, TablePlace, CipherPlace
<1>7. Known(cell)
  <2>1. CASE \E k \in 1..n : cell = TableOf(w)[k] \/ cell = w.cipher[k]
    BY <1>4, <2>1
  <2>2. CASE ~\E k \in 1..n : cell = TableOf(w)[k] \/ cell = w.cipher[k]
    BY <1>6, <2>2 DEF Known, KnownOf
  <2> QED BY <2>1, <2>2
<1> QED BY <1>5, <1>7

\* A known cell that has a field is of the kind that has it.
LEMMA KindIs ==
  ASSUME IInv, NEW cell, Known(cell)
  PROVE  /\ "prefix" \in DOMAIN cell => cell = [prefix |-> 5]
         /\ "header" \in DOMAIN cell => cell = [header |-> cell.header]
         /\ "siv" \in DOMAIN cell => cell = [siv |-> cell.siv]
         /\ "num" \in DOMAIN cell => cell = [num |-> cell.num]
         /\ "tag" \in DOMAIN cell => cell = [tag |-> cell.tag]
         /\ "entry" \in DOMAIN cell => cell = [entry |-> cell.entry] /\ EntryIs(cell.entry)
         /\ "key" \in DOMAIN cell =>
              \E w \in written : \E k \in DOMAIN w.cipher : cell = w.cipher[k]
<1>1. ASSUME NEW w \in written, NEW k \in DOMAIN w.cipher
      PROVE  DOMAIN w.cipher[k] = {"key", "nonce", "plain"}
  <2>1. PICK n, S : Opens(w, n, S)
    BY MadeOpens DEF IInv, AllMade
  <2>2. k \in 1..n /\ SegmentIs(w, n, S, k)
    BY <2>1, SeqFacts DEF Opens, InSegments
  <2>3. PICK a, b, c : w.cipher[k] = [key |-> a, nonce |-> b, plain |-> c]
    BY <2>2 DEF SegmentIs
  <2> QED BY <2>3
<1>2. CASE cell = [prefix |-> 5]
  BY <1>2
<1>3. CASE \E h : cell = [header |-> h]
  BY <1>3
<1>4. CASE \E s : cell = [siv |-> s]
  BY <1>4
<1>5. CASE \E n : cell = [num |-> n]
  BY <1>5
<1>6. CASE \E t : cell = [tag |-> t]
  BY <1>6
<1>7. CASE \E e : cell = [entry |-> e] /\ EntryIs(e)
  <2>1. PICK e : cell = [entry |-> e] /\ EntryIs(e)
    BY <1>7
  <2>2. DOMAIN cell = {"entry"} /\ cell.entry = e
    BY <2>1
  <2> QED BY <2>1, <2>2
<1>8. CASE \E w \in written : \E k \in DOMAIN w.cipher : cell = w.cipher[k]
  <2>1. DOMAIN cell = {"key", "nonce", "plain"}
    BY <1>1, <1>8
  <2> QED BY <1>8, <2>1
<1> QED BY <1>2, <1>3, <1>4, <1>5, <1>6, <1>7, <1>8 DEF Known, KnownOf

\* A known cell takes the place of another.
LEMMA KnownReplaced ==
  ASSUME NEW s, IsSeq(s), \A k \in 1..Len(s) : Known(s[k]), NEW i, NEW cell, Known(cell)
  PROVE  /\ IsSeq([s EXCEPT ![i] = cell]) /\ Len([s EXCEPT ![i] = cell]) = Len(s)
         /\ \A k \in 1..Len([s EXCEPT ![i] = cell]) : Known([s EXCEPT ![i] = cell][k])
<1> DEFINE cells == [s EXCEPT ![i] = cell]
<1>1. Len(s) \in Nat /\ DOMAIN s = 1..Len(s)
  BY SeqFacts
<1>2. cells = [k \in 1..Len(s) |-> cells[k]]
  BY <1>1
<1>3. IsSeq(cells) /\ Len(cells) = Len(s)
  BY <1>1, <1>2, FunctionIsSeq
<1>4. \A k \in 1..Len(s) : cells[k] = IF k = i THEN cell ELSE s[k]
  BY <1>1
<1> HIDE DEF cells
<1>5. \A k \in 1..Len(cells) : Known(cells[k])
  BY <1>3, <1>4
<1> QED BY <1>3, <1>5 DEF cells

\* A step that writes no new containers and leaves known cells.
LEMMA KnownKept ==
  ASSUME UNCHANGED written, NEW cells, stored' = cells,
         \A k \in 1..Len(cells) : Known(cells[k])
  PROVE  KnownCells'
BY DEF KnownCells, Known

\* encrypt_v5, and what may happen to a container.
LEMMA KnownChange ==
  ASSUME IInv, KnownCells,
         Encrypt \/ Store \/ Overwrite \/ Cut \/ Extend \/ SetLength \/ SpoilEntry
           \/ SpoilHeader \/ Reseal
  PROVE  KnownCells'
<1>1. IsSeq(stored) /\ \A k \in 1..Len(stored) : Known(stored[k])
  BY DEF IInv, Cells, KnownCells
<1>2. Len(stored) \in Nat /\ DOMAIN stored = 1..Len(stored)
  BY <1>1, SeqFacts
<1>c. ASSUME NEW cells, Change(cells), \A k \in 1..Len(cells) : Known(cells[k])
      PROVE  KnownCells'
  BY <1>c, KnownKept DEF Change
<1>3. CASE Encrypt
  <2>1. written \subseteq written' /\ stored' = stored
    BY <1>3 DEF Encrypt
  <2>2. ASSUME NEW cell, KnownOf(written, cell) PROVE KnownOf(written', cell)
    <3>1. CASE \E w \in written : \E k \in DOMAIN w.cipher : cell = w.cipher[k]
      BY <2>1, <3>1 DEF KnownOf
    <3> QED BY <2>2, <3>1 DEF KnownOf
  <2> QED BY <1>1, <2>1, <2>2 DEF KnownCells, Known
<1>4. CASE Store
  <2>1. PICK w \in written : stored' = w.container
    BY <1>4 DEF Store
  <2>2. UNCHANGED written
    BY <1>4 DEF Store
  <2>3. PICK cells : cells = w.container
    OBVIOUS
  <2>4. \A k \in 1..Len(cells) : Known(cells[k])
    BY <2>3, WrittenKnown
  <2>5. stored' = cells
    BY <2>1, <2>3
  <2> QED BY <2>2, <2>4, <2>5, KnownKept
<1>5. CASE Overwrite
  <2>0. PICK w \in written, i \in 1..Len(stored) : \E j \in i..Len(stored) :
          /\ j <= Len(w.container)
          /\ Change([k \in 1..Len(stored) |->
                      IF k \in i..j THEN w.container[k] ELSE stored[k]])
    BY <1>5 DEF Overwrite
  <2>1. PICK j \in i..Len(stored) :
          /\ j <= Len(w.container)
          /\ Change([k \in 1..Len(stored) |->
                      IF k \in i..j THEN w.container[k] ELSE stored[k]])
    BY <2>0
  <2> DEFINE cells == [k \in 1..Len(stored) |->
                        IF k \in i..j THEN w.container[k] ELSE stored[k]]
  <2>2. Len(cells) = Len(stored)
    BY <1>2, FunctionIsSeq
  <2>3. Len(w.container) \in Nat
    BY MadeParts, SeqFacts DEF IInv, AllMade
  <2>4. ASSUME NEW k \in 1..Len(stored) PROVE Known(cells[k])
    <3>1. CASE k \in i..j
      <4>1. k \in 1..Len(w.container)
        BY <1>2, <2>1, <2>3, <3>1
      <4> QED BY <3>1, <4>1, WrittenKnown
    <3>2. CASE k \notin i..j
      BY <1>1, <3>2
    <3> QED BY <3>1, <3>2
  <2>5. Change(cells)
    BY <2>1
  <2> HIDE DEF cells
  <2> QED BY <1>c, <2>2, <2>4, <2>5
<1>6. CASE Cut
  <2>1. PICK i \in 0..Len(stored) - 1 : Change(SubSeq(stored, 1, i))
    BY <1>6 DEF Cut
  <2>2. Len(SubSeq(stored, 1, i)) = i /\ \A k \in 1..i : SubSeq(stored, 1, i)[k] = stored[k]
    <3>1. i \in Nat /\ i <= Len(stored) /\ 1 \in Nat \ {0} /\ 1 <= i + 1 /\ i - 1 + 1 = i
          /\ \A k \in 1..i : 1 + k - 1 = k
      BY <1>2
    <3> QED BY <1>1, <3>1, Between
  <2>3. \A k \in 1..i : k \in 1..Len(stored)
    BY <1>2
  <2> QED BY <1>1, <1>c, <2>1, <2>2, <2>3
<1>7. CASE Extend
  <2> DEFINE cells == Append(stored, stored[Len(stored)])
  <2>1. stored # << >> /\ Change(cells)
    BY <1>7 DEF Extend
  <2>2. Len(stored) \in 1..Len(stored)
    BY <1>1, <1>2, <2>1 DEF IsSeq
  <2>3. Len(cells) = Len(stored) + 1
        /\ \A k \in 1..Len(stored) + 1 :
             cells[k] = IF k <= Len(stored) THEN stored[k] ELSE stored[Len(stored)]
    <3>1. PICK S : stored \in Seq(S)
      BY <1>1 DEF IsSeq
    <3> QED BY <2>2, <3>1
  <2> HIDE DEF cells
  <2>4. \A k \in 1..Len(cells) : Known(cells[k])
    BY <1>1, <1>2, <2>2, <2>3
  <2> QED BY <1>c, <2>1, <2>4
<1>8. CASE SetLength
  <2>1. PICK i \in 1..Len(stored), n \in 0..MaxWord :
          Has(i, "num") /\ Change([stored EXCEPT ![i].num = n])
    BY <1>8 DEF SetLength
  <2>2. stored[i] = [num |-> stored[i].num]
    BY <1>1, <2>1, KindIs DEF Has
  <2>3. [stored[i] EXCEPT !.num = n] = [num |-> n]
    BY <2>2
  <2>4. [stored EXCEPT ![i].num = n] = [stored EXCEPT ![i] = [num |-> n]]
    BY <1>2, <2>3
  <2>5. Known([num |-> n])
    BY DEF Known, KnownOf
  <2> QED BY <1>1, <1>c, <2>1, <2>4, <2>5, KnownReplaced
<1>9. CASE SpoilEntry
  <2>1. PICK i \in 1..Len(stored), n \in {0, 1} :
          /\ Has(i, "entry")
          /\ Change([stored EXCEPT ![i].entry.plainLength = @ + 1,
                                   ![i].entry.plainOffset = @ + n])
    BY <1>9 DEF SpoilEntry
  <2>2. PICK e : e = stored[i].entry
    OBVIOUS
  <2>3. stored[i] = [entry |-> e] /\ EntryIs(e)
    BY <1>1, <2>1, <2>2, KindIs DEF Has
  <2>4. PICK f : f = [index |-> e.index, plainOffset |-> e.plainOffset + n,
                      plainLength |-> e.plainLength + 1,
                      cipherOffset |-> e.cipherOffset, cipherLength |-> e.cipherLength]
    OBVIOUS
  <2>5. [e EXCEPT !.plainLength = @ + 1, !.plainOffset = @ + n] = f
    <3>1. PICK a, b, c, d, l : e = [index |-> a, plainOffset |-> b, plainLength |-> l,
                                    cipherOffset |-> c, cipherLength |-> d]
      BY <2>3 DEF EntryIs
    <3>2. e.index = a /\ e.plainOffset = b /\ e.plainLength = l
          /\ e.cipherOffset = c /\ e.cipherLength = d
      BY <3>1
    <3>3. f = [index |-> a, plainOffset |-> b + n, plainLength |-> l + 1,
               cipherOffset |-> c, cipherLength |-> d]
      BY <2>4, <3>2
    <3>4. PICK o, m : o = b + n /\ m = l + 1
      OBVIOUS
    <3>5. [e EXCEPT !.plainLength = @ + 1, !.plainOffset = @ + n]
            = [index |-> a, plainOffset |-> o, plainLength |-> m,
               cipherOffset |-> c, cipherLength |-> d]
      <4>1. [e EXCEPT !.plainLength = m]
              = [index |-> a, plainOffset |-> b, plainLength |-> m,
                 cipherOffset |-> c, cipherLength |-> d]
        BY <3>1
      <4>2. [[e EXCEPT !.plainLength = m] EXCEPT !.plainOffset = o]
              = [index |-> a, plainOffset |-> o, plainLength |-> m,
                 cipherOffset |-> c, cipherLength |-> d]
        <5>1. [[index |-> a, plainOffset |-> b, plainLength |-> m,
                cipherOffset |-> c, cipherLength |-> d] EXCEPT !.plainOffset = o]
              = [index |-> a, plainOffset |-> o, plainLength |-> m,
                 cipherOffset |-> c, cipherLength |-> d]
          OBVIOUS
        <5> QED BY <4>1, <5>1
      <4>3. [e EXCEPT !.plainLength = @ + 1, !.plainOffset = @ + n]
              = [[e EXCEPT !.plainLength = m] EXCEPT !.plainOffset = o]
        BY <3>2, <3>4
      <4> QED BY <4>2, <4>3
    <3> QED BY <3>3, <3>4, <3>5
  <2>6. [stored EXCEPT ![i].entry.plainLength = @ + 1, ![i].entry.plainOffset = @ + n]
          = [stored EXCEPT ![i] = [entry |-> f]]
    <3>1. [stored EXCEPT ![i].entry.plainLength = @ + 1, ![i].entry.plainOffset = @ + n]
            = [stored EXCEPT ![i] = [stored[i] EXCEPT !.entry =
                 [e EXCEPT !.plainLength = @ + 1, !.plainOffset = @ + n]]]
      BY <1>2, <2>1, <2>2 DEF Has
    <3>2. [stored[i] EXCEPT !.entry = f] = [entry |-> f]
      BY <2>3
    <3> QED BY <2>5, <3>1, <3>2
  <2>7. EntryIs(f)
    <3>1. e.plainOffset + n \in Nat /\ e.plainLength + 1 \in Nat \ {0}
      BY <2>3 DEF EntryIs
    <3> QED BY <2>4, <3>1 DEF EntryIs
  <2>8. Known([entry |-> f])
    BY <2>7 DEF Known, KnownOf
  <2> QED BY <1>1, <1>c, <2>1, <2>6, <2>8, KnownReplaced
<1>10. CASE SpoilHeader
  <2>1. stored[2] = [header |-> stored[2].header] /\ 2 \in 1..Len(stored)
    <3>1. Has(2, "header") /\ 2 \in 1..Len(stored)
      BY <1>2, <1>10 DEF SpoilHeader, Has
    <3> QED BY <1>1, <3>1, KindIs DEF Has
  <2>2. PICK g : Change([stored EXCEPT ![2] = [stored[2] EXCEPT !.header = g]])
    <3>1. CASE \E kdf \in Kdfs : Change([stored EXCEPT ![2].header.kdf = kdf])
      <4>1. PICK kdf \in Kdfs : Change([stored EXCEPT ![2].header.kdf = kdf])
        BY <3>1
      <4>2. [stored EXCEPT ![2].header.kdf = kdf] =
              [stored EXCEPT ![2] = [stored[2] EXCEPT
                !.header = [stored[2].header EXCEPT !.kdf = kdf]]]
        BY <1>2, <2>1
      <4> QED BY <4>1, <4>2
    <3>2. CASE \E policy \in 0..2 : Change([stored EXCEPT ![2].header.policy = policy])
      <4>1. PICK policy \in 0..2 : Change([stored EXCEPT ![2].header.policy = policy])
        BY <3>2
      <4>2. [stored EXCEPT ![2].header.policy = policy] =
              [stored EXCEPT ![2] = [stored[2] EXCEPT
                !.header = [stored[2].header EXCEPT !.policy = policy]]]
        BY <1>2, <2>1
      <4> QED BY <4>1, <4>2
    <3>3. CASE Change([stored EXCEPT ![2].header.reserved = 1])
      <4>1. [stored EXCEPT ![2].header.reserved = 1] =
              [stored EXCEPT ![2] = [stored[2] EXCEPT
                !.header = [stored[2].header EXCEPT !.reserved = 1]]]
        BY <1>2, <2>1
      <4> QED BY <3>3, <4>1
    <3>4. CASE Change([stored EXCEPT ![2].header.sizeLog = @ + 1])
      <4>1. [stored EXCEPT ![2].header.sizeLog = @ + 1] =
              [stored EXCEPT ![2] = [stored[2] EXCEPT
                !.header = [stored[2].header EXCEPT !.sizeLog = @ + 1]]]
        BY <1>2, <2>1
      <4> QED BY <3>4, <4>1
    <3> QED BY <1>10, <3>1, <3>2, <3>3, <3>4 DEF SpoilHeader
  <2>3. [stored[2] EXCEPT !.header = g] = [header |-> g]
    <3>1. PICK h : stored[2] = [header |-> h]
      BY <2>1
    <3> QED BY <3>1
  <2>4. Known([header |-> g])
    BY DEF Known, KnownOf
  <2> QED BY <1>1, <1>c, <2>2, <2>3, <2>4, KnownReplaced
<1>11. CASE Reseal
  <2>1. PICK tag : stored' = [stored EXCEPT ![Len(stored)] = [tag |-> tag]]
    BY <1>11 DEF Reseal
  <2>2. UNCHANGED written
    BY <1>11 DEF Reseal
  <2>3. Known([tag |-> tag])
    BY DEF Known, KnownOf
  <2>4. PICK cells : cells = [stored EXCEPT ![Len(stored)] = [tag |-> tag]]
    OBVIOUS
  <2>5. \A k \in 1..Len(cells) : Known(cells[k])
    BY <1>1, <2>3, <2>4, KnownReplaced
  <2> QED BY <2>1, <2>2, <2>4, <2>5, KnownKept
<1> QED BY <1>3, <1>4, <1>5, <1>6, <1>7, <1>8, <1>9, <1>10, <1>11

\* Every step.
LEMMA KnownNext == ASSUME IInv, KnownCells, [Next]_vars PROVE KnownCells'
<1>1. IsSeq(stored) /\ \A k \in 1..Len(stored) : Known(stored[k])
  BY DEF IInv, Cells, KnownCells
<1>2. CASE Encrypt \/ Store \/ Overwrite \/ Cut \/ Extend \/ SetLength \/ SpoilEntry
             \/ SpoilHeader \/ Reseal
  BY <1>2, KnownChange
<1>3. CASE ReadOuter
  <2>1. UNCHANGED written
    BY <1>3, ReadOuterDoes
  <2>2. CASE UNCHANGED stored
    BY <1>1, <2>1, <2>2, KnownKept
  <2>3. CASE ~UNCHANGED stored
    <3>1. PICK t \in Nat : \E c :
            stored' = [stored EXCEPT ![4] = [num |-> t], ![5 + t] = [num |-> c]]
      BY <1>3, <2>3, ReadOuterDoes
    <3>2. PICK c : stored' = [stored EXCEPT ![4] = [num |-> t], ![5 + t] = [num |-> c]]
      BY <3>1
    <3>3. Known([num |-> t]) /\ Known([num |-> c])
      BY DEF Known, KnownOf
    <3>4. PICK one : one = [stored EXCEPT ![4] = [num |-> t]]
      OBVIOUS
    <3>5. IsSeq(one) /\ \A k \in 1..Len(one) : Known(one[k])
      BY <1>1, <3>3, <3>4, KnownReplaced
    <3>6. PICK cells : cells = [one EXCEPT ![5 + t] = [num |-> c]]
      OBVIOUS
    <3>7. \A k \in 1..Len(cells) : Known(cells[k])
      BY <3>3, <3>5, <3>6, KnownReplaced
    <3>8. stored' = cells
      BY <3>2, <3>4, <3>6
    <3> QED BY <2>1, <3>7, <3>8, KnownKept
  <2> QED BY <2>2, <2>3
<1>4. CASE DeriveRootKey \/ VerifyTag \/ ParseTable \/ DecryptSegments \/ VerifySiv
             \/ UnpackInner
  <2>1. UNCHANGED <<written, stored>>
    BY <1>4 DEF DeriveRootKey, VerifyTag, ParseTable, DecryptSegments, VerifySiv,
                UnpackInner, Refuse
  <2> QED BY <1>1, <2>1, KnownKept
<1>5. CASE UNCHANGED vars
  BY <1>1, <1>5, KnownKept DEF vars
<1> QED BY <1>2, <1>3, <1>4, <1>5 DEF Next

\* What decrypt_v5 has found out of the container, step after step.
Checked ==
  /\ at \in Stages => /\ Has(1, "prefix") /\ Has(2, "header")
                      /\ stored[4] = [num |-> sizes.table]
                      /\ stored[5 + sizes.table] = [num |-> sizes.cipher]
  /\ at \in {"table", "segments", "siv", "inner", "done"} => TagMatches
  /\ at \in {"segments", "siv", "inner", "done"} => TableAccepted
  /\ at \in {"siv", "inner", "done"} =>
       /\ inner = Joined
       /\ \A k \in 1..Len(table) : Len(Opened(k)) = table[k].entry.plainLength

\* A cell is written over, and the others are left.
LEMMA CellsLeft ==
  ASSUME NEW s, IsSeq(s), NEW t \in Nat, 4 <= Len(s), 5 + t <= Len(s), NEW a, NEW b,
         NEW z, z = [s EXCEPT ![4] = a, ![5 + t] = b]
  PROVE  Len(z) = Len(s) /\ z[4] = a /\ z[5 + t] = b /\ z[1] = s[1] /\ z[2] = s[2]
<1>1. Len(s) \in Nat /\ DOMAIN s = 1..Len(s)
  BY SeqFacts
<1>2. PICK i \in Nat : i = 5 + t
  OBVIOUS
<1>3. 4 \in 1..Len(s) /\ i \in 1..Len(s) /\ 1 \in 1..Len(s) /\ 2 \in 1..Len(s)
      /\ i # 4 /\ i # 1 /\ i # 2
  BY <1>1, <1>2
<1>4. z = [s EXCEPT ![4] = a, ![i] = b]
  BY <1>2
<1>5. z[4] = a /\ z[i] = b /\ z[1] = s[1] /\ z[2] = s[2]
  BY <1>1, <1>3, <1>4
<1>6. z = [k \in 1..Len(s) |-> z[k]]
  BY <1>1, <1>4
<1> QED BY <1>1, <1>2, <1>5, <1>6, FunctionIsSeq

\* The segment whose entry has the place p.
PlaceIn(t, p) ==
  CHOOSE k \in 1..Len(t) :
    LET e == t[k].entry
    IN  p \in (e.plainOffset + 1)..(e.plainOffset + e.plainLength)

JoinedOf(t) == [p \in 1..(t[Len(t)].entry.plainOffset + t[Len(t)].entry.plainLength) |->
                 Opened(PlaceIn(t, p))[p - t[PlaceIn(t, p)].entry.plainOffset]]

\* What the segments give is that of their table.
LEMMA JoinedAs == Joined = JoinedOf(table)
BY DEF Joined, JoinedOf, PlaceIn

\* What was found out stays so while the container is left alone.
LEMMA CheckedKept ==
  ASSUME UNCHANGED <<stored, sizes, password>>
  PROVE  /\ TagMatches' <=> TagMatches
         /\ TableAccepted' <=> TableAccepted
         /\ Joined' = Joined /\ table' = table
         /\ \A k : Opened(k)' = Opened(k)
<1>1. header' = header
  BY DEF header
<1>2. root' = root
  BY <1>1 DEF root, Root
<1>3. table' = table /\ cipher' = cipher
  BY DEF table, cipher
<1>4. TagMatches' <=> TagMatches
  BY <1>1, <1>2, <1>3 DEF TagMatches, Has
<1>5. TableAccepted' <=> TableAccepted
  BY <1>3 DEF TableAccepted
<1>6. \A k : Genuine(k)' <=> Genuine(k)
  BY <1>1, <1>2, <1>3 DEF Genuine
<1>7. \A k : Opened(k)' = Opened(k)
  BY <1>3, <1>6 DEF Opened
<1>8. Joined' = Joined
  <2>1. Joined = JoinedOf(table)
    BY JoinedAs
  <2>2. (Joined = JoinedOf(table))'
    BY JoinedAs, PTL
  <2>3. PICK t : t = table
    OBVIOUS
  <2>4. JoinedOf(t)' = JoinedOf(t)
    BY <1>7 DEF JoinedOf
  <2>5. (Joined = JoinedOf(t))'
    BY <1>3, <2>2, <2>3
  <2> QED BY <2>1, <2>3, <2>4, <2>5
<1> QED BY <1>3, <1>4, <1>5, <1>7, <1>8

\* Every step.
LEMMA CheckedNext == ASSUME IInv, IInv', Checked, [Next]_vars PROVE Checked'
<1>1. CASE Encrypt \/ Store \/ Overwrite \/ Cut \/ Extend \/ SetLength \/ SpoilEntry
             \/ SpoilHeader \/ Reseal
  <2>1. at' \in {"writing", "stored"}
    BY <1>1 DEF Encrypt, Store, Overwrite, Cut, Extend, SetLength, SpoilEntry, SpoilHeader,
                Reseal, Change
  <2> QED BY <2>1 DEF Checked, Stages
<1>2. CASE ReadOuter
  <2>1. CASE at' \in {"Format", "InvalidParameter", "panic"}
    BY <2>1 DEF Checked, Stages
  <2>2. CASE at' \notin {"Format", "InvalidParameter", "panic"}
    <3>1. at' = "derive" /\ 4 <= Len(stored) /\ Has(1, "prefix") /\ Has(2, "header")
      BY <1>2, <2>2, ReadOuterDoes
    <3>2. PICK t \in Nat : \E c :
            /\ sizes' = [table |-> t, cipher |-> c]
            /\ stored' = [stored EXCEPT ![4] = [num |-> t], ![5 + t] = [num |-> c]]
      BY <1>2, <2>2, ReadOuterDoes
    <3>3. PICK c : /\ sizes' = [table |-> t, cipher |-> c]
                   /\ stored' = [stored EXCEPT ![4] = [num |-> t], ![5 + t] = [num |-> c]]
      BY <3>2
    <3>4. IsSeq(stored) /\ Len(stored) \in Nat /\ DOMAIN stored = 1..Len(stored)
      BY SeqFacts DEF IInv, Cells
    <3>5. Len(stored') = Len(stored)
      <4>1. stored' = [k \in 1..Len(stored) |-> stored'[k]]
        BY <3>3, <3>4
      <4> QED BY <3>4, <4>1, FunctionIsSeq
    <3>6. 5 + t <= Len(stored)
      <4>1. 6 + sizes'.table + sizes'.cipher = Len(stored') /\ sizes'.cipher \in Nat
        BY <3>1, ContainerAssumption DEF IInv, TypeOK
      <4> QED BY <3>3, <3>4, <3>5, <4>1
    <3>7. /\ stored'[4] = [num |-> t] /\ stored'[5 + t] = [num |-> c]
          /\ stored'[1] = stored[1] /\ stored'[2] = stored[2]
      BY <3>1, <3>3, <3>4, <3>6, CellsLeft
    <3>8. sizes'.table = t /\ sizes'.cipher = c
      BY <3>3
    <3> QED BY <3>1, <3>5, <3>7, <3>8 DEF Checked, Has, Stages
  <2> QED BY <2>1, <2>2
<1>3. CASE DeriveRootKey \/ VerifyTag \/ ParseTable \/ DecryptSegments \/ VerifySiv
             \/ UnpackInner
  <2>1. UNCHANGED <<stored, sizes, password>>
    BY <1>3 DEF DeriveRootKey, VerifyTag, ParseTable, DecryptSegments, VerifySiv,
                UnpackInner, Refuse
  <2>2. /\ TagMatches' <=> TagMatches
        /\ TableAccepted' <=> TableAccepted
        /\ Joined' = Joined /\ table' = table
        /\ \A k : Opened(k)' = Opened(k)
    BY <2>1, CheckedKept
  <2>3. Has(1, "prefix")' = Has(1, "prefix") /\ Has(2, "header")' = Has(2, "header")
    BY <2>1 DEF Has
  <2>4. CASE DeriveRootKey
    <3>1. at = "derive" /\ at' \in {"InvalidParameter", "verify"}
      BY <2>4 DEF DeriveRootKey, Refuse
    <3> QED BY <2>1, <2>3, <3>1 DEF Checked, Stages
  <2>5. CASE VerifyTag
    <3>1. at = "verify" /\ at' = IF TagMatches THEN "table" ELSE "Authentication"
      BY <2>5 DEF VerifyTag, Refuse
    <3> QED BY <2>1, <2>2, <2>3, <3>1 DEF Checked, Stages
  <2>6. CASE ParseTable
    <3>1. at = "table" /\ at' = IF TableAccepted THEN "segments" ELSE "Format"
      BY <2>6 DEF ParseTable, Refuse
    <3> QED BY <2>1, <2>2, <2>3, <3>1 DEF Checked, Stages
  <2>7. CASE DecryptSegments
    <3>1. at = "segments"
          /\ \/ /\ at' = "siv" /\ inner' = Joined
                /\ \A k \in 1..Len(table) : Len(Opened(k)) = table[k].entry.plainLength
             \/ at' = "Authentication"
      BY <2>7 DEF DecryptSegments, Refuse
    <3> QED BY <2>1, <2>2, <2>3, <3>1 DEF Checked, Stages
  <2>8. CASE VerifySiv
    <3>1. at = "siv" /\ inner' = inner /\ at' \in {"inner", "Authentication"}
      BY <2>8 DEF VerifySiv, Refuse
    <3> QED BY <2>1, <2>2, <2>3, <3>1 DEF Checked, Stages
  <2>9. CASE UnpackInner
    <3>1. at = "inner" /\ inner' = inner /\ at' \in {"done", "Authentication"}
      BY <2>9 DEF UnpackInner, Refuse
    <3> QED BY <2>1, <2>2, <2>3, <3>1 DEF Checked, Stages
  <2> QED BY <1>3, <2>4, <2>5, <2>6, <2>7, <2>8, <2>9
<1>4. CASE UNCHANGED vars
  <2>1. UNCHANGED <<stored, sizes, password, at, inner>>
    BY <1>4 DEF vars
  <2>2. /\ TagMatches' <=> TagMatches
        /\ TableAccepted' <=> TableAccepted
        /\ Joined' = Joined /\ table' = table
        /\ \A k : Opened(k)' = Opened(k)
    BY <2>1, CheckedKept
  <2> QED BY <2>1, <2>2 DEF Checked, Stages, Has
<1> QED BY <1>1, <1>2, <1>3, <1>4 DEF Next

\* Places that follow one another do not overlap.
LEMMA PlacesApart ==
  ASSUME NEW m \in Nat \ {0}, NEW o, NEW l,
         \A k \in 1..m : o[k] \in Nat /\ l[k] \in Nat \ {0},
         \A k \in 1..m : k + 1 \in 1..m => o[k + 1] = o[k] + l[k],
         NEW j \in 1..m, NEW k \in 1..m, j < k
  PROVE  o[j] + l[j] <= o[k]
<1> DEFINE D == {d \in Nat : j + 1 + d \in 1..m => o[j] + l[j] <= o[j + 1 + d]}
<1>1. 0 \in D
  <2>1. j + 1 + 0 = j + 1
    OBVIOUS
  <2>2. j + 1 \in 1..m => o[j + 1] = o[j] + l[j] /\ o[j + 1] \in Nat
    OBVIOUS
  <2> QED BY <2>1, <2>2
<1>2. ASSUME NEW d \in D PROVE d + 1 \in D
  <2> SUFFICES ASSUME j + 1 + (d + 1) \in 1..m
               PROVE  o[j] + l[j] <= o[j + 1 + (d + 1)]
    OBVIOUS
  <2>1. PICK i \in 1..m : i = j + 1 + d /\ i + 1 = j + 1 + (d + 1) /\ i + 1 \in 1..m
    OBVIOUS
  <2>2. o[j] + l[j] <= o[i]
    BY <2>1
  <2>3. o[i + 1] = o[i] + l[i]
    BY <2>1
  <2>4. o[j] \in Nat /\ l[j] \in Nat /\ o[i] \in Nat /\ l[i] \in Nat
    OBVIOUS
  <2>5. o[j] + l[j] <= o[i + 1]
    BY ONLY <2>2, <2>3, <2>4
  <2> QED BY <2>1, <2>5
<1>3. D = Nat
  BY <1>1, <1>2, Induct
<1>4. PICK d \in Nat : k = j + 1 + d
  <2>1. k - j - 1 \in Nat /\ k = j + 1 + (k - j - 1)
    OBVIOUS
  <2> QED BY <2>1
<1>5. d \in D
  BY <1>3
<1> QED BY <1>4, <1>5

\* There is one number of segments of a size.
LEMMA OneCount ==
  ASSUME NEW L \in Nat, NEW S \in Nat \ {0}, NEW n \in Nat \ {0}, NEW m \in Nat \ {0},
         (n - 1) * S < L, L <= m * S
  PROVE  n <= m
<1> SUFFICES ASSUME n > m PROVE FALSE
  OBVIOUS
<1>1. PICK d \in Nat : n - 1 = m + d
  <2>1. n - 1 - m \in Nat /\ n - 1 = m + (n - 1 - m)
    OBVIOUS
  <2> QED BY <2>1
<1>2. (n - 1) * S = m * S + d * S
  BY <1>1
<1>3. PICK a \in Nat : a = m * S
  OBVIOUS
<1>4. PICK b \in Nat : b = d * S
  OBVIOUS
<1>5. a + b < L /\ L <= a
  BY <1>2, <1>3, <1>4
<1> QED BY ONLY <1>5, a \in Nat, b \in Nat, L \in Nat

\* No cell of inner data is what decrypting anything else yields.
LEMMA NoGarbage ==
  ASSUME NEW w, Made(w), NEW p \in 1..Len(w.inner)
  PROVE  w.inner[p] # [byte |-> Garbage]
<1>1. PICK pw \in Passwords \ {Empty}, kdf \in Kdfs, payload \in Payloads,
           policy \in {0, 1}, random \in 0..MaxRandom, size \in Sizes,
           salt \in Salts, nonce \in Nonces :
        w = EncryptV5(pw, payload, kdf, policy, random, size, salt, nonce)
  BY DEF Made
<1>2. w.inner = PackInner(payload, random)
  BY <1>1 DEF EncryptV5
<1>3. Len(payload) \in Nat /\ random \in Nat
  BY ContainerAssumption
<1>4. PICK H : H = <<[length |-> Len(payload), hash |-> Bytes(payload)]>>
  OBVIOUS
<1>5. PICK B : B = Bytes(payload)
  OBVIOUS
<1>6. PICK R : R = [i \in 1..random |-> Random]
  OBVIOUS
<1>7. PICK P : P = Bytes(R)
  OBVIOUS
<1>8. w.inner = H \o B \o P
  BY <1>2, <1>4, <1>5, <1>6, <1>7 DEF PackInner
<1>9. IsSeq(H) /\ Len(H) = 1 /\ H[1] = [length |-> Len(payload), hash |-> Bytes(payload)]
  BY <1>4, OneCell
<1>10. IsSeq(B) /\ Len(B) = Len(payload)
       /\ \A i \in 1..Len(payload) : B[i] = [byte |-> payload[i]]
  BY <1>3, <1>5, BytesAre
<1>11. Len(R) = random /\ \A i \in 1..random : R[i] = Random
  BY <1>3, <1>6, FunctionIsSeq
<1>12. IsSeq(P) /\ Len(P) = random /\ \A i \in 1..random : P[i] = [byte |-> Random]
  BY <1>3, <1>7, <1>11, BytesAre
<1> DEFINE Fine(s) == \A i \in 1..Len(s) : s[i] # [byte |-> Garbage]
<1>13. ASSUME NEW x, NEW y, [byte |-> x] = [byte |-> y] PROVE x = y
  <2>1. [byte |-> x].byte = [byte |-> y].byte
    BY <1>13
  <2> QED BY <2>1
<1>14. Fine(H)
  <2>1. DOMAIN H[1] = {"length", "hash"}
    BY <1>9
  <2>2. DOMAIN [byte |-> Garbage] = {"byte"}
    OBVIOUS
  <2>3. H[1] # [byte |-> Garbage]
    BY <2>1, <2>2
  <2> QED BY <1>9, <2>3
<1>15. Fine(B)
  BY <1>10, <1>13, GarbageAssumption
<1>16. Fine(P)
  BY <1>12, <1>13, GarbageAssumption
<1>17. ASSUME NEW s, NEW t, IsSeq(s), IsSeq(t), Fine(s), Fine(t)
       PROVE  IsSeq(s \o t) /\ Fine(s \o t)
  <2>1. /\ IsSeq(s \o t) /\ Len(s \o t) = Len(s) + Len(t)
        /\ \A i \in 1..Len(s) + Len(t) :
             (s \o t)[i] = IF i <= Len(s) THEN s[i] ELSE t[i - Len(s)]
    BY <1>17, Concatenated
  <2>2. Len(s) \in Nat /\ Len(t) \in Nat
    BY <1>17, SeqFacts
  <2>3. PICK z : z = s \o t
    OBVIOUS
  <2>4. ASSUME NEW i \in 1..Len(z) PROVE z[i] # [byte |-> Garbage]
    <3>1. CASE i <= Len(s)
      <4>1. i \in 1..Len(s) /\ z[i] = s[i]
        BY <2>1, <2>2, <2>3, <3>1
      <4> QED BY <4>1, <1>17
    <3>2. CASE ~(i <= Len(s))
      <4>1. i - Len(s) \in 1..Len(t) /\ z[i] = t[i - Len(s)]
        BY <2>1, <2>2, <2>3, <3>2
      <4> QED BY <4>1, <1>17
    <3> QED BY <3>1, <3>2
  <2> QED BY <2>1, <2>3, <2>4
<1> HIDE DEF Fine
<1>18. IsSeq(H \o B) /\ Fine(H \o B)
  BY <1>9, <1>10, <1>14, <1>15, <1>17
<1>19. Fine(H \o B \o P)
  BY <1>12, <1>16, <1>17, <1>18
<1> QED BY <1>8, <1>19 DEF Fine

\* The entry of a segment of the stored container.
EntryOf(k) ==
  /\ table[k] = [entry |-> [index |-> k - 1, plainOffset |-> table[k].entry.plainOffset,
                            plainLength |-> table[k].entry.plainLength,
                            cipherOffset |-> k - 1, cipherLength |-> 1]]
  /\ table[k].entry.plainOffset \in Nat /\ table[k].entry.plainLength \in Nat \ {0}
  /\ table[k].entry.plainOffset = IF k = 1 THEN 0
       ELSE table[k - 1].entry.plainOffset + table[k - 1].entry.plainLength

\* The stored container has m segments, and its cells are what they must be.
Parts(m) ==
  /\ m \in Nat \ {0} /\ Len(stored) = 2 * m + 6
  /\ stored[1] = [prefix |-> 5] /\ stored[2] = [header |-> header]
  /\ stored[3] = [siv |-> stored[3].siv]
  /\ stored[4] = [num |-> m] /\ stored[m + 5] = [num |-> m]
  /\ stored[2 * m + 6] = [tag |-> Tag(root, header, stored[3].siv, table, cipher)]
  /\ IsSeq(table) /\ Len(table) = m /\ IsSeq(cipher) /\ Len(cipher) = m
  /\ \A k \in 1..m : table[k] = stored[4 + k]
  /\ \A k \in 1..m : cipher[k] = stored[m + 5 + k]
  /\ \A k \in 1..m : EntryOf(k)
  /\ \A k \in 1..m : Known(cipher[k])

\* A container whose table was accepted has the parts of one.
LEMMA PartsFound ==
  ASSUME IInv, Checked, KnownCells, at \in {"segments", "siv", "inner", "done"}
  PROVE  \E m : Parts(m)
<1>1. /\ Has(1, "prefix") /\ Has(2, "header") /\ Has(3, "siv")
      /\ stored[4] = [num |-> sizes.table] /\ stored[5 + sizes.table] = [num |-> sizes.cipher]
      /\ TagMatches /\ TableAccepted
  BY DEF Checked, Stages, IInv, Read
<1>2. PICK t \in Nat : t = sizes.table
  BY ContainerAssumption DEF IInv, TypeOK
<1>3. PICK c \in Nat : c = sizes.cipher
  BY ContainerAssumption DEF IInv, TypeOK
<1>4. 6 + t + c = Len(stored)
  BY <1>2, <1>3 DEF IInv, TypeOK
<1>5. IsSeq(stored) /\ \A i \in 1..Len(stored) : Known(stored[i]) /\ Copied(stored[i])
  BY DEF IInv, Cells, KnownCells
<1>6. table = SubSeq(stored, 5, 4 + t) /\ cipher = SubSeq(stored, 6 + t, 5 + t + c)
  BY <1>2, <1>3 DEF table, cipher
<1>7. IsSeq(table) /\ Len(table) = t /\ \A k \in 1..t : table[k] = stored[4 + k]
  <2>1. PICK hi \in Nat : hi = 4 + t
    OBVIOUS
  <2>2. PICK lo \in Nat \ {0} : lo = 5
    OBVIOUS
  <2>3. hi <= Len(stored) /\ lo <= hi + 1 /\ hi - lo + 1 = t
        /\ \A k \in 1..t : lo + k - 1 = 4 + k
    BY <1>4, <2>1, <2>2
  <2>4. /\ IsSeq(SubSeq(stored, lo, hi)) /\ Len(SubSeq(stored, lo, hi)) = hi - lo + 1
        /\ \A i \in 1..(hi - lo + 1) : SubSeq(stored, lo, hi)[i] = stored[lo + i - 1]
    BY <1>5, <2>3, Between
  <2>5. table = SubSeq(stored, lo, hi)
    BY <1>6, <2>1, <2>2
  <2> QED BY <2>3, <2>4, <2>5
<1>8. IsSeq(cipher) /\ Len(cipher) = c /\ \A k \in 1..c : cipher[k] = stored[t + 5 + k]
  <2>1. PICK hi \in Nat : hi = 5 + t + c
    OBVIOUS
  <2>2. PICK lo \in Nat \ {0} : lo = 6 + t
    OBVIOUS
  <2>3. hi <= Len(stored) /\ lo <= hi + 1 /\ hi - lo + 1 = c
        /\ \A k \in 1..c : lo + k - 1 = t + 5 + k
    BY <1>4, <2>1, <2>2
  <2>4. /\ IsSeq(SubSeq(stored, lo, hi)) /\ Len(SubSeq(stored, lo, hi)) = hi - lo + 1
        /\ \A i \in 1..(hi - lo + 1) : SubSeq(stored, lo, hi)[i] = stored[lo + i - 1]
    BY <1>5, <2>3, Between
  <2>5. cipher = SubSeq(stored, lo, hi)
    BY <1>6, <2>1, <2>2
  <2> QED BY <2>3, <2>4, <2>5
<1>9. t = c /\ t # 0
  <2>1. table # << >> /\ Len(table) = Len(cipher)
    BY <1>1 DEF TableAccepted
  <2>2. t # 0
    <3> SUFFICES ASSUME t = 0 PROVE FALSE
      OBVIOUS
    <3>1. IsSeq(<< >>) /\ Len(<< >>) = 0
      <4>1. << >> \in Seq({}) /\ Len(<< >>) = 0
        OBVIOUS
      <4> QED BY <4>1 DEF IsSeq
    <3>2. table = << >>
      BY <1>7, <3>1, SameElements
    <3> QED BY <2>1, <3>2
  <2> QED BY <1>7, <1>8, <2>1, <2>2
<1>10. Len(stored) \in Nat /\ Len(stored) = 2 * t + 6
  BY <1>4, <1>9
<1>11. stored[1] = [prefix |-> 5] /\ stored[2] = [header |-> header]
  <2>1. 1 \in 1..Len(stored) /\ 2 \in 1..Len(stored)
    BY <1>10
  <2>2. Known(stored[1]) /\ Known(stored[2])
    BY <1>5, <2>1
  <2> QED BY <1>1, <2>2, KindIs DEF Has, header
<1>12. stored[3] = [siv |-> stored[3].siv]
  <2>1. 3 \in 1..Len(stored)
    BY <1>10
  <2>2. Known(stored[3])
    BY <1>5, <2>1
  <2> QED BY <1>1, <2>2, KindIs DEF Has
<1>13. stored[2 * t + 6] = [tag |-> Tag(root, header, stored[3].siv, table, cipher)]
  <2>1. PICK last \in Nat : last = Len(stored) /\ last = 2 * t + 6
    BY <1>10
  <2>2. /\ "tag" \in DOMAIN stored[last]
        /\ stored[last].tag = Tag(root, header, stored[3].siv, table, cipher)
    BY <1>1, <2>1 DEF TagMatches, Has
  <2>3. last \in 1..Len(stored)
    BY <2>1
  <2>4. Known(stored[last])
    BY <1>5, <2>3
  <2>5. stored[last] = [tag |-> stored[last].tag]
    BY <2>2, <2>4, KindIs
  <2> QED BY <2>1, <2>2, <2>5
<1>14. ASSUME NEW k \in 1..t PROVE EntryOf(k)
  <2>1. PICK cell : cell = table[k]
    OBVIOUS
  <2>2. PICK e : e = table[k].entry
    OBVIOUS
  <2>3. "entry" \in DOMAIN table[k]
    BY <1>1, <1>7 DEF TableAccepted
  <2>4. Known(cell)
    <3>1. 4 + k \in 1..Len(stored)
      BY <1>10
    <3> QED BY <1>5, <1>7, <2>1, <3>1
  <2>5. table[k] = [entry |-> e] /\ EntryIs(e)
    BY <2>1, <2>2, <2>3, <2>4, KindIs
  <2>6. /\ e.index = k - 1 /\ e.cipherOffset = k - 1 /\ e.cipherLength = 1
        /\ e.plainOffset = IF k = 1 THEN 0
                           ELSE table[k - 1].entry.plainOffset
                                  + table[k - 1].entry.plainLength
    BY <1>1, <1>7, <2>2 DEF TableAccepted
  <2>7. e = [index |-> k - 1, plainOffset |-> e.plainOffset, plainLength |-> e.plainLength,
             cipherOffset |-> k - 1, cipherLength |-> 1]
        /\ e.plainOffset \in Nat /\ e.plainLength \in Nat \ {0}
    BY <2>5, <2>6 DEF EntryIs
  <2> QED BY <2>2, <2>5, <2>6, <2>7 DEF EntryOf
<1>15. ASSUME NEW k \in 1..t PROVE Known(cipher[k])
  <2>1. t + 5 + k \in 1..Len(stored)
    BY <1>10
  <2> QED BY <1>5, <1>8, <1>9, <2>1
<1>16. stored[t + 5] = [num |-> t] /\ stored[4] = [num |-> t]
  <2>1. 5 + t = t + 5
    OBVIOUS
  <2> QED BY <1>1, <1>2, <1>3, <1>9, <2>1
<1> QED BY <1>7, <1>8, <1>9, <1>10, <1>11, <1>12, <1>13, <1>14, <1>15, <1>16 DEF Parts

\* Each segment gives the places of its entry.
LEMMA JoinedAt ==
  ASSUME NEW m, Parts(m), NEW k \in 1..m
  PROVE  /\ DOMAIN Joined = 1..(table[m].entry.plainOffset + table[m].entry.plainLength)
         /\ table[k].entry.plainOffset + 1 \in DOMAIN Joined
         /\ Joined[table[k].entry.plainOffset + 1] = Opened(k)[1]
<1>1. m \in Nat \ {0} /\ Len(table) = m /\ \A j \in 1..m : EntryOf(j)
  BY DEF Parts
<1>2. PICK o : o = [j \in 1..m |-> table[j].entry.plainOffset]
  OBVIOUS
<1>3. PICK l : l = [j \in 1..m |-> table[j].entry.plainLength]
  OBVIOUS
<1>4. \A j \in 1..m : o[j] = table[j].entry.plainOffset /\ l[j] = table[j].entry.plainLength
  BY <1>2, <1>3
<1>5. \A j \in 1..m : o[j] \in Nat /\ l[j] \in Nat \ {0}
  BY <1>1, <1>4 DEF EntryOf
<1>6. ASSUME NEW j \in 1..m, j + 1 \in 1..m PROVE o[j + 1] = o[j] + l[j]
  <2>1. PICK i \in 1..m : i = j + 1 /\ i # 1 /\ i - 1 = j
    BY <1>6
  <2>2. table[i].entry.plainOffset = table[j].entry.plainOffset + table[j].entry.plainLength
    BY <1>1, <2>1 DEF EntryOf
  <2> QED BY <1>4, <2>1, <2>2
<1>7. \A i, j \in 1..m : i < j => o[i] + l[i] <= o[j]
  <2>1. ASSUME NEW i \in 1..m, NEW j \in 1..m, i < j PROVE o[i] + l[i] <= o[j]
    BY <1>1, <1>5, <1>6, <2>1, PlacesApart
  <2> QED BY <2>1
<1>8. PICK p \in Nat : p = o[k] + 1
  BY <1>5
<1>9. p \in 1..(o[m] + l[m])
  <2>0. m \in 1..m
    BY <1>1
  <2>1. k = m \/ o[k] + l[k] <= o[m]
    BY <1>1, <1>7, <2>0
  <2> QED BY <1>5, <1>8, <2>0, <2>1
<1>10. ASSUME NEW j \in 1..m PROVE p \in (o[j] + 1)..(o[j] + l[j]) <=> j = k
  <2>1. j = k \/ o[j] + l[j] <= o[k] \/ o[k] + l[k] <= o[j]
    <3>1. j = k \/ j < k \/ k < j
      BY <1>1
    <3> QED BY <1>7, <3>1
  <2>2. o[j] \in Nat /\ l[j] \in Nat \ {0} /\ o[k] \in Nat /\ l[k] \in Nat \ {0}
    BY <1>5
  <2> QED BY <1>8, <2>1, <2>2
<1>11. PICK t : t = table
  OBVIOUS
<1>12. ASSUME NEW j \in 1..m
       PROVE  p \in (t[j].entry.plainOffset + 1)
                      ..(t[j].entry.plainOffset + t[j].entry.plainLength) <=> j = k
  BY <1>4, <1>10, <1>11
<1>13. Len(t) = m
  BY <1>1, <1>11
<1>14. PlaceIn(t, p) = k
  BY <1>12, <1>13 DEF PlaceIn
<1>15. /\ m \in 1..m
       /\ o[m] = t[Len(t)].entry.plainOffset /\ l[m] = t[Len(t)].entry.plainLength
       /\ o[k] = t[k].entry.plainOffset
  BY <1>1, <1>4, <1>11, <1>13
<1>16. JoinedOf(t)[p] = Opened(PlaceIn(t, p))[p - t[PlaceIn(t, p)].entry.plainOffset]
  BY <1>9, <1>15 DEF JoinedOf
<1>17. p - o[k] = 1
  BY <1>5, <1>8
<1>18. JoinedOf(t)[p] = Opened(k)[1]
  BY <1>14, <1>15, <1>16, <1>17
<1>19. DOMAIN JoinedOf(t) = 1..(o[m] + l[m])
  BY <1>15 DEF JoinedOf
<1>20. DOMAIN Joined = 1..(table[m].entry.plainOffset + table[m].entry.plainLength)
  BY <1>4, <1>11, <1>15, <1>19, JoinedAs
<1> QED BY <1>4, <1>8, <1>9, <1>11, <1>18, <1>19, <1>20, JoinedAs

\* decrypt_v5 is returning the inner data of w, whose synthetic IV it has.
Returning(w, n, S) ==
  /\ w \in written /\ Opens(w, n, S)
  /\ w.inner = inner /\ w.password = password
  /\ HeaderOf(w) = header /\ SivOf(w) = stored[3].siv

\* A container that has its synthetic IV and is the same one has its segments.
LEMMA OneCut ==
  ASSUME NEW w, NEW n, NEW S, Opens(w, n, S),
         NEW v, NEW m, NEW Z, Opens(v, m, Z), v.container = w.container
  PROVE  m = n /\ v.cipher = w.cipher
<1>1. /\ Laid(w.container, RootOf(w), HeaderOf(w), SivOf(w), TableOf(w), w.cipher, n)
      /\ Laid(v.container, RootOf(v), HeaderOf(v), SivOf(v), TableOf(v), v.cipher, m)
      /\ n \in Nat /\ m \in Nat
  BY DEF Opens, InSegments
<1>2. PICK z : z = w.container /\ z = v.container
  OBVIOUS
<1>3. Len(z) = 2 * n + 6 /\ Len(z) = 2 * m + 6
  BY <1>1, <1>2 DEF Laid
<1>4. m = n
  BY <1>1, <1>3
<1>5. w.cipher = SubSeq(z, n + 6, 2 * n + 5) /\ v.cipher = SubSeq(z, m + 6, 2 * m + 5)
  BY <1>1, <1>2 DEF Laid
<1> QED BY <1>4, <1>5

\* A container that was written under the stored synthetic IV has the k-th segment.
PlacedBy(k) ==
  \E v \in written : /\ v.container[3] = stored[3]
                     /\ k \in DOMAIN v.cipher /\ cipher[k] = v.cipher[k]

\* What was decrypted without an error is a segment that was encrypted for
\* its place, under the synthetic IV that is stored.
LEMMA SegmentGenuine ==
  ASSUME IInv, Checked, KnownCells,
         at \in {"siv", "inner", "done"},
         NEW w, NEW n, NEW S, Returning(w, n, S), NEW m, Parts(m), NEW k \in 1..m
  PROVE  Genuine(k) /\ PlacedBy(k)
<1>1. /\ inner = Joined
      /\ \A j \in 1..m : Len(Opened(j)) = table[j].entry.plainLength
  BY DEF Checked, Parts
<1>2. Made(w)
  BY DEF Returning, IInv, AllMade
<1>3. Opens(w, n, S) /\ w.inner = inner /\ HeaderOf(w) = header /\ SivOf(w) = stored[3].siv
      /\ RootOf(w) = root
  BY DEF Returning, RootOf, root
<1>4. Genuine(k)
  <2> SUFFICES ASSUME ~Genuine(k) PROVE FALSE
    OBVIOUS
  <2>1. PICK len \in Nat \ {0} : len = table[k].entry.plainLength
    BY DEF Parts, EntryOf
  <2>2. PICK f : f = [i \in 1..len |-> Garbage]
    OBVIOUS
  <2>3. Opened(k) = Bytes(f)
    BY <2>1, <2>2 DEF Opened
  <2>4. Len(f) = len /\ f[1] = Garbage
    BY <2>1, <2>2, FunctionIsSeq
  <2>5. Bytes(f)[1] = [byte |-> Garbage]
    <3>1. 1 \in 1..Len(f) /\ Len(f) \in Nat
      BY <2>1, <2>4
    <3> QED BY <2>4, <3>1, BytesAre
  <2>6. PICK p : p = table[k].entry.plainOffset + 1
    OBVIOUS
  <2>7. w.inner[p] = [byte |-> Garbage]
    BY <1>1, <1>3, <2>3, <2>5, <2>6, JoinedAt
  <2>8. p \in 1..Len(w.inner)
    <3>1. p \in DOMAIN w.inner
      BY <1>1, <1>3, <2>6, JoinedAt
    <3>2. IsSeq(w.inner)
      BY <1>3 DEF Opens, InSegments
    <3> QED BY <3>1, <3>2, SeqFacts
  <2> QED BY <1>2, <2>7, <2>8, NoGarbage
<1>5. /\ "key" \in DOMAIN cipher[k] /\ cipher[k].key = root
      /\ cipher[k].nonce = SegmentNonce(root, header, stored[3].siv, k - 1)
  BY <1>4 DEF Genuine
<1>6. PICK v \in written : \E j \in DOMAIN v.cipher : cipher[k] = v.cipher[j]
  BY <1>5, KindIs DEF Parts
<1>7. PICK j \in DOMAIN v.cipher : cipher[k] = v.cipher[j]
  BY <1>6
<1>8. PICK q, Z : Opens(v, q, Z)
  BY MadeOpens DEF IInv, AllMade
<1>9. j \in 1..q /\ q \in Nat /\ SegmentIs(v, q, Z, j)
  BY <1>7, <1>8, SeqFacts DEF Opens, InSegments
<1>10. SivOf(v) = SivOf(w) /\ j = k
  <2>1. cipher[k].nonce = SegmentNonce(RootOf(v), HeaderOf(v), SivOf(v), j - 1)
    <3>1. PICK a, b, c : v.cipher[j] = [key |-> a, nonce |-> b, plain |-> c]
                         /\ b = SegmentNonce(RootOf(v), HeaderOf(v), SivOf(v), j - 1)
      BY <1>9 DEF SegmentIs
    <3> QED BY <1>7, <3>1
  <2>2. ASSUME NEW a, NEW b, NEW c, NEW d, NEW e, NEW f, NEW g, NEW h,
               SegmentNonce(a, b, c, d) = SegmentNonce(e, f, g, h)
        PROVE  c = g /\ d = h
    BY <2>2 DEF SegmentNonce
  <2>3. SivOf(v) = stored[3].siv /\ j - 1 = k - 1
    BY <1>5, <2>1, <2>2
  <2>4. k \in Nat
    BY DEF Parts
  <2> QED BY <1>3, <1>9, <2>3, <2>4
<1>11. v.container[3] = stored[3]
  <2>1. v.container[3] = [siv |-> SivOf(v)]
    BY <1>8 DEF Opens, Laid
  <2>2. stored[3] = [siv |-> SivOf(w)]
    BY <1>3 DEF Parts
  <2> QED BY <1>10, <2>1, <2>2
<1> QED BY <1>4, <1>7, <1>10, <1>11 DEF PlacedBy

\* Where no input was cut in two ways it is that of the one container.
LEMMA SegmentKnown ==
  ASSUME IInv, Checked, KnownCells, CutOnce,
         at \in {"siv", "inner", "done"},
         NEW w, NEW n, NEW S, Returning(w, n, S), NEW m, Parts(m), NEW k \in 1..m
  PROVE  /\ k \in 1..n /\ cipher[k] = w.cipher[k]
         /\ table[k].entry.plainLength = Len(w.cipher[k].plain)
<1>1. Len(Opened(k)) = table[k].entry.plainLength
  BY DEF Checked, Parts
<1>2. Genuine(k) /\ PlacedBy(k)
  BY SegmentGenuine
<1>3. PICK v \in written : /\ v.container[3] = stored[3]
                           /\ k \in DOMAIN v.cipher /\ cipher[k] = v.cipher[k]
  BY <1>2 DEF PlacedBy
<1>4. w \in written /\ Opens(w, n, S) /\ w.container[3] = stored[3]
  <2>1. w.container[3] = [siv |-> SivOf(w)] /\ stored[3] = [siv |-> SivOf(w)]
    BY DEF Returning, Opens, Laid, Parts
  <2> QED BY <2>1 DEF Returning
<1>5. v.container = w.container
  BY <1>3, <1>4 DEF CutOnce
<1>6. PICK q, Z : Opens(v, q, Z)
  BY MadeOpens DEF IInv, AllMade
<1>7. q = n /\ v.cipher = w.cipher
  BY <1>4, <1>5, <1>6, OneCut
<1>8. k \in 1..n
  BY <1>3, <1>4, <1>7, SeqFacts DEF Opens, InSegments
<1>9. cipher[k] = w.cipher[k]
  BY <1>3, <1>7
<1>10. Opened(k) = w.cipher[k].plain
  BY <1>2, <1>9 DEF Opened
<1> QED BY <1>1, <1>8, <1>9, <1>10

\* Places one after another, each of S but for the last of n.
Tiled(n, S, L, m, o, l) ==
  /\ \A k \in 1..m : l[k] = IF k = n THEN L - (n - 1) * S ELSE S
  /\ \A k \in 1..m : o[k] = IF k = 1 THEN 0 ELSE o[k - 1] + l[k - 1]

\* Such places that fill L are all of the n.
LEMMA AllSegments ==
  ASSUME NEW n \in Nat \ {0}, NEW S \in Nat \ {0}, NEW L \in Nat \ {0},
         (n - 1) * S < L, L <= n * S,
         NEW m \in 1..n, NEW o, NEW l, Tiled(n, S, L, m, o, l), o[m] + l[m] = L
  PROVE  m = n /\ \A k \in 1..m : o[k] = (k - 1) * S
<1> USE DEF Tiled
<1> DEFINE D == {d \in Nat : d + 1 \in 1..m => o[d + 1] = d * S}
<1>1. 0 \in D
  <2>1. 0 + 1 = 1 /\ 0 * S = 0
    OBVIOUS
  <2> QED BY <2>1
<1>2. ASSUME NEW d \in D PROVE d + 1 \in D
  <2> SUFFICES ASSUME (d + 1) + 1 \in 1..m PROVE o[(d + 1) + 1] = (d + 1) * S
    OBVIOUS
  <2>1. PICK k \in 1..m : k = (d + 1) + 1 /\ k # 1 /\ k - 1 = d + 1
    OBVIOUS
  <2>2. d + 1 \in 1..m /\ d + 1 # n
    OBVIOUS
  <2>3. o[d + 1] = d * S /\ l[d + 1] = S
    BY <2>2
  <2>4. o[k] = d * S + S
    BY <2>1, <2>3
  <2>5. (d + 1) * S = d * S + S
    OBVIOUS
  <2> QED BY <2>1, <2>4, <2>5
<1>3. D = Nat
  BY <1>1, <1>2, Induct
<1>4. ASSUME NEW k \in 1..m PROVE o[k] = (k - 1) * S
  <2>1. PICK d \in Nat : d = k - 1 /\ d + 1 = k
    OBVIOUS
  <2>2. d \in D
    BY <1>3
  <2> QED BY <2>1, <2>2
<1>5. m = n
  <2> SUFFICES ASSUME m # n PROVE FALSE
    OBVIOUS
  <2>1. m \in 1..m /\ l[m] = S /\ o[m] = (m - 1) * S
    BY <1>4
  <2>2. (m - 1) * S + S = m * S
    OBVIOUS
  <2>3. L = m * S
    BY <2>1, <2>2
  <2>4. n <= m
    BY <2>3, OneCount
  <2> QED BY <2>4
<1> QED BY <1>4, <1>5

\* Every part of the container is that of the one that was written.
LEMMA SameContainer ==
  ASSUME IInv, Checked, KnownCells, CutOnce,
         at \in {"siv", "inner", "done"},
         NEW w, NEW n, NEW S, Returning(w, n, S)
  PROVE  w.container = stored
<1>1. PICK m : Parts(m)
  BY PartsFound
<1>2. \A k \in 1..m : /\ k \in 1..n /\ cipher[k] = w.cipher[k]
                      /\ table[k].entry.plainLength = Len(w.cipher[k].plain)
  BY <1>1, SegmentKnown
<1>3. Opens(w, n, S) /\ w.inner = inner /\ HeaderOf(w) = header /\ SivOf(w) = stored[3].siv
      /\ RootOf(w) = root
  BY DEF Returning, RootOf, root
<1>4. /\ n \in Nat \ {0} /\ S \in Nat \ {0} /\ Len(w.inner) \in Nat \ {0}
      /\ (n - 1) * S < Len(w.inner) /\ Len(w.inner) <= n * S
      /\ IsSeq(w.inner) /\ IsSeq(w.cipher) /\ Len(w.cipher) = n
      /\ IsSeq(TableOf(w)) /\ Len(TableOf(w)) = n
      /\ \A k \in 1..n : SegmentIs(w, n, S, k)
  BY <1>3 DEF Opens, InSegments
<1>5. /\ m \in Nat \ {0} /\ Len(stored) = 2 * m + 6
      /\ stored[1] = [prefix |-> 5] /\ stored[2] = [header |-> header]
      /\ stored[3] = [siv |-> stored[3].siv]
      /\ stored[4] = [num |-> m] /\ stored[m + 5] = [num |-> m]
      /\ stored[2 * m + 6] = [tag |-> Tag(root, header, stored[3].siv, table, cipher)]
      /\ IsSeq(table) /\ Len(table) = m /\ IsSeq(cipher) /\ Len(cipher) = m
      /\ \A k \in 1..m : table[k] = stored[4 + k]
      /\ \A k \in 1..m : cipher[k] = stored[m + 5 + k]
      /\ \A k \in 1..m : EntryOf(k)
  BY <1>1 DEF Parts
<1>6. m \in 1..n
  <2>1. m \in 1..m
    BY <1>5
  <2> QED BY <1>2, <2>1
<1>7. PICK L \in Nat \ {0} : L = Len(w.inner)
  BY <1>4
<1>8. PICK o : o = [k \in 1..m |-> table[k].entry.plainOffset]
  OBVIOUS
<1>9. PICK l : l = [k \in 1..m |-> table[k].entry.plainLength]
  OBVIOUS
<1>10. \A k \in 1..m : o[k] = table[k].entry.plainOffset /\ l[k] = table[k].entry.plainLength
  BY <1>8, <1>9
<1>11. ASSUME NEW k \in 1..m PROVE l[k] = IF k = n THEN L - (n - 1) * S ELSE S
  <2>1. k \in 1..n /\ l[k] = Len(w.cipher[k].plain)
    BY <1>2, <1>10
  <2>2. PartIs(w.inner, n, S, k - 1, w.cipher[k].plain)
    BY <1>4, <2>1 DEF SegmentIs
  <2>3. k - 1 = n - 1 <=> k = n
    BY <1>4, <2>1
  <2> QED BY <1>7, <2>1, <2>2, <2>3 DEF PartIs
<1>12. ASSUME NEW k \in 1..m PROVE o[k] = IF k = 1 THEN 0 ELSE o[k - 1] + l[k - 1]
  <2>1. table[k].entry.plainOffset = IF k = 1 THEN 0
          ELSE table[k - 1].entry.plainOffset + table[k - 1].entry.plainLength
    BY <1>5 DEF EntryOf
  <2>2. k # 1 => k - 1 \in 1..m
    BY <1>5
  <2> QED BY <1>10, <2>1, <2>2
<1>13. o[m] + l[m] = L
  <2>1. m \in 1..m
    BY <1>5
  <2>2. DOMAIN Joined = 1..(o[m] + l[m])
    BY <1>1, <1>10, <2>1, JoinedAt
  <2>3. DOMAIN Joined = 1..L
    <3>1. w.inner = Joined
      BY <1>3 DEF Checked
    <3> QED BY <1>4, <1>7, <3>1, SeqFacts
  <2>4. o[m] \in Nat /\ l[m] \in Nat
    BY <1>5, <1>10, <2>1 DEF EntryOf
  <2>5. PICK q \in Nat : q = o[m] + l[m]
    BY <2>4
  <2>6. 1..q = 1..L
    BY <2>2, <2>3, <2>5
  <2>7. q = L
    <3>1. L \in 1..q
      BY <2>6
    <3>2. q \in 1..L
      <4>1. q \in 1..q
        BY <3>1
      <4> QED BY <2>6, <4>1
    <3> QED BY <3>1, <3>2
  <2> QED BY <2>5, <2>7
<1>14. m = n /\ \A k \in 1..m : o[k] = (k - 1) * S
  <2>1. (n - 1) * S < L /\ L <= n * S
    BY <1>4, <1>7
  <2>2. Tiled(n, S, L, m, o, l)
    BY <1>11, <1>12 DEF Tiled
  <2>3. n \in Nat \ {0} /\ S \in Nat \ {0}
    BY <1>4
  <2> QED BY ONLY <2>1, <2>2, <2>3, <1>6, <1>13, L \in Nat \ {0}, AllSegments
<1>15. cipher = w.cipher
  <2>1. PICK a : a = cipher
    OBVIOUS
  <2>2. PICK b : b = w.cipher
    OBVIOUS
  <2>3. IsSeq(a) /\ IsSeq(b) /\ Len(a) = Len(b)
    BY <1>4, <1>5, <1>14, <2>1, <2>2
  <2>4. \A k \in 1..Len(a) : a[k] = b[k]
    BY <1>2, <1>5, <2>1, <2>2
  <2>5. a = b
    BY ONLY <2>3, <2>4, SameElements
  <2> QED BY <2>1, <2>2, <2>5
<1>16. table = TableOf(w)
  <2>1. ASSUME NEW k \in 1..m PROVE table[k] = TableOf(w)[k]
    <3>1. table[k] = [entry |-> [index |-> k - 1, plainOffset |-> table[k].entry.plainOffset,
                                 plainLength |-> table[k].entry.plainLength,
                                 cipherOffset |-> k - 1, cipherLength |-> 1]]
      BY <1>5 DEF EntryOf
    <3>2. /\ table[k].entry.plainOffset = (k - 1) * S
          /\ table[k].entry.plainLength = Len(w.cipher[k].plain)
      BY <1>2, <1>10, <1>14
    <3>3. TableOf(w)[k] = [entry |-> [index |-> k - 1, plainOffset |-> (k - 1) * S,
                                      plainLength |-> Len(w.cipher[k].plain),
                                      cipherOffset |-> k - 1, cipherLength |-> 1]]
      BY <1>4, <1>14 DEF SegmentIs
    <3> QED BY <3>1, <3>2, <3>3
  <2>2. PICK a : a = table
    OBVIOUS
  <2>3. PICK b : b = TableOf(w)
    OBVIOUS
  <2>4. IsSeq(a) /\ IsSeq(b) /\ Len(a) = Len(b)
    BY <1>4, <1>5, <1>14, <2>2, <2>3
  <2>5. \A k \in 1..Len(a) : a[k] = b[k]
    BY <1>5, <2>1, <2>2, <2>3
  <2>6. a = b
    BY ONLY <2>4, <2>5, SameElements
  <2> QED BY <2>2, <2>3, <2>6
<1>17. IsSeq(w.container) /\ Len(w.container) = 2 * n + 6
  BY <1>3 DEF Opens, Laid
<1>18. IsSeq(stored)
  BY DEF IInv, Cells
<1>19. ASSUME NEW i \in 1..Len(w.container) PROVE w.container[i] = stored[i]
  <2>1. FramePlace(w, n, i) \/ TablePlace(w, n, i) \/ CipherPlace(w, n, i)
    BY <1>3, PlacesAre
  <2>2. CASE TablePlace(w, n, i)
    <3>1. PICK k \in 1..n : i = 4 + k /\ w.container[i] = TableOf(w)[k]
      BY <2>2 DEF TablePlace
    <3>2. table[k] = stored[4 + k]
      BY <1>5, <1>14
    <3> QED BY <1>16, <3>1, <3>2
  <2>3. CASE CipherPlace(w, n, i)
    <3>1. PICK k \in 1..n : i = n + 5 + k /\ w.container[i] = w.cipher[k]
      BY <2>3 DEF CipherPlace
    <3>2. \A j \in 1..n : cipher[j] = stored[n + 5 + j]
      BY <1>5, <1>14
    <3>3. cipher[k] = stored[i]
      BY <3>1, <3>2
    <3> QED BY <1>15, <3>1, <3>3
  <2>4. CASE FramePlace(w, n, i)
    <3>1. \/ i = 1 /\ w.container[i] = [prefix |-> 5]
          \/ i = 2 /\ w.container[i] = [header |-> HeaderOf(w)]
          \/ i = 3 /\ w.container[i] = [siv |-> SivOf(w)]
          \/ i \in {4, n + 5} /\ w.container[i] = [num |-> n]
          \/ /\ i = 2 * n + 6
             /\ w.container[i] =
                  [tag |-> Tag(RootOf(w), HeaderOf(w), SivOf(w), TableOf(w), w.cipher)]
      BY <2>4 DEF FramePlace
    <3>2. CASE i \in {1, 2, 3} /\ i # 2 * n + 6 /\ i \notin {4, n + 5}
      BY <1>3, <1>5, <3>1, <3>2
    <3>3. CASE i \in {4, n + 5} /\ i # 2 * n + 6 /\ i \notin {1, 2, 3}
      BY <1>5, <1>14, <3>1, <3>3
    <3>4. CASE i = 2 * n + 6 /\ i \notin {1, 2, 3, 4, n + 5}
      <4>1. w.container[i] =
              [tag |-> Tag(RootOf(w), HeaderOf(w), SivOf(w), TableOf(w), w.cipher)]
        BY <3>1, <3>4
      <4>2. stored[i] = [tag |-> Tag(root, header, stored[3].siv, table, cipher)]
        BY <1>5, <1>14, <3>4
      <4> QED BY <1>3, <1>15, <1>16, <4>1, <4>2
    <3>5. n + 5 \notin {1, 2, 3, 4, 2 * n + 6} /\ 2 * n + 6 \notin {1, 2, 3, 4}
      <4>1. n \in Nat \ {0}
        BY <1>4
      <4> QED BY <4>1
    <3> QED BY <3>1, <3>2, <3>3, <3>4, <3>5
  <2> QED BY <2>1, <2>2, <2>3, <2>4
<1>20. Len(w.container) = Len(stored)
  BY <1>5, <1>14, <1>17
<1> QED BY ONLY <1>17, <1>18, <1>19, <1>20, SameElements

-----------------------------------------------------------------------------
(* Theorems                                                                *)

\* The invariant of encrypt_v5, of what may happen to a container and of
\* decrypt_v5: everything written was made by encrypt_v5; the stored container
\* has no other synthetic IVs than theirs, wherever they are, and no length
\* that is not eight bytes; past the comparison of the synthetic IV the inner
\* data is that of the container it was copied from.
THEOREM Invariant == Spec => []IInv
<1>1. Init => IInv
  BY InitInv
<1>2. IInv /\ [Next]_vars => IInv'
  BY NextInv
<1> QED BY <1>1, <1>2, PTL DEF Spec

\* Every variable keeps its type, and past the reading of the lengths the two
\* of them fill the container, also where lengths were changed and sums wrap.
THEOREM TypeCorrect == Spec => []TypeOK
<1>1. IInv => TypeOK
  BY DEF IInv
<1> QED BY <1>1, Invariant, PTL

\* No key and nonce of encrypt_v5 encrypt two different inputs, even where the
\* caller's salt and nonce repeat.
THEOREM NonceUsedOnce == Spec => []NonceOnce
<1>1. IInv => NonceOnce
  <2> SUFFICES ASSUME IInv, NEW w1 \in written, NEW w2 \in written,
                      NEW i \in DOMAIN w1.cipher, NEW j \in DOMAIN w2.cipher,
                      w1.cipher[i].nonce = w2.cipher[j].nonce
               PROVE  i = j /\ w1.inner = w2.inner
    BY DEF NonceOnce
  <2>1. Made(w1) /\ Made(w2)
    BY DEF IInv, AllMade
  <2>2. ASSUME NEW w, Made(w), NEW k \in DOMAIN w.cipher
        PROVE  /\ k \in Nat
               /\ SivOf(w) = Siv(Root(w.password, HeaderOf(w)), HeaderOf(w), w.inner)
               /\ w.cipher[k].nonce =
                    SegmentNonce(Root(w.password, HeaderOf(w)), HeaderOf(w), SivOf(w), k - 1)
    BY <2>2, MadeParts
  <2>3. ASSUME NEW a, NEW b, NEW c, NEW d, NEW p, NEW q, NEW r, NEW s,
               SegmentNonce(a, b, c, d) = SegmentNonce(p, q, r, s)
        PROVE  c = r /\ d = s
    BY <2>3 DEF SegmentNonce
  <2>4. ASSUME NEW a, NEW b, NEW c, NEW p, NEW q, NEW r, Siv(a, b, c) = Siv(p, q, r)
        PROVE  c = r
    BY <2>4 DEF Siv
  <2>5. SivOf(w1) = SivOf(w2) /\ i - 1 = j - 1
    BY <2>1, <2>2, <2>3
  <2>6. w1.inner = w2.inner
    BY <2>1, <2>2, <2>4, <2>5
  <2>7. i = j
    BY <2>1, <2>2, <2>5
  <2> QED BY <2>6, <2>7
<1> QED BY <1>1, Invariant, PTL

\* decrypt_v5 returns a payload that was encrypted with its password, under
\* the header and the synthetic IV of the container, or nothing: whatever was
\* done to the container, in however many steps, also by those who know a
\* password and make the tag anew.
THEOREM DataIsAuthentic == Spec => []DataAuthentic
<1>1. IInv => DataAuthentic
  <2> SUFFICES ASSUME IInv, at = "done"
               PROVE  \E w \in written : /\ w.password = password
                                         /\ Bytes(w.payload) = output
                                         /\ HeaderOf(w) = stored[2].header
                                         /\ SivOf(w) = stored[3].siv
    BY DEF DataAuthentic
  <2>1. PICK w \in written : /\ Made(w) /\ w.inner = inner /\ w.password = password
                            /\ HeaderOf(w) = header /\ SivOf(w) = stored[3].siv
    BY InnerKnown
  <2>2. output = SubSeq(inner, 2, inner[1].length + 1)
    BY DEF IInv, Returned
  <2>3. SubSeq(inner, 2, inner[1].length + 1) = Bytes(w.payload)
    BY <2>1, MadeParts
  <2> QED BY <2>1, <2>2, <2>3 DEF header
<1> QED BY <1>1, Invariant, PTL

\* The size in the public header holds every segment and is less than twice
\* as much as the first of several needs.
THEOREM HeaderFitsSegments == Spec => []SegmentsFitHeader
<1>1. IInv => SegmentsFitHeader
  <2> SUFFICES ASSUME IInv, NEW w \in written
               PROVE  /\ \A i \in DOMAIN w.cipher :
                           Len(w.cipher[i].plain) <= 2^(w.container[2].header.sizeLog)
                      /\ Len(w.cipher) > 1 =>
                           2^(w.container[2].header.sizeLog) < 2 * Len(w.cipher[1].plain)
    BY DEF SegmentsFitHeader
  <2>1. Made(w)
    BY DEF IInv, AllMade
  <2>2. PICK n, S : Opens(w, n, S)
    BY <2>1, MadeOpens
  <2>3. PICK bound : bound = 2^(w.container[2].header.sizeLog)
    OBVIOUS
  <2>4. bound \in Nat /\ S <= bound /\ bound < 2 * S
    BY <2>2, <2>3 DEF Opens, HeaderIs, HeaderOf
  <2>5. /\ n \in Nat \ {0} /\ S \in Nat \ {0} /\ Len(w.cipher) = n /\ DOMAIN w.cipher = 1..n
        /\ \A k \in 1..n : PartIs(w.inner, n, S, k - 1, w.cipher[k].plain)
    BY <2>2, SeqFacts DEF Opens, InSegments, SegmentIs
  <2>6. ASSUME NEW k \in 1..n
        PROVE  /\ Len(w.cipher[k].plain) \in 1..S
               /\ k - 1 # n - 1 => Len(w.cipher[k].plain) = S
    BY <2>5 DEF PartIs
  <2>7. ASSUME NEW k \in 1..n PROVE Len(w.cipher[k].plain) <= bound
    BY <2>4, <2>5, <2>6
  <2>8. n > 1 => bound < 2 * Len(w.cipher[1].plain)
    <3>1. n > 1 => 1 \in 1..n /\ 1 - 1 # n - 1
      BY <2>5
    <3> QED BY <2>4, <2>6, <3>1
  <2> QED BY <2>3, <2>5, <2>7, <2>8
<1> QED BY <1>1, Invariant, PTL

\* A container that comes back as it was written opens with its password and
\* gives what was encrypted; with another it is refused, for what is wrong
\* with the password: whatever the options, the lengths and the passwords.
THEOREM IntactIsRead == Spec => []IntactVerdict
<1>1. Init => VInv
  BY DEF Init, VInv
<1>2. IInv /\ IInv' /\ VInv /\ [Next]_vars => VInv'
  <2> SUFFICES ASSUME IInv, IInv', VInv, [Next]_vars PROVE VInv'
    OBVIOUS
  <2>1. CASE Next
    BY <2>1, VerdictBefore, VerdictRead, VerdictDerive, VerdictTag, VerdictTable,
       VerdictSegments, VerdictSiv, VerdictUnpack DEF Next
  <2>2. CASE UNCHANGED vars
    BY <2>2 DEF vars, VInv, Verdict
  <2> QED BY <2>1, <2>2
<1>3. IInv /\ VInv => IntactVerdict
  <2> SUFFICES ASSUME IInv, VInv, NEW w \in written, w.container = stored
               PROVE  /\ w.password = password =>
                           /\ at \notin Errors \cup {"panic"}
                           /\ at = "done" => output = Bytes(w.payload)
                      /\ w.password # password =>
                           at \in {"stored", "derive", "verify",
                                   IF password = Empty THEN "InvalidParameter"
                                   ELSE "Authentication"}
    BY DEF IntactVerdict
  <2>1. Verdict(w)
    BY DEF VInv
  <2>2. ASSUME w.password = password, at = "done" PROVE output = Bytes(w.payload)
    <3>1. inner = w.inner
      BY <2>1, <2>2 DEF Verdict
    <3>2. output = SubSeq(w.inner, 2, w.inner[1].length + 1)
      BY <2>2, <3>1 DEF IInv, Returned
    <3>3. SubSeq(w.inner, 2, w.inner[1].length + 1) = Bytes(w.payload)
      BY MadeParts DEF IInv, AllMade
    <3> QED BY <3>2, <3>3
  <2> QED BY <2>1, <2>2 DEF Verdict
<1> QED BY <1>1, <1>2, <1>3, Invariant, PTL DEF Spec

\* Known cells, and what was found out, at every step.
LEMMA AlwaysChecked == Spec => [](IInv /\ KnownCells /\ Checked)
<1>1. Init => KnownCells /\ Checked
  <2> SUFFICES ASSUME Init PROVE KnownCells /\ Checked
    OBVIOUS
  <2>1. Len(stored) = 0 /\ at = "writing"
    BY DEF Init
  <2> QED BY <2>1 DEF KnownCells, Checked, Stages
<1>2. IInv /\ IInv' /\ KnownCells /\ Checked /\ [Next]_vars => KnownCells' /\ Checked'
  BY KnownNext, CheckedNext
<1> QED BY <1>1, <1>2, Invariant, PTL DEF Spec

\* decrypt_v5 returns data only if it was encrypted with that password, under
\* the stored header and synthetic IV and from segments encrypted for their
\* place under them; the container is one that was written, cell for cell,
\* unless one input was cut in two ways.
THEOREM ContainerIsAuthentic == Spec => []OnlyAuthentic
<1>1. IInv /\ KnownCells /\ Checked => OnlyAuthentic
  <2> SUFFICES ASSUME IInv, KnownCells, Checked, at = "done"
               PROVE  /\ \E w \in written : /\ w.password = password
                                            /\ Bytes(w.payload) = output
                                            /\ w.container[2] = stored[2]
                                            /\ w.container[3] = stored[3]
                                            /\ CutOnce => w.container = stored
                      /\ \A k \in DOMAIN cipher : PlacedBy(k)
    BY DEF OnlyAuthentic, PlacedBy
  <2>1. PICK w \in written : /\ Made(w) /\ w.inner = inner /\ w.password = password
                            /\ HeaderOf(w) = header /\ SivOf(w) = stored[3].siv
    BY InnerKnown
  <2>2. PICK n, S : Opens(w, n, S)
    BY <2>1, MadeOpens
  <2>3. Returning(w, n, S)
    BY <2>1, <2>2 DEF Returning
  <2>4. CutOnce => w.container = stored
    BY <2>3, SameContainer
  <2>5. Bytes(w.payload) = output
    BY <2>1, MadeParts DEF IInv, Returned
  <2>6. PICK m : Parts(m)
    BY PartsFound
  <2>7. w.container[2] = stored[2] /\ w.container[3] = stored[3]
    <3>1. w.container[2] = [header |-> HeaderOf(w)] /\ w.container[3] = [siv |-> SivOf(w)]
      BY <2>2 DEF Opens, Laid
    <3>2. stored[2] = [header |-> header] /\ stored[3] = [siv |-> stored[3].siv]
      BY <2>6 DEF Parts
    <3> QED BY <2>1, <3>1, <3>2
  <2>8. ASSUME NEW k \in DOMAIN cipher PROVE PlacedBy(k)
    <3>1. k \in 1..m
      BY <2>6, SeqFacts DEF Parts
    <3> QED BY <2>3, <2>6, <3>1, SegmentGenuine
  <2> QED BY <2>1, <2>4, <2>5, <2>7, <2>8
<1> QED BY <1>1, AlwaysChecked, PTL
=============================================================================
