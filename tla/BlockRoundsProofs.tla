-------------------------- MODULE BlockRoundsProofs --------------------------
(* Proofs that the rounds of versions 3 and 4 are undone exactly, for words *)
(* and bytes of any width, any number of rounds, any block and any keys.   *)
EXTENDS BlockRounds, FiniteSetTheorems, WellFoundedInduction, TLAPS

-----------------------------------------------------------------------------
(* Division.                                                               *)

\* A remainder is less than the modulus and a quotient times it is the rest.
LEMMA DivMod ==
  ASSUME NEW n \in Nat, NEW d \in Nat \ {0}
  PROVE  /\ n % d \in 0..(d - 1)
         /\ n \div d \in Nat
         /\ n = (n \div d) * d + (n % d)
OBVIOUS

\* There is one way to write a number as a multiple and a remainder.
LEMMA OneDivision ==
  ASSUME NEW d \in Nat \ {0}, NEW q \in Nat, NEW r \in 0..(d - 1),
         NEW n \in Nat, n = q * d + r
  PROVE  n \div d = q /\ n % d = r
<1> DEFINE s == n % d
<1> DEFINE p == n \div d
<1>1. s \in 0..(d - 1) /\ p \in Nat /\ n = p * d + s
  BY DivMod
<1> HIDE DEF s, p
<1>2. (q - p) * d = s - r
  BY <1>1
<1>3. q = p
  <2>1. CASE q - p >= 1
    <3>1. (q - p) * d >= d
      BY <2>1, <1>1
    <3> QED BY <3>1, <1>1, <1>2
  <2>2. CASE p - q >= 1
    <3>1. (p - q) * d >= d
      BY <2>2, <1>1
    <3>2. (p - q) * d = r - s
      BY <1>1, <1>2
    <3> QED BY <3>1, <3>2, <1>1
  <2> QED BY <2>1, <2>2, <1>1
<1>4. s = r
  BY <1>1, <1>3
<1> QED BY <1>3, <1>4 DEF s, p

\* A product of two numbers, and of three in either order.
LEMMA Products ==
  ASSUME NEW a \in Int, NEW b \in Int, NEW c \in Int
  PROVE  /\ a * b \in Int
         /\ (a * b) * c = a * (b * c)
         /\ a * b = b * a
         /\ a * (b + c) = a * b + a * c
         /\ a \in Nat /\ b \in Nat => a * b \in Nat
OBVIOUS

-----------------------------------------------------------------------------
(* Numbers that differ by a multiple of m.                                 *)

Cong(x, y, m) == \E k \in Int : x = y + k * m

\* They form classes.
LEMMA CongClass ==
  ASSUME NEW m \in Int, NEW x \in Int, NEW y \in Int, NEW z \in Int
  PROVE  /\ Cong(x, x, m)
         /\ Cong(x, y, m) => Cong(y, x, m)
         /\ Cong(x, y, m) /\ Cong(y, z, m) => Cong(x, z, m)
<1>1. Cong(x, x, m)
  <2>1. x = x + 0 * m
    OBVIOUS
  <2> QED BY <2>1 DEF Cong
<1>2. ASSUME Cong(x, y, m) PROVE Cong(y, x, m)
  <2>1. PICK k \in Int : x = y + k * m
    BY <1>2 DEF Cong
  <2>2. -k \in Int /\ y = x + (-k) * m
    BY <2>1
  <2> QED BY <2>2 DEF Cong
<1>3. ASSUME Cong(x, y, m), Cong(y, z, m) PROVE Cong(x, z, m)
  <2>1. PICK k \in Int : x = y + k * m
    BY <1>3 DEF Cong
  <2>2. PICK j \in Int : y = z + j * m
    BY <1>3 DEF Cong
  <2>3. j + k \in Int /\ x = z + (j + k) * m
    BY <2>1, <2>2
  <2> QED BY <2>3 DEF Cong
<1> QED BY <1>1, <1>2, <1>3

\* Sums, differences and products of such numbers are such numbers.
LEMMA CongRing ==
  ASSUME NEW m \in Int, NEW x \in Int, NEW y \in Int, NEW u \in Int, NEW v \in Int,
         Cong(x, y, m), Cong(u, v, m)
  PROVE  /\ Cong(x + u, y + v, m)
         /\ Cong(x - u, y - v, m)
         /\ Cong(x * u, y * v, m)
<1>1. PICK k \in Int : x = y + k * m
  BY DEF Cong
<1>2. PICK j \in Int : u = v + j * m
  BY DEF Cong
<1>3. Cong(x + u, y + v, m)
  <2>1. k + j \in Int /\ x + u = (y + v) + (k + j) * m
    BY <1>1, <1>2
  <2> QED BY <2>1 DEF Cong
<1>4. Cong(x - u, y - v, m)
  <2>1. k - j \in Int /\ x - u = (y - v) + (k - j) * m
    BY <1>1, <1>2
  <2> QED BY <2>1 DEF Cong
<1>5. Cong(x * u, y * v, m)
  <2> DEFINE i == y * j + k * v + k * (j * m)
  <2>1. j * m \in Int /\ y * j \in Int /\ k * v \in Int /\ k * (j * m) \in Int
    BY Products
  <2>2. i \in Int
    BY <2>1
  <2>3. (y + k * m) * (v + j * m) = y * v + (y * j + k * v + k * (j * m)) * m
    OBVIOUS
  <2>4. x * u = y * v + i * m
    BY <1>1, <1>2, <2>3
  <2> HIDE DEF i
  <2> QED BY <2>2, <2>4 DEF Cong
<1> QED BY <1>3, <1>4, <1>5

\* A remainder is such a number, and there is one below m.
LEMMA CongMod ==
  ASSUME NEW m \in Nat \ {0}, NEW n \in Nat, NEW p \in Nat
  PROVE  /\ n % m \in 0..(m - 1) /\ Cong(n % m, n, m)
         /\ Cong(n, p, m) => n % m = p % m
         /\ n < m => n % m = n
<1>1. n % m \in 0..(m - 1) /\ n \div m \in Nat /\ n = (n \div m) * m + (n % m)
  BY DivMod
<1>2. PICK q \in Nat, r \in 0..(m - 1) : n = q * m + r /\ n % m = r
  BY <1>1
<1>3. Cong(n % m, n, m)
  <2>1. -q \in Int /\ r = n + (-q) * m
    BY <1>2
  <2> QED BY <1>2, <2>1 DEF Cong
<1>4. ASSUME Cong(n, p, m) PROVE n % m = p % m
  <2>1. PICK k \in Int : n = p + k * m
    BY <1>4 DEF Cong
  <2>2. PICK j \in Nat, s \in 0..(m - 1) : p = j * m + s /\ p % m = s
    BY DivMod
  <2>3. n = (j + k) * m + s /\ j + k \in Int
    BY <2>1, <2>2
  <2>4. j + k >= 0
    <3>1. CASE j + k <= -1
      <4>1. (j + k) * m <= -m
        BY <3>1
      <4> QED BY <2>3, <4>1
    <3> QED BY <3>1
  <2>5. j + k \in Nat
    BY <2>4
  <2>6. PICK i \in Nat : i = j + k
    BY <2>5
  <2>7. n = i * m + s
    BY <2>3, <2>6
  <2> QED BY <2>2, <2>7, OneDivision
<1>5. ASSUME n < m PROVE n % m = n
  <2>1. n = 0 * m + n /\ n \in 0..(m - 1)
    BY <1>5
  <2> QED BY <2>1, OneDivision
<1> QED BY <1>1, <1>3, <1>4, <1>5

-----------------------------------------------------------------------------
(* Powers of two.                                                          *)

\* A power of two counts subsets: it is a number.
LEMMA PowerIs ==
  ASSUME NEW n \in Nat
  PROVE  /\ IsFiniteSet(1..n) /\ Cardinality(1..n) = n
         /\ IsFiniteSet(SUBSET (1..n)) /\ Cardinality(SUBSET (1..n)) = 2^n
         /\ 2^n \in Nat
<1>1. IsFiniteSet(1..n) /\ Cardinality(1..n) = n
  <2>1. 1 \in Int /\ n \in Int /\ (IF 1 > n THEN 0 ELSE n-1+1) = n
    OBVIOUS
  <2> QED BY <2>1, FS_Interval
<1>2. IsFiniteSet(SUBSET (1..n)) /\ Cardinality(SUBSET (1..n)) = 2^n
  BY <1>1, FS_SUBSET
<1>3. 2^n \in Nat
  BY <1>2, FS_CardinalityType
<1> QED BY <1>1, <1>2, <1>3

\* A set has as many subsets of one element as elements.
LEMMA PowerExceeds ==
  ASSUME NEW n \in Nat
  PROVE  n <= 2^n
<1> DEFINE f == [x \in 1..n |-> {x}]
<1>1. f \in Injection(1..n, SUBSET (1..n))
  <2>1. f \in [1..n -> SUBSET (1..n)]
    OBVIOUS
  <2>2. \A a, b \in 1..n : f[a] = f[b] => a = b
    OBVIOUS
  <2> QED BY <2>1, <2>2 DEF Injection, IsInjective
<1>2. Cardinality(1..n) <= Cardinality(SUBSET (1..n))
  BY <1>1, PowerIs, FS_Injection
<1> QED BY <1>2, PowerIs

\* With one element more, each subset is there with and without it.
LEMMA PowerDoubles ==
  ASSUME NEW n \in Nat
  PROVE  2^(n + 1) = 2 * 2^n
<1> DEFINE m == n + 1
<1> DEFINE A == SUBSET (1..n)
<1> DEFINE f == [X \in A |-> X \cup {m}]
<1> DEFINE B == {f[X] : X \in A}
<1>0. m \in Nat /\ m \notin 1..n /\ 1..m = (1..n) \cup {m}
  OBVIOUS
<1>1. SUBSET (1..m) = A \cup B
  <2>1. ASSUME NEW X \in SUBSET (1..m) PROVE X \in A \cup B
    <3>1. CASE m \notin X
      BY <1>0, <3>1
    <3>2. CASE m \in X
      <4>1. X \ {m} \in A /\ f[X \ {m}] = X
        BY <1>0, <3>2
      <4> QED BY <4>1
    <3> QED BY <3>1, <3>2
  <2>2. ASSUME NEW X \in A \cup B PROVE X \in SUBSET (1..m)
    BY <1>0
  <2> QED BY <2>1, <2>2
<1>2. A \cap B = {}
  BY <1>0
<1>3. f \in Bijection(A, B)
  <2>1. f \in [A -> B]
    OBVIOUS
  <2>2. ASSUME NEW X \in A, NEW Y \in A, f[X] = f[Y] PROVE X = Y
    <3>1. m \notin X /\ m \notin Y /\ X \cup {m} = Y \cup {m}
      BY <1>0, <2>2
    <3> QED BY <3>1
  <2>3. \A b \in B : \E a \in A : f[a] = b
    OBVIOUS
  <2> HIDE DEF A, B, f, m
  <2>4. f \in Injection(A, B)
    BY <2>1, <2>2 DEF Injection, IsInjective
  <2>5. f \in Surjection(A, B)
    BY <2>1, <2>3 DEF Surjection
  <2> QED BY <2>4, <2>5 DEF Bijection
<1>4. IsFiniteSet(A) /\ Cardinality(A) = 2^n /\ 2^n \in Nat
  BY PowerIs
<1> HIDE DEF A, B, f
<1>5. IsFiniteSet(B) /\ Cardinality(B) = Cardinality(A)
  BY <1>3, <1>4, FS_Bijection DEF ExistsBijection
<1>6. Cardinality(A \cup B) = Cardinality(A) + Cardinality(B) - 0
  BY <1>2, <1>4, <1>5, FS_Union, FS_EmptySet
<1>7. Cardinality(SUBSET (1..m)) = 2^m
  BY <1>0, PowerIs
<1> HIDE DEF m
<1>8. 2^m = 2^n + 2^n
  <2>1. Cardinality(A \cup B) = 2^m
    BY <1>1, <1>7
  <2> QED BY <1>4, <1>5, <1>6, <2>1
<1>9. PICK p \in Nat : p = 2^n
  BY <1>4
<1>a. 2^m = 2 * p
  BY <1>8, <1>9
<1> QED BY <1>9, <1>a DEF m

\* A set of numbers that is not empty has a least one.
LEMMA Least ==
  ASSUME NEW S \in SUBSET Nat, S # {}
  PROVE  \E n \in S : \A m \in S : n <= m
<1> DEFINE R == OpToRel(<, Nat)
<1>1. IsWellFoundedOn(R, Nat)
  BY NatLessThanWellFounded
<1>2. R = {ss \in Nat \X Nat : ss[1] < ss[2]}
  BY DEF OpToRel
<1> HIDE DEF R
<1>3. PICK n \in S : \A m \in S : ~(<<m, n>> \in R)
  BY <1>1, WFMin
<1>4. \A m \in S : ~(m < n)
  BY <1>2, <1>3
<1> QED BY <1>4

\* A set of numbers with zero and the successor of each of its own has all.
LEMMA Induct ==
  ASSUME NEW S \in SUBSET Nat, 0 \in S, \A n \in S : n + 1 \in S
  PROVE  S = Nat
<1> SUFFICES ASSUME Nat \ S # {} PROVE FALSE
  OBVIOUS
<1>1. PICK t \in Nat \ S : \A m \in Nat \ S : t <= m
  <2>1. Nat \ S \in SUBSET Nat
    OBVIOUS
  <2> QED BY <2>1, Least
<1>2. t # 0 /\ t - 1 \in Nat /\ ~(t <= t - 1) /\ (t - 1) + 1 = t
  OBVIOUS
<1>3. t - 1 \in S
  BY <1>1, <1>2
<1> QED BY <1>2, <1>3

\* The sum of exponents is that of a product.
LEMMA PowerAdds ==
  ASSUME NEW a \in Nat, NEW b \in Nat
  PROVE  /\ 2^a \in Nat \ {0}
         /\ 2^(a + b) = 2^a * 2^b
         /\ 2^0 = 1 /\ 2^1 = 2
<1>1. 2^0 = 1
  <2>1. IsFiniteSet({}) /\ Cardinality({}) = 0
    BY FS_EmptySet
  <2>2. Cardinality(SUBSET {}) = 2^0
    BY <2>1, FS_SUBSET
  <2>3. SUBSET {} = {{}}
    OBVIOUS
  <2>4. Cardinality({{}}) = 1
    BY FS_Singleton
  <2> QED BY <2>2, <2>3, <2>4
<1>2. 2^1 = 2
  <2>1. 2^(0 + 1) = 2 * 2^0
    BY PowerDoubles
  <2> QED BY <1>1, <2>1
<1> DEFINE S == {n \in Nat : 2^n \in Nat \ {0}}
<1>3. S = Nat
  <2>1. 0 \in S
    BY <1>1
  <2>2. ASSUME NEW n \in S PROVE n + 1 \in S
    BY PowerDoubles
  <2> HIDE DEF S
  <2>3. S \in SUBSET Nat
    BY DEF S
  <2> QED BY <2>1, <2>2, <2>3, Induct
<1>4. \A n \in Nat : 2^n \in Nat \ {0}
  BY <1>3
<1> DEFINE T == {n \in Nat : 2^(a + n) = 2^a * 2^n}
<1>5. T = Nat
  <2>1. 0 \in T
    <3>1. a + 0 = a /\ 2^a * 1 = 2^a
      BY <1>4
    <3> QED BY <1>1, <3>1
  <2>2. ASSUME NEW n \in T PROVE n + 1 \in T
    <3>1. n \in Nat /\ 2^(a + n) = 2^a * 2^n
      OBVIOUS
    <3>2. PICK c \in Nat : c = a + n
      BY <3>1
    <3>3. 2^(c + 1) = 2 * 2^c /\ 2^(n + 1) = 2 * 2^n
      BY <3>1, <3>2, PowerDoubles
    <3>4. a + (n + 1) = c + 1
      BY <3>1, <3>2
    <3>5. PICK x \in Nat, y \in Nat : x = 2^a /\ y = 2^n
      BY <1>4, <3>1
    <3>6. 2 * (x * y) = x * (2 * y)
      OBVIOUS
    <3>7. 2^(a + (n + 1)) = 2^a * 2^(n + 1)
      BY <3>1, <3>2, <3>3, <3>4, <3>5, <3>6
    <3> QED BY <3>1, <3>7
  <2> HIDE DEF T
  <2>3. T \in SUBSET Nat
    BY DEF T
  <2> QED BY <2>1, <2>2, <2>3, Induct
<1> QED BY <1>1, <1>2, <1>4, <1>5

-----------------------------------------------------------------------------
(* Loops: functions whose value at k is had from the value at k - 1.       *)

IsLoop(f, n, X, a, g) ==
  f \in [0..n -> X] /\ f[0] = a /\ \A k \in 1..n : f[k] = g[k][f[k - 1]]

\* There is one, and its values keep their type.
LEMMA LoopExists ==
  ASSUME NEW n \in Nat, NEW X, NEW a, a \in X, NEW g, g \in [1..n -> [X -> X]]
  PROVE  \E f : IsLoop(f, n, X, a, g)
<1> DEFINE Loop(f, m) == /\ f \in [0..m -> X] /\ f[0] = a
                         /\ \A k \in 1..m : f[k] = g[k][f[k - 1]]
<1> DEFINE S == {m \in Nat : m <= n => \E f : Loop(f, m)}
<1>1. 0 \in S
  <2> DEFINE f == [k \in 0..0 |-> a]
  <2>1. Loop(f, 0)
    OBVIOUS
  <2> QED BY <2>1
<1>2. ASSUME NEW m \in Nat, m \in S, m + 1 <= n PROVE \E f : Loop(f, m + 1)
  <2>1. m <= n /\ m + 1 <= n
    BY <1>2
  <2>2. PICK f : Loop(f, m)
    <3> HIDE DEF Loop
    <3> QED BY <1>2, <2>1
  <2> DEFINE h == [k \in 0..(m + 1) |-> IF k = m + 1 THEN g[m + 1][f[m]] ELSE f[k]]
  <2>3. m \in Nat /\ m + 1 \in 1..n /\ f[m] \in X
    BY <2>1, <2>2
  <2>4. g[m + 1][f[m]] \in X
    BY <2>3
  <2>5. h \in [0..(m + 1) -> X] /\ h[0] = a
    BY <2>2, <2>3, <2>4
  <2>6. ASSUME NEW k \in 1..(m + 1) PROVE h[k] = g[k][h[k - 1]]
    <3>1. CASE k = m + 1
      <4>1. h[k] = g[m + 1][f[m]] /\ k - 1 = m /\ h[m] = f[m]
        BY <3>1, <2>3
      <4> QED BY <3>1, <4>1
    <3>2. CASE k # m + 1
      <4>1. k \in 1..m /\ k - 1 \in 0..m
        BY <3>2, <2>3
      <4>2. h[k] = f[k] /\ h[k - 1] = f[k - 1]
        BY <3>2, <4>1, <2>3
      <4> QED BY <2>2, <4>1, <4>2
    <3> QED BY <3>1, <3>2
  <2> HIDE DEF h
  <2>7. Loop(h, m + 1)
    BY <2>5, <2>6
  <2> QED BY <2>7
<1> HIDE DEF Loop
<1>3. S \in SUBSET Nat /\ \A m \in S : m + 1 \in S
  BY <1>2
<1>4. S = Nat
  <2> HIDE DEF S
  <2> QED BY <1>1, <1>3, Induct
<1>5. n \in S
  BY <1>4
<1>6. \E f : Loop(f, n)
  BY <1>5
<1> QED BY <1>6 DEF Loop, IsLoop

\* What such a function keeps from one value to the next holds of all.
LEMMA LoopKeeps ==
  ASSUME NEW n \in Nat, NEW P \in SUBSET Nat, 0 \in P,
         \A k \in 1..n : k - 1 \in P => k \in P
  PROVE  \A k \in 0..n : k \in P
<1> DEFINE S == {m \in Nat : m <= n => m \in P}
<1>1. 0 \in S
  OBVIOUS
<1>2. ASSUME NEW m \in S PROVE m + 1 \in S
  <2>1. m \in Nat /\ (m + 1) - 1 = m /\ (m + 1 <= n => m + 1 \in 1..n)
    OBVIOUS
  <2> QED BY <2>1
<1>3. S \in SUBSET Nat
  OBVIOUS
<1> HIDE DEF S
<1>4. S = Nat
  BY <1>1, <1>2, <1>3, Induct
<1> QED BY <1>4 DEF S

-----------------------------------------------------------------------------
(* Bytes and blocks.                                                       *)

\* What the widths come to.
LEMMA Widths ==
  /\ Base \in Nat \ {0} /\ Base > 1
  /\ WordBits \in Nat \ {0} /\ Modulus \in Nat \ {0}
  /\ \E h \in Nat \ {0} : Modulus = 2 * h
  /\ BlockBytes \in Nat \ {0}
  /\ \E e \in Nat \ {0} : BlockBytes = 2^e
<1>1. \A n \in Nat \ {0} : \E h \in Nat \ {0} : 2^n = 2 * h
  <2> SUFFICES ASSUME NEW n \in Nat \ {0} PROVE \E h \in Nat \ {0} : 2^n = 2 * h
    OBVIOUS
  <2>1. PICK m \in Nat : n = m + 1
    <3>1. n - 1 \in Nat /\ n = (n - 1) + 1
      OBVIOUS
    <3> QED BY <3>1
  <2>2. 2^(m + 1) = 2 * 2^m /\ 2^m \in Nat \ {0}
    BY PowerDoubles, PowerAdds
  <2> QED BY <2>1, <2>2
<1>2. Base \in Nat \ {0} /\ Base > 1
  <2>1. PICK h \in Nat \ {0} : 2^ByteBits = 2 * h
    BY <1>1, WidthAssumption
  <2> QED BY <2>1 DEF Base
<1>3. WordBits \in Nat \ {0}
  BY WidthAssumption DEF WordBits
<1>4. PICK h \in Nat \ {0} : Modulus = 2 * h
  BY <1>1, <1>3 DEF Modulus
<1>5. PICK n \in Nat : WordBytes = 2^n
  BY WidthAssumption
<1>6. BlockBytes = 2^(n + 2)
  <2>1. PICK a \in Nat, b \in Nat : a = n + 1 /\ b = a + 1 /\ b = n + 2
    <3>1. n + 1 \in Nat /\ n + 2 \in Nat /\ n + 2 = (n + 1) + 1
      OBVIOUS
    <3> QED BY <3>1
  <2>2. 2^(n + 1) = 2 * 2^n /\ 2^(a + 1) = 2 * 2^a /\ 2^n \in Nat
    BY PowerDoubles, PowerIs
  <2>3. PICK w \in Nat : w = 2^n
    BY <2>2
  <2>4. 2^b = 2 * (2 * w)
    BY <2>1, <2>2, <2>3
  <2> QED BY <1>5, <2>1, <2>3, <2>4 DEF BlockBytes
<1>7. n + 2 \in Nat \ {0} /\ BlockBytes \in Nat \ {0}
  BY WidthAssumption DEF BlockBytes
<1> QED BY <1>2, <1>3, <1>4, <1>6, <1>7

\* A byte is added and taken off again.
LEMMA PlusMinus ==
  ASSUME NEW a \in Byte, NEW b \in Byte
  PROVE  /\ Plus(a, b) \in Byte /\ Minus(a, b) \in Byte
         /\ Minus(Plus(a, b), b) = a
<1> DEFINE c == Plus(a, b)
<1>1. Base \in Nat \ {0} /\ a \in 0..(Base - 1) /\ b \in 0..(Base - 1)
  BY Widths DEF Byte
<1>2. a + b \in Nat /\ (a + Base) - b \in Nat
  BY <1>1
<1>3. c \in 0..(Base - 1) /\ Cong(c, a + b, Base)
  BY <1>1, <1>2, CongMod DEF Plus
<1>4. Minus(a, b) \in 0..(Base - 1)
  BY <1>1, <1>2, CongMod DEF Minus
<1> HIDE DEF c
<1>5. Minus(c, b) = a
  <2>1. PICK k \in Int : c = (a + b) + k * Base
    BY <1>3 DEF Cong
  <2>2. (c + Base) - b = a + (k + 1) * Base /\ k + 1 \in Int
    BY <1>1, <1>3, <2>1
  <2>3. PICK n \in Nat : n = (c + Base) - b
    BY <1>1, <1>3
  <2>4. Cong(n, a, Base)
    BY <2>2, <2>3 DEF Cong
  <2>5. n % Base = a % Base /\ a % Base = a
    BY <1>1, <2>4, CongMod
  <2>6. c + (Base - b) = n
    BY <1>1, <1>3, <2>3
  <2>7. Minus(c, b) = n % Base
    BY <2>6 DEF Minus
  <2> QED BY <2>5, <2>7
<1> QED BY <1>3, <1>4, <1>5 DEF c, Byte

\* What the upward pass of diffuse_bytes makes of a byte, the one below it done.
LEMMA UpwardsIs ==
  ASSUME NEW block \in Block, NEW mask \in Block
  PROVE  /\ Upwards(block, mask) \in Block
         /\ Upwards(block, mask)[0] = block[0]
         /\ \A k \in 1..(BlockBytes - 1) :
              Upwards(block, mask)[k]
                = Plus(Plus(block[k], Upwards(block, mask)[k - 1]), mask[k])
<1> DEFINE Add(k, v) == Plus(Plus(block[k], v), mask[k])
<1> DEFINE Step(f, k) == IF k = 0 THEN block[0] ELSE Add(k, f[k - 1])
<1>1. PICK n \in Nat : n = BlockBytes - 1
  BY Widths
<1>2. Places = 0..n
  BY <1>1 DEF Places
<1>3. ASSUME NEW k \in Places, NEW v \in Byte PROVE Add(k, v) \in Byte
  BY <1>3, PlusMinus DEF Block
<1>4. block[0] \in Byte /\ 1..n \subseteq Places
  BY <1>1, <1>2 DEF Block
<1> DEFINE g == [k \in 1..n |-> [v \in Byte |-> Add(k, v)]]
<1>5. g \in [1..n -> [Byte -> Byte]]
  BY <1>3, <1>4
<1>e. PICK a \in Byte : a = block[0]
  BY <1>4
<1>6. PICK f \in [0..n -> Byte] : f[0] = block[0] /\ \A k \in 1..n : f[k] = g[k][f[k - 1]]
  <2> HIDE DEF g
  <2>1. \E f : IsLoop(f, n, Byte, a, g)
    BY <1>5, LoopExists
  <2> QED BY <1>e, <2>1 DEF IsLoop
<1>7. ASSUME NEW k \in 0..n PROVE f[k] = Step(f, k)
  <2>1. CASE k = 0
    BY <1>6, <2>1
  <2>2. CASE k # 0
    <3>1. k \in 1..n /\ k - 1 \in 0..n
      BY <2>2
    <3>2. f[k - 1] \in Byte
      BY <3>1
    <3>3. f[k] = Add(k, f[k - 1])
      <4> HIDE DEF Add
      <4> QED BY <1>6, <3>1, <3>2
    <3> QED BY <2>2, <3>3
  <2> QED BY <2>1, <2>2
<1> DEFINE u == Upwards(block, mask)
<1>8. u = [k \in Places |-> Step(u, k)]
  <2>1. f = [k \in Places |-> Step(f, k)]
    <3> HIDE DEF Step
    <3> QED BY <1>2, <1>7
  <2>2. \E h : h = [k \in Places |-> Step(h, k)]
    BY <2>1
  <2> QED BY <2>2 DEF Upwards
<1> HIDE DEF u
<1>9. u[0] = block[0] /\ \A k \in 1..n : u[k] = Add(k, u[k - 1])
  <2>1. \A k \in 0..n : u[k] = Step(u, k)
    BY <1>2, <1>8
  <2>2. 0 \in 0..n
    OBVIOUS
  <2>3. \A k \in 1..n : k \in 0..n /\ k # 0
    OBVIOUS
  <2> HIDE DEF Add
  <2> QED BY <2>1, <2>2, <2>3
<1>a. \A k \in 0..n : u[k] \in Byte
  <2> DEFINE P == {k \in Nat : u[k] \in Byte}
  <2>1. 0 \in P
    BY <1>4, <1>9
  <2>2. ASSUME NEW k \in 1..n, k - 1 \in P PROVE k \in P
    <3>1. u[k - 1] \in Byte /\ k \in Places
      BY <1>4, <2>2
    <3> HIDE DEF Add
    <3> QED BY <1>3, <1>9, <3>1
  <2>3. P \in SUBSET Nat
    OBVIOUS
  <2> HIDE DEF P
  <2>4. \A k \in 0..n : k \in P
    BY <2>1, <2>2, <2>3, LoopKeeps
  <2> QED BY <2>4 DEF P
<1>b. u \in Block
  <2> HIDE DEF Step
  <2> QED BY <1>2, <1>8, <1>a DEF Block
<1> QED BY <1>1, <1>9, <1>b DEF u

\* And the downward pass, counted from the last byte.
LEMMA DownwardsIs ==
  ASSUME NEW block \in Block, NEW mask \in Block
  PROVE  /\ Downwards(block, mask) \in Block
         /\ Downwards(block, mask)[0] = block[BlockBytes - 1]
         /\ \A d \in 1..(BlockBytes - 1) :
              Downwards(block, mask)[d]
                = Plus(Plus(block[BlockBytes - 1 - d], Downwards(block, mask)[d - 1]),
                       mask[BlockBytes - 1 - d])
<1>1. PICK n \in Nat : n = BlockBytes - 1
  BY Widths
<1> DEFINE Add(d, v) == Plus(Plus(block[n - d], v), mask[n - d])
<1> DEFINE Step(f, d) == IF d = 0 THEN block[n - d] ELSE Add(d, f[d - 1])
<1>2. Places = 0..n /\ n - 0 = n
  BY <1>1 DEF Places
<1>3. ASSUME NEW d \in Places, NEW v \in Byte PROVE Add(d, v) \in Byte
  <2>1. n - d \in Places
    BY <1>2
  <2> QED BY <1>3, <2>1, PlusMinus DEF Block
<1>4. block[n] \in Byte /\ 1..n \subseteq Places
  BY <1>1, <1>2 DEF Block
<1> DEFINE g == [d \in 1..n |-> [v \in Byte |-> Add(d, v)]]
<1>5. g \in [1..n -> [Byte -> Byte]]
  BY <1>3, <1>4
<1>e. PICK a \in Byte : a = block[n]
  BY <1>4
<1>6. PICK f \in [0..n -> Byte] : f[0] = block[n] /\ \A d \in 1..n : f[d] = g[d][f[d - 1]]
  <2> HIDE DEF g
  <2>1. \E f : IsLoop(f, n, Byte, a, g)
    BY <1>5, LoopExists
  <2> QED BY <1>e, <2>1 DEF IsLoop
<1>7. ASSUME NEW d \in 0..n PROVE f[d] = Step(f, d)
  <2>1. CASE d = 0
    BY <1>2, <1>6, <2>1
  <2>2. CASE d # 0
    <3>1. d \in 1..n /\ d - 1 \in 0..n
      BY <2>2
    <3>2. f[d - 1] \in Byte
      BY <3>1
    <3>3. f[d] = Add(d, f[d - 1])
      <4> HIDE DEF Add
      <4> QED BY <1>6, <3>1, <3>2
    <3> QED BY <2>2, <3>3
  <2> QED BY <2>1, <2>2
<1> DEFINE u == Downwards(block, mask)
<1>8. u = [d \in Places |-> Step(u, d)]
  <2>1. f = [d \in Places |-> Step(f, d)]
    <3> HIDE DEF Step
    <3> QED BY <1>2, <1>7
  <2>2. \E h : h = [d \in Places |-> Step(h, d)]
    BY <2>1
  <2> QED BY <1>1, <2>2 DEF Downwards
<1> HIDE DEF u
<1>9. u[0] = block[n] /\ \A d \in 1..n : u[d] = Add(d, u[d - 1])
  <2>1. \A d \in 0..n : u[d] = Step(u, d)
    BY <1>2, <1>8
  <2>2. 0 \in 0..n
    OBVIOUS
  <2>3. \A d \in 1..n : d \in 0..n /\ d # 0
    OBVIOUS
  <2> HIDE DEF Add
  <2> QED BY <1>2, <2>1, <2>2, <2>3
<1>a. \A d \in 0..n : u[d] \in Byte
  <2> DEFINE P == {d \in Nat : u[d] \in Byte}
  <2>1. 0 \in P
    BY <1>4, <1>9
  <2>2. ASSUME NEW d \in 1..n, d - 1 \in P PROVE d \in P
    <3>1. u[d - 1] \in Byte /\ d \in Places
      BY <1>4, <2>2
    <3> HIDE DEF Add
    <3> QED BY <1>3, <1>9, <3>1
  <2>3. P \in SUBSET Nat
    OBVIOUS
  <2> HIDE DEF P
  <2>4. \A d \in 0..n : d \in P
    BY <2>1, <2>2, <2>3, LoopKeeps
  <2> QED BY <2>4 DEF P
<1>b. u \in Block
  <2> HIDE DEF Step
  <2> QED BY <1>2, <1>8, <1>a DEF Block
<1> QED BY <1>1, <1>9, <1>b DEF u

\* Two bytes added in one order are taken off in that order as well.
LEMMA TwoPlusMinus ==
  ASSUME NEW a \in Byte, NEW b \in Byte, NEW c \in Byte
  PROVE  /\ Plus(Plus(a, b), c) \in Byte
         /\ Minus(Minus(Plus(Plus(a, b), c), b), c) = a
<1>1. Base \in Nat \ {0} /\ a \in Nat /\ b \in Nat /\ c \in Nat
  BY Widths DEF Byte
<1>2. ASSUME NEW x \in Byte, NEW y \in Byte
      PROVE  Plus(x, y) \in Nat /\ Cong(Plus(x, y), x + y, Base)
  <2>1. PICK n \in Nat : n = x + y
    BY <1>1 DEF Byte
  <2>2. n % Base \in Nat /\ Cong(n % Base, n, Base)
    BY <1>1, CongMod
  <2> QED BY <2>1, <2>2 DEF Plus
<1>3. PICK p \in Byte : p = Plus(a, b)
  BY PlusMinus
<1>4. PICK q \in Byte : q = Plus(a, c)
  BY PlusMinus
<1>5. p \in Int /\ q \in Int /\ Cong(p, a + b, Base) /\ Cong(q, a + c, Base)
  BY <1>1, <1>2, <1>3, <1>4 DEF Byte
<1>6. Cong(p + c, q + b, Base)
  <2>1. PICK k \in Int : p = (a + b) + k * Base
    BY <1>5 DEF Cong
  <2>2. PICK j \in Int : q = (a + c) + j * Base
    BY <1>5 DEF Cong
  <2>3. p + c = (q + b) + (k - j) * Base /\ k - j \in Int
    BY <1>1, <1>5, <2>1, <2>2
  <2> QED BY <2>3 DEF Cong
<1>7. Plus(p, c) = Plus(q, b)
  <2>1. PICK m \in Nat, n \in Nat : m = p + c /\ n = q + b
    BY <1>1 DEF Byte
  <2>2. m % Base = n % Base
    BY <1>1, <1>6, <2>1, CongMod
  <2> QED BY <2>1, <2>2 DEF Plus
<1>8. Minus(Plus(q, b), b) = q /\ Minus(q, c) = a /\ Plus(p, c) \in Byte
  BY <1>4, PlusMinus
<1> QED BY <1>3, <1>7, <1>8

\* undiffuse_bytes undoes both passes of diffuse_bytes.
LEMMA DiffuseUndone ==
  ASSUME NEW block \in Block, NEW key, key.diffuse \in Block \X Block
  PROVE  /\ Diffuse(block, key) \in Block
         /\ Undiffuse(Diffuse(block, key), key) = block
<1>1. PICK n \in Nat : n = BlockBytes - 1
  BY Widths
<1>2. Places = 0..n
  BY <1>1 DEF Places
<1>3. PICK lo \in Block : lo = key.diffuse[1]
  OBVIOUS
<1>4. PICK hi \in Block : hi = key.diffuse[2]
  OBVIOUS
<1>5. PICK up \in Block : up = Upwards(block, lo)
  BY UpwardsIs
<1>6. PICK down \in Block : down = Downwards(up, hi)
  BY DownwardsIs
<1>7. up[0] = block[0] /\ \A k \in 1..n : up[k] = Plus(Plus(block[k], up[k - 1]), lo[k])
  BY <1>1, <1>5, UpwardsIs
<1>8. down[0] = up[n]
      /\ \A d \in 1..n : down[d] = Plus(Plus(up[n - d], down[d - 1]), hi[n - d])
  BY <1>1, <1>6, DownwardsIs
<1> DEFINE new == [k \in Places |-> down[n - k]]
<1>9. Diffuse(block, key) = new
  BY <1>1, <1>3, <1>4, <1>5, <1>6 DEF Diffuse
<1>10. new \in Block
  <2>1. \A k \in Places : down[n - k] \in Byte
    BY <1>2 DEF Block
  <2> QED BY <2>1 DEF Block
<1> DEFINE old == [k \in Places |->
                     IF k = n THEN new[k] ELSE Minus(Minus(new[k], new[k + 1]), hi[k])]
<1>11. old = up
  <2>1. ASSUME NEW k \in Places PROVE old[k] = up[k]
    <3>1. CASE k = n
      <4>1. n - k = 0
        BY <3>1
      <4> QED BY <1>8, <3>1, <4>1
    <3>2. CASE k # n
      <4>1. k \in 0..n /\ k + 1 \in Places
        BY <1>2, <3>2
      <4>2. PICK d \in 1..n : d = n - k /\ n - d = k /\ d - 1 = n - (k + 1)
        BY <3>2, <4>1
      <4>3. new[k] = down[d] /\ new[k + 1] = down[d - 1]
        BY <4>1, <4>2
      <4>4. PICK below \in Byte : below = down[d - 1]
        <5>1. d - 1 \in Places
          BY <1>2
        <5> QED BY <5>1 DEF Block
      <4>5. down[d] = Plus(Plus(up[k], below), hi[k])
        BY <1>8, <4>2, <4>4
      <4>6. old[k] = Minus(Minus(new[k], new[k + 1]), hi[k])
        BY <3>2
      <4>7. up[k] \in Byte /\ hi[k] \in Byte
        BY DEF Block
      <4> HIDE DEF old, new
      <4> QED BY <4>3, <4>4, <4>5, <4>6, <4>7, TwoPlusMinus
    <3> QED BY <3>1, <3>2
  <2>2. up = [k \in Places |-> up[k]]
    BY DEF Block
  <2> QED BY <2>1, <2>2
<1> HIDE DEF new
<1>12. Undiffuse(new, key)
         = [k \in Places |-> IF k = 0 THEN old[0]
                             ELSE Minus(Minus(old[k], old[k - 1]), lo[k])]
  BY <1>1, <1>3, <1>4 DEF Undiffuse
<1> HIDE DEF old
<1>13. ASSUME NEW k \in Places
       PROVE  block[k] = IF k = 0 THEN old[0] ELSE Minus(Minus(old[k], old[k - 1]), lo[k])
  <2>1. CASE k = 0
    BY <1>7, <1>11, <2>1
  <2>2. CASE k # 0
    <3>1. k \in 1..n /\ k - 1 \in Places
      BY <1>2, <2>2
    <3>2. PICK below \in Byte : below = up[k - 1]
      BY <3>1 DEF Block
    <3>3. block[k] \in Byte /\ lo[k] \in Byte
      BY DEF Block
    <3>4. up[k] = Plus(Plus(block[k], below), lo[k])
      BY <1>7, <3>1, <3>2
    <3>5. Minus(Minus(up[k], below), lo[k]) = block[k]
      BY <3>2, <3>3, <3>4, TwoPlusMinus
    <3> QED BY <1>11, <2>2, <3>2, <3>5
  <2> QED BY <2>1, <2>2
<1>14. block = [k \in Places |-> block[k]]
  BY DEF Block
<1> QED BY <1>9, <1>10, <1>12, <1>13, <1>14

\* inverse_permutation of a substitution gives back what was substituted.
LEMMA SubstituteUndone ==
  ASSUME NEW block \in Block, NEW key, key.mask \in Block,
         key.substitute \in [Byte -> Byte], Injective(key.substitute)
  PROVE  /\ PreSubstitute(block, key) \in Block
         /\ PostUnsubstitute(PreSubstitute(block, key), key) = block
<1>1. PICK s \in [Byte -> Byte] : s = key.substitute
  OBVIOUS
<1>2. PICK mask \in Block : mask = key.mask
  OBVIOUS
<1>3. \A j, k \in Byte : s[j] = s[k] => j = k
  BY <1>1 DEF Injective
<1> DEFINE new == PreSubstitute(block, key)
<1>4. new = [k \in Places |-> s[Plus(block[k], mask[k])]]
  BY <1>1, <1>2 DEF PreSubstitute
<1>5. ASSUME NEW k \in Places PROVE Plus(block[k], mask[k]) \in Byte
  BY PlusMinus DEF Block
<1>6. new \in Block
  BY <1>4, <1>5 DEF Block
<1> HIDE DEF new
<1>7. PostUnsubstitute(new, key)
        = [k \in Places |-> Minus(InversePermutation(s)[new[k]], mask[k])]
  BY <1>1, <1>2 DEF PostUnsubstitute
<1>8. ASSUME NEW k \in Places
      PROVE  Minus(InversePermutation(s)[new[k]], mask[k]) = block[k]
  <2>1. PICK a \in Byte : a = Plus(block[k], mask[k])
    BY <1>5
  <2>2. new[k] = s[a] /\ s[a] \in Byte
    BY <1>4, <2>1
  <2>3. InversePermutation(s)[s[a]] = CHOOSE j \in Byte : s[j] = s[a]
    BY <2>2 DEF InversePermutation
  <2>4. PICK b : b = CHOOSE j \in Byte : s[j] = s[a]
    OBVIOUS
  <2>5. b \in Byte /\ s[b] = s[a]
    BY <2>4
  <2>6. b = a
    BY <1>3, <2>5
  <2>7. block[k] \in Byte /\ mask[k] \in Byte
    BY DEF Block
  <2>8. Minus(a, mask[k]) = block[k]
    BY <2>1, <2>7, PlusMinus
  <2> QED BY <2>2, <2>3, <2>4, <2>6, <2>8
<1>9. block = [k \in Places |-> block[k]]
  BY DEF Block
<1> QED BY <1>6, <1>7, <1>8, <1>9 DEF new

\* A permutation of the places that maps no two to one reaches each of them.
LEMMA PlacesReached ==
  ASSUME NEW f \in [Places -> Places], Injective(f), NEW p \in Places
  PROVE  \E k \in Places : f[k] = p
<1>1. IsFiniteSet(Places)
  <2>1. PICK n \in Int : n = BlockBytes - 1
    BY Widths
  <2>2. IsFiniteSet(0..n)
    BY <2>1, FS_Interval
  <2> QED BY <2>1, <2>2 DEF Places
<1>2. f \in Injection(Places, Places)
  BY DEF Injection, IsInjective, Injective
<1>3. f \in Surjection(Places, Places)
  BY <1>1, <1>2, FS_Injection
<1> QED BY <1>3 DEF Surjection

\* invert_position_permutation puts every byte where it was.
LEMMA PermuteUndone ==
  ASSUME NEW block \in Block, NEW key,
         key.position \in [Places -> Places], Injective(key.position)
  PROVE  /\ Permute(block, key) \in Block
         /\ Unpermute(Permute(block, key), key) = block
<1>1. PICK f \in [Places -> Places] : f = key.position
  OBVIOUS
<1> DEFINE new == Permute(block, key)
<1>2. new = [k \in Places |-> block[f[k]]]
  BY <1>1 DEF Permute
<1>3. new \in Block
  BY <1>2 DEF Block
<1> HIDE DEF new
<1>4. Unpermute(new, key) = [p \in Places |-> new[InversePermutation(f)[p]]]
  BY <1>1 DEF Unpermute
<1>5. ASSUME NEW p \in Places PROVE new[InversePermutation(f)[p]] = block[p]
  <2>1. \E k \in Places : f[k] = p
    BY <1>1, PlacesReached
  <2>2. PICK b : b = CHOOSE k \in Places : f[k] = p
    OBVIOUS
  <2>3. b \in Places /\ f[b] = p
    BY <2>1, <2>2
  <2>4. InversePermutation(f)[p] = b
    BY <2>2 DEF InversePermutation
  <2> QED BY <1>2, <2>3, <2>4
<1>6. block = [k \in Places |-> block[k]]
  BY DEF Block
<1> QED BY <1>3, <1>4, <1>5, <1>6 DEF new

-----------------------------------------------------------------------------
(* Words.                                                                  *)

\* A number without its last j bytes.
Shifted(x, j) == x \div 2^(ByteBits * j)

\* The bytes go one by one.
LEMMA ShiftOne ==
  ASSUME NEW x \in Nat, NEW j \in Nat
  PROVE  /\ Shifted(x, j) \in Nat
         /\ Shifted(x, 0) = x
         /\ Shifted(x, j + 1) = Shifted(x, j) \div Base
         /\ Shifted(x, j) = Shifted(x, j + 1) * Base + (Shifted(x, j) % Base)
<1>1. ByteBits \in Nat /\ Base \in Nat \ {0}
  BY WidthAssumption, Widths
<1>2. PICK e \in Nat : e = ByteBits * j
  BY <1>1
<1>3. PICK d \in Nat \ {0} : d = 2^e
  BY PowerAdds
<1>4. x \div d \in Nat /\ Shifted(x, j) = x \div d
  BY <1>2, <1>3, DivMod DEF Shifted
<1>5. Shifted(x, 0) = x
  <2>1. ByteBits * 0 = 0 /\ 2^0 = 1
    BY <1>1, PowerAdds
  <2>2. x \div 1 = x
    OBVIOUS
  <2> QED BY <2>1, <2>2 DEF Shifted
<1>6. Shifted(x, j + 1) = (x \div d) \div Base
  <2>1. ByteBits * (j + 1) = e + ByteBits
    BY <1>1, <1>2
  <2>2. 2^(e + ByteBits) = 2^e * 2^ByteBits
    BY <1>1, PowerAdds
  <2>3. PICK b \in Nat \ {0} : b = Base
    BY <1>1
  <2>4. (x \div d) \div b = x \div (d * b)
    <3>1. PICK q \in Nat, r \in 0..(d - 1) : x = q * d + r /\ x \div d = q
      BY DivMod
    <3>2. PICK p \in Nat, s \in 0..(b - 1) : q = p * b + s /\ q \div b = p
      BY DivMod
    <3> DEFINE t == s * d + r
    <3>3. s * d \in Nat /\ s * d <= (b - 1) * d /\ (b - 1) * d = b * d - d
      OBVIOUS
    <3>4. PICK c \in Nat \ {0} : c = d * b /\ c = b * d
      OBVIOUS
    <3>5. t \in 0..(c - 1)
      BY <3>3, <3>4
    <3>6. x = p * c + t
      <4>1. x = (p * b + s) * d + r
        BY <3>1, <3>2
      <4>2. (p * b + s) * d = (p * b) * d + s * d
        OBVIOUS
      <4>3. (p * b) * d = p * (b * d)
        BY Products
      <4> QED BY <4>1, <4>2, <4>3, <3>3, <3>4
    <3> HIDE DEF t
    <3>7. x \div c = p
      BY <3>5, <3>6, OneDivision
    <3> QED BY <3>1, <3>2, <3>4, <3>7
  <2> QED BY <1>3, <2>1, <2>2, <2>3, <2>4 DEF Shifted, Base
<1>7. PICK q \in Nat : q = x \div d
  BY <1>4
<1>8. q = (q \div Base) * Base + (q % Base)
  BY <1>1, DivMod
<1> QED BY <1>4, <1>5, <1>6, <1>7, <1>8

\* Where a byte of a word is in the block, and back.
LEMMA WordPlaces ==
  /\ \A w \in 1..4, k \in 1..WordBytes :
       /\ (w - 1) * WordBytes + (k - 1) \in Places
       /\ ((w - 1) * WordBytes + (k - 1)) \div WordBytes = w - 1
       /\ ((w - 1) * WordBytes + (k - 1)) % WordBytes = k - 1
  /\ \A p \in Places : \E w \in 1..4, k \in 1..WordBytes :
       p = (w - 1) * WordBytes + (k - 1)
<1>1. WordBytes \in Nat \ {0}
  BY WidthAssumption
<1>2. ASSUME NEW w \in 1..4, NEW k \in 1..WordBytes
      PROVE  /\ (w - 1) * WordBytes + (k - 1) \in Places
             /\ ((w - 1) * WordBytes + (k - 1)) \div WordBytes = w - 1
             /\ ((w - 1) * WordBytes + (k - 1)) % WordBytes = k - 1
  <2>1. PICK v \in 0..3 : v = w - 1
    OBVIOUS
  <2>2. PICK r \in 0..(WordBytes - 1) : r = k - 1
    BY <1>1
  <2>3. v * WordBytes \in Nat /\ v * WordBytes <= 3 * WordBytes
    BY <1>1
  <2>4. PICK p \in Nat : p = v * WordBytes + r
    BY <2>3
  <2>5. p \in Places
    BY <1>1, <2>3, <2>4 DEF Places, BlockBytes
  <2>6. p \div WordBytes = v /\ p % WordBytes = r
    BY <1>1, <2>4, OneDivision
  <2> QED BY <2>1, <2>2, <2>4, <2>5, <2>6
<1>3. ASSUME NEW p \in Places
      PROVE  \E w \in 1..4, k \in 1..WordBytes : p = (w - 1) * WordBytes + (k - 1)
  <2>1. p \in Nat /\ p < 4 * WordBytes
    BY <1>1 DEF Places, BlockBytes
  <2>2. PICK v \in Nat, r \in 0..(WordBytes - 1) : p = v * WordBytes + r
    BY <1>1, <2>1, DivMod
  <2>3. v <= 3
    <3>1. CASE v >= 4
      <4>1. v * WordBytes >= 4 * WordBytes
        BY <1>1, <3>1
      <4> QED BY <1>1, <2>1, <2>2, <4>1
    <3> QED BY <3>1
  <2>4. v + 1 \in 1..4 /\ r + 1 \in 1..WordBytes /\ (v + 1) - 1 = v /\ (r + 1) - 1 = r
    BY <1>1, <2>3
  <2>5. PICK w \in 1..4 : w = v + 1 /\ w - 1 = v
    BY <2>4
  <2>6. PICK k \in 1..WordBytes : k = r + 1 /\ k - 1 = r
    BY <2>4
  <2> QED BY <2>2, <2>5, <2>6
<1> QED BY <1>2, <1>3

\* read_u64_be, byte for byte.
LEMMA BytesRead ==
  ASSUME NEW block \in Block, NEW w \in 1..4, NEW from \in Nat, from = (w - 1) * WordBytes
  PROVE  /\ \A k \in 0..WordBytes : ReadBytes(block, from)[k] \in Nat
         /\ ReadBytes(block, from)[0] = 0
         /\ \A k \in 1..WordBytes :
              /\ block[from + (k - 1)] \in Byte
              /\ ReadBytes(block, from)[k]
                   = ReadBytes(block, from)[k - 1] * Base + block[from + (k - 1)]
<1> DEFINE n == WordBytes
<1> DEFINE Add(k, v) == v * Base + block[from + (k - 1)]
<1> DEFINE Step(f, k) == IF k = 0 THEN 0 ELSE Add(k, f[k - 1])
<1>1. n \in Nat /\ Base \in Nat
  BY WidthAssumption, Widths
<1>2. ASSUME NEW k \in 1..n PROVE block[from + (k - 1)] \in Byte
  <2>1. from + (k - 1) \in Places
    BY WordPlaces
  <2> QED BY <2>1 DEF Block
<1> HIDE DEF n
<1>3. ASSUME NEW k \in 1..n, NEW v \in Nat PROVE Add(k, v) \in Nat
  <2>1. PICK b \in Nat : b = block[from + (k - 1)]
    BY <1>2, Widths DEF Byte
  <2>2. v * Base \in Nat
    BY <1>1
  <2>3. v * Base + b \in Nat
    BY <2>2
  <2> QED BY <2>1, <2>3
<1> DEFINE g == [k \in 1..n |-> [v \in Nat |-> Add(k, v)]]
<1>4. g \in [1..n -> [Nat -> Nat]]
  BY <1>3
<1>5. PICK f : IsLoop(f, n, Nat, 0, g)
  <2> HIDE DEF g
  <2>1. 0 \in Nat
    OBVIOUS
  <2> QED BY <1>1, <1>4, <2>1, LoopExists
<1>6. ASSUME NEW k \in 0..n PROVE f[k] = Step(f, k)
  <2>1. CASE k = 0
    BY <1>5, <2>1 DEF IsLoop
  <2>2. CASE k # 0
    <3>1. k \in 1..n /\ k - 1 \in 0..n
      BY <1>1, <2>2
    <3>2. f[k - 1] \in Nat
      BY <1>5, <3>1 DEF IsLoop
    <3>3. f[k] = Add(k, f[k - 1])
      <4> HIDE DEF Add
      <4> QED BY <1>5, <3>1, <3>2 DEF IsLoop
    <3> QED BY <2>2, <3>3
  <2> QED BY <2>1, <2>2
<1> DEFINE u == ReadBytes(block, from)
<1>7. u = [k \in 0..n |-> Step(u, k)]
  <2>1. f = [k \in 0..n |-> Step(f, k)]
    <3> HIDE DEF Step
    <3> QED BY <1>5, <1>6 DEF IsLoop
  <2>2. \E h : h = [k \in 0..n |-> Step(h, k)]
    BY <2>1
  <2> QED BY <2>2 DEF ReadBytes, n
<1> HIDE DEF u
<1>8. u[0] = 0 /\ \A k \in 1..n : u[k] = Add(k, u[k - 1])
  <2>1. \A k \in 0..n : u[k] = Step(u, k)
    BY <1>7
  <2>2. 0 \in 0..n
    BY <1>1
  <2>3. \A k \in 1..n : k \in 0..n /\ k # 0
    BY <1>1
  <2> HIDE DEF Add
  <2> QED BY <2>1, <2>2, <2>3
<1>9. \A k \in 0..n : u[k] \in Nat
  <2> DEFINE P == {k \in Nat : u[k] \in Nat}
  <2>1. 0 \in P
    BY <1>8
  <2>2. ASSUME NEW k \in 1..n, k - 1 \in P PROVE k \in P
    <3>1. u[k - 1] \in Nat
      BY <2>2
    <3> HIDE DEF Add
    <3> QED BY <1>3, <1>8, <3>1
  <2>3. P \in SUBSET Nat
    OBVIOUS
  <2> HIDE DEF P
  <2>4. \A k \in 0..n : k \in P
    BY <1>1, <2>1, <2>2, <2>3, LoopKeeps
  <2> QED BY <2>4 DEF P
<1> QED BY <1>2, <1>8, <1>9 DEF u, n

\* What has been read after k bytes is the whole word without the others.
LEMMA ReadShifted ==
  ASSUME NEW block \in Block, NEW w \in 1..4, NEW from \in Nat, from = (w - 1) * WordBytes
  PROVE  /\ \A j \in 0..WordBytes :
              Shifted(ReadBytes(block, from)[WordBytes], j)
                = ReadBytes(block, from)[WordBytes - j]
         /\ \A k \in 1..WordBytes :
              ReadBytes(block, from)[k] % Base = block[from + (k - 1)]
         /\ ReadBytes(block, from)[WordBytes] \in Word
<1>1. PICK n \in Nat : n = WordBytes
  BY WidthAssumption
<1>2. PICK u : u = ReadBytes(block, from)
  OBVIOUS
<1>3. /\ \A k \in 0..n : u[k] \in Nat
      /\ u[0] = 0
      /\ \A k \in 1..n : /\ block[from + (k - 1)] \in Byte
                         /\ u[k] = u[k - 1] * Base + block[from + (k - 1)]
  BY <1>1, <1>2, BytesRead
<1>4. Base \in Nat \ {0} /\ n \in 0..n
  BY Widths
<1>5. ASSUME NEW k \in 1..n
      PROVE  u[k] \div Base = u[k - 1] /\ u[k] % Base = block[from + (k - 1)]
  <2>1. k - 1 \in 0..n /\ k \in 0..n
    OBVIOUS
  <2>2. PICK q \in Nat : q = u[k - 1]
    BY <1>3, <2>1
  <2>3. PICK b \in 0..(Base - 1) : b = block[from + (k - 1)]
    BY <1>3 DEF Byte
  <2>4. PICK x \in Nat : x = u[k]
    BY <1>3, <2>1
  <2>5. x = q * Base + b
    BY <1>3, <2>2, <2>3, <2>4
  <2>6. x \div Base = q /\ x % Base = b
    BY <1>4, <2>5, OneDivision
  <2> QED BY <2>2, <2>3, <2>4, <2>6
<1>6. PICK x \in Nat : x = u[n]
  BY <1>3, <1>4
<1>7. \A j \in 0..n : Shifted(x, j) = u[n - j]
  <2> DEFINE P == {j \in Nat : Shifted(x, j) = u[n - j]}
  <2>1. 0 \in P
    <3>1. n - 0 = n /\ Shifted(x, 0) = x
      BY ShiftOne
    <3> QED BY <1>6, <3>1
  <2>2. ASSUME NEW j \in 1..n, j - 1 \in P PROVE j \in P
    <3>1. PICK i \in Nat : i = j - 1 /\ j = i + 1
      OBVIOUS
    <3>2. Shifted(x, i) = u[n - i] /\ Shifted(x, i + 1) = Shifted(x, i) \div Base
      BY <2>2, <3>1, ShiftOne
    <3>3. PICK k \in 1..n : k = n - i /\ k - 1 = n - j
      BY <3>1
    <3> QED BY <1>5, <3>1, <3>2, <3>3
  <2>3. P \in SUBSET Nat
    OBVIOUS
  <2> HIDE DEF P
  <2>4. \A j \in 0..n : j \in P
    BY <2>1, <2>2, <2>3, LoopKeeps
  <2> QED BY <2>4 DEF P
<1>8. x \in Word
  <2>1. Shifted(x, n) = 0
    <3>1. n - n = 0
      OBVIOUS
    <3> QED BY <1>3, <1>4, <1>7, <3>1
  <2>2. x \div Modulus = 0 /\ Modulus \in Nat \ {0}
    BY <1>1, <2>1, Widths DEF Shifted, Modulus, WordBits
  <2>3. x % Modulus \in 0..(Modulus - 1) /\ x = (x \div Modulus) * Modulus + (x % Modulus)
    BY <2>2, DivMod
  <2>4. x = x % Modulus
    <3>1. PICK r \in Nat : r = x % Modulus
      BY <2>2, <2>3
    <3>2. x = 0 * Modulus + r
      BY <2>2, <2>3, <3>1
    <3> QED BY <2>2, <3>1, <3>2
  <2> QED BY <2>3, <2>4 DEF Word
<1> QED BY <1>1, <1>2, <1>5, <1>6, <1>7, <1>8

\* A byte that to_be_bytes writes.
LEMMA ByteWritten ==
  ASSUME NEW m, \A w \in 1..4 : m[w] \in Nat
  PROVE  /\ BlockOf(m) \in Block
         /\ \A w \in 1..4, k \in 1..WordBytes :
              BlockOf(m)[(w - 1) * WordBytes + (k - 1)]
                = Shifted(m[w], WordBytes - k) % Base
<1>1. PICK n \in Nat \ {0} : n = WordBytes
  BY WidthAssumption
<1>2. Base \in Nat \ {0}
  BY Widths
<1> DEFINE Cell(p) == (m[(p \div n) + 1] \div 2^(ByteBits * (n - 1 - (p % n)))) % Base
<1>3. BlockOf(m) = [p \in Places |-> Cell(p)]
  BY <1>1 DEF BlockOf
<1>4. ASSUME NEW w \in 1..4, NEW k \in 1..n
      PROVE  Cell((w - 1) * n + (k - 1)) = Shifted(m[w], n - k) % Base
  <2>1. PICK p \in Places : /\ p = (w - 1) * n + (k - 1)
                            /\ p \div n = w - 1 /\ p % n = k - 1
    BY <1>1, WordPlaces
  <2>2. (w - 1) + 1 = w /\ n - 1 - (k - 1) = n - k
    OBVIOUS
  <2>3. Cell(p) = Shifted(m[w], n - k) % Base
    BY <2>1, <2>2 DEF Shifted
  <2> HIDE DEF Cell
  <2> QED BY <2>1, <2>3
<1>5. ASSUME NEW w \in 1..4, NEW k \in 1..n PROVE Shifted(m[w], n - k) % Base \in Byte
  <2>1. PICK x \in Nat : x = m[w]
    OBVIOUS
  <2>2. PICK j \in Nat : j = n - k
    OBVIOUS
  <2>3. PICK q \in Nat : q = Shifted(x, j)
    BY ShiftOne
  <2>4. q % Base \in 0..(Base - 1)
    BY <1>2, DivMod
  <2> QED BY <2>1, <2>2, <2>3, <2>4 DEF Byte
<1>6. \A p \in Places : \E w \in 1..4, k \in 1..n : p = (w - 1) * n + (k - 1)
  BY <1>1, WordPlaces
<1>7. \A w \in 1..4, k \in 1..n : (w - 1) * n + (k - 1) \in Places
  BY <1>1, WordPlaces
<1> HIDE DEF Cell
<1>8. \A p \in Places : Cell(p) \in Byte
  BY <1>4, <1>5, <1>6
<1>9. BlockOf(m) \in Block
  BY <1>3, <1>8 DEF Block
<1>10. \A w \in 1..4, k \in 1..n :
         BlockOf(m)[(w - 1) * n + (k - 1)] = Shifted(m[w], n - k) % Base
  BY <1>3, <1>4, <1>7
<1> QED BY <1>1, <1>9, <1>10

\* The bytes of a block are those of its words.
LEMMA BlockOfWords ==
  ASSUME NEW block \in Block
  PROVE  Words(block) \in Matrix /\ BlockOf(Words(block)) = block
<1>1. PICK n \in Nat \ {0} : n = WordBytes
  BY WidthAssumption
<1>2. PICK m : m = Words(block)
  OBVIOUS
<1>3. ASSUME NEW w \in 1..4
      PROVE  /\ m[w] \in Word
             /\ \A k \in 1..n :
                  Shifted(m[w], n - k) % Base = block[(w - 1) * n + (k - 1)]
  <2>1. PICK from \in Nat : from = (w - 1) * n
    <3>1. \A x, y \in Nat : x * y \in Nat
      OBVIOUS
    <3>2. w - 1 \in Nat
      OBVIOUS
    <3> QED BY <3>1, <3>2
  <2>2. m[w] = ReadBytes(block, from)[n]
    BY <1>1, <1>2, <2>1 DEF Words
  <2>3. /\ \A j \in 0..n : Shifted(m[w], j) = ReadBytes(block, from)[n - j]
        /\ \A k \in 1..n : ReadBytes(block, from)[k] % Base = block[from + (k - 1)]
        /\ m[w] \in Word
    BY <1>1, <2>1, <2>2, ReadShifted
  <2>4. \A k \in 1..n : n - k \in 0..n /\ n - (n - k) = k
    OBVIOUS
  <2> QED BY <2>1, <2>3, <2>4
<1>4. m \in Matrix
  <2>1. m = [w \in 1..4 |-> m[w]]
    BY <1>2 DEF Words
  <2> QED BY <1>3, <2>1 DEF Matrix
<1>5. Word \subseteq Nat
  BY Widths DEF Word
<1>6. \A w \in 1..4, k \in 1..n :
        BlockOf(m)[(w - 1) * n + (k - 1)] = Shifted(m[w], n - k) % Base
  BY <1>1, <1>3, <1>5, ByteWritten
<1>7. BlockOf(m) \in Block
  BY <1>3, <1>5, ByteWritten
<1>8. ASSUME NEW p \in Places PROVE BlockOf(m)[p] = block[p]
  <2>1. PICK w \in 1..4, k \in 1..n : p = (w - 1) * n + (k - 1)
    BY <1>1, WordPlaces
  <2> QED BY <1>3, <1>6, <2>1
<1>9. BlockOf(m) = block
  BY <1>7, <1>8 DEF Block
<1> QED BY <1>2, <1>4, <1>9

\* The words of a block are those it was written from.
LEMMA WordsOfBlock ==
  ASSUME NEW m \in Matrix
  PROVE  BlockOf(m) \in Block /\ Words(BlockOf(m)) = m
<1>1. PICK n \in Nat \ {0} : n = WordBytes
  BY WidthAssumption
<1>2. Word \subseteq Nat /\ Base \in Nat \ {0} /\ Modulus \in Nat \ {0}
  BY Widths DEF Word
<1>3. \A w \in 1..4 : m[w] \in Word
  BY DEF Matrix
<1>4. PICK block \in Block :
        /\ block = BlockOf(m)
        /\ \A w \in 1..4, k \in 1..n :
             block[(w - 1) * n + (k - 1)] = Shifted(m[w], n - k) % Base
  BY <1>1, <1>2, <1>3, ByteWritten
<1>5. ASSUME NEW w \in 1..4 PROVE Words(block)[w] = m[w]
  <2>1. PICK from \in Nat : from = (w - 1) * n
    <3>1. \A x, y \in Nat : x * y \in Nat
      OBVIOUS
    <3>2. w - 1 \in Nat
      OBVIOUS
    <3> QED BY <3>1, <3>2
  <2>2. PICK u : u = ReadBytes(block, from)
    OBVIOUS
  <2>3. Words(block)[w] = u[n]
    BY <1>1, <2>1, <2>2 DEF Words
  <2>4. u[0] = 0 /\ \A k \in 1..n : u[k] = u[k - 1] * Base + block[from + (k - 1)]
    BY <1>1, <2>1, <2>2, BytesRead
  <2>5. PICK x \in Word : x = m[w]
    BY <1>3
  <2>6. x \in Nat /\ x < Modulus
    BY <1>2 DEF Word
  <2>7. Shifted(x, n) = 0
    <3>1. x = 0 * Modulus + x /\ x \in 0..(Modulus - 1)
      BY <1>2, <2>6
    <3>2. x \div Modulus = 0
      BY <1>2, <2>6, <3>1, OneDivision
    <3> QED BY <1>1, <3>2 DEF Shifted, Modulus, WordBits
  <2> DEFINE P == {k \in Nat : u[k] = Shifted(x, n - k)}
  <2>8. 0 \in P
    <3>1. n - 0 = n
      OBVIOUS
    <3> QED BY <2>4, <2>7, <3>1
  <2>9. ASSUME NEW k \in 1..n, k - 1 \in P PROVE k \in P
    <3>1. PICK j \in Nat : j = n - k /\ n - (k - 1) = j + 1
      OBVIOUS
    <3>2. u[k - 1] = Shifted(x, j + 1)
      BY <2>9, <3>1
    <3>3. block[from + (k - 1)] = Shifted(x, j) % Base
      BY <1>4, <2>1, <2>5, <3>1
    <3>4. Shifted(x, j) = Shifted(x, j + 1) * Base + (Shifted(x, j) % Base)
      BY <2>6, ShiftOne
    <3> QED BY <2>4, <3>1, <3>2, <3>3, <3>4
  <2>10. P \in SUBSET Nat
    OBVIOUS
  <2>11. n \in P
    <3> HIDE DEF P
    <3>1. n \in 0..n
      OBVIOUS
    <3> QED BY <2>8, <2>9, <2>10, <3>1, LoopKeeps
  <2>12. u[n] = Shifted(x, 0)
    <3>1. n - n = 0
      OBVIOUS
    <3> QED BY <2>11, <3>1
  <2> QED BY <2>3, <2>5, <2>6, <2>12, ShiftOne
<1>6. Words(block) = [w \in 1..4 |-> Words(block)[w]]
  BY DEF Words
<1>7. m = [w \in 1..4 |-> m[w]]
  BY DEF Matrix
<1> QED BY <1>4, <1>5, <1>6, <1>7

-----------------------------------------------------------------------------
(* Arithmetic of words.                                                    *)

\* Numbers modulo a word.
LEMMA WrapIs ==
  /\ Word \subseteq Nat /\ 0 \in Word /\ 1 \in Word
  /\ \A n \in Nat : /\ Wrap(n) \in Word
                    /\ Cong(Wrap(n), n, Modulus)
                    /\ n \in Word => Wrap(n) = n
  /\ \A n, p \in Nat : Cong(n, p, Modulus) => Wrap(n) = Wrap(p)
<1>1. PICK h \in Nat \ {0} : Modulus = 2 * h
  BY Widths
<1>2. Modulus \in Nat \ {0} /\ Word = 0..(Modulus - 1) /\ Modulus >= 2
  BY <1>1 DEF Word
<1>3. ASSUME NEW n \in Nat
      PROVE  /\ Wrap(n) \in Word /\ Cong(Wrap(n), n, Modulus)
             /\ n \in Word => Wrap(n) = n
  <2>1. n % Modulus \in 0..(Modulus - 1) /\ Cong(n % Modulus, n, Modulus)
    BY <1>2, CongMod
  <2>2. ASSUME n \in Word PROVE n % Modulus = n
    <3>1. n < Modulus
      BY <1>2, <2>2
    <3> QED BY <1>2, <3>1, CongMod
  <2> QED BY <1>2, <2>1, <2>2 DEF Wrap
<1>4. ASSUME NEW n \in Nat, NEW p \in Nat, Cong(n, p, Modulus)
      PROVE  Wrap(n) = Wrap(p)
  BY <1>2, <1>4, CongMod DEF Wrap
<1> QED BY <1>2, <1>3, <1>4

\* A negative number, in two's complement.
LEMMA NegativeIs ==
  ASSUME NEW n \in Word
  PROVE  Negative(n) \in Word /\ Cong(Negative(n), -n, Modulus)
<1>1. Modulus \in Nat /\ n \in Nat /\ n < Modulus
  BY Widths DEF Word
<1>2. PICK p \in Nat : p = Modulus - n
  BY <1>1
<1>3. PICK w \in Word : w = Wrap(p) /\ Cong(w, p, Modulus)
  BY WrapIs
<1>4. Cong(p, -n, Modulus)
  <2>1. p = -n + 1 * Modulus
    BY <1>1, <1>2
  <2> QED BY <2>1 DEF Cong
<1>5. w \in Int /\ -n \in Int /\ Modulus \in Int
  BY <1>1, WrapIs
<1>6. Cong(w, -n, Modulus)
  BY <1>3, <1>4, <1>5, CongClass
<1> QED BY <1>2, <1>3, <1>6 DEF Negative

\* A sum of two products does not mind multiples in its factors.
LEMMA CongProducts ==
  ASSUME NEW x \in Int, NEW y \in Int, NEW u \in Int, NEW v \in Int,
         NEW c \in Int, NEW d \in Int, Cong(x, u, Modulus), Cong(y, v, Modulus)
  PROVE  Cong(x * c + y * d, u * c + v * d, Modulus)
<1>1. Modulus \in Int
  BY Widths
<1>2. Cong(c, c, Modulus) /\ Cong(d, d, Modulus)
  BY <1>1, CongClass
<1>3. Cong(x * c, u * c, Modulus) /\ Cong(y * d, v * d, Modulus)
  BY <1>1, <1>2, CongRing
<1>4. PICK p \in Int, q \in Int, r \in Int, s \in Int :
        p = x * c /\ q = y * d /\ r = u * c /\ s = v * d
  BY Products
<1>5. Cong(p + q, r + s, Modulus)
  BY <1>1, <1>3, <1>4, CongRing
<1> QED BY <1>4, <1>5

\* The words of a sum of two products of words.
LEMMA WrapProducts ==
  ASSUME NEW p \in Nat, NEW q \in Nat, NEW c \in Nat, NEW d \in Nat
  PROVE  /\ Wrap(Wrap(p) * c + Wrap(q) * d) = Wrap(p * c + q * d)
         /\ Wrap(c * Wrap(p) + d * Wrap(q)) = Wrap(c * p + d * q)
<1>1. PICK x \in Nat : x = Wrap(p) /\ Cong(x, p, Modulus)
  BY WrapIs
<1>2. PICK y \in Nat : y = Wrap(q) /\ Cong(y, q, Modulus)
  BY WrapIs
<1>3. Cong(x * c + y * d, p * c + q * d, Modulus)
  <2>1. x \in Int /\ y \in Int /\ p \in Int /\ q \in Int /\ c \in Int /\ d \in Int
    OBVIOUS
  <2> QED BY <1>1, <1>2, <2>1, CongProducts
<1>4. PICK m \in Nat : m = x * c + y * d
  BY Products
<1>5. PICK n \in Nat : n = p * c + q * d
  BY Products
<1>6. Wrap(m) = Wrap(n)
  BY <1>3, <1>4, <1>5, WrapIs
<1>7. m = c * x + d * y /\ n = c * p + d * q
  BY <1>4, <1>5, Products
<1> QED BY <1>1, <1>2, <1>4, <1>5, <1>6, <1>7

-----------------------------------------------------------------------------
(* Matrices.                                                               *)

One == <<1, 0, 0, 1>>

\* A row times a column.
Dot(a, b, c, d) == Wrap(a * c + b * d)

\* A matrix is its four entries.
LEMMA Entries ==
  /\ \A a, b, c, d \in Word :
       /\ <<a, b, c, d>> \in Matrix
       /\ <<a, b, c, d>>[1] = a /\ <<a, b, c, d>>[2] = b
       /\ <<a, b, c, d>>[3] = c /\ <<a, b, c, d>>[4] = d
  /\ \A m \in Matrix : m[1] \in Word /\ m[2] \in Word /\ m[3] \in Word /\ m[4] \in Word
  /\ \A m, n \in Matrix :
       m[1] = n[1] /\ m[2] = n[2] /\ m[3] = n[3] /\ m[4] = n[4] => m = n
<1>1. ASSUME NEW a \in Word, NEW b \in Word, NEW c \in Word, NEW d \in Word
      PROVE  /\ <<a, b, c, d>> \in Matrix
             /\ <<a, b, c, d>>[1] = a /\ <<a, b, c, d>>[2] = b
             /\ <<a, b, c, d>>[3] = c /\ <<a, b, c, d>>[4] = d
  <2>1. <<a, b, c, d>> \in Seq(Word) /\ Len(<<a, b, c, d>>) = 4
    OBVIOUS
  <2>2. <<a, b, c, d>> \in [1..4 -> Word]
    BY <2>1
  <2> QED BY <2>2 DEF Matrix
<1>2. 1 \in 1..4 /\ 2 \in 1..4 /\ 3 \in 1..4 /\ 4 \in 1..4
      /\ \A k \in 1..4 : k = 1 \/ k = 2 \/ k = 3 \/ k = 4
  OBVIOUS
<1>3. ASSUME NEW m \in Matrix
      PROVE  m[1] \in Word /\ m[2] \in Word /\ m[3] \in Word /\ m[4] \in Word
  BY <1>2 DEF Matrix
<1>4. ASSUME NEW m \in Matrix, NEW n \in Matrix,
             m[1] = n[1], m[2] = n[2], m[3] = n[3], m[4] = n[4]
      PROVE  m = n
  <2>1. \A k \in 1..4 : m[k] = n[k]
    BY <1>2, <1>4
  <2> QED BY <2>1 DEF Matrix
<1> QED BY <1>1, <1>3, <1>4

\* What matrix_mul gives.
LEMMA MulIs ==
  ASSUME NEW l \in Matrix, NEW r \in Matrix
  PROVE  /\ MatrixMul(l, r) \in Matrix
         /\ MatrixMul(l, r)[1] = Dot(l[1], l[2], r[1], r[3])
         /\ MatrixMul(l, r)[2] = Dot(l[1], l[2], r[2], r[4])
         /\ MatrixMul(l, r)[3] = Dot(l[3], l[4], r[1], r[3])
         /\ MatrixMul(l, r)[4] = Dot(l[3], l[4], r[2], r[4])
<1>1. \A k \in {1, 2, 3, 4} : l[k] \in Nat /\ r[k] \in Nat
  BY Entries, WrapIs
<1>2. ASSUME NEW a \in Nat, NEW b \in Nat, NEW c \in Nat, NEW d \in Nat
      PROVE  Wrap(a * b + c * d) \in Word
  <2>1. PICK n \in Nat : n = a * b + c * d
    BY Products
  <2> QED BY <2>1, WrapIs
<1>3. PICK a \in Word : a = Wrap(l[1] * r[1] + l[2] * r[3])
  BY <1>1, <1>2
<1>4. PICK b \in Word : b = Wrap(l[1] * r[2] + l[2] * r[4])
  BY <1>1, <1>2
<1>5. PICK c \in Word : c = Wrap(l[3] * r[1] + l[4] * r[3])
  BY <1>1, <1>2
<1>6. PICK d \in Word : d = Wrap(l[3] * r[2] + l[4] * r[4])
  BY <1>1, <1>2
<1>7. MatrixMul(l, r) = <<a, b, c, d>>
  BY <1>3, <1>4, <1>5, <1>6 DEF MatrixMul
<1> QED BY <1>3, <1>4, <1>5, <1>6, <1>7, Entries DEF Dot

\* A row times a matrix times a column, with the first product first or last.
Associates(a, b, p, q, r, s, c, d) ==
  Dot(Dot(a, b, p, r), Dot(a, b, q, s), c, d)
    = Dot(a, b, Dot(p, q, c, d), Dot(r, s, c, d))

\* An entry of a product of three matrices is the same either way.
LEMMA EntryAssociates ==
  ASSUME NEW a \in Nat, NEW b \in Nat, NEW p \in Nat, NEW q \in Nat,
         NEW r \in Nat, NEW s \in Nat, NEW c \in Nat, NEW d \in Nat
  PROVE  Associates(a, b, p, q, r, s, c, d)
<1>1. PICK e \in Nat : e = a * p + b * r
  BY Products
<1>2. PICK f \in Nat : f = a * q + b * s
  BY Products
<1>3. PICK g \in Nat : g = p * c + q * d
  BY Products
<1>4. PICK h \in Nat : h = r * c + s * d
  BY Products
<1>5. Wrap(Wrap(e) * c + Wrap(f) * d) = Wrap(e * c + f * d)
  BY WrapProducts
<1>6. Wrap(a * Wrap(g) + b * Wrap(h)) = Wrap(a * g + b * h)
  BY WrapProducts
<1>7. e * c + f * d = a * g + b * h
  <2>1. (a * p + b * r) * c + (a * q + b * s) * d
          = a * (p * c + q * d) + b * (r * c + s * d)
    OBVIOUS
  <2> QED BY <1>1, <1>2, <1>3, <1>4, <2>1
<1> QED BY <1>1, <1>2, <1>3, <1>4, <1>5, <1>6, <1>7 DEF Associates, Dot

\* Products of matrices associate.
LEMMA MulAssociates ==
  ASSUME NEW l \in Matrix, NEW m \in Matrix, NEW r \in Matrix
  PROVE  MatrixMul(MatrixMul(l, m), r) = MatrixMul(l, MatrixMul(m, r))
<1>0. \A k \in {1, 2, 3, 4} : l[k] \in Nat /\ m[k] \in Nat /\ r[k] \in Nat
  BY Entries, WrapIs
<1>a. PICK l1 \in Nat, l2 \in Nat, l3 \in Nat, l4 \in Nat :
        l1 = l[1] /\ l2 = l[2] /\ l3 = l[3] /\ l4 = l[4]
  BY <1>0
<1>b. PICK m1 \in Nat, m2 \in Nat, m3 \in Nat, m4 \in Nat :
        m1 = m[1] /\ m2 = m[2] /\ m3 = m[3] /\ m4 = m[4]
  BY <1>0
<1>1. PICK r1 \in Nat, r2 \in Nat, r3 \in Nat, r4 \in Nat :
        r1 = r[1] /\ r2 = r[2] /\ r3 = r[3] /\ r4 = r[4]
  BY <1>0
<1>2. PICK x \in Matrix : x = MatrixMul(l, m)
  BY MulIs
<1>3. PICK y \in Matrix : y = MatrixMul(m, r)
  BY MulIs
<1>4. PICK u \in Matrix : u = MatrixMul(x, r)
  BY MulIs
<1>5. PICK v \in Matrix : v = MatrixMul(l, y)
  BY MulIs
<1>6. /\ x[1] = Dot(l1, l2, m1, m3)
      /\ x[2] = Dot(l1, l2, m2, m4)
      /\ x[3] = Dot(l3, l4, m1, m3)
      /\ x[4] = Dot(l3, l4, m2, m4)
  BY <1>a, <1>b, <1>2, MulIs
<1>7. /\ y[1] = Dot(m1, m2, r1, r3)
      /\ y[2] = Dot(m1, m2, r2, r4)
      /\ y[3] = Dot(m3, m4, r1, r3)
      /\ y[4] = Dot(m3, m4, r2, r4)
  BY <1>b, <1>1, <1>3, MulIs
<1>8. /\ u[1] = Dot(x[1], x[2], r1, r3)
      /\ u[2] = Dot(x[1], x[2], r2, r4)
      /\ u[3] = Dot(x[3], x[4], r1, r3)
      /\ u[4] = Dot(x[3], x[4], r2, r4)
  BY <1>1, <1>4, MulIs
<1>9. /\ v[1] = Dot(l1, l2, y[1], y[3])
      /\ v[2] = Dot(l1, l2, y[2], y[4])
      /\ v[3] = Dot(l3, l4, y[1], y[3])
      /\ v[4] = Dot(l3, l4, y[2], y[4])
  BY <1>a, <1>5, MulIs
<1>10. u[1] = v[1]
  <2>1. Associates(l1, l2, m1, m2, m3, m4, r1, r3)
    BY EntryAssociates
  <2> QED BY <1>6, <1>7, <1>8, <1>9, <2>1 DEF Associates
<1>11. u[2] = v[2]
  <2>1. Associates(l1, l2, m1, m2, m3, m4, r2, r4)
    BY EntryAssociates
  <2> QED BY <1>6, <1>7, <1>8, <1>9, <2>1 DEF Associates
<1>12. u[3] = v[3]
  <2>1. Associates(l3, l4, m1, m2, m3, m4, r1, r3)
    BY EntryAssociates
  <2> QED BY <1>6, <1>7, <1>8, <1>9, <2>1 DEF Associates
<1>13. u[4] = v[4]
  <2>1. Associates(l3, l4, m1, m2, m3, m4, r2, r4)
    BY EntryAssociates
  <2> QED BY <1>6, <1>7, <1>8, <1>9, <2>1 DEF Associates
<1>14. u = v
  BY <1>10, <1>11, <1>12, <1>13, Entries
<1> QED BY <1>2, <1>3, <1>4, <1>5, <1>14

\* The identity.
LEMMA MulOne ==
  ASSUME NEW m \in Matrix
  PROVE  One \in Matrix /\ MatrixMul(m, One) = m /\ MatrixMul(One, m) = m
<1>1. PICK o \in Matrix : o = One /\ o[1] = 1 /\ o[2] = 0 /\ o[3] = 0 /\ o[4] = 1
  <2>1. PICK i \in Word, z \in Word : i = 1 /\ z = 0
    BY WrapIs
  <2>2. /\ <<i, z, z, i>> \in Matrix
        /\ <<i, z, z, i>>[1] = i /\ <<i, z, z, i>>[2] = z
        /\ <<i, z, z, i>>[3] = z /\ <<i, z, z, i>>[4] = i
    BY Entries
  <2> QED BY <2>1, <2>2 DEF One
<1>2. PICK a \in Word, b \in Word, c \in Word, d \in Word :
        a = m[1] /\ b = m[2] /\ c = m[3] /\ d = m[4]
  BY Entries
<1>3. a \in Nat /\ b \in Nat /\ c \in Nat /\ d \in Nat
      /\ Wrap(a) = a /\ Wrap(b) = b /\ Wrap(c) = c /\ Wrap(d) = d
  BY WrapIs
<1>4. PICK x \in Matrix : x = MatrixMul(m, o)
  BY MulIs
<1>5. PICK y \in Matrix : y = MatrixMul(o, m)
  BY MulIs
<1>6. /\ a * 1 + b * 0 = a /\ a * 0 + b * 1 = b
      /\ c * 1 + d * 0 = c /\ c * 0 + d * 1 = d
      /\ 1 * a + 0 * c = a /\ 1 * b + 0 * d = b
      /\ 0 * a + 1 * c = c /\ 0 * b + 1 * d = d
  BY <1>3
<1>7. x[1] = a /\ x[2] = b /\ x[3] = c /\ x[4] = d
  BY <1>1, <1>2, <1>3, <1>4, <1>6, MulIs DEF Dot
<1>8. y[1] = a /\ y[2] = b /\ y[3] = c /\ y[4] = d
  BY <1>1, <1>2, <1>3, <1>5, <1>6, MulIs DEF Dot
<1>9. x = m
  BY <1>2, <1>7, Entries
<1>10. y = m
  BY <1>2, <1>8, Entries
<1> QED BY <1>1, <1>4, <1>5, <1>9, <1>10

\* A number made even, which version 4 adds one to and Odd adds one to.
LEMMA Parity ==
  ASSUME NEW h \in Nat \ {0}, NEW n \in 0..(2 * h - 1)
  PROVE  \E j \in 0..(h - 1) : Even(n) = 2 * j /\ Odd(n) = 2 * j + 1
<1>1. PICK j \in Nat, b \in 0..1 : n = j * 2 + b /\ b = n % 2
  <2>1. n \in Nat /\ 2 \in Nat \ {0} /\ 2 - 1 = 1
    OBVIOUS
  <2> QED BY <2>1, DivMod
<1>2. j \in 0..(h - 1)
  BY <1>1
<1>3. n - b = 2 * j /\ n - b + 1 = 2 * j + 1
  BY <1>1
<1> QED BY <1>1, <1>2, <1>3 DEF Even, Odd

\* The matrix of a seed is odd on its diagonal and even off it.
LEMMA SeedMatrix ==
  ASSUME NEW m \in Matrix
  PROVE  /\ MatrixFrom(m) \in Matrix
         /\ Cong(MatrixFrom(m)[1], 1, 2) /\ Cong(MatrixFrom(m)[4], 1, 2)
         /\ Cong(MatrixFrom(m)[2], 0, 2) /\ Cong(MatrixFrom(m)[3], 0, 2)
<1>1. PICK h \in Nat \ {0} : Modulus = 2 * h
  BY Widths
<1>2. ASSUME NEW n \in Word
      PROVE  /\ \E w \in Word : w = Even(n) /\ Cong(w, 0, 2)
             /\ \E w \in Word : w = Even(n) + 1 /\ Cong(w, 1, 2)
  <2>1. n \in 0..(2 * h - 1)
    BY <1>1 DEF Word
  <2>2. PICK j \in 0..(h - 1) : Even(n) = 2 * j
    BY <2>1, Parity
  <2>3. 2 * j \in Word /\ 2 * j + 1 \in Word
    BY <1>1 DEF Word
  <2>4. j \in Int /\ 2 * j = 0 + j * 2 /\ 2 * j + 1 = 1 + j * 2
    OBVIOUS
  <2> QED BY <2>2, <2>3, <2>4 DEF Cong
<1>3. m[1] \in Word /\ m[2] \in Word /\ m[3] \in Word /\ m[4] \in Word
  BY Entries
<1>4. PICK a \in Word : a = Even(m[1]) + 1 /\ Cong(a, 1, 2)
  BY <1>2, <1>3
<1>5. PICK b \in Word : b = Even(m[2]) /\ Cong(b, 0, 2)
  BY <1>2, <1>3
<1>6. PICK c \in Word : c = Even(m[3]) /\ Cong(c, 0, 2)
  BY <1>2, <1>3
<1>7. PICK d \in Word : d = Even(m[4]) + 1 /\ Cong(d, 1, 2)
  BY <1>2, <1>3
<1>8. MatrixFrom(m) = <<a, b, c, d>>
  BY <1>4, <1>5, <1>6, <1>7 DEF MatrixFrom
<1> QED BY <1>4, <1>5, <1>6, <1>7, <1>8, Entries

\* The determinant, modulo a word.
LEMMA DetIs ==
  ASSUME NEW m \in Matrix, NEW a \in Nat, NEW b \in Nat, NEW c \in Nat, NEW d \in Nat,
         a = m[1], b = m[2], c = m[3], d = m[4]
  PROVE  /\ Det(m) \in Word
         /\ Cong(Det(m), a * d - b * c, Modulus)
<1>1. PICK p \in Nat : p = a * d
  BY Products
<1>2. PICK q \in Nat : q = b * c
  BY Products
<1>3. PICK x \in Word : x = Wrap(p) /\ Cong(x, p, Modulus)
  BY WrapIs
<1>4. PICK y \in Word : y = Wrap(q) /\ Cong(y, q, Modulus)
  BY WrapIs
<1>5. PICK z \in Word : z = Negative(y) /\ Cong(z, -y, Modulus)
  BY NegativeIs
<1>6. Modulus \in Int /\ x \in Int /\ y \in Int /\ z \in Int /\ x \in Nat /\ z \in Nat
  BY Widths, WrapIs
<1>7. PICK s \in Nat : s = x + z
  BY <1>6
<1>8. PICK w \in Word : w = Wrap(s) /\ Cong(w, s, Modulus)
  BY WrapIs
<1>9. w \in Int
  BY WrapIs
<1>10. Cong(z, 0 - q, Modulus)
  <2>1. Cong(0, 0, Modulus)
    BY <1>6, CongClass
  <2>2. Cong(0 - y, 0 - q, Modulus)
    BY <2>1, <1>4, <1>6, CongRing
  <2>3. PICK u \in Int, v \in Int : u = 0 - y /\ v = 0 - q /\ u = -y
    BY <1>6
  <2>4. Cong(z, v, Modulus)
    BY <1>5, <1>6, <2>2, <2>3, CongClass
  <2> QED BY <2>3, <2>4
<1>11. PICK v \in Int, t \in Int : v = 0 - q /\ t = p + v /\ t = p - q
  OBVIOUS
<1>12. Cong(s, t, Modulus)
  <2>1. Cong(x + z, p + v, Modulus)
    BY <1>3, <1>6, <1>10, <1>11, CongRing
  <2> QED BY <1>7, <1>11, <2>1
<1>13. Cong(w, t, Modulus)
  BY <1>6, <1>8, <1>9, <1>12, CongClass
<1>14. Det(m) = w
  BY <1>1, <1>2, <1>3, <1>4, <1>5, <1>7, <1>8 DEF Det
<1> QED BY <1>1, <1>2, <1>8, <1>11, <1>13, <1>14

\* That of the matrix of a seed is odd.
LEMMA DetOdd ==
  ASSUME NEW m \in Matrix, Cong(m[1], 1, 2), Cong(m[4], 1, 2),
         Cong(m[2], 0, 2), Cong(m[3], 0, 2)
  PROVE  Cong(Det(m), 1, 2)
<1>1. \A k \in {1, 2, 3, 4} : m[k] \in Nat
  BY Entries, WrapIs
<1>2. PICK a \in Nat, b \in Nat, c \in Nat, d \in Nat :
        a = m[1] /\ b = m[2] /\ c = m[3] /\ d = m[4]
  BY <1>1
<1>3. PICK i \in Int : a = 1 + i * 2
  BY <1>2 DEF Cong
<1>4. PICK j \in Int : d = 1 + j * 2
  BY <1>2 DEF Cong
<1>5. PICK k \in Int : b = 0 + k * 2
  BY <1>2 DEF Cong
<1>6. PICK t \in Int, w \in Int : t = a * d - b * c /\ w = Det(m) /\ Cong(w, t, Modulus)
  <2>1. Det(m) \in Word /\ Cong(Det(m), a * d - b * c, Modulus)
    BY <1>2, DetIs
  <2>2. PICK t \in Int : t = a * d - b * c
    OBVIOUS
  <2>3. PICK w \in Word : w = Det(m)
    BY <2>1
  <2>4. w \in Int
    BY WrapIs
  <2> QED BY <2>1, <2>2, <2>3, <2>4
<1>7. PICK h \in Nat : Modulus = 2 * h
  BY Widths
<1>8. PICK n \in Int : w = t + n * (2 * h)
  BY <1>6, <1>7 DEF Cong
<1>9. PICK e \in Int, f \in Int, g \in Int : e = i * (2 * j) /\ f = k * c /\ g = n * h
  BY Products
<1>10. t = 1 + (i + j + e - f) * 2
  <2>1. a * d = (1 + i * 2) * (1 + j * 2)
    BY <1>3, <1>4
  <2>2. (1 + i * 2) * (1 + j * 2) = 1 + (i + j + i * (2 * j)) * 2
    OBVIOUS
  <2>3. b * c = (k * c) * 2
    BY <1>5
  <2>4. PICK p \in Int, q \in Int : p = a * d /\ q = b * c
    OBVIOUS
  <2>5. p = 1 + (i + j + e) * 2
    BY <1>9, <2>1, <2>2, <2>4
  <2>6. q = f * 2
    BY <1>9, <2>3, <2>4
  <2> QED BY <1>6, <2>4, <2>5, <2>6
<1>11. n * (2 * h) = g * 2
  BY <1>9
<1>12. w = 1 + (i + j + e - f + g) * 2
  BY <1>8, <1>10, <1>11
<1>13. i + j + e - f + g \in Int
  OBVIOUS
<1> QED BY <1>6, <1>12, <1>13 DEF Cong

-----------------------------------------------------------------------------
(* modinv_odd_u64.                                                         *)

\* The inverse is right modulo P, and a word.
Near(a, x, P) == \E k \in Int : Cong(a * x, 1 + k * P, Modulus)

Turned(a, x) == Wrap(x * Wrap(2 + Negative(Wrap(a * x))))

\* One turn makes it right modulo the square: (1 + k)(1 - k) = 1 - k * k.
LEMMA TurnSquares ==
  ASSUME NEW a \in Word, NEW x \in Word, NEW P \in Nat, Near(a, x, P)
  PROVE  Turned(a, x) \in Word /\ Near(a, Turned(a, x), P * P)
<1>0. Modulus \in Int /\ a \in Nat /\ x \in Nat
  BY Widths, WrapIs
<1>1. PICK e \in Nat : e = a * x
  BY <1>0, Products
<1>2. PICK w \in Word : w = Wrap(e) /\ Cong(w, e, Modulus)
  BY WrapIs
<1>3. PICK n \in Word : n = Negative(w) /\ Cong(n, -w, Modulus)
  BY NegativeIs
<1>4. w \in Int /\ n \in Int /\ n \in Nat
  BY WrapIs
<1>5. PICK g \in Nat : g = 2 + n
  BY <1>4
<1>6. PICK v \in Word : v = Wrap(g) /\ Cong(v, g, Modulus)
  BY WrapIs
<1>7. v \in Nat
  BY WrapIs
<1>8. PICK y \in Nat : y = x * v
  BY <1>0, <1>7, Products
<1>9. PICK z \in Word : z = Wrap(y) /\ Cong(z, y, Modulus)
  BY WrapIs
<1>10. z \in Int
  BY WrapIs
<1>11. z = Turned(a, x)
  BY <1>1, <1>2, <1>3, <1>5, <1>6, <1>8, <1>9 DEF Turned
<1>12. PICK m \in Int : m = 2 - e
  OBVIOUS
<1>13. Cong(g, m, Modulus)
  <2>1. PICK u \in Int, t \in Int : u = -w /\ t = 2 - w
    BY <1>4
  <2>2. Cong(2, 2, Modulus)
    BY <1>0, CongClass
  <2>3. Cong(2 + n, 2 + u, Modulus)
    BY <1>0, <1>3, <1>4, <2>1, <2>2, CongRing
  <2>4. Cong(2 - w, 2 - e, Modulus)
    BY <1>0, <1>2, <1>4, <2>2, CongRing
  <2>5. Cong(g, t, Modulus)
    <3>1. 2 + u = t
      BY <1>4, <2>1
    <3> QED BY <1>5, <2>3, <3>1
  <2>6. Cong(t, m, Modulus)
    BY <1>12, <2>1, <2>4
  <2> QED BY <1>0, <2>1, <2>5, <2>6, CongClass
<1>14. Cong(v, m, Modulus)
  BY <1>0, <1>6, <1>7, <1>13, CongClass
<1>15. PICK r \in Int : r = x * m
  BY <1>0, Products
<1>16. Cong(y, r, Modulus)
  <2>1. Cong(x, x, Modulus)
    BY <1>0, CongClass
  <2>2. Cong(x * v, x * m, Modulus)
    BY <1>0, <1>7, <1>14, <2>1, CongRing
  <2> QED BY <1>8, <1>15, <2>2
<1>17. Cong(z, r, Modulus)
  BY <1>0, <1>9, <1>10, <1>16, CongClass
<1>18. Cong(a * z, e * m, Modulus)
  <2>1. Cong(a, a, Modulus)
    BY <1>0, CongClass
  <2>2. Cong(a * z, a * r, Modulus)
    BY <1>0, <1>10, <1>17, <2>1, CongRing
  <2>3. a * r = e * m
    BY <1>0, <1>1, <1>15, Products
  <2> QED BY <2>2, <2>3
<1>19. PICK k \in Int : Cong(e, 1 + k * P, Modulus)
  BY <1>1 DEF Near
<1>20. PICK i \in Int : i = k * P
  BY Products
<1>21. PICK f \in Int : f = 1 + i
  OBVIOUS
<1>22. Cong(e * m, f * (2 - f), Modulus)
  <2>1. Cong(2, 2, Modulus)
    BY <1>0, CongClass
  <2>2. Cong(e, f, Modulus)
    BY <1>19, <1>20, <1>21
  <2>3. Cong(2 - e, 2 - f, Modulus)
    BY <1>0, <2>1, <2>2, CongRing
  <2>4. PICK j \in Int : j = 2 - f
    OBVIOUS
  <2>5. Cong(e * m, f * j, Modulus)
    BY <1>0, <1>12, <2>2, <2>3, <2>4, CongRing
  <2> QED BY <2>4, <2>5
<1>23. f * (2 - f) = 1 + (-(k * k)) * (P * P)
  <2>1. f * (2 - f) = 1 - i * i
    BY <1>21
  <2>2. (k * P) * (k * P) = (k * k) * (P * P)
    OBVIOUS
  <2>3. PICK s \in Int, t \in Int : s = k * k /\ t = P * P
    BY Products
  <2>4. 1 - s * t = 1 + (-s) * t
    OBVIOUS
  <2> QED BY <1>20, <2>1, <2>2, <2>3, <2>4
<1>24. Near(a, z, P * P)
  <2>1. PICK s \in Int, t \in Int : s = -(k * k) /\ t = P * P
    BY Products
  <2>2. PICK o \in Int, q \in Int, u \in Int : o = a * z /\ q = e * m /\ u = 1 + s * t
    BY <1>0, <1>10, Products
  <2>3. Cong(o, q, Modulus) /\ Cong(q, u, Modulus)
    BY <1>18, <1>22, <1>23, <2>1, <2>2
  <2>4. Cong(o, u, Modulus)
    BY <1>0, <2>3, CongClass
  <2> QED BY <2>1, <2>2, <2>4 DEF Near
<1> QED BY <1>11, <1>24

\* modinv_odd_u64 as a loop.
LEMMA NewtonIs ==
  ASSUME NEW a \in Word
  PROVE  /\ Newton(a) \in [0..NewtonSteps -> Word]
         /\ Newton(a)[0] = 1
         /\ \A n \in 1..NewtonSteps : Newton(a)[n] = Turned(a, Newton(a)[n - 1])
<1> DEFINE Step(x, n) == IF n = 0 THEN 1 ELSE Turned(a, x[n - 1])
<1> DEFINE Def(x) == x = [n \in 0..NewtonSteps |-> Step(x, n)]
<1> DEFINE g == [n \in 1..NewtonSteps |-> [x \in Word |-> Turned(a, x)]]
<1>1. Newton(a) = CHOOSE x : Def(x)
  BY DEF Newton, Turned
<1>2. NewtonSteps \in Nat /\ 1 \in Word /\ Modulus \in Nat
  BY WidthAssumption, WrapIs, Widths
<1>3. ASSUME NEW x \in Word PROVE Turned(a, x) \in Word
  <2>1. a \in Nat /\ x \in Nat
    BY WrapIs
  <2>2. PICK e \in Nat : e = a * x
    BY <2>1, Products
  <2>3. PICK w \in Word : w = Wrap(e)
    BY WrapIs
  <2>4. PICK n \in Nat : n = Negative(w)
    BY NegativeIs, WrapIs
  <2>5. PICK s \in Nat : s = 2 + n
    OBVIOUS
  <2>6. PICK v \in Nat : v = Wrap(s)
    BY WrapIs
  <2>7. PICK y \in Nat : y = x * v
    BY <2>1, Products
  <2> QED BY <2>2, <2>3, <2>4, <2>5, <2>6, <2>7, WrapIs DEF Turned
<1>4. g \in [1..NewtonSteps -> [Word -> Word]]
  BY <1>3
<1>5. \A n \in 1..NewtonSteps, x \in Word : g[n][x] = Turned(a, x)
  OBVIOUS
<1> HIDE DEF g
<1>6. PICK f : IsLoop(f, NewtonSteps, Word, 1, g)
  BY <1>2, <1>4, LoopExists
<1>7. \A n \in 1..NewtonSteps : n - 1 \in 0..NewtonSteps /\ n # 0
  BY <1>2
<1>8. Def(f)
  <2>1. f \in [0..NewtonSteps -> Word] /\ f[0] = 1
        /\ \A n \in 1..NewtonSteps : f[n] = g[n][f[n - 1]]
    BY <1>6 DEF IsLoop
  <2>2. ASSUME NEW n \in 0..NewtonSteps PROVE f[n] = Step(f, n)
    <3>1. CASE n = 0
      BY <2>1, <3>1
    <3>2. CASE n # 0
      <4>1. n \in 1..NewtonSteps
        BY <1>2, <3>2
      <4>2. n - 1 \in 0..NewtonSteps
        BY <1>7, <4>1
      <4> QED BY <1>5, <2>1, <3>2, <4>1, <4>2
    <3> QED BY <3>1, <3>2
  <2> HIDE DEF Step
  <2> QED BY <2>1, <2>2
<1>9. PICK x : x = Newton(a) /\ Def(x)
  <2> HIDE DEF Def
  <2> QED BY <1>1, <1>8
<1>10. 0 \in 0..NewtonSteps /\ \A n \in 1..NewtonSteps : n \in 0..NewtonSteps
  BY <1>2
<1>11. x[0] = 1 /\ \A n \in 1..NewtonSteps : x[n] = Turned(a, x[n - 1])
  BY <1>7, <1>9, <1>10
<1> DEFINE S == {n \in Nat : x[n] \in Word}
<1>12. \A n \in 0..NewtonSteps : n \in S
  <2>1. 0 \in S /\ S \in SUBSET Nat
    BY <1>2, <1>11
  <2>2. ASSUME NEW n \in 1..NewtonSteps, n - 1 \in S PROVE n \in S
    BY <1>3, <1>11, <2>2
  <2> HIDE DEF S
  <2> QED BY <1>2, <2>1, <2>2, LoopKeeps
<1>13. x \in [0..NewtonSteps -> Word]
  <2>1. x = [n \in 0..NewtonSteps |-> x[n]]
    BY <1>9
  <2>2. \A n \in 0..NewtonSteps : x[n] \in Word
    BY <1>12
  <2> HIDE DEF Step
  <2> QED BY <2>1, <2>2
<1> QED BY <1>9, <1>11, <1>13

\* After n turns 2^n bits of it are right.
BitsRight(a, n) == Near(a, Newton(a)[n], 2^(2^n))

LEMMA NewtonDoubles ==
  ASSUME NEW a \in Word, Cong(a, 1, 2)
  PROVE  \A n \in 0..NewtonSteps : BitsRight(a, n)
<1>1. NewtonSteps \in Nat
  BY WidthAssumption
<1> DEFINE S == {n \in Nat : BitsRight(a, n)}
<1>2. 0 \in S
  <2>1. Modulus \in Int /\ a \in Nat
    BY Widths, WrapIs
  <2>2. PICK k \in Int : a = 1 + k * 2
    BY DEF Cong
  <2>3. Cong(a, a, Modulus)
    BY <2>1, CongClass
  <2>4. a * 1 = a
    BY <2>1
  <2>5. Near(a, 1, 2)
    BY <2>2, <2>3, <2>4 DEF Near
  <2>6. 2^(2^0) = 2
    BY PowerAdds
  <2> QED BY <2>5, <2>6, NewtonIs DEF BitsRight
<1>3. ASSUME NEW n \in 1..NewtonSteps, n - 1 \in S PROVE n \in S
  <2>1. PICK m \in Nat : m = n - 1 /\ n = m + 1 /\ m \in 0..NewtonSteps
    BY <1>1
  <2>2. PICK x \in Word : x = Newton(a)[m]
    BY <2>1, NewtonIs
  <2>3. PICK e \in Nat : e = 2^m
    BY PowerIs
  <2>4. PICK P \in Nat : P = 2^e
    BY PowerIs
  <2>5. Near(a, x, P)
    BY <1>3, <2>1, <2>2, <2>3, <2>4 DEF BitsRight
  <2>6. Near(a, Turned(a, x), P * P)
    BY <2>5, TurnSquares
  <2>7. 2^n = e + e
    <3>1. 2^(m + 1) = 2 * 2^m
      BY PowerDoubles
    <3>2. 2 * e = e + e
      OBVIOUS
    <3> QED BY <2>1, <2>3, <3>1, <3>2
  <2>8. 2^(2^n) = P * P
    BY <2>4, <2>7, PowerAdds
  <2>9. Newton(a)[n] = Turned(a, x)
    BY <2>1, <2>2, NewtonIs
  <2> QED BY <2>6, <2>8, <2>9 DEF BitsRight
<1>4. S \in SUBSET Nat
  OBVIOUS
<1>5. \A n \in 0..NewtonSteps : n \in S
  <2> HIDE DEF S
  <2> QED BY <1>1, <1>2, <1>3, <1>4, LoopKeeps
<1> QED BY <1>5

\* modinv_odd_u64 gives the inverse of an odd word.
THEOREM ModInvInverts ==
  ASSUME NEW a \in Word, Cong(a, 1, 2)
  PROVE  ModInv(a) \in Word /\ Cong(a * ModInv(a), 1, Modulus)
<1>1. NewtonSteps \in Nat /\ NewtonSteps \in 0..NewtonSteps
  BY WidthAssumption
<1>2. PICK x \in Word : x = ModInv(a)
  BY <1>1, NewtonIs DEF ModInv
<1>3. Near(a, x, 2^(2^NewtonSteps))
  BY <1>1, <1>2, NewtonDoubles DEF BitsRight, ModInv
<1>4. PICK w \in Nat : w = WordBits
  BY Widths
<1>5. PICK t \in Nat : t = 2^NewtonSteps
  BY <1>1, PowerIs
<1>6. PICK d \in Nat : t = w + d
  <2>1. w <= t
    BY <1>4, <1>5, WidthAssumption
  <2>2. t - w \in Nat /\ t = w + (t - w)
    BY <2>1
  <2> QED BY <2>2
<1>7. PICK M \in Nat : M = Modulus /\ M = 2^w
  BY <1>4, Widths DEF Modulus
<1>8. PICK c \in Nat : c = 2^d
  BY PowerIs
<1>9. 2^t = M * c
  BY <1>6, <1>7, <1>8, PowerAdds
<1>10. PICK k \in Int : Cong(a * x, 1 + k * (M * c), M)
  BY <1>3, <1>5, <1>7, <1>9 DEF Near
<1>11. a \in Nat /\ x \in Nat
  BY WrapIs
<1>12. PICK o \in Int : o = a * x
  BY <1>11
<1>13. PICK i \in Int : i = k * c
  OBVIOUS
<1>14. PICK u \in Int : u = 1 + i * M
  OBVIOUS
<1>15. k * (M * c) = i * M
  <2>1. k * (M * c) = (k * c) * M
    OBVIOUS
  <2> QED BY <1>13, <2>1
<1>16. Cong(o, u, M)
  BY <1>10, <1>12, <1>14, <1>15
<1>17. Cong(u, 1, M)
  BY <1>14 DEF Cong
<1>18. Cong(o, 1, M)
  BY <1>16, <1>17, CongClass
<1> QED BY <1>2, <1>7, <1>12, <1>18

-----------------------------------------------------------------------------
(* invert_matrix_2x2 and the mixing.                                       *)

\* A row times a column, known modulo a word.
Known(x, y, u, v, c, e, t) ==
  Cong(x, u, Modulus) /\ Cong(y, v, Modulus) /\ Cong(u * c + v * e, t, Modulus)
    => Dot(x, y, c, e) = t /\ Dot(c, e, x, y) = t

\* A row that is known modulo a word has a product that is known.
LEMMA DotIs ==
  ASSUME NEW x \in Nat, NEW y \in Nat, NEW u \in Int, NEW v \in Int,
         NEW c \in Nat, NEW e \in Nat, NEW t \in Word
  PROVE  Known(x, y, u, v, c, e, t)
<1> SUFFICES ASSUME Cong(x, u, Modulus), Cong(y, v, Modulus),
                    Cong(u * c + v * e, t, Modulus)
             PROVE  Dot(x, y, c, e) = t /\ Dot(c, e, x, y) = t
  BY DEF Known
<1>1. x \in Int /\ y \in Int /\ c \in Int /\ e \in Int /\ t \in Nat /\ Modulus \in Int
  BY WrapIs, Widths
<1>2. PICK n \in Nat : n = x * c + y * e /\ n = c * x + e * y
  <2>1. x * c + y * e \in Nat /\ x * c + y * e = c * x + e * y
    BY Products
  <2> QED BY <2>1
<1>3. PICK s \in Int : s = u * c + v * e
  BY <1>1, Products
<1>4. Cong(n, s, Modulus)
  <2>1. Cong(x * c + y * e, u * c + v * e, Modulus)
    BY <1>1, CongProducts
  <2> QED BY <1>2, <1>3, <2>1
<1>5. Cong(s, t, Modulus)
  BY <1>3
<1>6. Cong(n, t, Modulus)
  BY <1>1, <1>4, <1>5, CongClass
<1>7. Wrap(n) = t
  BY <1>1, <1>6, WrapIs
<1> QED BY <1>2, <1>7 DEF Dot

\* Two numbers times a third, wrapped: what MatrixInv puts in its entries.
LEMMA WrapTimes ==
  ASSUME NEW x \in Nat, NEW d \in Nat, NEW u \in Int, Cong(x, u, Modulus)
  PROVE  Wrap(x * d) \in Word /\ Cong(Wrap(x * d), u * d, Modulus)
<1>1. x \in Int /\ d \in Int /\ Modulus \in Int
  BY Widths
<1>2. Cong(d, d, Modulus)
  BY <1>1, CongClass
<1>3. Cong(x * d, u * d, Modulus)
  BY <1>1, <1>2, CongRing
<1>4. PICK n \in Nat : n = x * d
  BY Products
<1>5. PICK p \in Int : p = u * d
  BY <1>1, Products
<1>6. PICK w \in Word : w = Wrap(n) /\ Cong(w, n, Modulus)
  BY WrapIs
<1>7. w \in Int
  BY WrapIs
<1>8. Cong(w, p, Modulus)
  BY <1>1, <1>3, <1>4, <1>5, <1>6, <1>7, CongClass
<1> QED BY <1>4, <1>5, <1>6, <1>8

\* A matrix with an odd determinant times what MatrixInv makes of it is one.
LEMMA MatrixInvIs ==
  ASSUME NEW m \in Matrix, Cong(Det(m), 1, 2)
  PROVE  /\ MatrixInv(m) \in Matrix
         /\ MatrixMul(MatrixInv(m), m) = One
         /\ MatrixMul(m, MatrixInv(m)) = One
<1>0. m[1] \in Word /\ m[2] \in Word /\ m[3] \in Word /\ m[4] \in Word
  BY Entries
<1>a. Word \subseteq Nat /\ Modulus \in Int /\ 0 \in Word /\ 1 \in Word
  BY WrapIs, Widths
<1>1. PICK m1 \in Word, m2 \in Word, m3 \in Word, m4 \in Word :
        m1 = m[1] /\ m2 = m[2] /\ m3 = m[3] /\ m4 = m[4]
  BY <1>0
<1>2. m1 \in Nat /\ m2 \in Nat /\ m3 \in Nat /\ m4 \in Nat
  BY <1>a
<1>3. PICK D \in Word : D = Det(m) /\ Cong(D, m1 * m4 - m2 * m3, Modulus)
  BY <1>1, <1>2, DetIs
<1>4. PICK d \in Word : d = ModInv(D) /\ Cong(D * d, 1, Modulus)
  BY <1>3, ModInvInverts
<1>5. D \in Nat /\ d \in Nat
  BY <1>a
<1>6. PICK p \in Int : p = m1 * m4 - m2 * m3
  BY <1>2
<1>7. Cong(p * d, 1, Modulus)
  <2>1. Cong(d, d, Modulus)
    BY <1>5, <1>a, CongClass
  <2>2. Cong(D, p, Modulus)
    BY <1>3, <1>6
  <2>3. Cong(D * d, p * d, Modulus)
    BY <1>5, <1>a, <2>1, <2>2, CongRing
  <2>4. PICK x \in Int, y \in Int : x = D * d /\ y = p * d
    BY <1>5, Products
  <2>5. Cong(y, x, Modulus)
    BY <1>a, <2>3, <2>4, CongClass
  <2>6. Cong(y, 1, Modulus)
    BY <1>a, <1>4, <2>4, <2>5, CongClass
  <2> QED BY <2>4, <2>6
<1>8. ASSUME NEW x \in Word
      PROVE  /\ \E w \in Word : w = Wrap(x * d) /\ Cong(w, x * d, Modulus)
             /\ \E w \in Word : w = Wrap(Negative(x) * d) /\ Cong(w, -(x * d), Modulus)
  <2>1. x \in Nat /\ x \in Int /\ -x \in Int
    BY <1>a
  <2>2. Cong(x, x, Modulus)
    BY <1>a, <2>1, CongClass
  <2>3. Wrap(x * d) \in Word /\ Cong(Wrap(x * d), x * d, Modulus)
    BY <1>5, <2>1, <2>2, WrapTimes
  <2>4. PICK n \in Word, v \in Int : n = Negative(x) /\ v = -x /\ Cong(n, v, Modulus)
    BY <2>1, NegativeIs
  <2>5. n \in Nat
    BY <1>a
  <2>6. Wrap(n * d) \in Word /\ Cong(Wrap(n * d), v * d, Modulus)
    BY <1>5, <2>4, <2>5, WrapTimes
  <2>7. v * d = -(x * d)
    BY <1>5, <2>1, <2>4
  <2> QED BY <2>3, <2>4, <2>6, <2>7
<1>9. PICK x1 \in Word : x1 = Wrap(m4 * d) /\ Cong(x1, m4 * d, Modulus)
  BY <1>8
<1>10. PICK x2 \in Word : x2 = Wrap(Negative(m2) * d) /\ Cong(x2, -(m2 * d), Modulus)
  BY <1>8
<1>11. PICK x3 \in Word : x3 = Wrap(Negative(m3) * d) /\ Cong(x3, -(m3 * d), Modulus)
  BY <1>8
<1>12. PICK x4 \in Word : x4 = Wrap(m1 * d) /\ Cong(x4, m1 * d, Modulus)
  BY <1>8
<1>13. PICK u1 \in Int, u2 \in Int, u3 \in Int, u4 \in Int :
         u1 = m4 * d /\ u2 = -(m2 * d) /\ u3 = -(m3 * d) /\ u4 = m1 * d
  BY <1>2, <1>5
<1>14. /\ u1 * m1 + u2 * m3 = p * d
       /\ u1 * m2 + u2 * m4 = 0
       /\ u3 * m1 + u4 * m3 = 0
       /\ u3 * m2 + u4 * m4 = p * d
  <2>1. \A i, j, k, l, n \in Nat :
          /\ (l * n) * i + (-(j * n)) * k = (i * l - j * k) * n
          /\ (l * n) * j + (-(j * n)) * l = 0
          /\ (-(k * n)) * i + (i * n) * k = 0
          /\ (-(k * n)) * j + (i * n) * l = (i * l - j * k) * n
    OBVIOUS
  <2> QED BY <1>2, <1>5, <1>6, <1>13, <2>1
<1>15. /\ u1 * m1 + u3 * m2 = p * d
       /\ u2 * m1 + u4 * m2 = 0
       /\ u1 * m3 + u3 * m4 = 0
       /\ u2 * m3 + u4 * m4 = p * d
  <2>1. \A i, j, k, l, n \in Nat :
          /\ (l * n) * i + (-(k * n)) * j = (i * l - j * k) * n
          /\ (-(j * n)) * i + (i * n) * j = 0
          /\ (l * n) * k + (-(k * n)) * l = 0
          /\ (-(j * n)) * k + (i * n) * l = (i * l - j * k) * n
    OBVIOUS
  <2> QED BY <1>2, <1>5, <1>6, <1>13, <2>1
<1>16. Cong(0, 0, Modulus)
  BY <1>a, CongClass
<1>17. x1 \in Nat /\ x2 \in Nat /\ x3 \in Nat /\ x4 \in Nat
  BY <1>a
<1>18. Cong(x1, u1, Modulus) /\ Cong(x2, u2, Modulus)
       /\ Cong(x3, u3, Modulus) /\ Cong(x4, u4, Modulus)
  BY <1>9, <1>10, <1>11, <1>12, <1>13
<1>19. PICK o \in Word, z \in Word : o = 1 /\ z = 0
  BY <1>a
<1>20. /\ Dot(x1, x2, m1, m3) = o
       /\ Dot(x1, x2, m2, m4) = z
       /\ Dot(x3, x4, m1, m3) = z
       /\ Dot(x3, x4, m2, m4) = o
  <2>1. Dot(x1, x2, m1, m3) = o
    <3>1. Known(x1, x2, u1, u2, m1, m3, o)
      BY <1>2, <1>17, DotIs
    <3> QED BY <1>7, <1>14, <1>18, <1>19, <3>1 DEF Known
  <2>2. Dot(x1, x2, m2, m4) = z
    <3>1. Known(x1, x2, u1, u2, m2, m4, z)
      BY <1>2, <1>17, DotIs
    <3> QED BY <1>16, <1>14, <1>18, <1>19, <3>1 DEF Known
  <2>3. Dot(x3, x4, m1, m3) = z
    <3>1. Known(x3, x4, u3, u4, m1, m3, z)
      BY <1>2, <1>17, DotIs
    <3> QED BY <1>16, <1>14, <1>18, <1>19, <3>1 DEF Known
  <2>4. Dot(x3, x4, m2, m4) = o
    <3>1. Known(x3, x4, u3, u4, m2, m4, o)
      BY <1>2, <1>17, DotIs
    <3> QED BY <1>7, <1>14, <1>18, <1>19, <3>1 DEF Known
  <2> QED BY <2>1, <2>2, <2>3, <2>4
<1>21. /\ Dot(m1, m2, x1, x3) = o
       /\ Dot(m1, m2, x2, x4) = z
       /\ Dot(m3, m4, x1, x3) = z
       /\ Dot(m3, m4, x2, x4) = o
  <2>1. Dot(m1, m2, x1, x3) = o
    <3>1. Known(x1, x3, u1, u3, m1, m2, o)
      BY <1>2, <1>17, DotIs
    <3> QED BY <1>7, <1>15, <1>18, <1>19, <3>1 DEF Known
  <2>2. Dot(m1, m2, x2, x4) = z
    <3>1. Known(x2, x4, u2, u4, m1, m2, z)
      BY <1>2, <1>17, DotIs
    <3> QED BY <1>16, <1>15, <1>18, <1>19, <3>1 DEF Known
  <2>3. Dot(m3, m4, x1, x3) = z
    <3>1. Known(x1, x3, u1, u3, m3, m4, z)
      BY <1>2, <1>17, DotIs
    <3> QED BY <1>16, <1>15, <1>18, <1>19, <3>1 DEF Known
  <2>4. Dot(m3, m4, x2, x4) = o
    <3>1. Known(x2, x4, u2, u4, m3, m4, o)
      BY <1>2, <1>17, DotIs
    <3> QED BY <1>7, <1>15, <1>18, <1>19, <3>1 DEF Known
  <2> QED BY <2>1, <2>2, <2>3, <2>4
<1>22. PICK x \in Matrix : /\ x = MatrixInv(m)
                           /\ x[1] = x1 /\ x[2] = x2 /\ x[3] = x3 /\ x[4] = x4
  <2>1. MatrixInv(m) = <<x1, x2, x3, x4>>
    BY <1>1, <1>3, <1>4, <1>9, <1>10, <1>11, <1>12 DEF MatrixInv
  <2> QED BY <2>1, Entries
<1>23. PICK i \in Matrix : i = One /\ i[1] = o /\ i[2] = z /\ i[3] = z /\ i[4] = o
  <2>1. One = <<o, z, z, o>>
    BY <1>19 DEF One
  <2> QED BY <2>1, Entries
<1>24. PICK y \in Matrix :
         /\ y = MatrixMul(x, m)
         /\ y[1] = Dot(x1, x2, m1, m3) /\ y[2] = Dot(x1, x2, m2, m4)
         /\ y[3] = Dot(x3, x4, m1, m3) /\ y[4] = Dot(x3, x4, m2, m4)
  BY <1>1, <1>22, MulIs
<1>25. PICK v \in Matrix :
         /\ v = MatrixMul(m, x)
         /\ v[1] = Dot(m1, m2, x1, x3) /\ v[2] = Dot(m1, m2, x2, x4)
         /\ v[3] = Dot(m3, m4, x1, x3) /\ v[4] = Dot(m3, m4, x2, x4)
  BY <1>1, <1>22, MulIs
<1>26. y = i
  BY <1>20, <1>23, <1>24, Entries
<1>27. v = i
  BY <1>21, <1>23, <1>25, Entries
<1> QED BY <1>22, <1>23, <1>24, <1>25, <1>26, <1>27

\* A block is mixed and unmixed: each matrix meets its inverse.
THEOREM MixUndone ==
  ASSUME NEW block \in Block, NEW key, key.left \in Matrix, key.right \in Matrix
  PROVE  Mix(block, key) \in Block /\ Unmix(Mix(block, key), key) = block
<1>1. PICK l \in Matrix, p \in Matrix :
        /\ l = MatrixFrom(key.left) /\ p = MatrixInv(l) /\ MatrixMul(p, l) = One
  <2>1. PICK l \in Matrix : l = MatrixFrom(key.left) /\ Cong(Det(l), 1, 2)
    BY SeedMatrix, DetOdd
  <2> QED BY <2>1, MatrixInvIs
<1>2. PICK r \in Matrix, q \in Matrix :
        /\ r = MatrixFrom(key.right) /\ q = MatrixInv(r) /\ MatrixMul(r, q) = One
  <2>1. PICK r \in Matrix : r = MatrixFrom(key.right) /\ Cong(Det(r), 1, 2)
    BY SeedMatrix, DetOdd
  <2> QED BY <2>1, MatrixInvIs
<1>3. PICK w \in Matrix : w = Words(block) /\ BlockOf(w) = block
  BY BlockOfWords
<1>4. PICK x \in Matrix : x = MatrixMul(w, r)
  BY MulIs
<1>5. PICK y \in Matrix : y = MatrixMul(l, x)
  BY MulIs
<1>6. PICK z \in Block : z = BlockOf(y) /\ Words(z) = y
  BY WordsOfBlock
<1>7. Mix(block, key) = z
  BY <1>1, <1>2, <1>3, <1>4, <1>5, <1>6 DEF Mix
<1>8. MatrixMul(x, q) = w
  <2>1. MatrixMul(MatrixMul(w, r), q) = MatrixMul(w, MatrixMul(r, q))
    BY MulAssociates
  <2> QED BY <1>2, <1>4, <2>1, MulOne
<1>9. MatrixMul(y, q) = MatrixMul(l, w)
  <2>1. MatrixMul(MatrixMul(l, x), q) = MatrixMul(l, MatrixMul(x, q))
    BY MulAssociates
  <2> QED BY <1>5, <1>8, <2>1
<1>10. MatrixMul(p, MatrixMul(l, w)) = w
  <2>1. MatrixMul(MatrixMul(p, l), w) = MatrixMul(p, MatrixMul(l, w))
    BY MulAssociates
  <2> QED BY <1>1, <2>1, MulOne
<1>11. Unmix(z, key) = block
  BY <1>1, <1>2, <1>3, <1>6, <1>9, <1>10 DEF Unmix
<1> QED BY <1>6, <1>7, <1>11

-----------------------------------------------------------------------------
(* The affine maps of version 3.                                           *)

\* An odd number has an inverse modulo a power of two: of x and x + 2^n, one that
\* is right modulo twice the power.
LEMMA InverseExists ==
  ASSUME NEW c \in Nat, NEW b \in Nat
  PROVE  \E x \in Nat : Cong((2 * c + 1) * x, 1, 2^b)
<1>1. PICK a \in Nat : a = 2 * c + 1
  OBVIOUS
<1> DEFINE S == {n \in Nat : \E x \in Nat : Cong(a * x, 1, 2^n)}
<1>2. 0 \in S
  <2>1. a * 0 = 1 + (-1) * 1 /\ -1 \in Int
    OBVIOUS
  <2>2. Cong(a * 0, 1, 1)
    BY <2>1 DEF Cong
  <2> QED BY <2>2, PowerAdds
<1>3. ASSUME NEW n \in S PROVE n + 1 \in S
  <2>1. PICK x \in Nat : Cong(a * x, 1, 2^n)
    OBVIOUS
  <2>2. PICK P \in Nat : P = 2^n
    BY PowerIs
  <2>3. PICK k \in Int : a * x = 1 + k * P
    BY <2>1, <2>2 DEF Cong
  <2>4. PICK j \in Int : k = 2 * j \/ k = 2 * j + 1
    <3>1. k \div 2 \in Int /\ (k = 2 * (k \div 2) \/ k = 2 * (k \div 2) + 1)
      OBVIOUS
    <3> QED BY <3>1
  <2>5. 2^(n + 1) = 2 * P
    BY <2>2, PowerDoubles
  <2>6. \E y \in Nat : Cong(a * y, 1, 2 * P)
    <3>1. CASE k = 2 * j
      <4>1. (2 * j) * P = j * (2 * P)
        OBVIOUS
      <4>2. a * x = 1 + j * (2 * P)
        BY <2>3, <3>1, <4>1
      <4>3. Cong(a * x, 1, 2 * P)
        BY <4>2 DEF Cong
      <4> QED BY <4>3
    <3>2. CASE k = 2 * j + 1
      <4>1. PICK i \in Int : i = j + c + 1
        OBVIOUS
      <4>2. k + a = 2 * i
        BY <1>1, <3>2, <4>1
      <4>3. PICK y \in Nat : y = x + P
        OBVIOUS
      <4>4. a * y = a * x + a * P
        BY <4>3, Products
      <4>5. k * P + a * P = (k + a) * P
        OBVIOUS
      <4>6. (2 * i) * P = i * (2 * P)
        OBVIOUS
      <4>7. PICK s \in Int, t \in Int : s = k * P /\ t = a * P
        BY Products
      <4>8. PICK u \in Int : u = i * (2 * P) /\ s + t = u
        <5>1. i * (2 * P) \in Int
          OBVIOUS
        <5> QED BY <4>2, <4>5, <4>6, <4>7, <5>1
      <4>9. a * y = 1 + u
        BY <2>3, <4>4, <4>7, <4>8
      <4>10. Cong(a * y, 1, 2 * P)
        BY <4>8, <4>9 DEF Cong
      <4> QED BY <4>10
    <3> QED BY <2>4, <3>1, <3>2
  <2>7. PICK e \in Nat : e = n + 1 /\ 2^e = 2 * P
    BY <2>5
  <2>8. e \in S
    BY <2>6, <2>7
  <2> QED BY <2>7, <2>8
<1>4. S \in SUBSET Nat
  OBVIOUS
<1>5. b \in S
  <2> HIDE DEF S
  <2>1. S = Nat
    BY <1>2, <1>3, <1>4, Induct
  <2> QED BY <2>1
<1> QED BY <1>1, <1>5

\* ModularInverse inverts what Odd makes of a byte.
LEMMA ModularInverseIs ==
  ASSUME NEW n \in Byte
  PROVE  /\ Odd(n) \in Nat
         /\ ModularInverse(Odd(n)) \in Byte
         /\ (Odd(n) * ModularInverse(Odd(n))) % Base = 1
         /\ \E x \in Nat : Cong(Odd(n) * x, 1, BlockBytes)
<1>1. ByteBits \in Nat \ {0} /\ Base = 2^ByteBits /\ Base \in Nat \ {0} /\ Base > 1
  BY WidthAssumption, Widths DEF Base
<1>2. PICK h \in Nat \ {0} : Base = 2 * h
  <2>1. PICK m \in Nat : ByteBits = m + 1
    <3>1. ByteBits - 1 \in Nat /\ ByteBits = (ByteBits - 1) + 1
      BY <1>1
    <3> QED BY <3>1
  <2>2. 2^(m + 1) = 2 * 2^m /\ 2^m \in Nat \ {0}
    BY PowerDoubles, PowerAdds
  <2> QED BY <1>1, <2>1, <2>2
<1>3. n \in 0..(2 * h - 1)
  BY <1>2 DEF Byte
<1>4. PICK j \in Nat : Odd(n) = 2 * j + 1
  BY <1>3, Parity
<1>5. PICK a \in Nat : a = Odd(n)
  BY <1>4
<1>6. PICK x \in Nat : Cong(a * x, 1, Base)
  BY <1>1, <1>4, <1>5, InverseExists
<1>7. PICK y \in Nat : Cong(a * y, 1, BlockBytes)
  <2>1. PICK e \in Nat : BlockBytes = 2^e
    BY Widths
  <2>2. \E y \in Nat : Cong(a * y, 1, 2^e)
    BY <1>4, <1>5, InverseExists
  <2> QED BY <2>1, <2>2
<1>8. PICK z \in Byte : z = x % Base /\ Cong(z, x, Base)
  BY <1>1, CongMod DEF Byte
<1>9. z \in Int /\ z \in Nat /\ a \in Int /\ Base \in Int
  BY <1>1 DEF Byte
<1>10. Cong(a * z, a * x, Base)
  <2>1. Cong(a, a, Base)
    BY <1>9, CongClass
  <2>2. Cong(z, x, Base)
    BY <1>8
  <2> QED BY <1>9, <2>1, <2>2, CongRing
<1>11. PICK p \in Nat, q \in Nat : p = a * z /\ q = a * x
  BY <1>9, Products
<1>12. Cong(p, 1, Base)
  BY <1>6, <1>9, <1>10, <1>11, CongClass
<1>13. p % Base = 1
  <2>1. PICK o \in Nat : o = 1 /\ o < Base
    BY <1>1
  <2>2. p % Base = o % Base /\ o % Base = o
    BY <1>1, <1>12, <2>1, CongMod
  <2> QED BY <2>1, <2>2
<1>14. ModularInverse(a) \in Byte /\ (a * ModularInverse(a)) % Base = 1
  <2>1. \E v \in Byte : (a * v) % Base = 1
    BY <1>11, <1>13
  <2> QED BY <2>1 DEF ModularInverse
<1> QED BY <1>5, <1>7, <1>14

\* A byte comes back from the affine map.
LEMMA AffineUndone ==
  ASSUME NEW a \in Nat, NEW x \in Byte, (a * x) % Base = 1,
         NEW u \in Byte, NEW s \in Byte
  PROVE  /\ (a * u + s) % Base \in Byte
         /\ (x * Minus((a * u + s) % Base, s)) % Base = u
<1>1. Base \in Nat \ {0} /\ Base \in Int /\ Byte = 0..(Base - 1)
  BY Widths DEF Byte
<1>2. x \in Nat /\ u \in Nat /\ s \in Nat /\ u < Base /\ s < Base
  BY <1>1
<1>3. PICK p \in Nat : p = a * u
  BY <1>2, Products
<1>4. PICK n \in Nat : n = p + s
  BY <1>2
<1>5. PICK y \in Byte : y = n % Base /\ Cong(y, n, Base)
  BY <1>1, CongMod
<1>6. y \in Nat
  BY <1>1
<1>7. PICK t \in Nat : t = y + (Base - s)
  BY <1>1, <1>2, <1>6
<1>8. Cong(t, p, Base)
  <2>1. PICK k \in Int : y = n + k * Base
    BY <1>5 DEF Cong
  <2>2. t = p + (k + 1) * Base /\ k + 1 \in Int
    BY <1>1, <1>2, <1>4, <1>7, <2>1
  <2> QED BY <2>2 DEF Cong
<1>9. PICK z \in Byte : z = t % Base /\ Cong(z, t, Base)
  BY <1>1, CongMod
<1>10. z \in Nat
  BY <1>1
<1>11. z = Minus(y, s)
  BY <1>7, <1>9 DEF Minus
<1>12. Cong(z, p, Base)
  <2>1. PICK m \in Int : m = Base
    BY <1>1
  <2>2. Cong(z, t, m) /\ Cong(t, p, m)
    BY <1>8, <1>9, <2>1
  <2>3. z \in Int /\ t \in Int /\ p \in Int
    BY <1>10
  <2>4. Cong(z, p, m)
    BY <2>2, <2>3, CongClass
  <2> QED BY <2>1, <2>4
<1>13. PICK w \in Nat : w = x * z
  BY <1>2, <1>10, Products
<1>14. PICK e \in Nat : e = a * x
  BY <1>2, Products
<1>15. Cong(e, 1, Base)
  <2>1. e % Base = 1 /\ Cong(e % Base, e, Base)
    BY <1>1, <1>14, CongMod
  <2>2. Cong(1, e, Base)
    BY <2>1
  <2> QED BY <1>1, <2>2, CongClass
<1>16. PICK g \in Nat : g = e * u /\ g = x * p
  <2>1. e * u \in Nat
    BY <1>2, Products
  <2>2. (a * x) * u = x * (a * u)
    BY <1>2
  <2> QED BY <1>3, <1>14, <2>1, <2>2
<1>17. Cong(w, g, Base)
  <2>1. Cong(x, x, Base)
    BY <1>1, <1>2, CongClass
  <2>2. Cong(x * z, x * p, Base)
    BY <1>1, <1>2, <1>10, <1>12, <2>1, CongRing
  <2> QED BY <1>13, <1>16, <2>2
<1>18. Cong(g, u, Base)
  <2>1. Cong(u, u, Base)
    BY <1>1, <1>2, CongClass
  <2>2. PICK o \in Int : o = 1
    OBVIOUS
  <2>3. Cong(e * u, o * u, Base)
    BY <1>1, <1>2, <1>15, <2>1, <2>2, CongRing
  <2>4. o * u = u
    BY <1>2, <2>2
  <2> QED BY <1>16, <2>3, <2>4
<1>19. Cong(w, u, Base)
  <2>1. PICK m \in Int : m = Base
    BY <1>1
  <2>2. Cong(w, g, m) /\ Cong(g, u, m)
    BY <1>17, <1>18, <2>1
  <2>3. w \in Int /\ g \in Int /\ u \in Int
    BY <1>2
  <2>4. Cong(w, u, m)
    BY <2>2, <2>3, CongClass
  <2> QED BY <2>1, <2>4
<1>20. w % Base = u
  <2>1. w % Base = u % Base /\ u % Base = u
    BY <1>1, <1>2, <1>19, CongMod
  <2> QED BY <2>1
<1> QED BY <1>3, <1>4, <1>5, <1>11, <1>13, <1>20

\* The substitution of version 3.
LEMMA SubstituteV3Undone ==
  ASSUME NEW block \in Block, NEW key, key.mask \in Block, key.seed \in [0..3 -> Byte]
  PROVE  /\ PreSubstituteV3(block, key) \in Block
         /\ PostUnsubstituteV3(PreSubstituteV3(block, key), key) = block
<1>1. PICK mask \in Block : mask = key.mask
  OBVIOUS
<1>2. PICK n \in Byte, s \in Byte : n = key.seed[0] /\ s = key.seed[1]
  <2>1. 0 \in 0..3 /\ 1 \in 0..3
    OBVIOUS
  <2> QED BY <2>1
<1>3. PICK a \in Nat, x \in Byte :
        a = Odd(n) /\ x = ModularInverse(a) /\ (a * x) % Base = 1
  BY ModularInverseIs
<1> DEFINE new == PreSubstituteV3(block, key)
<1>4. new = [k \in Places |-> (a * Plus(block[k], mask[k]) + s) % Base]
  BY <1>1, <1>2, <1>3 DEF PreSubstituteV3
<1>5. ASSUME NEW k \in Places
      PROVE  /\ new[k] \in Byte
             /\ Minus((x * Minus(new[k], s)) % Base, mask[k]) = block[k]
  <2>1. PICK b \in Byte, m \in Byte : b = block[k] /\ m = mask[k]
    BY DEF Block
  <2>2. PICK u \in Byte : u = Plus(b, m) /\ Minus(u, m) = b
    BY PlusMinus
  <2>3. new[k] = (a * u + s) % Base
    BY <1>4, <2>1, <2>2
  <2>4. (a * u + s) % Base \in Byte /\ (x * Minus((a * u + s) % Base, s)) % Base = u
    BY <1>3, AffineUndone
  <2> QED BY <2>1, <2>2, <2>3, <2>4
<1>6. new \in Block
  BY <1>4, <1>5 DEF Block
<1> HIDE DEF new
<1>7. PostUnsubstituteV3(new, key)
        = [k \in Places |-> Minus((x * Minus(new[k], s)) % Base, mask[k])]
  BY <1>1, <1>2, <1>3 DEF PostUnsubstituteV3
<1>8. block = [k \in Places |-> block[k]]
  BY DEF Block
<1> QED BY <1>5, <1>6, <1>7, <1>8 DEF new

\* Its permutation: a place comes from the inverse of the map.
LEMMA AffineReached ==
  ASSUME NEW key, key.seed \in [0..3 -> Byte]
  PROVE  /\ \A k \in Places : AffinePlace(k, key) \in Places
         /\ \A p \in Places : \E k \in Places : AffinePlace(k, key) = p
<1>1. PICK m \in Nat \ {0} : m = BlockBytes /\ Places = 0..(m - 1)
  BY Widths DEF Places
<1>2. PICK n \in Byte, s \in Byte : n = key.seed[2] /\ s = key.seed[3]
  <2>1. 2 \in 0..3 /\ 3 \in 0..3
    OBVIOUS
  <2> QED BY <2>1
<1>3. s \in Nat
  BY Widths DEF Byte
<1>4. PICK a \in Nat, x \in Nat : a = Odd(n) /\ Cong(a * x, 1, m)
  BY <1>1, ModularInverseIs
<1>5. PICK b \in Nat : b = a % m /\ Cong(b, a, m)
  <2>1. a % m \in 0..(m - 1) /\ Cong(a % m, a, m)
    BY CongMod
  <2>2. PICK q \in 0..(m - 1) : q = a % m
    BY <2>1
  <2>3. q \in Nat
    OBVIOUS
  <2> QED BY <2>1, <2>2, <2>3
<1>6. ASSUME NEW k \in Nat
      PROVE  \E v \in Nat : v = b * k + s /\ AffinePlace(k, key) = v % m
  <2>1. PICK v \in Nat : v = b * k + s
    BY <1>3, Products
  <2> QED BY <1>1, <1>2, <1>4, <1>5, <2>1 DEF AffinePlace
<1>7. ASSUME NEW k \in Places PROVE AffinePlace(k, key) \in Places
  <2>1. k \in Nat
    BY <1>1
  <2>2. PICK v \in Nat : AffinePlace(k, key) = v % m
    BY <1>6, <2>1
  <2> QED BY <1>1, <2>2, CongMod
<1>8. ASSUME NEW p \in Places PROVE \E k \in Places : AffinePlace(k, key) = p
  <2>1. p \in Nat /\ p < m /\ m \in Int
    BY <1>1
  <2>2. PICK r \in Nat : r = s % m /\ r < m /\ Cong(r, s, m)
    <3>1. s % m \in 0..(m - 1) /\ Cong(s % m, s, m)
      BY <1>3, CongMod
    <3>2. PICK q \in 0..(m - 1) : q = s % m
      BY <3>1
    <3>3. q \in Nat /\ q < m
      OBVIOUS
    <3> QED BY <3>1, <3>2, <3>3
  <2>3. PICK t \in Nat : t = p + (m - r)
    BY <1>1, <2>1, <2>2
  <2>4. PICK y \in Nat : y = x * t
    BY Products
  <2>5. PICK k \in Places : k = y % m /\ Cong(k, y, m)
    BY <1>1, CongMod
  <2>6. k \in Nat
    BY <1>1
  <2>7. PICK v \in Nat : v = b * k + s /\ AffinePlace(k, key) = v % m
    BY <1>6, <2>6
  <2>8. Cong(b * k, a * y, m)
    BY <1>5, <2>1, <2>5, <2>6, CongRing
  <2>9. PICK e \in Nat, f \in Nat, g \in Nat : e = a * x /\ f = e * t /\ g = b * k
    BY <2>6, Products
  <2>10. a * y = f
    BY <2>4, <2>9, Products
  <2>11. Cong(e * t, 1 * t, m)
    <3>1. Cong(t, t, m)
      BY <2>1, CongClass
    <3>2. PICK o \in Int : o = 1
      OBVIOUS
    <3>3. Cong(e, o, m)
      BY <1>4, <2>9, <3>2
    <3>4. Cong(e * t, o * t, m)
      BY <2>1, <3>1, <3>3, CongRing
    <3> QED BY <3>2, <3>4
  <2>12. Cong(g, t, m)
    <3>1. 1 * t = t
      OBVIOUS
    <3>2. Cong(f, t, m)
      BY <2>9, <2>11, <3>1
    <3>3. Cong(g, f, m)
      BY <2>8, <2>9, <2>10
    <3> QED BY <2>1, <3>2, <3>3, CongClass
  <2>13. Cong(v, p, m)
    <3>1. PICK i \in Int : g = t + i * m
      BY <2>12 DEF Cong
    <3>2. PICK j \in Int : r = s + j * m
      BY <2>2 DEF Cong
    <3>3. v = p + (i + 1 - j) * m /\ i + 1 - j \in Int
      <4>1. PICK c \in Int, d \in Int : c = i * m /\ d = j * m
        BY <2>1, Products
      <4>2. (i + 1 - j) * m = c + m - d
        BY <2>1, <4>1
      <4>3. v = p + (c + m - d)
        BY <1>3, <2>1, <2>2, <2>3, <2>7, <2>9, <3>1, <3>2, <4>1
      <4> QED BY <4>2, <4>3
    <3> QED BY <3>3 DEF Cong
  <2>14. v % m = p
    <3>1. v % m = p % m /\ p % m = p
      BY <2>1, <2>13, CongMod
    <3> QED BY <3>1
  <2> QED BY <2>7, <2>14
<1> QED BY <1>7, <1>8

\* The permutation of version 3.
LEMMA PermuteV3Undone ==
  ASSUME NEW block \in Block, NEW key, key.seed \in [0..3 -> Byte]
  PROVE  /\ PermuteV3(block, key) \in Block
         /\ UnpermuteV3(PermuteV3(block, key), key) = block
<1> DEFINE new == PermuteV3(block, key)
<1>1. new = [k \in Places |-> block[AffinePlace(k, key)]]
  BY DEF PermuteV3
<1>2. \A k \in Places : AffinePlace(k, key) \in Places
  BY AffineReached
<1>3. new \in Block
  BY <1>1, <1>2 DEF Block
<1> HIDE DEF new
<1> DEFINE from(p) == CHOOSE k \in Places : AffinePlace(k, key) = p
<1>4. UnpermuteV3(new, key) = [p \in Places |-> new[from(p)]]
  BY DEF UnpermuteV3
<1>5. ASSUME NEW p \in Places PROVE new[from(p)] = block[p]
  <2>1. \E k \in Places : AffinePlace(k, key) = p
    BY AffineReached
  <2>2. from(p) \in Places /\ AffinePlace(from(p), key) = p
    BY <2>1
  <2> HIDE DEF from
  <2> QED BY <1>1, <2>2
<1>6. block = [k \in Places |-> block[k]]
  BY DEF Block
<1> QED BY <1>3, <1>4, <1>5, <1>6 DEF new

-----------------------------------------------------------------------------
(* Rounds.                                                                 *)

\* One round of either version is undone by its inverse, for every block and every
\* key that a round may have.
THEOREM RoundUndone ==
  ASSUME NEW v \in {3, 4}, NEW block \in Block, NEW key \in RoundKeys(v)
  PROVE  Forward(v, block, key) \in Block /\ Backward(v, Forward(v, block, key), key) = block
<1>1. key \in Keys /\ (v = 3 => key \in Key3) /\ (v = 4 => key \in Key4)
  BY DEF RoundKeys
<1>2. /\ key.mask \in Block /\ key.diffuse \in Block \X Block
      /\ key.left \in Matrix /\ key.right \in Matrix
  BY <1>1 DEF Key3, Key4
<1>3. CASE v = 3
  <2>1. key.seed \in [0..3 -> Byte]
    BY <1>1, <1>3 DEF Key3
  <2>2. PICK a \in Block : a = PreSubstituteV3(block, key) /\ PostUnsubstituteV3(a, key) = block
    BY <1>2, <2>1, SubstituteV3Undone
  <2>3. PICK b \in Block : b = Diffuse(a, key) /\ Undiffuse(b, key) = a
    BY <1>2, DiffuseUndone
  <2>4. PICK c \in Block : c = Mix(b, key) /\ Unmix(c, key) = b
    BY <1>2, MixUndone
  <2>5. PICK d \in Block : d = PermuteV3(c, key) /\ UnpermuteV3(d, key) = c
    BY <2>1, PermuteV3Undone
  <2>6. Forward(v, block, key) = d
    BY <1>3, <2>2, <2>3, <2>4, <2>5 DEF Forward
  <2>7. Backward(v, d, key) = block
    BY <1>3, <2>2, <2>3, <2>4, <2>5 DEF Backward
  <2> QED BY <2>6, <2>7
<1>4. CASE v = 4
  <2>1. /\ key.substitute \in [Byte -> Byte] /\ key.position \in [Places -> Places]
        /\ Injective(key.substitute) /\ Injective(key.position)
    <3>1. key \in Key4
      BY <1>1, <1>4
    <3>2. Injective(key.substitute) /\ Injective(key.position)
      BY <1>1, <3>1, KeysAssumption
    <3> QED BY <3>1, <3>2 DEF Key4
  <2>2. PICK a \in Block : a = PreSubstitute(block, key) /\ PostUnsubstitute(a, key) = block
    BY <1>2, <2>1, SubstituteUndone
  <2>3. PICK b \in Block : b = Diffuse(a, key) /\ Undiffuse(b, key) = a
    BY <1>2, DiffuseUndone
  <2>4. PICK c \in Block : c = Mix(b, key) /\ Unmix(c, key) = b
    BY <1>2, MixUndone
  <2>5. PICK d \in Block : d = Permute(c, key) /\ Unpermute(d, key) = c
    BY <2>1, PermuteUndone
  <2>6. Forward(v, block, key) = d
    BY <1>4, <2>2, <2>3, <2>4, <2>5 DEF Forward
  <2>7. Backward(v, d, key) = block
    BY <1>4, <2>2, <2>3, <2>4, <2>5 DEF Backward
  <2> QED BY <2>6, <2>7
<1> QED BY <1>3, <1>4

\* What the variables hold.
TypeOK == /\ version \in {3, 4}
          /\ direction \in {"encrypting", "decrypting"}
          /\ state \in Block
          /\ keys \in Seq(RoundKeys(version))
          /\ before \in Seq(Block)
          /\ undone \in 0..Rounds

\* How far both functions have come.
Progress == /\ Len(before) = Len(keys) /\ Len(keys) <= Rounds
            /\ direction = "encrypting" => undone = 0
            /\ direction = "decrypting" => Len(keys) = Rounds

\* Each state is the round before it applied to the one before it; the state now is
\* the last of them, or the one that decryption has come back to.
History == /\ \A j \in 1..(Len(keys) - 1) :
                before[j + 1] = Forward(version, before[j], keys[j])
           /\ undone = 0 /\ Len(keys) > 0 =>
                state = Forward(version, before[Len(keys)], keys[Len(keys)])

IInv == TypeOK /\ Progress /\ History /\ RoundsUndone

\* Before the first round there is nothing to undo.
LEMMA InitInv == Init => IInv
<1> SUFFICES ASSUME Init PROVE IInv
  OBVIOUS
<1>1. /\ version \in {3, 4} /\ direction = "encrypting" /\ state \in Block
      /\ keys = << >> /\ before = << >> /\ undone = 0
  BY KeysAssumption DEF Init
<1>2. Rounds \in Nat
  BY WidthAssumption
<1>3. << >> \in Seq(RoundKeys(version)) /\ << >> \in Seq(Block) /\ Len(<< >>) = 0
  OBVIOUS
<1>4. TypeOK
  BY <1>1, <1>2, <1>3 DEF TypeOK
<1>5. Progress
  BY <1>1, <1>2, <1>3 DEF Progress
<1>6. History
  BY <1>1, <1>3 DEF History
<1> QED BY <1>1, <1>4, <1>5, <1>6 DEF IInv, RoundsUndone

\* A round of encryption extends the history.
LEMMA EncryptStep == ASSUME IInv, EncryptRound PROVE IInv'
<1>1. /\ version \in {3, 4} /\ state \in Block /\ undone = 0
      /\ keys \in Seq(RoundKeys(version)) /\ before \in Seq(Block)
      /\ Len(before) = Len(keys) /\ Len(keys) < Rounds
      /\ direction = "encrypting"
  BY DEF IInv, TypeOK, Progress, EncryptRound
<1>2. PICK key \in RoundKeys(version) :
        keys' = Append(keys, key) /\ state' = Forward(version, state, key)
  BY DEF EncryptRound
<1>3. before' = Append(before, state) /\ UNCHANGED <<version, direction, undone>>
  BY DEF EncryptRound
<1>4. PICK n \in Nat : n = Len(keys) /\ n = Len(before)
  BY <1>1
<1>5. /\ keys' \in Seq(RoundKeys(version)) /\ Len(keys') = n + 1
      /\ \A j \in 1..n : keys'[j] = keys[j]
      /\ keys'[n + 1] = key
  BY <1>1, <1>2, <1>4
<1>6. /\ before' \in Seq(Block) /\ Len(before') = n + 1
      /\ \A j \in 1..n : before'[j] = before[j]
      /\ before'[n + 1] = state
  BY <1>1, <1>3, <1>4
<1>7. state' \in Block
  BY <1>1, <1>2, RoundUndone
<1>8. TypeOK'
  BY <1>1, <1>3, <1>5, <1>6, <1>7, WidthAssumption DEF TypeOK
<1>9. Progress'
  BY <1>1, <1>3, <1>4, <1>5, <1>6, WidthAssumption DEF Progress
<1>10. ASSUME NEW j \in 1..n PROVE before'[j + 1] = Forward(version, before'[j], keys'[j])
  <2>1. CASE j = n
    <3>1. n > 0
      OBVIOUS
    <3>2. state = Forward(version, before[n], keys[n])
      BY <1>1, <1>4, <3>1 DEF IInv, History
    <3> QED BY <1>5, <1>6, <2>1, <3>2
  <2>2. CASE j # n
    <3>1. j \in 1..(n - 1) /\ j + 1 \in 1..n
      BY <2>2
    <3>2. before[j + 1] = Forward(version, before[j], keys[j])
      BY <1>4, <3>1 DEF IInv, History
    <3> QED BY <1>5, <1>6, <3>1, <3>2
  <2> QED BY <2>1, <2>2
<1>11. state' = Forward(version, before'[n + 1], keys'[n + 1])
  BY <1>2, <1>5, <1>6
<1>12. History'
  <2>1. (n + 1) - 1 = n
    OBVIOUS
  <2> QED BY <1>3, <1>5, <1>10, <1>11, <2>1 DEF History
<1>13. RoundsUndone'
  BY <1>1, <1>3 DEF RoundsUndone
<1> QED BY <1>8, <1>9, <1>12, <1>13 DEF IInv

\* Turning round changes nothing else.
LEMMA TurnStep == ASSUME IInv, Turn PROVE IInv'
<1>1. Len(keys) = Rounds /\ direction' = "decrypting"
      /\ UNCHANGED <<version, state, keys, before, undone>>
  BY DEF Turn
<1>2. TypeOK'
  BY <1>1 DEF IInv, TypeOK
<1>3. Progress'
  BY <1>1 DEF IInv, Progress
<1>4. History'
  BY <1>1 DEF IInv, History
<1>5. RoundsUndone'
  BY <1>1 DEF IInv, RoundsUndone
<1> QED BY <1>2, <1>3, <1>4, <1>5 DEF IInv

\* A round of decryption goes back to the state that its round began with.
LEMMA DecryptStep == ASSUME IInv, DecryptRound PROVE IInv'
<1>1. /\ version \in {3, 4} /\ direction = "decrypting" /\ undone \in 0..Rounds
      /\ keys \in Seq(RoundKeys(version)) /\ before \in Seq(Block)
      /\ Len(before) = Rounds /\ Len(keys) = Rounds /\ undone < Rounds
  BY DEF IInv, TypeOK, Progress, DecryptRound
<1>2. Rounds \in Nat
  BY WidthAssumption
<1>3. PICK j \in 1..Rounds : j = Rounds - undone
  BY <1>1, <1>2
<1>4. /\ state' = Backward(version, state, keys[j])
      /\ undone' = undone + 1
      /\ UNCHANGED <<version, direction, keys, before>>
  BY <1>3 DEF DecryptRound
<1>5. keys[j] \in RoundKeys(version) /\ before[j] \in Block
  BY <1>1
<1>6. state = Forward(version, before[j], keys[j])
  <2>1. CASE undone = 0
    <3>1. j = Len(keys) /\ Len(keys) > 0
      BY <1>1, <1>2, <1>3, <2>1
    <3> QED BY <2>1, <3>1 DEF IInv, History
  <2>2. CASE undone # 0
    <3>1. undone > 0 /\ j \in 1..(Len(keys) - 1) /\ Rounds - undone + 1 = j + 1
      BY <1>1, <1>2, <1>3, <2>2
    <3>2. state = before[j + 1]
      BY <3>1 DEF IInv, RoundsUndone
    <3> QED BY <3>1, <3>2 DEF IInv, History
  <2> QED BY <2>1, <2>2
<1>7. state' = before[j]
  BY <1>1, <1>4, <1>5, <1>6, RoundUndone
<1>8. undone' \in 0..Rounds /\ undone' # 0 /\ Rounds - undone' + 1 = j
  BY <1>1, <1>2, <1>3, <1>4
<1>9. TypeOK'
  BY <1>1, <1>4, <1>5, <1>7, <1>8 DEF TypeOK
<1>10. Progress'
  BY <1>1, <1>2, <1>4 DEF Progress
<1>11. History'
  BY <1>4, <1>8 DEF IInv, History
<1>12. RoundsUndone'
  BY <1>4, <1>7, <1>8 DEF RoundsUndone
<1> QED BY <1>9, <1>10, <1>11, <1>12 DEF IInv

\* Every step keeps the invariant.
LEMMA NextInv == IInv /\ [Next]_vars => IInv'
<1> SUFFICES ASSUME IInv, [Next]_vars PROVE IInv'
  OBVIOUS
<1>1. CASE EncryptRound
  BY <1>1, EncryptStep
<1>2. CASE Turn
  BY <1>2, TurnStep
<1>3. CASE DecryptRound
  BY <1>3, DecryptStep
<1>4. CASE UNCHANGED vars
  <2>1. UNCHANGED <<version, direction, state, keys, before, undone>>
    BY <1>4 DEF vars
  <2>2. TypeOK'
    BY <2>1 DEF IInv, TypeOK
  <2>3. Progress'
    BY <2>1 DEF IInv, Progress
  <2>4. History'
    BY <2>1 DEF IInv, History
  <2>5. RoundsUndone'
    BY <2>1 DEF IInv, RoundsUndone
  <2> QED BY <2>2, <2>3, <2>4, <2>5 DEF IInv
<1> QED BY <1>1, <1>2, <1>3, <1>4 DEF Next

\* The state and the history keep their types, and the history is that of the
\* rounds: encrypt_one_block and decrypt_one_block never leave the blocks.
THEOREM RoundsInvariant == Spec => [](TypeOK /\ Progress /\ History)
<1>1. IInv => TypeOK /\ Progress /\ History
  BY DEF IInv
<1> QED BY <1>1, InitInv, NextInv, PTL DEF Spec

\* decrypt_one_block passes backwards through the states that encrypt_one_block
\* went through, whatever the widths, the rounds, the block and the keys are.
THEOREM RoundsAreUndone == Spec => []RoundsUndone
<1>1. IInv => RoundsUndone
  BY DEF IInv
<1> QED BY <1>1, InitInv, NextInv, PTL DEF Spec
=============================================================================
