----------------------------- MODULE BlockProofs -----------------------------
(* Proofs about the two loops of block.rs that its rounds stand between.    *)
(* BlockChain, for every cipher, every set of inputs and every length: what *)
(* it decrypts is what it encrypted, and damage stays local.  Shuffle, for  *)
(* permutations and words of any size: it keeps a permutation, every place  *)
(* it may still fill is chosen by as many words, and no part of its stream  *)
(* is asked for twice.                                                      *)
EXTENDS BlockChain, Shuffle, FiniteSetTheorems, SequenceTheorems, TLAPS

-----------------------------------------------------------------------------
(* The chaining mode.                                                      *)

\* The inductive invariant: damage stays local because every block already
\* decrypted was chained on the ciphertext block stored before it.
IInv == TypeOK /\ ChainInv /\ DamageIsLocal

\* Before the first block nothing is chained yet.
LEMMA InitInv == Init => IInv
<1> SUFFICES ASSUME Init PROVE IInv
  OBVIOUS
<1> USE DEF Init
<1>1. padded \in Seq(Blocks)
  BY InputsAssumption
<1>2. TypeOK
  BY <1>1 DEF TypeOK
<1>3. ChainInv
  BY <1>1 DEF ChainInv, Before
<1> QED BY <1>2, <1>3 DEF IInv, DamageIsLocal

\* The seed of a block of the input, and what the cipher makes with it.
LEMMA SeedType ==
  ASSUME TypeOK, NEW index \in Nat, index < Len(padded)
  PROVE  Seed(nonce, index, feedback) \in Seeds
<1>1. padded \in Seq(Blocks) /\ Len(padded) \in Nat /\ Len(padded) <= MaxBlocks
  BY InputsAssumption DEF TypeOK
<1>2. index \in 0..MaxBlocks
  BY <1>1, InputsAssumption
<1> QED BY <1>2, SeedAssumption DEF TypeOK

\* Encrypting one more block extends the chain.
LEMMA EncryptStep == ASSUME IInv, EncryptBlock PROVE IInv'
<1> DEFINE index     == Len(ciphertext)
           seed      == Seed(nonce, index, feedback)
           encrypted == Enc(seed, padded[index + 1])
<1>0. TypeOK /\ ChainInv
  BY DEF IInv
<1>1. /\ padded \in Seq(Blocks) /\ ciphertext \in Seq(Blocks)
      /\ index \in Nat /\ Len(padded) \in Nat /\ index < Len(padded)
      /\ phase = "encrypting" /\ stored = << >> /\ output = << >>
      /\ feedback = Before(ciphertext, index + 1)
  BY <1>0, InputsAssumption DEF EncryptBlock, TypeOK, ChainInv
<1>2. seed \in Seeds
  BY <1>0, <1>1, SeedType
<1>3. encrypted \in Blocks
  BY <1>1, <1>2, CipherAssumption
<1>4. /\ ciphertext' = Append(ciphertext, encrypted)
      /\ feedback' = encrypted
      /\ UNCHANGED <<phase, ragged, nonce, padded, stored, output>>
  BY DEF EncryptBlock
<1>5. /\ ciphertext' \in Seq(Blocks) /\ Len(ciphertext') = index + 1
      /\ \A j \in 1..index : ciphertext'[j] = ciphertext[j]
      /\ ciphertext'[index + 1] = encrypted
  <2> HIDE DEF encrypted
  <2> QED BY <1>1, <1>3, <1>4
<1>6. TypeOK'
  BY <1>0, <1>1, <1>3, <1>4, <1>5 DEF TypeOK
<1>7. ASSUME NEW j \in 1..Len(ciphertext')
      PROVE  ciphertext'[j] = Enc(Seed(nonce, j - 1, Before(ciphertext, j)'),
                                  padded[j])
  <2>1. CASE j = index + 1
    <3>1. Before(ciphertext, j)' = Before(ciphertext, j)
      BY <1>1, <1>4, <1>5, <2>1 DEF Before
    <3> QED BY <1>1, <1>5, <2>1, <3>1
  <2>2. CASE j # index + 1
    <3>1. j \in 1..index
      BY <1>1, <1>5, <2>2
    <3>2. Before(ciphertext, j)' = Before(ciphertext, j)
      BY <1>1, <1>4, <1>5, <3>1 DEF Before
    <3> QED BY <1>0, <1>5, <3>1, <3>2 DEF ChainInv
  <2> QED BY <2>1, <2>2
<1>8. feedback' = Before(ciphertext, Len(ciphertext) + 1)'
  BY <1>1, <1>4, <1>5 DEF Before
<1>9. ChainInv'
  BY <1>1, <1>4, <1>7, <1>8 DEF ChainInv, Before
<1> QED BY <1>1, <1>4, <1>6, <1>9 DEF IInv, DamageIsLocal

\* Decrypting one more block: if it and the block before it are as they were
\* stored, the seed is the one it was encrypted with.
LEMMA DecryptStep == ASSUME IInv, DecryptBlock PROVE IInv'
<1> DEFINE index     == Len(output)
           seed      == Seed(nonce, index, feedback)
           decrypted == Dec(seed, stored[index + 1])
<1>0. TypeOK /\ ChainInv /\ DamageIsLocal
  BY DEF IInv
<1>1. /\ padded \in Seq(Blocks) /\ ciphertext \in Seq(Blocks)
      /\ stored \in Seq(Blocks) /\ output \in Seq(Blocks)
      /\ Len(ciphertext) \in Nat /\ Len(stored) \in Nat /\ index \in Nat
      /\ index < Len(stored) /\ Len(stored) <= Len(ciphertext)
      /\ Len(ciphertext) = Len(padded)
      /\ phase = "decrypting"
      /\ feedback = Before(stored, index + 1)
  BY <1>0, InputsAssumption DEF DecryptBlock, TypeOK, ChainInv
<1>2. seed \in Seeds
  BY <1>0, <1>1, SeedType
<1>3. decrypted \in Blocks
  BY <1>1, <1>2, CipherAssumption
<1>4. /\ output' = Append(output, decrypted)
      /\ feedback' = stored[index + 1]
      /\ UNCHANGED <<phase, ragged, nonce, padded, ciphertext, stored>>
  BY DEF DecryptBlock
<1>5. /\ output' \in Seq(Blocks) /\ Len(output') = index + 1
      /\ \A j \in 1..index : output'[j] = output[j]
      /\ output'[index + 1] = decrypted
  <2> HIDE DEF decrypted
  <2> QED BY <1>1, <1>3, <1>4
<1>6. TypeOK'
  BY <1>0, <1>1, <1>4, <1>5 DEF TypeOK
<1>7. ChainInv'
  <2>1. feedback' = Before(stored, Len(output) + 1)'
    BY <1>1, <1>4, <1>5 DEF Before
  <2> QED BY <1>0, <1>1, <1>4, <2>1 DEF ChainInv, Before
<1>8. ASSUME NEW j \in 1..Len(output'),
             stored[j] = ciphertext[j],
             Before(stored, j) = Before(ciphertext, j)
      PROVE  output'[j] = padded[j]
  <2>1. CASE j = index + 1
    <3>1. stored[j] = Enc(seed, padded[j])
      <4>1. j \in 1..Len(ciphertext)
        BY <1>1, <2>1
      <4> QED BY <1>0, <1>1, <1>8, <2>1, <4>1 DEF ChainInv
    <3>2. padded[j] \in Blocks
      BY <1>1, <2>1
    <3> QED BY <1>2, <1>5, <2>1, <3>1, <3>2, CipherAssumption
  <2>2. CASE j # index + 1
    <3>1. j \in 1..index
      BY <1>1, <1>5, <2>2
    <3> QED BY <1>0, <1>5, <1>8, <3>1 DEF DamageIsLocal
  <2> QED BY <2>1, <2>2
<1>9. DamageIsLocal'
  BY <1>4, <1>8 DEF DamageIsLocal, Before
<1> QED BY <1>6, <1>7, <1>9 DEF IInv

\* Damage in storage, whatever it does to the stored blocks, comes before any
\* is decrypted.
LEMMA DamageStep == ASSUME IInv, Damage PROVE IInv'
<1>0. TypeOK /\ ChainInv
  BY DEF IInv
<1>1. /\ stored \in Seq(Blocks) /\ Len(stored) \in Nat
      /\ phase = "stored" /\ output = << >>
      /\ UNCHANGED <<phase, nonce, padded, ciphertext, feedback, output>>
  BY <1>0 DEF Damage, TypeOK, ChainInv
<1>2. PICK j \in 1..Len(stored) :
        \/ /\ \E block \in Blocks : stored' = [stored EXCEPT ![j] = block]
           /\ UNCHANGED ragged
        \/ stored' = SubSeq(stored, 1, j - 1) /\ ragged' \in BOOLEAN
  BY DEF Damage
<1>3. /\ stored' \in Seq(Blocks) /\ Len(stored') <= Len(stored)
      /\ ragged' \in BOOLEAN
  <2>1. CASE \E block \in Blocks : stored' = [stored EXCEPT ![j] = block]
    BY <1>0, <1>1, <1>2, <2>1 DEF TypeOK
  <2>2. CASE stored' = SubSeq(stored, 1, j - 1) /\ ragged' \in BOOLEAN
    <3>1. j - 1 \in 0..Len(stored)
      BY <1>1
    <3> QED BY <1>1, <2>2, <3>1
  <2> QED BY <1>0, <1>2, <2>1, <2>2 DEF TypeOK
<1>4. TypeOK'
  <2>1. Len(stored') \in Nat /\ Len(ciphertext) \in Nat
    BY <1>0, <1>3 DEF TypeOK
  <2> QED BY <1>0, <1>1, <1>3, <2>1 DEF TypeOK
<1>5. ChainInv'
  BY <1>0, <1>1 DEF ChainInv, Before
<1> QED BY <1>1, <1>4, <1>5 DEF IInv, DamageIsLocal

\* Every step of encrypt_blocks, storage and decrypt_blocks keeps the invariant.
LEMMA NextInv == IInv /\ [Next]_vars => IInv'
<1> SUFFICES ASSUME IInv, [Next]_vars PROVE IInv'
  OBVIOUS
<1>0. TypeOK /\ ChainInv /\ DamageIsLocal
  BY DEF IInv
<1>1. CASE RefuseRagged
  BY <1>0, <1>1
     DEF RefuseRagged, IInv, TypeOK, ChainInv, DamageIsLocal, Before
<1>2. CASE EncryptBlock
  BY <1>2, EncryptStep
<1>3. CASE Store
  BY <1>0, <1>3 DEF Store, IInv, TypeOK, ChainInv, DamageIsLocal, Before
<1>4. CASE Damage
  BY <1>4, DamageStep
<1>5. CASE BeginDecrypt
  BY <1>0, <1>5 DEF BeginDecrypt, IInv, TypeOK, ChainInv, DamageIsLocal, Before
<1>6. CASE DecryptBlock
  BY <1>6, DecryptStep
<1>7. CASE Return
  BY <1>0, <1>7 DEF Return, IInv, TypeOK, ChainInv, DamageIsLocal, Before
<1>8. CASE UNCHANGED vars
  BY <1>0, <1>8 DEF vars, IInv, TypeOK, ChainInv, DamageIsLocal, Before
<1> QED BY <1>1, <1>2, <1>3, <1>4, <1>5, <1>6, <1>7, <1>8 DEF Next

\* The chain is what its invariant says in every state (encrypt_blocks,
\* decrypt_blocks).
THEOREM Invariant == Spec => []IInv
BY InitInv, NextInv, PTL DEF Spec

\* Damage to a stored ciphertext garbles the damaged block and the next one
\* only, for every cipher and every length.
THEOREM DamageStaysLocal == Spec => []DamageIsLocal
<1>1. IInv => DamageIsLocal
  BY DEF IInv
<1> QED BY <1>1, Invariant, PTL

\* decrypt_blocks inverts encrypt_blocks, for every cipher whose blocks can
\* be inverted and every length.
THEOREM DecryptInverts == Spec => []RoundTrip
<1>1. IInv => RoundTrip
  <2> SUFFICES ASSUME IInv, phase = "decrypted", stored = ciphertext
               PROVE  output = padded
    BY DEF RoundTrip
  <2>1. /\ output \in Seq(Blocks) /\ padded \in Seq(Blocks)
        /\ Len(output) = Len(stored) /\ Len(stored) = Len(padded)
    BY InputsAssumption DEF IInv, TypeOK, ChainInv
  <2>2. \A j \in 1..Len(output) : output[j] = padded[j]
    BY DEF IInv, DamageIsLocal
  <2> QED BY <2>1, <2>2
<1> QED BY <1>1, Invariant, PTL

-----------------------------------------------------------------------------
(* The shuffle.                                                            *)

\* The places already filled are past i, and what was drawn are words.
ShuffleTypeOK ==
  /\ i \in 0..(Size - 1)
  /\ stream \in Seq(Words)
  /\ cursor \in 0..Len(stream)

\* Each refill is labelled with the number of words there were before it.
Labelled ==
  /\ labels \in Seq(Nat)
  /\ Len(stream) = Len(labels) * Refill
  /\ \A m \in 1..Len(labels) : labels[m] = (m - 1) * Refill

ShuffleIInv == ShuffleTypeOK /\ Bijective /\ Labelled

-----------------------------------------------------------------------------
(* Arithmetic.                                                             *)

\* A remainder is less than the modulus and a quotient times it is the rest.
LEMMA DivMod ==
  ASSUME NEW n \in Nat, NEW d \in Nat \ {0}
  PROVE  /\ n % d \in 0..(d - 1)
         /\ n \div d \in Nat
         /\ n = (n \div d) * d + (n % d)
OBVIOUS

\* There is one way to write a number as a multiple and a remainder.
LEMMA OneRemainder ==
  ASSUME NEW d \in Nat \ {0}, NEW q \in Nat, NEW r \in 0..(d - 1)
  PROVE  (q * d + r) % d = r
<1> DEFINE n == q * d + r
<1> DEFINE s == n % d
<1> DEFINE p == n \div d
<1>1. n \in Nat
  OBVIOUS
<1>2. s \in 0..(d - 1) /\ p \in Nat /\ n = p * d + s
  BY <1>1, DivMod
<1> HIDE DEF n, s, p
<1>3. (q - p) * d = s - r
  BY <1>2 DEF n
<1>4. q = p
  <2>1. CASE q - p >= 1
    <3>1. (q - p) * d >= d
      BY <2>1, <1>2
    <3> QED BY <3>1, <1>3, <1>2
  <2>2. CASE p - q >= 1
    <3>1. (p - q) * d >= d
      BY <2>2, <1>2
    <3>2. (p - q) * d = r - s
      BY <1>3, <1>2
    <3> QED BY <3>1, <3>2, <1>2
  <2> QED BY <2>1, <2>2, <1>2
<1>5. s = r
  BY <1>3, <1>4, <1>2
<1> QED BY <1>5 DEF s, n

\* Multiples of one number are as far apart as it says.
LEMMA OneMultiple ==
  ASSUME NEW d \in Nat \ {0}, NEW m \in Nat, NEW n \in Nat, m * d = n * d
  PROVE  m = n
<1>1. (m - n) * d = 0
  OBVIOUS
<1> QED BY <1>1

-----------------------------------------------------------------------------
(* Its steps.                                                              *)

\* Two entries of a permutation that change places leave a permutation.
LEMMA SwapKeeps ==
  ASSUME i \in Places, Bijective, NEW j \in Places
  PROVE  /\ Swap(j) \in [Places -> Places]
         /\ \A m, n \in Places : Swap(j)[m] = Swap(j)[n] => m = n
<1>1. Swap(j) \in [Places -> Places]
  BY DEF Swap, Bijective
<1>2. \A m \in Places : Swap(j)[m] = values[IF m = j THEN i ELSE IF m = i THEN j ELSE m]
  BY DEF Swap, Bijective
<1> QED BY <1>1, <1>2 DEF Bijective

\* The first state.
LEMMA ShuffleInitInv == ShuffleInit => ShuffleIInv
<1> SUFFICES ASSUME ShuffleInit PROVE ShuffleIInv
  OBVIOUS
<1>1. ShuffleTypeOK
  BY ShuffleAssumption DEF ShuffleInit, ShuffleTypeOK
<1>2. Bijective
  BY DEF ShuffleInit, Bijective, Places
<1>3. Labelled
  BY ShuffleAssumption DEF ShuffleInit, Labelled
<1> QED BY <1>1, <1>2, <1>3 DEF ShuffleIInv

\* The invariant is inductive.
LEMMA ShuffleNextInv == ShuffleIInv /\ [ShuffleNext]_shuffleVars => ShuffleIInv'
<1> SUFFICES ASSUME ShuffleIInv, [ShuffleNext]_shuffleVars PROVE ShuffleIInv'
  OBVIOUS
<1>0. ShuffleTypeOK /\ Bijective /\ Labelled
  BY DEF ShuffleIInv
<1>1. CASE Extend
  <2>1. PICK words \in [1..Refill -> Words] : stream' = stream \o words
    BY <1>1 DEF Extend
  <2>2. words \in Seq(Words) /\ Len(words) = Refill /\ stream \in Seq(Words)
    BY <1>0, ShuffleAssumption DEF ShuffleTypeOK
  <2>3. stream' \in Seq(Words) /\ Len(stream') = Len(stream) + Refill
    BY <2>1, <2>2, ConcatProperties
  <2>4. labels' = Append(labels, Len(stream)) /\ UNCHANGED <<i, values, cursor>>
    BY <1>1 DEF Extend, NextLabel
  <2>5. ShuffleTypeOK'
    BY <1>0, <2>2, <2>3, <2>4, ShuffleAssumption DEF ShuffleTypeOK
  <2>6. Bijective'
    BY <1>0, <2>4 DEF Bijective
  <2>7. Labelled'
    <3>1. labels' \in Seq(Nat) /\ Len(labels') = Len(labels) + 1
      BY <1>0, <2>2, <2>4 DEF Labelled
    <3>2. Len(stream') = Len(labels') * Refill
      <4>1. Len(labels) \in Nat /\ Refill \in Nat /\ Len(stream) = Len(labels) * Refill
        BY <1>0, ShuffleAssumption DEF Labelled
      <4>2. (Len(labels) + 1) * Refill = Len(labels) * Refill + Refill
        BY <4>1
      <4> QED BY <2>3, <3>1, <4>1, <4>2
    <3>3. \A m \in 1..Len(labels') : labels'[m] = (m - 1) * Refill
      <4>1. \A m \in 1..Len(labels) : labels'[m] = labels[m]
        BY <1>0, <2>4 DEF Labelled
      <4>2. labels'[Len(labels) + 1] = Len(labels) * Refill
        BY <1>0, <2>4 DEF Labelled
      <4>3. Len(labels) \in Nat /\ (Len(labels) + 1) - 1 = Len(labels)
        BY <1>0 DEF Labelled
      <4> QED BY <1>0, <3>1, <4>1, <4>2, <4>3 DEF Labelled
    <3> QED BY <3>1, <3>2, <3>3 DEF Labelled
  <2> QED BY <2>5, <2>6, <2>7 DEF ShuffleIInv
<1>2. CASE Take
  <2>0. /\ i > 0 /\ cursor + 1 <= Len(stream) /\ cursor' = cursor + 1
        /\ UNCHANGED <<stream, labels>>
    BY <1>2, <1>0 DEF Take, Exhausted, ShuffleTypeOK
  <2>1. stream[cursor + 1] \in Words /\ Modulus \in 1..Size /\ i \in Places
    BY <1>0, <2>0, ShuffleAssumption DEF ShuffleTypeOK, Modulus, Places
  <2>2. Choice(stream[cursor + 1]) \in Places
    <3>1. ASSUME NEW r \in Nat, NEW m \in 1..Size PROVE r % m \in 0..(Size - 1)
      <4>1. r % m \in 0..(m - 1)
        BY <3>1, DivMod, ShuffleAssumption
      <4> QED BY <4>1, ShuffleAssumption
    <3> QED BY <2>1, <3>1, ShuffleAssumption DEF Choice, Words, Places
  <2>3. \/ values' = Swap(Choice(stream[cursor + 1])) /\ i' = i - 1
        \/ UNCHANGED <<i, values>>
    BY <1>2 DEF Take
  <2>4. ShuffleTypeOK'
    BY <1>0, <2>0, <2>3, ShuffleAssumption DEF ShuffleTypeOK
  <2>5. Bijective'
    <3>1. CASE values' = Swap(Choice(stream[cursor + 1]))
      BY <1>0, <2>1, <2>2, <3>1, SwapKeeps DEF Bijective
    <3>2. CASE UNCHANGED values
      BY <1>0, <3>2 DEF Bijective
    <3> QED BY <2>3, <3>1, <3>2
  <2>6. Labelled'
    BY <1>0, <2>0 DEF Labelled
  <2> QED BY <2>4, <2>5, <2>6 DEF ShuffleIInv
<1>3. CASE UNCHANGED shuffleVars
  BY <1>0, <1>3 DEF ShuffleIInv, ShuffleTypeOK, Bijective, Labelled, shuffleVars
<1> QED BY <1>1, <1>2, <1>3 DEF ShuffleNext

\* The inductive invariant of the two loops.
THEOREM ShuffleInvariant == ShuffleSpec => []ShuffleIInv
<1> QED BY ShuffleInitInv, ShuffleNextInv, PTL DEF ShuffleSpec

\* The values are a permutation at every turn, whatever the stream holds.
THEOREM StaysBijective == ShuffleSpec => []Bijective
<1>1. ShuffleIInv => Bijective
  BY DEF ShuffleIInv
<1> QED BY <1>1, ShuffleInvariant, PTL

\* No two refills of the stream have one label.
THEOREM RefillsAreFresh == ShuffleSpec => []FreshStream
<1>1. ShuffleIInv => FreshStream
  <2> SUFFICES ASSUME Labelled, NEW m \in 1..Len(labels)
               PROVE  /\ \A n \in 1..Len(labels) : labels[m] = labels[n] => m = n
                      /\ labels[m] = (m - 1) * Refill
    BY DEF ShuffleIInv, FreshStream
  <2>1. ASSUME NEW n \in 1..Len(labels), labels[m] = labels[n] PROVE m = n
    <3>1. (m - 1) * Refill = (n - 1) * Refill /\ m - 1 \in Nat /\ n - 1 \in Nat
      BY <2>1 DEF Labelled
    <3>2. m - 1 = n - 1
      BY <3>1, OneMultiple, ShuffleAssumption
    <3> QED BY <3>2
  <2> QED BY <2>1 DEF Labelled
<1> QED BY <1>1, ShuffleInvariant, PTL

\* Of the numbers below the last multiple of m up to w, those that leave one
\* remainder are as many as there are multiples.
LEMMA EqualClasses ==
  ASSUME NEW w \in Nat, NEW m \in Nat \ {0}, NEW j \in 0..(m - 1)
  PROVE  Cardinality({r \in 0..(w - 1) : r < w - (w % m) /\ r % m = j}) = w \div m
<1> DEFINE K == w \div m
<1> DEFINE S == {r \in 0..(w - 1) : r < w - (w % m) /\ r % m = j}
<1>1. K \in Nat /\ w - (w % m) = K * m /\ K * m <= w
  <2>1. w % m \in 0..(m - 1) /\ K \in Nat /\ w = K * m + (w % m)
    BY DivMod
  <2> QED BY <2>1
<1> HIDE DEF K
<1>s. \A r : r \in S <=> r \in Nat /\ r < K * m /\ r % m = j
  BY <1>1
<1> HIDE DEF S
<1> DEFINE f == [q \in 0..(K - 1) |-> q * m + j]
<1>3. ASSUME NEW q \in 0..(K - 1)
      PROVE  f[q] \in S
  <2>1. f[q] = q * m + j /\ q * m + j \in Nat /\ q \in Nat
    BY <1>1
  <2>2. (q + 1) * m <= K * m /\ (q + 1) * m = q * m + m
    BY <1>1
  <2>3. f[q] < K * m
    BY <2>1, <2>2, <1>1
  <2>4. f[q] % m = j
    BY <2>1, OneRemainder
  <2> QED BY <2>1, <2>3, <2>4, <1>s
<1>4. ASSUME NEW p \in 0..(K - 1), NEW q \in 0..(K - 1), f[p] = f[q] PROVE p = q
  <2>1. p * m = q * m /\ p \in Nat /\ q \in Nat
    BY <1>4, <1>1
  <2> QED BY <2>1, OneMultiple
<1>5. ASSUME NEW r \in S PROVE \E q \in 0..(K - 1) : f[q] = r
  <2>1. r \in Nat /\ r < K * m /\ r % m = j
    BY <1>s
  <2>2. PICK q \in Nat : r = q * m + j
    BY <2>1, DivMod
  <2>3. q <= K - 1
    <3>1. CASE q >= K
      <4>1. q * m >= K * m
        BY <3>1, <1>1
      <4> QED BY <4>1, <2>1, <2>2, <1>1
    <3> QED BY <3>1, <1>1
  <2> QED BY <2>2, <2>3, <1>1
<1>6. f \in Bijection(0..(K - 1), S)
  <2>1. f \in [0..(K - 1) -> S]
    BY <1>3
  <2> QED BY <2>1, <1>4, <1>5 DEF Bijection, Injection, Surjection, IsInjective
<1>7. IsFiniteSet(0..(K - 1)) /\ Cardinality(0..(K - 1)) = K
  <2>1. 0 \in Int /\ K - 1 \in Int /\ (IF 0 > K - 1 THEN 0 ELSE (K - 1) - 0 + 1) = K
    BY <1>1
  <2> HIDE DEF f
  <2> QED BY ONLY <2>1, FS_Interval
<1>8. Cardinality(S) = K
  <2> HIDE DEF f
  <2> QED BY <1>6, <1>7, FS_Bijection DEF ExistsBijection
<1> QED BY <1>8 DEF K, S

\* As many words lead to each of the places that may still be filled.
THEOREM NoBias == ShuffleSpec => []Unbiased
<1>1. ShuffleIInv => Unbiased
  <2> SUFFICES ASSUME ShuffleTypeOK PROVE Unbiased
    BY DEF ShuffleIInv
  <2>1. 0 \in 0..i /\ Modulus \in Nat \ {0} /\ 0..i = 0..(Modulus - 1)
        /\ MaxWord + 1 \in Nat /\ Words = 0..((MaxWord + 1) - 1)
    BY ShuffleAssumption DEF ShuffleTypeOK, Modulus, Words
  <2>2. ASSUME NEW j \in 0..i
        PROVE  Cardinality({r \in Words : r < Limit /\ Choice(r) = j})
                 = (MaxWord + 1) \div Modulus
    BY <2>1, EqualClasses DEF Limit, Choice
  <2> QED BY <2>1, <2>2 DEF Unbiased
<1> QED BY <1>1, ShuffleInvariant, PTL
=============================================================================
