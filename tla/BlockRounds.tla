---------------------------- MODULE BlockRounds ----------------------------
(* encrypt_one_block and decrypt_one_block of crates/krcm-core/src/block.rs: *)
(* rounds of substitution, diffusion, matrix mixing and permutation, and   *)
(* the inverse layers in the opposite order; and the rounds of version 3,  *)
(* which only krcm/core.py has: their substitution and permutation are     *)
(* affine maps.  What hmac_sha256 makes of a  *)
(* round seed is chosen freely: every key a round may have (Shuffle shows  *)
(* what a substitution and a permutation can be).                          *)
EXTENDS Naturals, Sequences

CONSTANTS ByteBits,     \* bits of a byte: 8 in the code
          WordBytes,    \* bytes of a word: 8
          NewtonSteps,  \* turns of the loop of modinv_odd_u64: 6
          Rounds,       \* ROUNDS: 10
          Blocks,       \* what encrypt_one_block is called with
          Keys          \* what the round seeds give

Base       == 2^ByteBits
WordBits   == ByteBits * WordBytes
BlockBytes == 4 * WordBytes
Places     == 0..(BlockBytes - 1)
Byte       == 0..(Base - 1)
Block      == [Places -> Byte]
Modulus    == 2^WordBits
Word       == 0..(Modulus - 1)
Matrix     == [1..4 -> Word]

Key4 == [substitute : [Byte -> Byte], mask : Block, diffuse : Block \X Block,
         left : Matrix, right : Matrix, position : [Places -> Places]]
Key3 == [seed : [0..3 -> Byte], mask : Block, diffuse : Block \X Block,
         left : Matrix, right : Matrix]

Injective(f) == \A j, k \in DOMAIN f : f[j] = f[k] => j = k

\* The places of a block are a power of two, which version 3 needs, and the loop
\* of modinv_odd_u64 is long enough for a word.
ASSUME WidthAssumption == /\ ByteBits \in Nat \ {0}
                          /\ \E n \in 0..WordBytes : WordBytes = 2^n
                          /\ WordBytes \in Nat \ {0}
                          /\ Rounds \in Nat
                          /\ NewtonSteps \in Nat
                          /\ WordBits <= 2^NewtonSteps
ASSUME KeysAssumption == /\ Blocks \subseteq Block
                         /\ Keys \subseteq Key4 \cup Key3
                         /\ \A key \in Keys : key \in Key4 =>
                              Injective(key.substitute) /\ Injective(key.position)

VARIABLES version,    \* whose rounds these are: 3 or 4
          direction,  \* encrypting or decrypting
          state,      \* the variable of that name in both functions
          keys,       \* the keys of the rounds, which the seed determines
          before,     \* history: the state each round of encryption began with
          undone      \* rounds that decryption has undone

vars == <<version, direction, state, keys, before, undone>>

-----------------------------------------------------------------------------
(* The layers.                                                             *)

Plus(a, b)  == (a + b) % Base
Minus(a, b) == (a + Base - b) % Base

PreSubstitute(block, key) ==
  [k \in Places |-> key.substitute[Plus(block[k], key.mask[k])]]

\* inverse_permutation
InversePermutation(perm) == [v \in DOMAIN perm |-> CHOOSE k \in DOMAIN perm : perm[k] = v]

PostUnsubstitute(block, key) ==
  [k \in Places |->
    Minus(InversePermutation(key.substitute)[block[k]], key.mask[k])]

\* diffuse_bytes: a pass upwards, then one downwards, in place.
Upwards(block, mask) ==
  LET up[k \in Places] ==
        IF k = 0 THEN block[0] ELSE Plus(Plus(block[k], up[k - 1]), mask[k])
  IN  up
Downwards(block, mask) ==
  LET down[d \in Places] ==
        LET k == BlockBytes - 1 - d
        IN  IF d = 0 THEN block[k] ELSE Plus(Plus(block[k], down[d - 1]), mask[k])
  IN  down
Diffuse(block, key) ==
  LET down == Downwards(Upwards(block, key.diffuse[1]), key.diffuse[2])
  IN  [k \in Places |-> down[BlockBytes - 1 - k]]

\* Mutant: the first pass goes downwards too, over bytes already undone.
UndiffuseDownwards(block, key) ==
  LET down[d \in Places] ==
        LET k == BlockBytes - 1 - d
        IN  IF d = 0 THEN block[k]
            ELSE Minus(Minus(block[k], down[d - 1]), key.diffuse[2][k])
      up == [k \in Places |-> down[BlockBytes - 1 - k]]
  IN  [k \in Places |-> IF k = 0 THEN up[0]
                        ELSE Minus(Minus(up[k], up[k - 1]), key.diffuse[1][k])]

\* undiffuse_bytes: each pass subtracts a byte it has not changed yet.
Undiffuse(block, key) ==
  LET up == [k \in Places |->
              IF k = BlockBytes - 1 THEN block[k]
              ELSE Minus(Minus(block[k], block[k + 1]), key.diffuse[2][k])]
  IN  [k \in Places |-> IF k = 0 THEN up[0]
                        ELSE Minus(Minus(up[k], up[k - 1]), key.diffuse[1][k])]

\* words_from_block and block_from_words, the first byte the highest.
ReadBytes(block, from) ==
  LET value[k \in 0..WordBytes] ==
        IF k = 0 THEN 0 ELSE value[k - 1] * Base + block[from + k - 1]
  IN  value
Words(block) ==
  [w \in 1..4 |-> ReadBytes(block, (w - 1) * WordBytes)[WordBytes]]
BlockOf(words) ==
  [p \in Places |->
    LET shift == WordBytes - 1 - (p % WordBytes)
    IN  (words[(p \div WordBytes) + 1] \div 2^(ByteBits * shift)) % Base]

Wrap(n) == n % Modulus
Negative(n) == Wrap(Modulus - n)
Even(n) == n - (n % 2)

\* matrix_from_seed: `| 1` on the diagonal, `& !1` off it.
MatrixFrom(m) == <<Even(m[1]) + 1, Even(m[2]), Even(m[3]), Even(m[4]) + 1>>

Det(m) == Wrap(Wrap(m[1] * m[4]) + Negative(Wrap(m[2] * m[3])))

\* Mutant: one turn too few.
ModInvShort(a) ==
  LET x[n \in 0..NewtonSteps] ==
        IF n <= 1 THEN 1
        ELSE Wrap(x[n - 1] * Wrap(2 + Negative(Wrap(a * x[n - 1]))))
  IN  x[NewtonSteps]

\* modinv_odd_u64: each turn doubles the number of bits that are right.
Newton(a) ==
  LET x[n \in 0..NewtonSteps] ==
        IF n = 0 THEN 1
        ELSE Wrap(x[n - 1] * Wrap(2 + Negative(Wrap(a * x[n - 1]))))
  IN  x
ModInv(a) == Newton(a)[NewtonSteps]

MatrixInv(m) == LET d == ModInv(Det(m))
                IN  <<Wrap(m[4] * d), Wrap(Negative(m[2]) * d),
                      Wrap(Negative(m[3]) * d), Wrap(m[1] * d)>>

MatrixMul(l, r) == <<Wrap(l[1] * r[1] + l[2] * r[3]), Wrap(l[1] * r[2] + l[2] * r[4]),
                     Wrap(l[3] * r[1] + l[4] * r[3]), Wrap(l[3] * r[2] + l[4] * r[4])>>

Mix(block, key) ==
  BlockOf(MatrixMul(MatrixFrom(key.left),
                    MatrixMul(Words(block), MatrixFrom(key.right))))
Unmix(block, key) ==
  BlockOf(MatrixMul(MatrixInv(MatrixFrom(key.left)),
                    MatrixMul(Words(block), MatrixInv(MatrixFrom(key.right)))))

\* apply_position_permutation and invert_position_permutation
Permute(block, key) == [k \in Places |-> block[key.position[k]]]
Unpermute(block, key) == [p \in Places |-> block[InversePermutation(key.position)[p]]]

\* The affine maps of version 3: a seed byte made odd can be inverted.
Odd(n)       == n - (n % 2) + 1
ModularInverse(a) == CHOOSE x \in Byte : (a * x) % Base = 1

PreSubstituteV3(block, key) ==
  [k \in Places |->
    (Odd(key.seed[0]) * Plus(block[k], key.mask[k]) + key.seed[1]) % Base]

\* Mutant: the mask is taken off before the map is undone.
UnmaskFirst(block, key) ==
  [k \in Places |->
    (ModularInverse(Odd(key.seed[0]))
       * Minus(Minus(block[k], key.mask[k]), key.seed[1])) % Base]

PostUnsubstituteV3(block, key) ==
  [k \in Places |->
    Minus((ModularInverse(Odd(key.seed[0])) * Minus(block[k], key.seed[1])) % Base,
          key.mask[k])]

AffinePlace(k, key) ==
  ((Odd(key.seed[2]) % BlockBytes) * k + key.seed[3]) % BlockBytes
PermuteV3(block, key) == [k \in Places |-> block[AffinePlace(k, key)]]
UnpermuteV3(block, key) ==
  [p \in Places |-> block[CHOOSE k \in Places : AffinePlace(k, key) = p]]

\* One round of version v, and its inverse.
Forward(v, block, key) ==
  IF v = 3
  THEN PermuteV3(Mix(Diffuse(PreSubstituteV3(block, key), key), key), key)
  ELSE Permute(Mix(Diffuse(PreSubstitute(block, key), key), key), key)
Backward(v, block, key) ==
  IF v = 3
  THEN PostUnsubstituteV3(Undiffuse(Unmix(UnpermuteV3(block, key), key), key), key)
  ELSE PostUnsubstitute(Undiffuse(Unmix(Unpermute(block, key), key), key), key)

RoundKeys(v) == Keys \cap (IF v = 3 THEN Key3 ELSE Key4)

-----------------------------------------------------------------------------
Init == /\ version \in {3, 4}
        /\ direction = "encrypting"
        /\ state \in Blocks
        /\ keys = << >> /\ before = << >> /\ undone = 0

EncryptRound ==
  /\ direction = "encrypting" /\ Len(keys) < Rounds
  /\ \E key \in RoundKeys(version) :
       /\ keys' = Append(keys, key)
       /\ state' = Forward(version, state, key)
  /\ before' = Append(before, state)
  /\ UNCHANGED <<version, direction, undone>>

\* decrypt_one_block is called with what encrypt_one_block returned.
Turn ==
  /\ direction = "encrypting" /\ Len(keys) = Rounds
  /\ direction' = "decrypting"
  /\ UNCHANGED <<version, state, keys, before, undone>>

\* Mutant: the layers are undone in the order in which they were applied.
DecryptRoundForward ==
  /\ direction = "decrypting" /\ undone < Rounds
  /\ LET key == keys[undone + 1]
     IN  state' = Backward(version, state, key)
  /\ undone' = undone + 1
  /\ UNCHANGED <<version, direction, keys, before>>

DecryptRound ==
  /\ direction = "decrypting" /\ undone < Rounds
  /\ LET key == keys[Rounds - undone]
     IN  state' = Backward(version, state, key)
  /\ undone' = undone + 1
  /\ UNCHANGED <<version, direction, keys, before>>

Next == EncryptRound \/ Turn \/ DecryptRound

Spec == Init /\ [][Next]_vars

-----------------------------------------------------------------------------
(* Properties                                                              *)

\* decrypt_one_block passes through the states encrypt_one_block went through,
\* backwards, to the block it began with: every layer is undone exactly, with
\* its own round's key, for every key a round may have.  So the matrices of seeds
\* can be inverted, in as many turns of modinv_odd_u64 as a word's width needs.
RoundsUndone == undone > 0 => state = before[Rounds - undone + 1]
=============================================================================
