----------------------------- MODULE BlockChain -----------------------------
(* The chaining of blocks in crates/krcm-core/src/block.rs: encrypt_blocks *)
(* makes the seed of a block from the ciphertext of the block before it,   *)
(* decrypt_blocks from the stored one.  A caller encrypts, what it stored  *)
(* may be damaged or cut, and is then decrypted, one block a step.         *)
(* Blocks and seeds are opaque: block_seed is Seed, encrypt_one_block and  *)
(* decrypt_one_block are Enc and Dec, each seed's permutation of blocks.   *)
EXTENDS Naturals, Sequences

CONSTANTS Blocks,        \* values of a block
          Nonces,        \* values of the nonce
          Seeds,         \* values of block_seed
          MaxBlocks,     \* the longest input, in blocks
          Inputs,        \* what encrypt_blocks is called with
          Seed(_, _, _), \* nonce, block index, feedback -> seed
          Enc(_, _),     \* seed, block -> block
          Dec(_, _)      \* seed, block -> block

ASSUME InputsAssumption ==
  /\ MaxBlocks \in Nat
  /\ \A input \in Inputs : /\ input \in Seq(Blocks)
                           /\ Len(input) <= MaxBlocks
ASSUME SeedAssumption ==
  \A nonce \in Nonces, index \in 0..MaxBlocks, feedback \in Blocks \cup Nonces :
    Seed(nonce, index, feedback) \in Seeds
ASSUME CipherAssumption ==
  \A seed \in Seeds, block \in Blocks :
    /\ Enc(seed, block) \in Blocks
    /\ Dec(seed, block) \in Blocks
    /\ Dec(seed, Enc(seed, block)) = block

VARIABLES phase,       \* encrypting, stored, decrypting, decrypted, error
          ragged,      \* a partial block follows the whole ones
          nonce,
          padded,      \* the input of encrypt_blocks, in blocks
          ciphertext,  \* what encrypt_blocks has returned so far
          stored,      \* the input of decrypt_blocks, in blocks
          feedback,    \* the feedback of the loop that runs
          output       \* what decrypt_blocks has returned so far

vars == <<phase, ragged, nonce, padded, ciphertext, stored, feedback, output>>

Init == /\ phase = "encrypting"
        /\ ragged \in BOOLEAN
        /\ nonce \in Nonces
        /\ padded \in Inputs
        /\ ciphertext = << >>
        /\ stored = << >>
        /\ feedback = nonce
        /\ output = << >>

\* Both functions look at the length before the first block.
RefuseRagged ==
  /\ ragged
  /\ phase = "stored" \/ (phase = "encrypting" /\ ciphertext = << >>)
  /\ phase' = "error"
  /\ UNCHANGED <<ragged, nonce, padded, ciphertext, stored, feedback, output>>

\* Mutant: the plaintext block is fed back.
EncryptBlockPlainFeedback ==
  /\ phase = "encrypting" /\ ~ragged
  /\ Len(ciphertext) < Len(padded)
  /\ LET index == Len(ciphertext)
     IN  /\ ciphertext' = Append(ciphertext,
               Enc(Seed(nonce, index, feedback), padded[index + 1]))
         /\ feedback' = padded[index + 1]
  /\ UNCHANGED <<phase, ragged, nonce, padded, stored, output>>

\* One turn of the loop of encrypt_blocks.
EncryptBlock ==
  /\ phase = "encrypting" /\ ~ragged
  /\ Len(ciphertext) < Len(padded)
  /\ LET index     == Len(ciphertext)
         encrypted == Enc(Seed(nonce, index, feedback), padded[index + 1])
     IN  /\ ciphertext' = Append(ciphertext, encrypted)
         /\ feedback' = encrypted
  /\ UNCHANGED <<phase, ragged, nonce, padded, stored, output>>

Store ==
  /\ phase = "encrypting" /\ ~ragged
  /\ Len(ciphertext) = Len(padded)
  /\ phase' = "stored"
  /\ stored' = ciphertext
  /\ UNCHANGED <<ragged, nonce, padded, ciphertext, feedback, output>>

\* What happens to a stored ciphertext: a block changes, or the end is lost.
Damage ==
  /\ phase = "stored" /\ ~ragged
  /\ \E j \in 1..Len(stored) :
       \/ /\ \E block \in Blocks : stored' = [stored EXCEPT ![j] = block]
          /\ UNCHANGED ragged
       \/ /\ stored' = SubSeq(stored, 1, j - 1)
          /\ ragged' \in BOOLEAN
  /\ UNCHANGED <<phase, nonce, padded, ciphertext, feedback, output>>

\* Mutant: the feedback of the other loop is carried over.
BeginDecryptCarryOver ==
  /\ phase = "stored" /\ ~ragged
  /\ phase' = "decrypting"
  /\ UNCHANGED <<ragged, nonce, padded, ciphertext, stored, feedback, output>>

BeginDecrypt ==
  /\ phase = "stored" /\ ~ragged
  /\ phase' = "decrypting"
  /\ feedback' = nonce
  /\ UNCHANGED <<ragged, nonce, padded, ciphertext, stored, output>>

\* Mutant: the decrypted block is fed back.
DecryptBlockPlainFeedback ==
  /\ phase = "decrypting"
  /\ Len(output) < Len(stored)
  /\ LET index     == Len(output)
         decrypted == Dec(Seed(nonce, index, feedback), stored[index + 1])
     IN  output' = Append(output, decrypted) /\ feedback' = decrypted
  /\ UNCHANGED <<phase, ragged, nonce, padded, ciphertext, stored>>

DecryptBlock ==
  /\ phase = "decrypting"
  /\ Len(output) < Len(stored)
  /\ LET index     == Len(output)
         decrypted == Dec(Seed(nonce, index, feedback), stored[index + 1])
     IN  /\ output' = Append(output, decrypted)
         /\ feedback' = stored[index + 1]
  /\ UNCHANGED <<phase, ragged, nonce, padded, ciphertext, stored>>

Return ==
  /\ phase = "decrypting"
  /\ Len(output) = Len(stored)
  /\ phase' = "decrypted"
  /\ UNCHANGED <<ragged, nonce, padded, ciphertext, stored, feedback, output>>

Next == \/ RefuseRagged \/ EncryptBlock \/ Store \/ Damage
        \/ BeginDecrypt \/ DecryptBlock \/ Return

Spec == Init /\ [][Next]_vars

-----------------------------------------------------------------------------
(* Properties                                                              *)

\* Every variable keeps its type, and neither loop of block.rs writes more
\* blocks than it reads.
TypeOK ==
  /\ phase \in {"encrypting", "stored", "decrypting", "decrypted", "error"}
  /\ ragged \in BOOLEAN
  /\ nonce \in Nonces
  /\ padded \in Inputs
  /\ ciphertext \in Seq(Blocks)
  /\ stored \in Seq(Blocks)
  /\ feedback \in Blocks \cup Nonces
  /\ output \in Seq(Blocks)
  /\ Len(ciphertext) <= Len(padded)
  /\ Len(stored) <= Len(ciphertext)
  /\ Len(output) <= Len(stored)

\* What precedes block j in a chain.
Before(blocks, j) == IF j = 1 THEN nonce ELSE blocks[j - 1]

\* A ciphertext that comes back as it was stored decrypts to what was
\* encrypted, whatever its length.
RoundTrip == phase = "decrypted" /\ stored = ciphertext => output = padded

\* A damaged block garbles itself and the block after it, no other, and a
\* ciphertext cut at a block still yields the blocks before the cut: the
\* feedback is the stored block, so decryption falls back into step.
DamageIsLocal ==
  \A j \in 1..Len(output) :
    (/\ stored[j] = ciphertext[j]
     /\ Before(stored, j) = Before(ciphertext, j))
    => output[j] = padded[j]

\* The invariant both follow from: each loop feeds back the block before the
\* one it is at, and the ciphertext is the chain that starts at the nonce.
ChainInv ==
  /\ \A j \in 1..Len(ciphertext) :
       ciphertext[j] = Enc(Seed(nonce, j - 1, Before(ciphertext, j)), padded[j])
  /\ phase = "encrypting" =>
       /\ feedback = Before(ciphertext, Len(ciphertext) + 1)
       /\ stored = << >> /\ output = << >>
  /\ phase = "stored" => output = << >>
  /\ phase = "decrypting" => feedback = Before(stored, Len(output) + 1)
  /\ phase = "decrypted" => Len(output) = Len(stored)
  /\ phase \in {"stored", "decrypting", "decrypted"} =>
       Len(ciphertext) = Len(padded)
=============================================================================
