---------------------------- MODULE MCBlockChain ----------------------------
(* A toy cipher for BlockChain: three values of a block, each seed a shift. *)
EXTENDS BlockChain

MCInputs == UNION {[1..n -> Blocks] : n \in 0..MaxBlocks}

MCSeed(n, index, fed) == (n + index + 2 * fed + index * fed) % 3
MCEnc(seed, block) == (block + seed) % 3
MCDec(seed, block) == (block + 3 - seed) % 3
=============================================================================
