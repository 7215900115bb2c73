# KRCM-SPN in TLA+

KRCM-SPN is an experimental authenticated container format: a custom 32-byte
block transformation, a password-based key derivation, a tag, and command line
tools that turn files into containers and back. This directory holds a TLA+
specification of the parts whose correctness is hard to test: what the tools
leave on a disk when they race, fail or lose power, how segments are encrypted
by threads and read back, what a damaged container can make the reader do, and
whether decryption is the inverse of encryption at every level.

## 1. The system

| Part | State it keeps | Operations | Talks to |
|---|---|---|---|
| `crates/krcm-cli` | files; per invocation: command line, password, input, temporary file | `encrypt`, `decrypt`, `migrate`, `info`; `self-test`, `bench` | the file system, `decrypt_auto`, `encrypt_v4`, `encrypt_v5` |
| `format_v5.rs` | none between calls; per call: header, table, ciphertext, running offsets | `encrypt_v5`, `decrypt_v5`, the segment table, the inner header | `kdf`, `block`, `padding`, a rayon pool |
| `format_v4.rs`, `header_v4.rs` | per call | `encrypt_v4`, `decrypt_v4`, the JSON header | `kdf`, `block`, `padding` |
| `block.rs` | per call: feedback, round state, stream and cursor of a keyed shuffle | `encrypt_blocks`, `decrypt_blocks`, one block, the layers, the seeds | HMAC |
| `padding.rs` | none | `pad`, `unpad` | |
| `kdf.rs` | keys, cleared when dropped | `derive_keys`, `derive_root_key`, `V5Keys::derive`, `make_tag` | PBKDF2, scrypt, HMAC |
| `lib.rs` | none | `decrypt_auto` chooses a version by its magic | both formats |
| `crates/krcm-py` | none | the same functions for Python | the core |
| `krcm/core.py`, `compact.py`, `kdf.py` | none | the Python reference of version 4, the only code for version 3, a fixed-header variant | krcm-py when it is installed |
| `krcm/cli.py` | files | `encrypt`, `decrypt` with its own `_atomic_write` | `core.py` |

What is hard in each, and what makes it correct:

* **The commands.** There is no lock. Two invocations look at the same output,
  wait for a password as long as the user likes, look again, write a temporary
  file with a random name, sync it, rename it and sync the directory. Any call
  can fail, any process can be killed, power can be lost between any two
  calls. Correct means: a user's path always leads to a whole file, before and
  after a loss of power; a command that reports failure changed nothing; one
  that reported success stays done; a file replaced in place is never lost;
  without `--force` nothing that was there is replaced.
* **Segments.** Threads finish in any order and the result may not depend on
  it; offsets are 64-bit words read from a file that may be damaged, and are
  used to slice memory. Correct means: what the checks accept tiles the
  ciphertext, no slice is out of bounds, nothing is skipped, what is read back
  is what was cut up.
* **The container.** Salt and nonce may be given by the caller and repeat.
  What is read may be damaged, or mixed from several containers and tagged
  again by a program that knows a password. Correct means: only data that was
  encrypted with this password under this header is returned; an
  untouched container always opens; a nonce meets one input; any bytes make the
  reader return.
* **Blocks.** Ten rounds of four layers are undone in reverse order; the
  feedback is the ciphertext in both directions; the inverse of a matrix
  modulo 2^64 takes a fixed number of Newton steps; a shuffle rejects the
  words that would bias it. Correct means: decryption inverts encryption,
  damage stays local, the permutation is one and is unbiased.
* **Two languages, three versions.** `krcm-core`, its Python bindings and
  `core.py`, with and without those bindings, read the same version 4 files.
  The JSON header has a length of its own that no tag covers, its version is
  cut to a byte in Rust, and versions 2 and 3 pass both header checks. Correct
  means: Rust and Python give one answer, the data included, but for the cases
  that can be named; nobody returns data that was not encrypted with this
  password in this container.
* **The Python commands.** `_atomic_write` of `krcm/cli.py` uses one fixed
  temporary name for each output, opened without exclusion and removed in a
  `finally`. Correct means: as long as commands on one path do not overlap, the
  path holds whole files whatever fails, and a leftover of a killed command is never
  published; nothing is left behind, overlap or not.

## 2. The modules

| Module | Models | State and actions |
|---|---|---|
| `PosixFs` | the file system under both tools (external) | `dir`, `data`; `dirDisk`: every directory a loss of power may restore; `dirty`: chunks not yet synced. `CreateNew`, `WriteChunk`, `SyncFile`, `Rename`, `Unlink`, `SyncDirectory`, `LosePower` |
| `CliBase` | command lines, and what a command makes of its input | a file is the plaintext it stems from and the containers around it |
| `CliCommand` | `run` and `atomic_write` of `krcm-cli/src/main.rs` | `pc` is the line an invocation is at. `Start` (first check), `Password`, `ReadInput`, `Report` (`info`, `self-test`, `bench`), `Recheck` (second check), `Draw`, `CreateTemp`, `WriteTemp`, `SyncTemp`, `RenameTemp`, `SyncParent`, `Cleanup`; `Kill`, `PowerLoss` |
| `AtomicFile` | what a user is promised: one read, one replacement, or nothing | abstract; `CliCommand` implements it |
| `BlockChain` | `encrypt_blocks`, `decrypt_blocks` | `EncryptBlock`, `Store`, `Damage`, `BeginDecrypt`, `DecryptBlock`, `Return`; the block transformation is a constant: any family of inverse pairs |
| `BlockRounds` | `encrypt_one_block`, `decrypt_one_block` and their layers | `EncryptRound`, `Turn`, `DecryptRound`; the layers are operators over bytes and words of a small width, those of version 4 and the affine ones of version 3 that only `core.py` has |
| `Shuffle` | `take_u64`, `permutation_from_seed`, `small_permutation` | `Extend` (the stream), `Take` (a word, used or rejected) |
| `Padding` | `pad`, `unpad` | operators |
| `SegmentTable` | `parse_segment_table`, the slices of `decrypt_segments`, the sum `decrypt_v5` compares | `ReadEntry`, `EndTable`, `DecryptSegment`, `EndSegments`, one loop turn each; `CompareSum` |
| `SegmentPipeline` | `parse_size`, `encrypt_segments` and its threads, the table, `decrypt_segments` | `ParseSize`, `Take`, `EncryptSegment` and `Finish` of a segment, `Assemble`, `Hand`, `Parse`, `DecryptSegment`, `EndSegments` |
| `V5Container` | `encrypt_v5`, `decrypt_v5`, the headers and `segment_size_log2`, the bounds of every KDF parameter, `kdf.rs` as terms | `Encrypt`, `Store`; `Overwrite`, `Cut`, `Extend`, `SetLength`, `SpoilEntry`, `SpoilHeader`, `Reseal`; `ReadOuter`, `DeriveRootKey`, `VerifyTag`, `ParseTable`, `DecryptSegments`, `VerifySiv`, `UnpackInner` |
| `V4Container` | `encrypt_v4`, `decrypt_v4`, `header_v4.rs`; `decrypt_bytes` of the bindings and of `core.py` | `Encrypt`, `EncryptElsewhere` (earlier versions, other programs), `Store`; `Overwrite`, `Cut`, `Extend`, `SetLength`, `SpoilHeader`; `Open`: all four readers open what is stored |
| `PyCommand` | `main` and `_atomic_write` of `krcm/cli.py`, `encrypt_to_file` of `core.py` | `pc` as in `CliCommand`. `Start`, `Password`, `ReadInput`, `Recheck`, `Open` (truncates what is there), `Write`, `Sync`, `Replace`, `Leave` (the `finally`); `Kill`, `PowerLoss` |
| `MC*` | values of the constants | |
| `CliCommandProofs`, `PyCommandProofs`, `BlockProofs`, `BlockRoundsProofs`, `SegmentTableProofs`, `SegmentPipelineProofs`, `V4ContainerProofs`, `V5ContainerProofs` | theorems and proofs (section 4) | |

`CliCommand` composes `CliBase` and `PosixFs`, `PyCommand` uses the same `PosixFs`;
`V4Container` extends `Padding`, whose operators it applies to all bytes a block may
decrypt to; `SegmentPipeline` uses `Padding`
and has the checks of `SegmentTable` behind its table; `V5Container` uses
a container's table and segments as single cells, because their arithmetic, the
last comparison of `decrypt_v5` included, is in
`SegmentTable` and their threads and offsets in `SegmentPipeline`; `BlockChain`
takes as an assumption (`Dec` inverts `Enc`) what is proved of `BlockRounds`
(`RoundsAreUndone`), and `BlockRounds` assumes of the substitutions and permutations
in its keys what is proved of `Shuffle` (`StaysBijective`). `BlockProofs` has the proofs
about `BlockChain` and `Shuffle`, whose initial states and steps therefore have names
of their own (`ShuffleInit`, `ShuffleNext`).

Definitions named as a mutant ("Mutant: ..." in their comment) are plausible
mistakes in the definition below them; each property is violated when the
mutant takes that definition's place.

## 3. What the runs check

| Run | Question | Bounds, and why they are enough |
|---|---|---|
| `CliCommand` | What may a user's path hold, and when? `CrashSafe`, `ConfirmedSurvives`, `RaceOnly`, `FailureIsInvisible`, `TempRemoved`, `PublishedImmutable`; is a file rewritten in place ever lost (`InPlaceKeepsPlaintext`); does a command end (`CommandEnds`); and `ImplementsAtomicFile` | Two invocations, two paths, two temporary suffixes, two writes per file, one loss of power, eight command lines of every kind. Two invocations show every pairwise race, two suffixes a collision and a retry, two writes a torn file |
| `CliCommand_noclobber` | Is a file ever replaced without `--force`? It is: see section 6 | As `CliCommand` |
| `BlockChain` | `RoundTrip`, `DamageIsLocal` | Messages of up to three blocks: one damaged, one whose feedback is damaged, one after it. The seed depends on nonce, index and feedback |
| `BlockRounds` | `RoundsUndone`, for the rounds of versions 3 and 4 | Two rounds (the order of undoing shows), bytes of two bits, words of two bytes and two Newton steps: 2^steps correct bits for 2^steps-bit words, as 6 steps for 64 bits. All four layers take part, with matrices from seeds that need every repair and affine maps whose multiplier is even before its repair |
| `Shuffle` | `Bijective`, `Unbiased`, `FreshStream` | Four places and three-bit words: moduli 4 and 2 divide the number of words, 3 does not, so that words are rejected; six words are three refills. A label used twice is caught by `FreshStream`; `Bijective` holds whatever the stream repeats |
| `SegmentTable` | `Tiles`, `SliceInBounds`, `NothingLeftOver`, `SumAgrees` | Words of three bits that wrap, as the sum of the plain lengths does in a release build, two entries, blocks of two bytes. Any entry of the constant's set, not just those a writer makes |
| `SegmentPipeline` | `SameAsSequential`, `ReadsBack`, `Completes` | Two threads, inner data of up to six bytes, words of five bits. Numbers typed and their units (1, 4, 16 for 1, 1024, 1024²) give zero, sizes below a block, between blocks, aligned, larger than the data, beyond a word, and products that wrap to something acceptable |
| `V5Container` | `OnlyAuthentic`, `IntactVerdict`, `NonceOnce`, `SegmentsFitHeader` | Two containers under one salt and one nonce, two passwords and the empty one, PBKDF2 and scrypt, scrypt parameters just out of bounds, two segment sizes that the header rounds up to one, one of them no power of two, so that inner data is cut into one segment or two (a mixture of two cuts that gives the input back, which `CutOnce` sets apart, needs more segments than that), one change of any kind and any number of new tags |
| `V5Container_returns` | Does `decrypt_v5` return whatever it is given? It does not: see section 6 | As `V5Container`, without symmetry |
| `V4Container` | Do the readers of version 4 agree, and return only what was encrypted? `OnlyAuthentic`, `IntactVerdict`, `SameVerdict`, `NativeAgrees`, `PadUnpad` | Two containers, at most one of them foreign (version 2, 3, or 260, which a byte holds as 4; numbers as texts; a list), two passwords and the empty one, payloads that are empty, fill a block, and go beyond one, with bytes that look like padding, one change of any kind. A header length may take in every cell up to the first block, and the cells after the header may be white space, so that it still parses |
| `V4Container_mismatch` | Does a mismatch of readers always fail loudly? It does not: see section 6 | As `V4Container`, without symmetry |
| `PyCommand` | What do `_atomic_write`'s fixed names cost? `WholeUnlessMet`, `FailureIsInvisible`, `OkMeansPublished` of paths whose commands do not overlap, `NoLeftover` of all | Two processes, two writes per file, one loss of power, five requests on three paths, one of which has the name of another's temporary file; one writer in place |

Deadlock is not checked: in every module the last states are those in which all
commands have ended, the message is read, or a bound (`MaxStream`, `MaxLosses`,
the length of a string) is reached. That commands and pipelines do
not stop before that is `CommandEnds` and `Completes`.

Symmetry is used for the passwords of `V5Container` and `V4Container` and the
processes of `PyCommand`, which their modules treat alike; none of these runs has a liveness
property. `CliCommand` has one and uses none.

Where a property has a proof (section 4), TLC's run of the same property shows that
the instance reaches the states it is about. The inductive invariants and the
types of `BlockChain`, `BlockRounds`, `SegmentTable` and `Shuffle` are proved and therefore not run.

**Bounds by name.** `MaxLosses` (losses of power), `Chunks` (writes per file),
`Suffixes`, `MaxBlocks`, `MaxStream`, `Refill`, `NewtonSteps`, `Rounds`,
`MaxWord` (a word or usize), `MaxLength`, `Threads`, `MaxWritten`, `MaxDamages`,
`MaxRandom`, `MaxIterations`
(stands for the bound of PBKDF2), `MaxHeader`, `MaxForeign`, `Numbers`, `Kilo`, `Sizes`, `Salts`.

**Fairness.** `CliCommand`: weak fairness of `Step(p)`, the steps of an
invocation after the password is typed — the operating system runs a process
that waits for nobody — and strong fairness of `DrawFree(p)`: a random generator
that is asked for a 64-bit suffix again and again returns a free one in the end.
There is none for `Start` or `Password`: a user may wait forever.
`SegmentPipeline`: weak fairness of `Next`, since the threads of a pool and the
loops of one function wait for nothing else. No other run needs any.

## 4. What is proved

The theorems hold for every value of the constants that satisfies the named
assumptions of the modules (`ASSUME ...Assumption`), which TLC evaluates on the
instances. Each proof is an inductive invariant, a lemma for each action or
for each conjunct, and the theorems that follow from it. The invariants were
checked with TLC on the runs' instances before they were proved.

* **`CliCommandProofs`** — any number of invocations, paths, suffixes, chunks
  and losses of power. `CrashSafe` (what a path leads to is whole and on disk)
  is not inductive: a rename keeps it only if the file renamed is whole, is
  synced, and is not written afterwards. `IInv` adds what `atomic_write` knows
  at each line:
  `OwnsTemp` (from creation to rename the temporary name leads to this
  process's own file), `Unpublished` (no path, in any directory a loss of power
  may restore, leads to a file not yet renamed), `Prepared` and `Written` (the
  chunks before `pos` hold the output, and none is dirty when the rename
  comes), `DirInDisk`. One lemma per conjunct shows that every action keeps
  it. From it: `TypeCorrect`, `CrashSafety`, `FailuresInvisible`, and the action
  property `PublishedKept`. The assumptions that carry the weight: temporary
  names are no user's names, and a file made with `create_new` is a new one.
  The second half of the module is about histories: `HInv` adds to `IInv`
  what the log of renames has to do with the disk: `LogInPast` (who is in the log is
  past its rename), `Raced` (if the output of a command without `--force`
  exists between its second check and its rename, an entry of the log
  after that check put it there), `Latest` (a process about to sync the
  directory has its file there, or a later entry replaced it), `TempNames` (which
  temporary names may lead to whose file, and that a synced directory brings
  none back), `PlaintextKept`. From it: `RaceIsTheOnlyClobber`,
  `ConfirmedStays`, `TempsRemoved`, `InPlaceIsSafe`. And `Refinement`:
  `CliCommand` implements `AtomicFile`. The abstract file is what `dir` shows
  at the paths, the abstract disk the set of what `dirDisk` shows; `Start`, the
  password, the checks, the temporary file and its sync are stutters,
  `ReadInput` is the read, `RenameTemp` the replacement, `SyncParent` the
  confirmation, `PowerLoss` the recovery. It needs `CrashSafe`: the mapping
  gives a torn file no abstract value.
* **`PyCommandProofs`** — any number of processes, paths, chunks and losses of
  power, with fixed temporary names that may themselves be paths. What holds
  of a path holds only as long as it is `Orderly` (a history of who met whom),
  so that `IInv` is `Base` (types, counters, files not created yet), `Wanted`
  (a temporary name is there because some process will still remove it) and
  `Orderly(x) => Kept(x)` for each path. `Kept` is `Alone` (one process at a
  time is at work on `x`), `Apart` and `Separate` (the files of `x` and of its
  temporary name are two, and have no third name, in any directory a loss
  of power may restore), `Others` (nobody else has them open), `Holds` (what
  was written so far is there and on the disk when it is moved), `WholeAt` and
  `NoTrace`. `Separate` and `Others` are what a leftover of a killed command
  makes necessary: the next one truncates a file that may have a name
  elsewhere. From it: `WholeFiles`, `FailuresLeaveNothing`, `SuccessIsPublished`
  (an action property), `TempsAreRemoved`, `TypeCorrect`.
* **`V4ContainerProofs`** — any containers, payloads, changes, header lengths and
  block sizes. `IInv` is `Made` (every container written is what `encrypt_v4` or
  its like makes of its payload: `WellMade`), `Kept` (a tag anywhere in the stored
  container is a copy of one that was written; a cell that is read as a length
  is one) and `Answered` (the four answers are what the readers make of what is
  still stored). The argument has three parts. `TagBinds`: a tag that matches was
  written over the same cells from the header on, with the same password, so that
  only the length of the header is open. `ShiftedRefused`: a length other than the
  one written takes at least one block from the ciphertext, what is left
  unpads to less than the header's length, and every reader refuses it with the same kind
  of error. `GenuineOpens`: with the length that was written every block stands where
  it was encrypted and opens to what was padded. `ReadersAgree` (`SameVerdict`) compares the answers of
  the Rust program and of `core.py` test by test: the data and the kind of error are the
  same (`Agree`) unless the header is one of the three cases of `PartWays`. Padding is inverted both
  ways (`UnpadInverts`, `UnpadPads`). The blocks are a recursive function; that there is one, so that
  each can be unfolded (`BlocksAre`), is an induction. From it:
  `ReadersReturnOnlyAuthentic`, `IntactOpens`, `ReadersAgree`, `NativeAgreement`,
  `UnpadInverse`, `TypeCorrect`.
* **`BlockProofs`** — two components. `BlockChain`: messages of any length, any
  cipher that is a family of inverse pairs. `IInv` is `TypeOK`, `ChainInv` (each block was encrypted
  under the block stored before it) and `DamageIsLocal`; `DecryptInverts` and
  `DamageStaysLocal` follow. `Shuffle`: arrays, words and refills of any size, any stream.
  `ShuffleIInv` is the type, `Bijective` and `Labelled` (the stream is as long as its
  labels say). A swap keeps a permutation (`SwapKeeps`); `NoBias` counts the
  words below `Limit` that lead to a place with a bijection between residue classes
  (`EqualClasses`).
* **`BlockRoundsProofs`** — bytes of any width, words of any number of bytes that is
  a power of two, any number of rounds and of Newton steps that suffice for a word
  (`WidthAssumption`), any blocks and keys (`KeysAssumption`). Most of it is about the
  layers, none of it about the state. *Loops*: `Upwards`, `Downwards`, `ReadBytes`
  and `Newton` are recursive functions; that there is one such function is an
  induction (`LoopExists`), after which each can be unfolded. *Diffusion*
  (`DiffuseUndone`): each pass adds a byte that the pass undoing it still finds.
  *Words* (`BlockOfWords`, `WordsOfBlock`): shifting a word by `n - k` bytes gives
  what the first `k` bytes read. *Newton* (`ModInvInverts`): if `a * x` is
  `1 + k * P` modulo a word, the next turn makes it `1 - k * k * P * P`
  (`TurnSquares`), so that after `n` turns `2^n` bits are right (`BitsRight`).
  *Matrices* (`MixUndone`): `| 1` on the diagonal and `& !1` off it make the
  determinant odd (`SeedMatrix`, `DetOdd`), so `matrix_inv` is an inverse on
  either side (`MatrixInvIs`); products associate (`MulAssociates`). *Version 3*:
  an odd number has an inverse modulo any power of two (`InverseExists`, by induction
  over the bits), for the bytes and for the places of a block; here the block must be a power of
  two. Powers of two are counted as sets of subsets. With these, one round is undone
  (`RoundUndone`). `IInv` is then `TypeOK`, `Progress` (how far the two
  functions have come), `History` (each state is its round applied to the one before, and the
  present one the last of them) and `RoundsUndone`, which without `History` says
  nothing about the next round. From it: `RoundsAreUndone`, `RoundsInvariant`.
* **`SegmentTableProofs`** — words and blocks of any size, tables of any
  length, any entries. `IInv` is `TypeOK`, `Tiles`, `Bounded` (an accepted
  entry is a whole number of blocks, not zero, and ends at or before the running offset) and
  `Decrypted`. From it: `SegmentsTile`, `SlicesInBounds`, `WholeCiphertext`,
  `LengthsAgree`. The two checked additions are where the proof needs that no
  offset wraps. `LengthsAgree` is about two sums, each a recursive function of its own: that of
  the table's plain lengths, which wraps, and the exact one of what the segments gave.
  Up to any entry both are where that entry ends (`PlainSumIs`, `InnerLengthIs`, by the least
  entry for which one is not), and that is a word.
* **`SegmentPipelineProofs`** — any number of threads, inner data, blocks and
  words of any size, any segment size and any order in which segments
  finish. `IInv` is `Asked` (nothing is done before the option is read,
  and then the size is the exact product), `Pool` (a result, once there,
  is that of its segment, and no more run than there are threads), `Assembled` (entry
  `k` of the table says what the data and the size make of segment `k`, and the
  bytes at its place are its encryption), `Parsed` and `Opened` (what the two loops
  of the reader have accepted and decrypted so far is the same again). `At` ties
  the three running offsets together: before the last segment they are
  multiples of one length, after it they are the length of everything. The lemmas are about
  padding (`PadAdds`, `UnpadInverts`), the cut (`Cut`: only the last segment
  is shorter) and the offsets (`AtNext`, `AtEnd`, which bounds the ciphertext by a word, so that
  the reader's `checked_add` never refuses what was written). From it:
  `SequentialResult`, `DataReadBack`, `TypeCorrect`. They are stated for `Spec`: no fairness
  is needed.
* **`V5ContainerProofs`** — any payloads, passwords, KDF parameters, segment
  sizes, salts, nonces, any number of containers, of changes and of new tags.
  `IInv` is `TypeOK`; `AllMade` (what was written is what `encrypt_v5` makes);
  `Cells` (a synthetic IV anywhere in the stored container is a copy of one that was
  written, a length is one of eight bytes); `Read` (past `VerifySiv` the
  synthetic IV is that of the header, the password and the inner data at hand)
  and `Returned`. Only the synthetic IV carries the proof: tags are
  made anew at will. From it: `DataIsAuthentic` (the data that is returned was
  encrypted with this password under this header and this synthetic IV),
  `NonceUsedOnce`, `TypeCorrect`. The last one shows for every word width that two
  lengths which pass `decrypt_v5`'s comparison without a panic fill the container,
  wrapped sums or not.
  `HeaderFitsSegments` (`SegmentsFitHeader`) needs that the least power of two above a
  size exists and is less than twice the size: a number is at most the number
  of subsets of a set of that many, and a set with one member more has twice as many.
  `IntactIsRead` (`IntactVerdict`) is about a container as it was written. `VInv` says, at each
  step, how far `decrypt_v5` must have come with it: with the right password it
  refuses nowhere and holds the inner data that was packed, with another it is refused by
  the tag (`InvalidParameter` if it is empty). `Laid` is where the cells of a container with
  `n` segments stand; `MadeOpens` shows that each test accepts them and that the segments,
  joined by induction over the table, are the inner data.
  `ContainerIsAuthentic` (`OnlyAuthentic`, cell for cell) adds two invariants to `IInv`:
  `KnownCells` (every cell is of one of the kinds that `encrypt_v5`, a change or a new
  tag puts there; a segment that is not damaged is one that was written) and
  `Checked` (what `decrypt_v5` has found out about the cells, test by test). Places of an accepted table
  are apart, so each cell of the ciphertext is read by one entry. A segment
  that is damaged or opened with a key or nonce not its own would put `Garbage` into inner data
  that some `encrypt_v5` has packed. So each is genuine, and its synthetic IV makes
  it a segment of a container with the same header and inner data; the offsets add up
  (by induction) to the same cut, and the total length says that all of it is there.
  So the data, the header, the synthetic IV and the place of every segment hold for any
  sizes (`SegmentGenuine`, `PlacedBy`). That the container as a whole is one that was written
  needs that no input was cut in two ways under its synthetic IV: that condition is `CutOnce`, a
  part of the property and not a hypothesis of the theorem. What the theorem assumes
  of constants is named in the module; `GarbageAssumption` says that what a wrong key yields
  is nobody's data.

**What the proofs found.** `CASE` with arms that overlap, in `PyCommand` and
`V4Container`: TLC takes the first arm, the language leaves it open,
and the proof that a step keeps an invariant could not be had. They are
`IF ... ELSE IF` now. `V5Container.TypeOK` and `IntactVerdict` need that a container
is no longer than a `usize` counts, which is `LengthAssumption` now (a `Vec` is no longer). `ReadsBack` needs the same of the ciphertext, which segments of one block make
twice as long as the data and a block: `PipelineAssumption` says so now. In `V4Container`
a container that was cut to its magic and extended has the magic where its length is read,
and `.num` of that cell is no value in particular: `Framed` asks for a length now (in the
code those bytes are more than `MAX_HEADER_BYTES`). And that a container which opens was written
cell for cell does *not* hold for every value of the constants: with several segment sizes under
one `segment_size_log2` and a repeated salt and nonce, a container may consist
of segments of others which were cut differently, tagged anew with the password, and its
inner data and synthetic IV are still those that were
encrypted. What is returned is authentic all the same, and each segment was encrypted for
its place: `OnlyAuthentic` says this of all containers, and the equality of cells where
`CutOnce` holds.
The same choice of sizes lets one key and nonce meet two cuts of one input;
`NonceOnce` speaks of inputs and stays true.
In `BlockRounds` the assumptions did not say that the Newton steps suffice for a word
(`WordBits <= 2^NewtonSteps`: six for 64 bits; with fewer, `RoundsUndone` fails, as the
mutant of `ModInv` shows) nor that the bytes of a word are a power of two, on which the
affine permutation of version 3 depends. `WidthAssumption` does now, and `Base` and
`Modulus` are powers of two by definition.

**Only model-checked**, and why:

* `CommandEnds`, `Completes`: liveness under fairness is outside what the proof
  system covers.

Every safety property that a passing run checks is a theorem.

Induction needs no theorem with an operator for a parameter: that the natural numbers are
well-founded (`NatLessThanWellFounded`, `WFMin`) gives it for sets of numbers (`Least`,
`Induct` in `V4ContainerProofs`, `V5ContainerProofs` and `BlockRoundsProofs`, `Least` alone in
`SegmentTableProofs`).

## 5. Abstractions and assumptions

* *File system.* One directory. Changes of it reach the disk in order and a
  rename is atomic across a loss of power (journalling); chunks of a file reach
  it in any order until the file is synced. Each call may fail; `exists()`
  treats an error as absence, which the model leaves out. An output named
  without a directory has the empty path as its parent, so opening the
  directory fails and it is not synced: `bare` command lines.
* *Contents.* A file is the path its plaintext first had and the stack of
  versions sealed around it. Passwords are right: a wrong one is a refusal
  before `atomic_write`, which is among the outcomes of `ReadInput`.
* *Cipher.* `BlockChain` sees a seed as a function of nonce, index and
  feedback. `BlockRounds` reads round seeds as arbitrary bytes. `SegmentPipeline`
  marks each byte with its segment and its place.
* *Container.* Keys, tags, synthetic IVs and ciphertexts are the terms they are made
  from: a tag is forged only by who knows the password, and no two terms
  collide. Cells, not bytes: a header, a table entry, a segment's ciphertext
  and a length are one cell each, so lengths count cells. PBKDF2's iterations
  count to a small bound; scrypt's parameters are the code's numbers. A table length that is no multiple of an entry is
  left out (it is refused first of all). `usize` sums wrap, as in the release
  profile. What decrypts under a wrong nonce is garbage that `unpad` may by
  chance accept.
* *Containers of version 4.* Magic, header length, header and tag are one cell
  each, the ciphertext is one cell per byte: what follows the header may be taken
  into it byte by byte, and parses if it happens to be white space, which may
  follow a JSON text (`blank` cells). A block opened at another place, with
  another key or other rounds gives any bytes of the constant `Bytes`, chosen
  again for each reader, so a mismatch is never hidden. `SameVerdict` compares the answers
  of the Rust program and of `core.py`, data included, for every header, also one that a change made a
  version 2 or 3 of. `PartWays` names the three cases in which they part, with the answer of
  one of them: numbers as texts or a list (Rust answers `Format`), a version whose low byte
  is one of 2 to 4 (`core.py` answers `FormatError`, Rust goes on to the tag), and
  a version 3 that `core.py` opens with its own rounds.
* *Python's files.* What a process writes is marked with the process. Paths
  `Orderly` excludes are those whose commands met, or that are also a
  temporary name or are written in place: there the code promises nothing and the
  model shows torn files. Truncation is taken to
  reach the disk at once; what is written after it does not until it is synced.
* *Shuffle.* The stream is any sequence of words; that rejection ends is
  certain only with probability one and is not stated.

## 6. Where code and documents differ

* `README.md:38` of the repository says that without `--force` the CLI fails
  when the output exists. The check comes before the password and again at the
  start of `atomic_write`, but `fs::rename` (`main.rs:327`) replaces a file
  that appeared after it. `RaceOnly` shows that this is the only way; run
  `CliCommand_noclobber` shows the way.
* `core.py:21` says that a mismatch between it and the native module "must fail
  loudly". `header_v4.rs:63` lets versions 2 to 4 pass and `format_v4.rs:87`
  decrypts them all with the rounds of version 4. The tag of a version 3
  container is good, so `decrypt_bytes` of the bindings answers with
  whatever comes out, when that ends in padding and has the recorded length,
  where `core.py` returns the plaintext. Run `V4Container_mismatch`.
  `NativeAgrees` shows that `core.py` itself never hands such a container
  to the module.
* `krcm/cli.py:20` promises, like the Rust tool, not to overwrite without
  `--force`, and has the same gap before `os.replace` (`cli.py:27`), which
  `Replace` of `PyCommand` shows; there is no second run for it.
* `decrypt_v5` adds a length from the container to an offset with a plain `+`
  (`format_v5.rs:119` and `:126`). In a release build the sum wraps, the
  comparison holds and the slice panics; in a debug build the addition does.
  `fuzz_decrypt_auto` expects a return for any bytes. Run
  `V5Container_returns`. The entries of the table do not have this
  problem: `parse_segment_table` uses `checked_add`, and `SlicesInBounds`
  proves the consequence.

## 7. Not modelled

* `hkdf_expand_like`, `block_seed` and the hashes inside the KDFs: keyed hashes,
  whose outputs no property tells apart. What is refused before them is modelled.
* `krcm/compact.py`: the steps of `core.py` behind a binary header of fixed
  length. What `V4Container` is about, a header with a length of its own and a
  text to parse, is not there, and no program of the repository uses it.
* `krcm/kdf.py`: checks and calls of `hashlib`, used by no container here.
* The text wrappers of `core.py`, the writing functions of the bindings
  (arguments passed on to `encrypt_v4`, `encrypt_v5`, `encrypt_blocks`),
  argument parsing, printing, the clearing of keys: no state a property could be about.
* Six hazards have no property, because the code does what one would state against, or
  promises nothing: `core.py` raises `AttributeError` for a JSON list (`PartWays` names it);
  overlapping commands of `krcm/cli.py` on one output may publish a torn file, and the
  temporary name may be a user's own file `a.tmp` (`Orderly` sets both apart; `NoLeftover`
  holds all the same); `os.replace` replaces what appeared since the check;
  `encrypt_to_file` writes in place. These steps are in the models. An output that ends in
  `..` makes `krcm-cli` panic before it has touched a file: names are model values.
* Tests, fuzz targets, benches, examples and tools were read for what they say
  the code does.

## 8. Plan

Done, in this order: the commands and their file system with the abstract
specification, the chaining mode, the segment table and pipeline, padding, the
version 5 container, the rounds, the shuffle; proofs for the first three; then
version 4 with its four readers, the Python commands, the rounds of version 3,
the size option, the KDF parameters and the header's segment size.

After that the proofs of section 4, in the order command histories and refinement, Python
commands, shuffle, segment pipeline, version 4 container, version 5 container, rounds.

Nothing of the plan is left. What would go further: `krcm/compact.py`, once a program
uses it, and the key expansion, if a property came to depend on it.
