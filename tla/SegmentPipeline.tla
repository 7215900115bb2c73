-------------------------- MODULE SegmentPipeline --------------------------
(* The option --segment-size as parse_size of crates/krcm-cli/src/main.rs  *)
(* reads it, and encrypt_segments of crates/krcm-core/src/format_v5.rs: the *)
(* inner data is cut into segments that a pool of threads encrypts in any order, the  *)
(* results are put together in the order of the segments, and the table    *)
(* and ciphertext are then read back by the loops of SegmentTable.         *)
(* The cipher marks each byte with the segment and the place it was        *)
(* encrypted for: segment_nonce and block_seed keep both apart.            *)
EXTENDS Padding, FiniteSets

CONSTANTS Threads,     \* threads of the pool
          Inners,      \* what encrypt_segments is called with, never empty
          Numbers,     \* numbers typed before the unit
          Kilo,        \* 1024
          MaxWord,     \* the largest u64 and usize
          None         \* no result yet

\* Inner data and ciphertext are each a Vec<u8>, whose length is a usize.  The
\* ciphertext is the longer: with segments of one block, twice the data and a
\* block.
ASSUME PipelineAssumption == /\ Threads \in Nat \ {0}
                             /\ << >> \notin Inners
                             /\ \A s \in Inners :
                                  /\ s \in Seq({s[i] : i \in DOMAIN s})
                                  /\ 2 * Len(s) + BlockBytes <= MaxWord
                             /\ Numbers \subseteq Nat
                             /\ Kilo \in Nat
                             /\ MaxWord \in Nat

VARIABLES inner,
          typed,        \* the option: a number, and what its unit stands for
          parallel,     \* workers > 1
          requested,    \* segment_size, once the option is read
          running,      \* indexes of the segments being encrypted
          result,       \* index -> what encrypt_segment returned, or None
          table,        \* SegmentEntry of each segment put together
          ciphertext,
          plainOffset, cipherOffset,
          verdict, count, ragged, cipherLen, entries,   \* of the reader
          plainEnd, cipherEnd, lengths,
          output        \* what decrypt_segments has returned so far

inputVars  == <<inner, typed, parallel, requested>>
tableVars  == <<table, ciphertext, plainOffset, cipherOffset>>
readerVars == <<count, ragged, cipherLen, entries, plainEnd, cipherEnd, lengths>>
vars == <<inputVars, running, result, tableVars, verdict, readerVars, output>>

\* The table is written by this program: its entries are what was put together.
Reader == INSTANCE SegmentTable WITH Entries <- {}

SegmentSize == IF requested > BlockBytes THEN requested ELSE BlockBytes

Chunks == (Len(inner) + SegmentSize - 1) \div SegmentSize

Plain(i) == LET last == (i + 1) * SegmentSize
            IN  SubSeq(inner, i * SegmentSize + 1,
                       IF last < Len(inner) THEN last ELSE Len(inner))

Indexes == 0..(Chunks - 1)

Encrypt(i, bytes) == [k \in 1..Len(bytes) |-> <<i, k, bytes[k]>>]
Decrypt(i, bytes) == [k \in 1..Len(bytes) |->
                       IF <<bytes[k][1], bytes[k][2]>> = <<i, k>>
                       THEN bytes[k][3] ELSE 0]

Init ==
  /\ inner \in Inners /\ parallel \in BOOLEAN
  /\ typed \in [number : Numbers, unit : {1, Kilo, Kilo * Kilo}]
  /\ requested = 0
  /\ running = {} /\ result = << >>
  /\ table = << >> /\ ciphertext = << >>
  /\ plainOffset = 0 /\ cipherOffset = 0
  /\ verdict = "typed"
  /\ count = 0 /\ ragged = FALSE /\ cipherLen = 0
  /\ entries = << >> /\ plainEnd = 0 /\ cipherEnd = 0 /\ lengths = << >>
  /\ output = << >>

\* Mutant: the product is taken as a machine word.
ParseSizeWrapping ==
  /\ verdict = "typed"
  /\ UNCHANGED <<inner, typed, parallel, running, tableVars, readerVars, output>>
  /\ requested' = (typed.number * typed.unit) % (MaxWord + 1)
  /\ verdict' = IF requested' > 0 THEN "encrypting" ELSE "InvalidParameter"
  /\ result' = IF requested' > 0 THEN [i \in Indexes' |-> None] ELSE << >>

\* A number that is no usize, a product that is none and zero are refused.
ParseSize ==
  /\ verdict = "typed"
  /\ UNCHANGED <<inner, typed, parallel, running, tableVars, readerVars, output>>
  /\ IF typed.number * typed.unit \in 1..MaxWord
     THEN /\ requested' = typed.number * typed.unit
          /\ result' = [i \in Indexes' |-> None]
          /\ verdict' = "encrypting"
     ELSE /\ verdict' = "InvalidParameter"
          /\ UNCHANGED <<requested, result>>

Todo == {i \in Indexes \ running : result[i] = None}

\* Mutant: the pool has no limit.
TakeUnlimited(i) ==
  /\ verdict = "encrypting" /\ i \in Todo
  /\ (parallel /\ Chunks > 1) \/ (running = {} /\ \A j \in Todo : i <= j)
  /\ running' = running \cup {i}
  /\ UNCHANGED <<inputVars, result, tableVars, verdict, readerVars, output>>

\* par_iter hands out the segments in any order, iter in theirs.
Take(i) ==
  /\ verdict = "encrypting" /\ i \in Todo
  /\ IF parallel /\ Chunks > 1
     THEN Cardinality(running) < Threads
     ELSE running = {} /\ \A j \in Todo : i <= j
  /\ running' = running \cup {i}
  /\ UNCHANGED <<inputVars, result, tableVars, verdict, readerVars, output>>

\* encrypt_segment
EncryptSegment(i) ==
  [index |-> i, plainLength |-> Len(Plain(i)), bytes |-> Encrypt(i, Pad(Plain(i)))]

\* Mutant: results are kept in the order in which they are ready.
FinishInOrder(i) ==
  /\ i \in running
  /\ running' = running \ {i}
  /\ LET ready == Cardinality({j \in Indexes : result[j] # None})
     IN  result' = [result EXCEPT ![ready] = EncryptSegment(i)]
  /\ UNCHANGED <<inputVars, tableVars, verdict, readerVars, output>>

\* collect keeps each result at the place of its segment.
Finish(i) ==
  /\ i \in running
  /\ running' = running \ {i}
  /\ result' = [result EXCEPT ![i] = EncryptSegment(i)]
  /\ UNCHANGED <<inputVars, tableVars, verdict, readerVars, output>>

AllReady == \A i \in Indexes : result[i] # None

\* Mutant: the offset of the next segment counts plaintext.
AssemblePlainOffsets ==
  /\ verdict = "encrypting" /\ AllReady
  /\ Len(table) < Chunks
  /\ LET r == result[Len(table)]
     IN  /\ table' = Append(table,
               [index |-> r.index, plainOffset |-> plainOffset,
                plainLength |-> r.plainLength, cipherOffset |-> plainOffset,
                cipherLength |-> Len(r.bytes)])
         /\ plainOffset' = plainOffset + r.plainLength
         /\ cipherOffset' = cipherOffset + Len(r.bytes)
         /\ ciphertext' = ciphertext \o r.bytes
  /\ UNCHANGED <<inputVars, running, result, verdict, readerVars, output>>

\* One turn of the loop over the results.
Assemble ==
  /\ verdict = "encrypting" /\ AllReady
  /\ Len(table) < Chunks
  /\ LET r == result[Len(table)]
     IN  /\ table' = Append(table,
               [index |-> r.index, plainOffset |-> plainOffset,
                plainLength |-> r.plainLength, cipherOffset |-> cipherOffset,
                cipherLength |-> Len(r.bytes)])
         /\ plainOffset' = plainOffset + r.plainLength
         /\ cipherOffset' = cipherOffset + Len(r.bytes)
         /\ ciphertext' = ciphertext \o r.bytes
  /\ UNCHANGED <<inputVars, running, result, verdict, readerVars, output>>

\* The container is complete; decrypt_v5 is called with it.
Hand ==
  /\ verdict = "encrypting"
  /\ Len(table) = Chunks
  /\ verdict' = "parsing"
  /\ count' = Len(table)
  /\ cipherLen' = Len(ciphertext)
  /\ UNCHANGED <<inputVars, running, result, tableVars, ragged, entries,
                 plainEnd, cipherEnd, lengths, output>>

writerVars == <<inputVars, running, result, tableVars, output>>

Parse == \/ /\ Len(entries) < Len(table)
            /\ Reader!ReadEntry(table[Len(entries) + 1])
            /\ UNCHANGED writerVars
         \/ Reader!EndTable /\ UNCHANGED writerVars

\* One turn of the loop of decrypt_segments.
DecryptSegment ==
  /\ verdict = "decrypting"
  /\ Len(lengths) < Len(entries)
  /\ LET e     == entries[Len(lengths) + 1]
         slice == SubSeq(ciphertext, e.cipherOffset + 1,
                         e.cipherOffset + e.cipherLength)
         bytes == Decrypt(e.index, slice)
     IN  IF UnpadVerdict(bytes) = "ok" /\ Len(Unpad(bytes)) = e.plainLength
         THEN /\ output' = output \o Unpad(bytes)
              /\ lengths' = Append(lengths, Len(Unpad(bytes)))
              /\ UNCHANGED verdict
         ELSE /\ verdict' = "Authentication"
              /\ UNCHANGED <<output, lengths>>
  /\ UNCHANGED <<inputVars, running, result, tableVars, count, ragged,
                 cipherLen, entries, plainEnd, cipherEnd>>

EndSegments == Reader!EndSegments /\ UNCHANGED writerVars

Next == \/ ParseSize
        \/ \E i \in Indexes : Take(i) \/ Finish(i)
        \/ Assemble \/ Hand \/ Parse \/ DecryptSegment \/ EndSegments

Spec == Init /\ [][Next]_vars

\* The caller and the threads of the pool run while they can.
FairSpec == Spec /\ WF_vars(Next)

-----------------------------------------------------------------------------
(* Properties                                                              *)

BeforeReading == {"typed", "InvalidParameter", "encrypting"}

\* The pool runs no more segments than it has threads and none of them twice;
\* the reader keeps its types.
TypeOK ==
  /\ running \subseteq Indexes
  /\ Cardinality(running) <= Threads
  /\ \A i \in running : result[i] = None
  /\ requested \in 0..MaxWord
  /\ Reader!TypeOK \/ verdict \in BeforeReading

Exact == typed.number * typed.unit

\* The table and the ciphertext depend on the data and the size the user asked
\* for alone, never on the number of workers, the order in which they finish
\* or the width of a word: segment k holds the bytes from k times that size
\* onwards, encrypted under its own index, at the place where the segments
\* before it end.
SameAsSequential ==
  verdict \notin BeforeReading =>
    LET size     == IF Exact > BlockBytes THEN Exact ELSE BlockBytes
        segments == (Len(inner) + size - 1) \div size
        piece(i) == SubSeq(inner, i * size + 1,
                           IF i = segments - 1 THEN Len(inner) ELSE (i + 1) * size)
    IN  /\ Len(table) = segments
        /\ \A i \in 0..segments - 1 :
             LET e == table[i + 1]
             IN  /\ e.index = i
                 /\ e.plainOffset = i * size
                 /\ e.plainLength = Len(piece(i))
                 /\ e.cipherOffset = i * (size + PadLength(piece(0)))
                 /\ SubSeq(ciphertext, e.cipherOffset + 1,
                           e.cipherOffset + e.cipherLength)
                      = Encrypt(i, Pad(piece(i)))
        /\ table[segments].cipherOffset + table[segments].cipherLength
             = Len(ciphertext)

\* What encrypt_segments wrote is never refused, and reads back as it was.
ReadsBack ==
  /\ verdict \notin {"Format", "Authentication"}
  /\ verdict = "opened" => output = inner

Over == \/ Exact \in 1..MaxWord /\ verdict = "opened" /\ output = inner
        \/ Exact \notin 1..MaxWord /\ verdict = "InvalidParameter" /\ table = << >>

\* Encryption and decryption come to an end with the data read back, unless
\* the size cannot be had; then nothing is encrypted.
Completes == <>Over
=============================================================================
