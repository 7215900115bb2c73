---------------------------- MODULE SegmentTable ----------------------------
(* How crates/krcm-core/src/format_v5.rs reads a segment table: the loop   *)
(* of parse_segment_table over whatever the table holds, then the loop of  *)
(* decrypt_segments over the entries it accepted, then the comparisons     *)
(* decrypt_v5 ends with.  The container is chosen freely, an entry when it *)
(* is read and a segment when it is decrypted, so the tag that stands      *)
(* before both is not relied on.                                           *)
EXTENDS Naturals, Sequences

CONSTANTS MaxWord,      \* the largest u64
          BlockBytes,   \* 32 in the code
          Entries       \* what the 40 bytes of an entry can say

Words == 0..MaxWord

Entry == [index : Words, plainOffset : Words, plainLength : Words,
          cipherOffset : Words, cipherLength : Words]

ASSUME TableAssumption == /\ BlockBytes \in Nat \ {0}
                          /\ MaxWord \in Nat
                          /\ Entries \subseteq Entry

VARIABLES verdict,    \* parsing, decrypting, opened, done, or the error
          count,      \* the entries the table holds
          ragged,     \* its length is no multiple of 40
          cipherLen,  \* bytes of ciphertext that follow the table
          entries,    \* those accepted so far
          plainEnd,   \* expected_plain_offset
          cipherEnd,  \* expected_ciphertext_offset
          lengths     \* bytes of plaintext had from each segment so far

tableVars == <<count, ragged, cipherLen>>
vars == <<verdict, tableVars, entries, plainEnd, cipherEnd, lengths>>

Init == /\ verdict = "parsing"
        /\ count \in Words /\ ragged \in BOOLEAN
        /\ cipherLen \in Words
        /\ entries = << >> /\ plainEnd = 0 /\ cipherEnd = 0
        /\ lengths = << >>

Refuse(error) ==
  verdict' = error /\ UNCHANGED <<tableVars, entries, plainEnd, cipherEnd, lengths>>

RefuseTable == /\ verdict = "parsing" /\ entries = << >>
               /\ count = 0 \/ ragged
               /\ Refuse("Format")

\* Mutant: a segment may start where its entry says.
ContiguousPlain(e) ==
  /\ e.index = Len(entries)
  /\ e.plainOffset = plainEnd
  /\ e.cipherLength # 0
  /\ e.cipherLength % BlockBytes = 0

Contiguous(e) ==
  /\ e.index = Len(entries)
  /\ e.plainOffset = plainEnd
  /\ e.cipherOffset = cipherEnd
  /\ e.cipherLength # 0
  /\ e.cipherLength % BlockBytes = 0

\* Mutant: wrapping addition, no checked_add.
FitsCipherOnly(e) == cipherEnd + e.cipherLength <= MaxWord

\* checked_add
Fits(e) == /\ plainEnd + e.plainLength <= MaxWord
           /\ cipherEnd + e.cipherLength <= MaxWord

\* One turn of the loop of parse_segment_table.
ReadEntry(e) ==
  /\ verdict = "parsing" /\ ~ragged
  /\ Len(entries) < count
  /\ IF Contiguous(e) /\ Fits(e)
     THEN /\ entries' = Append(entries, e)
          /\ plainEnd' = (plainEnd + e.plainLength) % (MaxWord + 1)
          /\ cipherEnd' = (cipherEnd + e.cipherLength) % (MaxWord + 1)
          /\ UNCHANGED <<verdict, tableVars, lengths>>
     ELSE Refuse("Format")

\* Mutant: the ciphertext may go on after the last segment.
EndTableEarly ==
  /\ verdict = "parsing" /\ ~ragged
  /\ count > 0 /\ Len(entries) = count
  /\ Refuse(IF cipherEnd > cipherLen THEN "Format" ELSE "decrypting")

EndTable ==
  /\ verdict = "parsing" /\ ~ragged
  /\ count > 0 /\ Len(entries) = count
  /\ Refuse(IF cipherEnd # cipherLen THEN "Format" ELSE "decrypting")

Segment == entries[Len(lengths) + 1]

\* Mutant: the length in the entry is not compared with what unpad returns.
DecryptUnchecked ==
  /\ verdict = "decrypting"
  /\ Len(lengths) < Len(entries)
  /\ \E n \in (Segment.cipherLength - BlockBytes)..(Segment.cipherLength - 1) :
       /\ lengths' = Append(lengths, n)
       /\ UNCHANGED <<verdict, tableVars, entries, plainEnd, cipherEnd>>

\* unpad refuses the segment, or takes one to BlockBytes bytes off it.
DecryptSegment ==
  /\ verdict = "decrypting"
  /\ Len(lengths) < Len(entries)
  /\ \/ Refuse("Authentication")
     \/ \E n \in (Segment.cipherLength - BlockBytes)..(Segment.cipherLength - 1) :
          /\ n = Segment.plainLength
          /\ lengths' = Append(lengths, n)
          /\ UNCHANGED <<verdict, tableVars, entries, plainEnd, cipherEnd>>

EndSegments ==
  /\ verdict = "decrypting"
  /\ Len(lengths) = Len(entries)
  /\ Refuse("opened")

\* segment_plain_sum over the first k entries: release builds wrap.
PlainSum[k \in 0..Len(entries)] ==
  IF k = 0 THEN 0
  ELSE (PlainSum[k - 1] + entries[k].plainLength) % (MaxWord + 1)

\* inner.len() after the first k segments.
InnerLength[k \in 0..Len(lengths)] ==
  IF k = 0 THEN 0 ELSE InnerLength[k - 1] + lengths[k]

SumMatches == PlainSum[Len(entries)] = InnerLength[Len(lengths)]

\* decrypt_v5 after its segments: the synthetic IV, the inner framing, which
\* bounds payload_length by inner.len(), and the sum of the lengths in the table.
CompareSum ==
  /\ verdict = "opened"
  /\ \/ Refuse("Authentication")
     \/ Refuse(IF SumMatches THEN "done" ELSE "Format")

Next == \/ RefuseTable \/ EndTable \/ DecryptSegment \/ EndSegments \/ CompareSum
        \/ \E e \in Entries : ReadEntry(e)

Spec == Init /\ [][Next]_vars

-----------------------------------------------------------------------------
(* Properties                                                              *)

\* Every variable keeps its type: the offsets stay within a u64, and no entry
\* is read after the last.
TypeOK ==
  /\ verdict \in {"parsing", "decrypting", "opened", "done",
                  "Format", "Authentication"}
  /\ count \in Words /\ ragged \in BOOLEAN /\ cipherLen \in Words
  /\ entries \in Seq(Entry)
  /\ plainEnd \in Words /\ cipherEnd \in Words
  /\ lengths \in Seq(Nat)
  /\ Len(entries) <= count

Start(k)   == entries[k].cipherOffset
End(k)     == entries[k].cipherOffset + entries[k].cipherLength
InnerEnd(k) == entries[k].plainOffset + entries[k].plainLength

\* The segments accepted so far follow one another without gap or overlap, in
\* the ciphertext and in the plaintext, from zero to the running offsets.
Tiles ==
  /\ \A k \in 1..Len(entries) :
       /\ entries[k].index = k - 1
       /\ Start(k) = IF k = 1 THEN 0 ELSE End(k - 1)
       /\ entries[k].plainOffset = IF k = 1 THEN 0 ELSE InnerEnd(k - 1)
  /\ cipherEnd = IF entries = << >> THEN 0 ELSE End(Len(entries))
  /\ plainEnd = IF entries = << >> THEN 0 ELSE InnerEnd(Len(entries))

\* Every slice decrypt_segments takes of the ciphertext lies within it, has
\* at least one whole block, and the sum of offset and length that bounds it
\* does not overflow: no container can make it panic.
SliceInBounds ==
  verdict \in {"decrypting", "opened", "done"} =>
    \A k \in 1..Len(entries) : /\ Start(k) < End(k)
                               /\ End(k) <= cipherLen
                               /\ (End(k) - Start(k)) % BlockBytes = 0

\* The table covers the whole ciphertext: a decryption that succeeds has used
\* every byte of it, and lengths that only decrypt_segments can check agree
\* with their ciphertext.
NothingLeftOver ==
  verdict \in {"opened", "done"} =>
    /\ End(Len(entries)) = cipherLen
    /\ \A k \in 1..Len(entries) :
         /\ entries[k].plainLength < entries[k].cipherLength
         /\ entries[k].cipherLength <= entries[k].plainLength + BlockBytes

\* The sum of the table's plain lengths, added as a u64 that wraps, is the
\* length of what the segments gave: once decrypt_segments has returned, the
\* last comparison of decrypt_v5 cannot fail and its sum does not wrap.
SumAgrees == verdict \in {"opened", "done"} => SumMatches

-----------------------------------------------------------------------------
(* The inductive invariant of the two loops.                               *)

\* What each accepted entry was found to be, and that the running offset has
\* passed it.
Bounded == \A k \in 1..Len(entries) : /\ entries[k].cipherLength # 0
                                      /\ entries[k].cipherLength % BlockBytes = 0
                                      /\ End(k) <= cipherEnd

\* What each decrypted segment was found to be.
Decrypted ==
  /\ verdict = "parsing" => lengths = << >>
  /\ Len(lengths) <= Len(entries)
  /\ \A k \in 1..Len(lengths) :
       /\ lengths[k] = entries[k].plainLength
       /\ entries[k].plainLength < entries[k].cipherLength
       /\ entries[k].cipherLength <= entries[k].plainLength + BlockBytes
  /\ verdict \in {"decrypting", "opened", "done"} =>
       entries # << >> /\ cipherEnd = cipherLen
  /\ verdict \in {"opened", "done"} => Len(lengths) = Len(entries)

\* What parse_segment_table and decrypt_segments know at every turn.
IInv == TypeOK /\ Tiles /\ Bounded /\ Decrypted
=============================================================================
