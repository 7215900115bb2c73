--------------------------- MODULE MCSegmentTable ---------------------------
(* Entries over words of a few values for SegmentTable.                    *)
EXTENDS SegmentTable

MCEntries == [index : 0..2, plainOffset : Words, plainLength : {0, 1, 3, 7},
              cipherOffset : Words, cipherLength : {0, 1, 2, 4, 6}]
=============================================================================
