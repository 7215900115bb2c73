------------------------- MODULE MCSegmentPipeline -------------------------
(* Inner data over two byte values, both of which can end a padded block,  *)
(* for SegmentPipeline.                                                    *)
EXTENDS SegmentPipeline

CONSTANT MaxLength

MCInners == UNION {[1..n -> {1, 2}] : n \in 1..MaxLength}
=============================================================================
