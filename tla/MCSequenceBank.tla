--------------------------- MODULE MCSequenceBank ---------------------------
(* Model checking of the sequence banks: two servers, one row. *)
EXTENDS SequenceBank

CONSTANTS s1, s2
=============================================================================
