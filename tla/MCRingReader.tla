---------------------------- MODULE MCRingReader ----------------------------
(* RingReader on small rings; the provenance of a block plays no part here. *)
EXTENDS RingReader
=============================================================================
