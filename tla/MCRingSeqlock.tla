--------------------------- MODULE MCRingSeqlock ---------------------------
(* RingSeqlock on a ring of two records and two cells: two pushes lap both.  *)
(* Provenances are only compared with each other, so they are symmetric; the *)
(* run checks no liveness.                                                   *)
EXTENDS RingSeqlockInv, TLC

ProvenanceSymmetry == Permutations(Provenances)
=============================================================================
