--------------------------- MODULE MCTransferPool ---------------------------
(* Buffers shared by transfers that fit one and transfers that do not. *)
EXTENDS TransferPool
=============================================================================
