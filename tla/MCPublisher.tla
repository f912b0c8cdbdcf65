---------------------------- MODULE MCPublisher ----------------------------
(* A socket and a recorder, with room for one of them: alone on a stream of *)
(* three records, or racing each other on one that is shorter.              *)
EXTENDS Publisher

BoundsBySubscribers == [n \in 0..2 |-> IF n = 2 THEN 0 ELSE 3]
=============================================================================
