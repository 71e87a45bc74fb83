----------------------------- MODULE MCDeliveries -----------------------------
(***************************************************************************)
(* Deliveries for TLC: the processes are interchangeable.                   *)
(***************************************************************************)
EXTENDS Deliveries, TLC

Processes == Permutations(Replicas)
=============================================================================
