--------------------------- MODULE MCSessionWorker ---------------------------
(* SessionWorker for TLC: host threads are interchangeable. *)
EXTENDS SessionWorker, TLC

HostSymmetry == Permutations(Hosts)
=============================================================================
