--------------------------- MODULE MCRaftElection ---------------------------
(* Model checking of RaftElection on a small cluster.                      *)
EXTENDS RaftElection, TLC
=============================================================================
