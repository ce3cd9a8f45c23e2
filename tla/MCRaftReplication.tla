-------------------------- MODULE MCRaftReplication --------------------------
(* Model checking of RaftReplication on small clusters.                    *)
EXTENDS RaftReplication, TLC

CONSTANTS c1, c2    \* the first two commands

\* Commands differ in name only, so it is enough to use them in one order.
InOrder == c2 \in issued => c1 \in issued

\* FairSpec with the commands in order.
OrderedSpec == Init /\ [][ReplicationNext /\ InOrder']_vars /\ Fairness

\* The tracker of a node that is not leading is never read again before it
\* is initialised for a new term, except by a round that still has to read it.
LiveTracker(n) ==
    \/ role[n] = "Leader" /\ tracker[n].term = currentTerm[n]
    \/ round[n].todo # {}

View == <<replicaVars, round, submit, net, history,
          [n \in Node |-> IF LiveTracker(n) THEN tracker[n] ELSE NoTracker]>>
=============================================================================
