-------------------------- MODULE MCEmergencyStop --------------------------
(***************************************************************************)
(* EmergencyStop for TLC: four replicas, the last one faulty, and two      *)
(* clients: a stop request with the same request again, with a release or  *)
(* with a request the supervisor takes for malformed, and two releases.    *)
(* Other publishers of the decision topic confirm a release in full, or    *)
(* with too small a quorum.                                                *)
(***************************************************************************)
EXTENDS EmergencyStop, TLC

CONSTANTS c1, c2, stop, free

Ask(i, s, to) == [id |-> i, stop |-> s, view |-> 0, recipient |-> to]

Started(a, b, allow) ==
  [asks |-> c1 :> a @@ c2 :> b, allow_confirmed_release |-> allow]

MCLaunches ==
  {Started(Ask(stop, TRUE, 0), Ask(stop, TRUE, 0), FALSE),
   Started(Ask(stop, TRUE, 0), Ask(free, FALSE, 0), TRUE),
   Started(Ask(stop, TRUE, 0), Ask(stop, TRUE, -1), TRUE),
   Started(Ask(free, FALSE, 0), Ask(free, FALSE, 0), TRUE),
   Started(Ask(free, FALSE, 0), Ask(free, FALSE, 0), FALSE)}

Release(by, required) ==
  [id |-> free, stop |-> FALSE, view |-> 0, committed |-> TRUE,
   confirming |-> by, required |-> required]

MCForeign == {Release({0, 1, 2}, 3), Release({0, 1}, 2)}

\* Bounds.  Correct replicas are interchangeable: they execute and report an
\* instance in the order of their ids.  The faulty replica takes part, in view
\* 0, and view 1 is reached, only where both ask for the same stop.  Releases
\* are announced only where they are asked for, the one without a quorum only
\* where both clients ask for it.  Clients that ask the same are interchangeable:
\* c1 asks first.
Both(i) == \A c \in Clients : Asks[c] = Ask(i, i = stop, 0)
InOrder(s) == \A r \in s \ Byzantine : r = 0 \/ r - 1 \in s

Bounded ==
  /\ Asks[c1] = Asks[c2] /\ client'[c2].sent => client'[c1].sent
  /\ \A k \in Views \X Ids :
        /\ InOrder({r \in Replicas : k \in committed'[r]})
        /\ InOrder(Confirming(observed', k[1], k[2]))
  /\ \A r \in Replicas :
        committed'[r] \subseteq (IF (r \in Byzantine) = Both(stop) THEN {0} \X Ids
                              ELSE IF Both(stop) THEN Views \X Ids ELSE {})
  /\ foreign' # foreign =>
        \/ Both(free)
        \/ Release({0, 1}, 2) \in foreign' /\ \E c \in Clients : Asks[c].id = free

MCNext == Next /\ Bounded
MCSpec == Init /\ [][MCNext]_vars /\ Fairness
=============================================================================
