------------------------ MODULE EmergencyStopProofs ------------------------
(***************************************************************************)
(* Theorems about EmergencyStop for every number of replicas, clients and  *)
(* launch files, and whatever other publishers put on the decision topic.  *)
(***************************************************************************)
EXTENDS EmergencyStop, TLAPS

\* What the supervisor's state says of its output: the part of
\* ReleaseJustified that does not speak of the decision itself, with the
\* types it rests on.
SupervisorInv ==
  /\ fail_safe_latched \in BOOLEAN
  /\ decision_processed \in BOOLEAN
  /\ current_command \in BOOLEAN
  /\ ~ current_command =>
        /\ ~ fail_safe_latched /\ AllowRelease
        /\ active_request # NoRequest /\ decision_processed
        /\ ~ active_request.stop

USE DEF supervisor, monitor

LEMMA SupervisorInvInit == Init => SupervisorInv
BY DEF Init, SupervisorInv

LEMMA SupervisorInvStep == SupervisorInv /\ [Next]_vars => SupervisorInv'
<1> SUFFICES ASSUME SupervisorInv, [Next]_vars
             PROVE  SupervisorInv'
  OBVIOUS
<1> USE DEF SupervisorInv, AllowRelease
<1>1. ASSUME NEW c \in Clients, ClientStep(c), UNCHANGED launch
      PROVE  SupervisorInv'
  BY <1>1 DEF ClientStep, publish_request, client_decision_callback,
              client_timeout_callback, stop_client
<1>2. ASSUME NEW c \in Clients, request_callback(c), UNCHANGED launch
      PROVE  SupervisorInv'
  <2>1. CASE RequestInvalid(Asks[c])
    BY <1>2, <2>1 DEF RequestInvalid, _activate_fail_safe, Output
  <2>2. CASE RequestDuplicate(Asks[c])
    BY <1>2, <2>2 DEF RequestDuplicate
  <2>3. CASE RequestConflict(Asks[c])
    BY <1>2, <2>3 DEF RequestConflict, _activate_fail_safe, Output
  <2>4. CASE RequestAccepted(Asks[c])
    BY <1>2, <2>4 DEF RequestAccepted, Output
  <2> QED BY <1>2, <2>1, <2>2, <2>3, <2>4 DEF request_callback
<1>3. ASSUME NEW r \in Replicas, NEW v \in Views, NEW i \in Ids,
             ReplicaCommits(r, v, i) \/ status_callback(r, v, i), UNCHANGED launch
      PROVE  SupervisorInv'
  BY <1>3 DEF ReplicaCommits, status_callback
<1>4. ASSUME NEW d \in Foreign, ForeignDecision(d), UNCHANGED launch
      PROVE  SupervisorInv'
  BY <1>4 DEF ForeignDecision
<1>5. ASSUME decision_callback, UNCHANGED launch
      PROVE  SupervisorInv'
  <2> DEFINE d == topic[next + 1]
  <2>1. CASE DecisionIgnored(d)
    BY <1>5, <2>1 DEF DecisionIgnored, decision_callback
  <2>2. CASE DecisionRejected(d)
    BY <1>5, <2>2 DEF DecisionRejected, decision_callback, _activate_fail_safe, Output
  <2>3. CASE DecisionApplied(d)
    BY <1>5, <2>3 DEF DecisionApplied, decision_callback, ApplyDecision, Output,
                      Relevant, ValidDecision
  <2> QED BY <1>5, <2>1, <2>2, <2>3 DEF decision_callback
<1>6. ASSUME decision_timeout_callback, UNCHANGED launch
      PROVE  SupervisorInv'
  BY <1>6 DEF decision_timeout_callback, _activate_fail_safe, Output, Pending
<1>7. CASE UNCHANGED vars
  BY <1>7 DEF vars
<1> QED BY <1>1, <1>2, <1>3, <1>4, <1>5, <1>6, <1>7 DEF Next

\* The output is lifted only for a processed release, with the policy
\* allowing it and no fail-safe latched (decision_callback of
\* safety_supervisor.py).
THEOREM SupervisorInvHolds == Spec => []SupervisorInv
BY SupervisorInvInit, SupervisorInvStep, PTL DEF Spec

\* Nothing clears the fail-safe latch or lifts the stop once it is set.
THEOREM FailSafeFinal == Spec => FailSafeIsFinal
<1>1. ASSUME SupervisorInv, SupervisorInv', [Next]_vars, fail_safe_latched
      PROVE  fail_safe_latched' /\ current_command'
  <2>1. fail_safe_latched'
    <3> USE DEF _activate_fail_safe
    <3>1. CASE UNCHANGED fail_safe_latched
      BY <1>1, <3>1
    <3>2. CASE UNCHANGED vars
      BY <1>1, <3>2 DEF vars
    <3>3. ASSUME NEW c \in Clients, ClientStep(c) \/ request_callback(c)
          PROVE  fail_safe_latched'
      BY <1>1, <3>3 DEF ClientStep, publish_request, client_decision_callback,
         client_timeout_callback, stop_client, request_callback, RequestInvalid,
         RequestDuplicate, RequestConflict, RequestAccepted
    <3>4. ASSUME NEW r \in Replicas, NEW v \in Views, NEW i \in Ids,
                 ReplicaCommits(r, v, i) \/ status_callback(r, v, i)
          PROVE  fail_safe_latched'
      BY <1>1, <3>4 DEF ReplicaCommits, status_callback
    <3>5. ASSUME NEW d \in Foreign, ForeignDecision(d)
          PROVE  fail_safe_latched'
      BY <1>1, <3>5 DEF ForeignDecision
    <3>6. CASE decision_callback
      BY <1>1, <3>6 DEF decision_callback, DecisionIgnored, DecisionRejected, DecisionApplied
    <3>7. CASE decision_timeout_callback
      BY <1>1, <3>7 DEF decision_timeout_callback
    <3> QED BY <1>1, <3>2, <3>3, <3>4, <3>5, <3>6, <3>7 DEF Next
  <2> QED BY <1>1, <2>1 DEF SupervisorInv
<1> QED BY <1>1, SupervisorInvHolds, PTL DEF Spec, FailSafeIsFinal
-----------------------------------------------------------------------------
(* The decision topic only grows, and the supervisor reads it in order. *)

Decision == [body: DecisionBody, stamp: Nat]

TopicInv ==
  /\ now \in Nat
  /\ topic \in Seq(Decision)
  /\ next \in Nat /\ next <= Len(topic)
  /\ foreign \subseteq Foreign

\* An entry of the topic is never changed.
Grows ==
  /\ Len(topic) <= Len(topic')
  /\ \A n \in 1 .. Len(topic) : topic'[n] = topic[n]

LEMMA PublishGrows ==
  ASSUME TopicInv, NEW d \in DecisionBody, Publish(Stamped(d))
  PROVE  /\ topic' \in Seq(Decision) /\ now' \in Nat /\ Grows
         /\ Len(topic') = Len(topic) + 1
         /\ topic'[Len(topic) + 1] = Stamped(d)
<1>1. Stamped(d) \in Decision
  BY DEF Stamped, Decision, TopicInv
<1> QED BY <1>1 DEF Publish, TopicInv, Grows

\* The decision the monitor composes
Announcement(obs, v, i) ==
  [id |-> i, stop |-> TRUE, view |-> v, committed |-> TRUE,
   confirming |-> Confirming(obs, v, i), required |-> CommitThreshold]

LEMMA AnnouncementType ==
  ASSUME NEW obs, NEW v \in Views, NEW i \in Ids
  PROVE  Announcement(obs, v, i) \in DecisionBody
<1>1. Confirming(obs, v, i) \in SUBSET Int
  BY EmergencyStopAssumption DEF Confirming, Replicas, N
<1>2. CommitThreshold \in Int
  BY EmergencyStopAssumption DEF CommitThreshold
<1> QED BY <1>1, <1>2 DEF Announcement, DecisionBody

LEMMA TopicInvInit == Init => TopicInv
BY DEF Init, TopicInv

LEMMA TopicInvStep ==
  ASSUME TopicInv, [Next]_vars
  PROVE  TopicInv' /\ Grows
<1> USE DEF TopicInv
<1>0. ASSUME UNCHANGED <<topic, next, foreign>>, now' = now \/ now' = now + 1
      PROVE  TopicInv' /\ Grows
  <2>1. now' \in Nat
    BY <1>0
  <2> QED BY <1>0, <2>1 DEF Grows
<1>1. ASSUME NEW c \in Clients, ClientStep(c)
      PROVE  TopicInv' /\ Grows
  BY <1>0, <1>1 DEF ClientStep, publish_request, client_decision_callback,
                    client_timeout_callback, stop_client
<1>2. ASSUME NEW c \in Clients, request_callback(c)
      PROVE  TopicInv' /\ Grows
  BY <1>0, <1>2 DEF request_callback, RequestInvalid, RequestDuplicate,
                    RequestConflict, RequestAccepted
<1>3. ASSUME NEW r \in Replicas, NEW v \in Views, NEW i \in Ids, ReplicaCommits(r, v, i)
      PROVE  TopicInv' /\ Grows
  BY <1>3 DEF ReplicaCommits, Grows
<1>4. ASSUME NEW r \in Replicas, NEW v \in Views, NEW i \in Ids, status_callback(r, v, i)
      PROVE  TopicInv' /\ Grows
  <2> DEFINE obs == RecordCommittedStatus(r, v, i)
  <2>1. CASE ConsensusReached(obs, v, i)
    <3>1. Publish(Stamped(Announcement(obs, v, i))) /\ UNCHANGED <<next, foreign>>
      BY <1>4, <2>1 DEF status_callback, Announcement
    <3> QED BY <3>1, AnnouncementType, PublishGrows
  <2>2. CASE ~ ConsensusReached(obs, v, i)
    BY <1>4, <2>2, <1>0 DEF status_callback
  <2> QED BY <2>1, <2>2
<1>5. ASSUME NEW d \in Foreign, ForeignDecision(d)
      PROVE  TopicInv' /\ Grows
  <2>1. d \in DecisionBody
    BY EmergencyStopAssumption
  <2>2. Publish(Stamped(d)) /\ UNCHANGED next /\ foreign' \subseteq foreign
    BY <1>5 DEF ForeignDecision
  <2> QED BY <2>1, <2>2, PublishGrows
<1>6. CASE decision_callback
  BY <1>6 DEF decision_callback, Grows
<1>7. CASE decision_timeout_callback
  BY <1>7 DEF decision_timeout_callback, Grows
<1>8. CASE UNCHANGED vars
  BY <1>8, <1>0 DEF vars
<1> QED BY <1>1, <1>2, <1>3, <1>4, <1>5, <1>6, <1>7, <1>8 DEF Next
-----------------------------------------------------------------------------
(* ReleaseJustified: what SupervisorInv says, and the decision itself. *)

\* The decision behind a lifted stop
Granted ==
  \E n \in 1 .. next :
     /\ Answers(topic[n], active_request.id, FALSE, active_request.received)
     /\ Cardinality(topic[n].body.confirming \cap Replicas) >= CommitThreshold

LEMMA GrantedStays ==
  ASSUME TopicInv, Grows, Granted, next <= next', next' \in Nat, UNCHANGED active_request
  PROVE  Granted'
<1>1. PICK n \in 1 .. next :
        /\ Answers(topic[n], active_request.id, FALSE, active_request.received)
        /\ Cardinality(topic[n].body.confirming \cap Replicas) >= CommitThreshold
  BY DEF Granted
<1>2. topic'[n] = topic[n] /\ n \in 1 .. next'
  BY <1>1 DEF TopicInv, Grows
<1> QED BY <1>1, <1>2 DEF Granted, Answers

ReleaseInv == SupervisorInv /\ TopicInv /\ (~ current_command => Granted)

LEMMA ReleaseInvStep == ReleaseInv /\ [Next]_vars => ReleaseInv'
<1> SUFFICES ASSUME ReleaseInv, [Next]_vars
             PROVE  ReleaseInv'
  OBVIOUS
<1>1. SupervisorInv' /\ TopicInv' /\ Grows
  BY SupervisorInvStep, TopicInvStep DEF ReleaseInv
<1>0. next' \in Nat /\ next \in Nat
  BY <1>1 DEF TopicInv, ReleaseInv
<1> SUFFICES ASSUME ~ current_command'
             PROVE  Granted'
  BY <1>1 DEF ReleaseInv
<1>2. ASSUME UNCHANGED <<active_request, current_command>>, next' = next \/ next' = next + 1
      PROVE  Granted'
  <2>1. next <= next'
    BY <1>0, <1>2
  <2> QED BY <1>0, <1>1, <1>2, <2>1, GrantedStays DEF ReleaseInv
<1>3. ASSUME NEW c \in Clients, ClientStep(c)
      PROVE  Granted'
  BY <1>2, <1>3 DEF ClientStep, publish_request, client_decision_callback,
                    client_timeout_callback, stop_client
<1>4. ASSUME NEW c \in Clients, request_callback(c)
      PROVE  Granted'
  BY <1>2, <1>4 DEF request_callback, RequestInvalid, RequestDuplicate,
                    RequestConflict, RequestAccepted, _activate_fail_safe, Output
<1>5. ASSUME NEW r \in Replicas, NEW v \in Views, NEW i \in Ids,
             ReplicaCommits(r, v, i) \/ status_callback(r, v, i)
      PROVE  Granted'
  BY <1>2, <1>5 DEF ReplicaCommits, status_callback
<1>6. ASSUME NEW d \in Foreign, ForeignDecision(d)
      PROVE  Granted'
  BY <1>2, <1>6 DEF ForeignDecision
<1>7. CASE decision_callback
  <2> DEFINE d == topic[next + 1]
  <2>0. /\ next < Len(topic) /\ next' = next + 1
        /\ UNCHANGED <<active_request, topic>>
    BY <1>7 DEF decision_callback
  <2>1. CASE DecisionIgnored(d)
    BY <1>2, <2>0, <2>1 DEF DecisionIgnored
  <2>2. CASE DecisionRejected(d)
    BY <2>2 DEF DecisionRejected, _activate_fail_safe, Output
  <2>3. CASE DecisionApplied(d)
    <3>1. d \in Decision
      BY <2>0 DEF ReleaseInv, TopicInv
    <3>2. ~ d.body.stop
      BY <2>3 DEF DecisionApplied, ApplyDecision, Output
    <3>3. Answers(d, active_request.id, FALSE, active_request.received)
      BY <2>3, <3>1, <3>2 DEF DecisionApplied, Relevant, ValidDecision, Answers,
                              Decision, DecisionBody
    <3>4. Cardinality(d.body.confirming \cap Replicas) >= CommitThreshold
      <4>1. d.body.confirming \cap Replicas = d.body.confirming
        BY <2>3 DEF DecisionApplied, ValidDecision
      <4> QED BY <2>3, <4>1 DEF DecisionApplied, ValidDecision
    <3>5. next + 1 \in 1 .. next' /\ topic'[next + 1] = d
      BY <1>0, <2>0
    <3> QED BY <2>0, <3>3, <3>4, <3>5 DEF Granted, Answers
  <2> QED BY <1>7, <2>1, <2>2, <2>3 DEF decision_callback
<1>8. CASE decision_timeout_callback
  BY <1>2, <1>8 DEF decision_timeout_callback, _activate_fail_safe, Output
<1>9. CASE UNCHANGED vars
  BY <1>2, <1>9 DEF vars
<1> QED BY <1>3, <1>4, <1>5, <1>6, <1>7, <1>8, <1>9 DEF Next

\* The vehicle may move only on a release that a full quorum confirmed after
\* the supervisor had received it.
THEOREM ReleaseIsJustified == Spec => []ReleaseJustified
<1>1. Init => ReleaseInv
  BY SupervisorInvInit, TopicInvInit DEF ReleaseInv, Init
<1>2. ReleaseInv => ReleaseJustified
  BY DEF ReleaseInv, ReleaseJustified, SupervisorInv, Granted
<1> QED BY <1>1, <1>2, ReleaseInvStep, PTL DEF Spec
-----------------------------------------------------------------------------
(* WaitingIsTimed is inductive with the types it rests on. *)

ClientRecord == [sent: BOOLEAN, time: Nat, received: BOOLEAN, timer: BOOLEAN,
                 shutdown: BOOLEAN, alive: BOOLEAN, next: Nat]

WaitingInv ==
  /\ now \in Nat
  /\ client \in [Clients -> ClientRecord]
  /\ fail_safe_latched \in BOOLEAN
  /\ WaitingIsTimed

LEMMA WaitingInvStep == WaitingInv /\ TopicInv /\ TopicInv' /\ [Next]_vars => WaitingInv'
<1> SUFFICES ASSUME WaitingInv, TopicInv, TopicInv', [Next]_vars
             PROVE  WaitingInv'
  OBVIOUS
<1> USE DEF WaitingInv, WaitingIsTimed, Pending
<1>0. now' \in Nat
  BY DEF TopicInv
<1>1. ASSUME NEW c \in Clients, ClientStep(c)
      PROVE  WaitingInv'
  <2>1. UNCHANGED <<active_request, decision_processed, fail_safe_latched, timeout_timer>>
    BY <1>1 DEF ClientStep, publish_request, client_decision_callback,
                client_timeout_callback, stop_client
  <2>2. \E rec \in ClientRecord :
          /\ client' = [client EXCEPT ![c] = rec]
          /\ rec.sent /\ rec.alive => rec.timer \/ rec.shutdown
    <3> USE DEF ClientRecord
    <3>0. client[c] \in ClientRecord
      OBVIOUS
    <3>1. CASE publish_request(c)
      <4> WITNESS [client[c] EXCEPT !.sent = TRUE, !.time = now, !.timer = TRUE]
                    \in ClientRecord
      <4> QED BY <3>1 DEF publish_request
    <3>2. CASE client_decision_callback(c)
      <4> DEFINE ok  == ClientAccepts(c, topic[client[c].next + 1])
                 nxt == client[c].next + 1
                 rcv == client[c].received \/ ok
                 tmr == client[c].timer /\ ~ ok
                 sht == client[c].shutdown \/ ok
                 rec == [client[c] EXCEPT !.next = nxt, !.received = rcv,
                                          !.timer = tmr, !.shutdown = sht]
      <4>1. client' = [client EXCEPT ![c] = rec]
        BY <3>2 DEF client_decision_callback
      <4>2. nxt \in Nat /\ rcv \in BOOLEAN /\ tmr \in BOOLEAN /\ sht \in BOOLEAN
        BY <3>0
      <4>3. client[c].timer \/ client[c].shutdown => tmr \/ sht
        OBVIOUS
      <4> HIDE DEF nxt, rcv, tmr, sht
      <4>4. rec \in ClientRecord
        BY <3>0, <4>2
      <4>5. rec.sent /\ rec.alive => rec.timer \/ rec.shutdown
        BY <3>0, <4>3
      <4> QED BY <4>1, <4>4, <4>5
    <3>3. CASE client_timeout_callback(c)
      <4> WITNESS [client[c] EXCEPT !.timer = FALSE, !.shutdown = TRUE] \in ClientRecord
      <4> QED BY <3>3 DEF client_timeout_callback
    <3>4. CASE stop_client(c)
      <4> WITNESS [client[c] EXCEPT !.alive = FALSE, !.timer = FALSE] \in ClientRecord
      <4> QED BY <3>4 DEF stop_client
    <3> QED BY <1>1, <3>1, <3>2, <3>3, <3>4 DEF ClientStep
  <2>3. PICK rec \in ClientRecord :
          /\ client' = [client EXCEPT ![c] = rec]
          /\ rec.sent /\ rec.alive => rec.timer \/ rec.shutdown
    BY <2>2
  <2>4. client' \in [Clients -> ClientRecord]
    BY <2>3
  <2>5. \A e \in Clients :
          client'[e].sent /\ client'[e].alive => client'[e].timer \/ client'[e].shutdown
    BY <2>3
  <2> QED BY <1>0, <2>1, <2>4, <2>5
<1>2. ASSUME NEW c \in Clients, request_callback(c)
      PROVE  WaitingInv'
  <2>0. UNCHANGED client
    BY <1>2 DEF request_callback
  <2>1. CASE RequestInvalid(Asks[c]) \/ RequestConflict(Asks[c])
    BY <1>0, <2>0, <2>1 DEF RequestInvalid, RequestConflict, _activate_fail_safe
  <2>2. CASE RequestDuplicate(Asks[c])
    BY <1>0, <2>0, <2>2 DEF RequestDuplicate
  <2>3. CASE RequestAccepted(Asks[c])
    BY <1>0, <2>0, <2>3 DEF RequestAccepted
  <2> QED BY <1>2, <2>1, <2>2, <2>3 DEF request_callback
<1>3. ASSUME NEW r \in Replicas, NEW v \in Views, NEW i \in Ids,
             ReplicaCommits(r, v, i) \/ status_callback(r, v, i)
      PROVE  WaitingInv'
  BY <1>0, <1>3 DEF ReplicaCommits, status_callback
<1>4. ASSUME NEW d \in Foreign, ForeignDecision(d)
      PROVE  WaitingInv'
  BY <1>0, <1>4 DEF ForeignDecision
<1>5. CASE decision_callback
  <2> DEFINE d == topic[next + 1]
  <2>0. UNCHANGED <<client, active_request>>
    BY <1>5 DEF decision_callback
  <2>1. CASE DecisionIgnored(d)
    BY <1>0, <2>0, <2>1 DEF DecisionIgnored
  <2>2. CASE DecisionRejected(d)
    BY <1>0, <2>0, <2>2 DEF DecisionRejected, _activate_fail_safe
  <2>3. CASE DecisionApplied(d)
    BY <1>0, <2>0, <2>3 DEF DecisionApplied
  <2> QED BY <1>5, <2>1, <2>2, <2>3 DEF decision_callback
<1>6. CASE decision_timeout_callback
  <2>0. UNCHANGED <<client, active_request, decision_processed>>
    BY <1>6 DEF decision_timeout_callback
  <2>1. CASE Pending
    BY <1>0, <1>6, <2>0, <2>1 DEF decision_timeout_callback, _activate_fail_safe
  <2>2. CASE ~ Pending
    BY <1>0, <1>6, <2>0, <2>2 DEF decision_timeout_callback
  <2> QED BY <2>1, <2>2
<1>7. CASE UNCHANGED vars
  BY <1>0, <1>7 DEF vars
<1> QED BY <1>1, <1>2, <1>3, <1>4, <1>5, <1>6, <1>7 DEF Next

\* Nobody waits without a deadline, whatever arrives in whatever order
\* (request_callback and decision_callback of safety_supervisor.py, the
\* timers of client_node.py).
THEOREM NobodyWaitsForEver == Spec => []WaitingIsTimed
<1>1. ASSUME Init PROVE WaitingInv
  <2>1. client \in [Clients -> ClientRecord] /\ \A c \in Clients : ~ client[c].sent
    BY <1>1 DEF Init, ClientRecord
  <2> QED BY <1>1, <2>1 DEF Init, WaitingInv, WaitingIsTimed, Pending
<1>2. Init => TopicInv
  BY TopicInvInit
<1>3. TopicInv /\ [Next]_vars => TopicInv'
  BY TopicInvStep
<1>4. WaitingInv => WaitingIsTimed
  BY DEF WaitingInv
<1> QED BY <1>1, <1>2, <1>3, <1>4, WaitingInvStep, PTL DEF Spec
-----------------------------------------------------------------------------
(* DecisionBacked: what the monitor has observed was executed, and nothing  *)
(* that was executed is undone.                                             *)

ObservedInv ==
  /\ committed \in [Replicas -> SUBSET (Views \X Ids)]
  /\ \A v \in Views, i \in Ids, r \in Replicas :
        <<v, i, r>> \in observed => r \notin Byzantine /\ <<v, i>> \in committed[r]

\* d is a foreign decision or one that its confirming replicas back
Backed(d, com) ==
  d \notin Foreign =>
     /\ d.confirming \subseteq Replicas
     /\ \A r \in d.confirming : r \notin Byzantine /\ <<d.view, d.id>> \in com[r]
     /\ Cardinality(d.confirming) >= CommitThreshold

BackedInv ==
  /\ TopicInv /\ ObservedInv
  /\ \A n \in 1 .. Len(topic) : Backed(topic[n].body, committed)

LEMMA BackedStays ==
  ASSUME BackedInv, TopicInv', Grows, Len(topic') = Len(topic),
         \A r \in Replicas : committed[r] \subseteq committed'[r]
  PROVE  \A n \in 1 .. Len(topic') : Backed(topic'[n].body, committed')
BY DEF BackedInv, Backed, Grows, TopicInv

LEMMA BackedExtends ==
  ASSUME BackedInv, TopicInv', Grows, Len(topic') = Len(topic) + 1,
         UNCHANGED committed, Backed(topic'[Len(topic) + 1].body, committed)
  PROVE  \A n \in 1 .. Len(topic') : Backed(topic'[n].body, committed')
<1> SUFFICES ASSUME NEW n \in 1 .. Len(topic')
             PROVE  Backed(topic'[n].body, committed')
  OBVIOUS
<1>0. Len(topic) \in Nat
  BY DEF BackedInv, TopicInv
<1>1. CASE n \in 1 .. Len(topic)
  BY <1>1 DEF BackedInv, Backed, Grows
<1>2. CASE n = Len(topic) + 1
  BY <1>2 DEF Backed
<1> QED BY <1>0, <1>1, <1>2

LEMMA BackedInvStep == BackedInv /\ [Next]_vars => BackedInv'
<1> SUFFICES ASSUME BackedInv, [Next]_vars
             PROVE  BackedInv'
  OBVIOUS
<1>1. TopicInv' /\ Grows
  BY TopicInvStep DEF BackedInv
<1>2. ASSUME UNCHANGED <<committed, observed, topic>>
      PROVE  BackedInv'
  <2>1. ObservedInv'
    BY <1>2 DEF BackedInv, ObservedInv
  <2> QED BY <1>1, <1>2, <2>1, BackedStays DEF BackedInv
<1>3. ASSUME NEW c \in Clients, ClientStep(c) \/ request_callback(c)
      PROVE  BackedInv'
  BY <1>2, <1>3 DEF ClientStep, publish_request, client_decision_callback,
                    client_timeout_callback, stop_client, request_callback
<1>4. ASSUME NEW r \in Replicas, NEW v \in Views, NEW i \in Ids, ReplicaCommits(r, v, i)
      PROVE  BackedInv'
  <2>1. /\ committed' = [committed EXCEPT ![r] = @ \cup {<<v, i>>}]
        /\ UNCHANGED <<observed, topic>>
    BY <1>4 DEF ReplicaCommits
  <2>2. \A q \in Replicas : committed[q] \subseteq committed'[q]
    BY <2>1 DEF BackedInv, ObservedInv
  <2>3. ObservedInv'
    BY <2>1, <2>2 DEF BackedInv, ObservedInv
  <2> QED BY <1>1, <2>1, <2>2, <2>3, BackedStays DEF BackedInv
<1>5. ASSUME NEW r \in Replicas, NEW v \in Views, NEW i \in Ids, status_callback(r, v, i)
      PROVE  BackedInv'
  <2> DEFINE obs == RecordCommittedStatus(r, v, i)
  <2>0. <<v, i>> \in committed[r] /\ observed' = obs /\ UNCHANGED committed
    BY <1>5 DEF status_callback
  <2>1. ObservedInv'
    BY <2>0 DEF BackedInv, ObservedInv, RecordCommittedStatus
  <2>2. CASE ConsensusReached(obs, v, i)
    <3> DEFINE a == Announcement(obs, v, i)
    <3>1. Publish(Stamped(a))
      BY <1>5, <2>2 DEF status_callback, Announcement
    <3>2. /\ Len(topic') = Len(topic) + 1
          /\ topic'[Len(topic) + 1].body = a
      BY <3>1, AnnouncementType, PublishGrows DEF BackedInv, Stamped
    <3>3. Backed(a, committed)
      <4>1. a.confirming = Confirming(observed', v, i) /\ a.view = v /\ a.id = i
        BY <2>0 DEF Announcement
      <4>2. \A q \in a.confirming : q \in Replicas /\ q \notin Byzantine /\ <<v, i>> \in committed[q]
        BY <2>0, <2>1, <4>1 DEF Confirming, ObservedInv
      <4>3. Cardinality(a.confirming) >= CommitThreshold
        BY <2>0, <2>2, <4>1 DEF ConsensusReached
      <4> QED BY <4>1, <4>2, <4>3 DEF Backed
    <3> HIDE DEF a
    <3> QED BY <1>1, <2>0, <2>1, <3>2, <3>3, BackedExtends DEF BackedInv
  <2>3. CASE ~ ConsensusReached(obs, v, i)
    <3>1. UNCHANGED topic
      BY <1>5, <2>3 DEF status_callback
    <3> QED BY <1>1, <2>0, <2>1, <3>1, BackedStays DEF BackedInv
  <2> QED BY <2>2, <2>3
<1>6. ASSUME NEW d \in Foreign, ForeignDecision(d)
      PROVE  BackedInv'
  <2>1. d \in DecisionBody
    BY EmergencyStopAssumption
  <2>2. Publish(Stamped(d)) /\ UNCHANGED <<committed, observed>>
    BY <1>6 DEF ForeignDecision
  <2>3. Len(topic') = Len(topic) + 1 /\ topic'[Len(topic) + 1].body = d
    BY <2>1, <2>2, PublishGrows DEF BackedInv, Stamped
  <2>4. ObservedInv'
    BY <2>2 DEF BackedInv, ObservedInv
  <2>5. Backed(d, committed)
    BY DEF Backed
  <2> QED BY <1>1, <2>2, <2>3, <2>4, <2>5, BackedExtends DEF BackedInv
<1>7. CASE decision_callback
  BY <1>2, <1>7 DEF decision_callback
<1>8. CASE decision_timeout_callback
  BY <1>2, <1>8 DEF decision_timeout_callback
<1>9. CASE UNCHANGED vars
  BY <1>2, <1>9 DEF vars
<1> QED BY <1>3, <1>4, <1>5, <1>6, <1>7, <1>8, <1>9 DEF Next

\* What the monitor announces was executed in that view by 2f + 1 replicas,
\* none of them faulty, however statuses are lost, repeated or delayed
\* (_record_committed_status and _check_consensus of pbft_monitor.py).
THEOREM DecisionsAreBacked == Spec => []DecisionBacked
<1>1. Init => BackedInv
  BY TopicInvInit DEF Init, BackedInv, ObservedInv
<1>2. BackedInv => DecisionBacked
  BY DEF BackedInv, Backed, DecisionBacked
<1> QED BY <1>1, <1>2, BackedInvStep, PTL DEF Spec
=============================================================================
