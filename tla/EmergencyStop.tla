--------------------------- MODULE EmergencyStop ---------------------------
(***************************************************************************)
(* The decision chain around the PBFT replicas of the emergency-stop       *)
(* simulator: clients (client_node.py) publish a REQUEST each and wait for *)
(* a decision, the monitor (pbft_monitor.py) turns the statuses of the     *)
(* replicas into decisions, and the safety supervisor                      *)
(* (safety_supervisor.py) drives the emergency-stop output of the vehicle. *)
(* The replicas themselves are in PBFTReplica; here a replica only commits *)
(* stop requests, in growing views.                                        *)
(*                                                                         *)
(* Requests and decisions travel on topics of their own, so a node may see *)
(* a decision before the request it answers.  A request id stands for its  *)
(* digest as well; `now` is the common clock, and `topic` everything ever  *)
(* published on /pbft/decision (reliable, transient local: a node that     *)
(* joins late starts at the first entry).                                  *)
(***************************************************************************)
EXTENDS Integers, Sequences, FiniteSets

CONSTANTS F,             \* faulty replicas tolerated (max_faulty)
          Byzantine,     \* replicas that report is_byzantine
          Clients,       \* client nodes, each with one request
          Ids,           \* request ids
          Launches,      \* launch files: what the nodes are started with
          MaxView,       \* bound on the views of the replicas
          Foreign        \* decisions that other publishers put on the topic

N == 3 * F + 1
Replicas == 0 .. N - 1
Views == 0 .. MaxView

\* recipient -1 is a broadcast, which replicas take and the supervisor does not
Request == [id: Ids, stop: BOOLEAN, view: Views, recipient: {-1} \cup Replicas]
DecisionBody == [id: Ids, stop: BOOLEAN, view: Views, committed: BOOLEAN,
                 confirming: SUBSET Int, required: Int]

\* asks[c] is the REQUEST of client c
Launch == [asks: [Clients -> Request], allow_confirmed_release: BOOLEAN]

ASSUME EmergencyStopAssumption ==
  /\ F \in Nat
  /\ MaxView \in Nat
  /\ Byzantine \subseteq Replicas
  /\ Launches \subseteq Launch
  /\ Foreign \subseteq DecisionBody

VARIABLES launch,     \* the launch file in use
          now,        \* clock, in events that are time-stamped
          committed,  \* committed[r]: the <<view, id>> replica r has executed
          observed,   \* committed_observations: <<view, id, r>>
          reported,   \* reported_consensus: <<view, id>>
          topic,      \* decisions published, in order
          foreign,    \* foreign decisions not yet published
          client,     \* client[c]: request_sent, its time, decision_received, ...
          requests,   \* REQUESTs on their way to the supervisor
          active_request, decision_processed, fail_safe_latched,
          current_command, current_state, timeout_timer,
          next        \* decisions the supervisor has handled

supervisor == <<active_request, decision_processed, fail_safe_latched,
                current_command, current_state, timeout_timer, next>>
monitor == <<observed, reported>>
vars == <<launch, now, committed, monitor, topic, foreign, client, requests, supervisor>>

Asks == launch.asks
AllowRelease == launch.allow_confirmed_release

NoRequest == [id |-> "none"]

CommitThreshold == 2 * F + 1

Init ==
  /\ launch \in Launches
  /\ now = 0
  /\ committed = [r \in Replicas |-> {}]
  /\ observed = {} /\ reported = {}
  /\ topic = <<>> /\ foreign = Foreign
  /\ client = [c \in Clients |->
                 [sent |-> FALSE, time |-> 0, received |-> FALSE,
                  timer |-> FALSE, shutdown |-> FALSE, alive |-> TRUE, next |-> 0]]
  /\ requests = {}
  /\ active_request = NoRequest /\ decision_processed = FALSE
  /\ fail_safe_latched = FALSE /\ current_command = TRUE
  /\ current_state = "SAFE_INITIAL_STOP" /\ timeout_timer = FALSE
  /\ next = 0

Publish(d) == topic' = Append(topic, d) /\ now' = now + 1
Stamped(d) == [body |-> d, stamp |-> now]
-----------------------------------------------------------------------------
(* The client. *)

publish_request(c) ==
  /\ client[c].alive /\ ~ client[c].sent
  /\ client' = [client EXCEPT ![c].sent = TRUE, ![c].time = now, ![c].timer = TRUE]
  /\ requests' = requests \cup {c}
  /\ now' = now + 1
  /\ UNCHANGED <<committed, monitor, topic, foreign, supervisor>>

\* The checks of decision_callback; decision_received and request_sent come first
ClientAccepts(c, d) ==
  /\ client[c].sent /\ ~ client[c].received
  /\ d.body.id = Asks[c].id
  /\ d.stamp >= client[c].time
  /\ d.body.committed
  /\ d.body.stop = Asks[c].stop
  /\ d.body.required > 0
  /\ Cardinality(d.body.confirming) >= d.body.required

\* decision_callback; also between the timeout and the shutdown it scheduled
client_decision_callback(c) ==
  /\ client[c].alive /\ client[c].next < Len(topic)
  /\ LET d  == topic[client[c].next + 1]
         ok == ClientAccepts(c, d)
     IN  client' = [client EXCEPT ![c].next = @ + 1,
                                  ![c].received = @ \/ ok,
                                  ![c].timer = @ /\ ~ ok,
                                  ![c].shutdown = @ \/ ok]
  /\ UNCHANGED <<now, committed, monitor, topic, foreign, requests, supervisor>>

client_timeout_callback(c) ==
  /\ client[c].alive /\ client[c].timer
  /\ client' = [client EXCEPT ![c].timer = FALSE, ![c].shutdown = TRUE]
  /\ UNCHANGED <<now, committed, monitor, topic, foreign, requests, supervisor>>

stop_client(c) ==
  /\ client[c].alive /\ client[c].shutdown
  /\ client' = [client EXCEPT ![c].alive = FALSE, ![c].timer = FALSE]
  /\ UNCHANGED <<now, committed, monitor, topic, foreign, requests, supervisor>>
-----------------------------------------------------------------------------
(* The replicas: what PBFTReplica lets their statuses say.  Every replica   *)
(* executes stop requests only (commit_callback rejects the others), never  *)
(* in a view older than its own, and possibly again after a view change.    *)

ReplicaCommits(r, v, i) ==
  /\ \E c \in Clients : client[c].sent /\ Asks[c].id = i /\ Asks[c].stop
  /\ <<v, i>> \notin committed[r]
  /\ \A k \in committed[r] : k[1] <= v
  /\ committed' = [committed EXCEPT ![r] = @ \cup {<<v, i>>}]
  /\ UNCHANGED <<now, monitor, topic, foreign, client, requests, supervisor>>

(* The monitor. *)

\* _record_committed_status
RecordAnyCommittedStatus(r, v, i) == observed \cup {<<v, i, r>>}
RecordCommittedStatus(r, v, i) ==
  IF r \in Byzantine THEN observed ELSE observed \cup {<<v, i, r>>}

Confirming(obs, v, i) == {r \in Replicas : <<v, i, r>> \in obs}

\* _check_consensus: the instances to be announced, each once
ConsensusReached(obs, v, i) ==
  /\ Cardinality(Confirming(obs, v, i)) >= CommitThreshold
  /\ <<v, i>> \notin reported

\* status_callback for a committed status of r, however late: statuses are
\* published at every step and by a timer, and queues of depth one drop some.
status_callback(r, v, i) ==
  /\ <<v, i>> \in committed[r]
  /\ LET obs == RecordCommittedStatus(r, v, i)
     IN  /\ observed' = obs
         /\ IF ConsensusReached(obs, v, i)
            THEN /\ reported' = reported \cup {<<v, i>>}
                 /\ Publish(Stamped([id |-> i, stop |-> TRUE, view |-> v,
                                     committed |-> TRUE,
                                     confirming |-> Confirming(obs, v, i),
                                     required |-> CommitThreshold]))
            ELSE /\ observed # obs
                 /\ UNCHANGED <<reported, topic, now>>
  /\ UNCHANGED <<committed, foreign, client, requests, supervisor>>

\* Messages are not signed and the topic is open to other publishers.
ForeignDecision(d) ==
  /\ d \in foreign
  /\ foreign' = foreign \ {d}
  /\ Publish(Stamped(d))
  /\ UNCHANGED <<committed, monitor, client, requests, supervisor>>
-----------------------------------------------------------------------------
(* The safety supervisor. *)

\* _publish_output and _set_state
Output(enabled, state) == current_command' = enabled /\ current_state' = state

_activate_fail_safe ==
  /\ fail_safe_latched' = TRUE
  /\ Output(TRUE, "FAIL_SAFE_STOP")

\* _validate_request
ValidRequest(m) == m.recipient \in Replicas

SameRequest(m) ==
  [id |-> m.id, stop |-> m.stop, view |-> m.view]
    = [id |-> active_request.id, stop |-> active_request.stop,
       view |-> active_request.view]

Pending == active_request # NoRequest /\ ~ decision_processed

\* request_callback, one action for each way out of it
RequestInvalid(m) ==
  /\ ~ ValidRequest(m)
  /\ _activate_fail_safe
  /\ UNCHANGED <<now, active_request, decision_processed, timeout_timer>>

RequestDuplicate(m) ==
  /\ ValidRequest(m) /\ Pending /\ SameRequest(m)
  /\ UNCHANGED <<now, active_request, decision_processed, fail_safe_latched,
                 current_command, current_state, timeout_timer>>

RequestConflict(m) ==
  /\ ValidRequest(m) /\ Pending /\ ~ SameRequest(m)
  /\ _activate_fail_safe
  /\ UNCHANGED <<now, active_request, decision_processed, timeout_timer>>

RequestAcceptedUntimed(m) ==
  /\ ValidRequest(m) /\ ~ Pending
  /\ active_request' = [id |-> m.id, stop |-> m.stop, view |-> m.view,
                        received |-> now]
  /\ now' = now + 1
  /\ decision_processed' = FALSE
  /\ Output(TRUE, "WAITING_FOR_DECISION")
  /\ UNCHANGED <<fail_safe_latched, timeout_timer>>

RequestAccepted(m) ==
  /\ ValidRequest(m) /\ ~ Pending
  /\ active_request' = [id |-> m.id, stop |-> m.stop, view |-> m.view,
                        received |-> now]
  /\ now' = now + 1
  /\ decision_processed' = FALSE
  /\ timeout_timer' = TRUE
  /\ Output(TRUE, "WAITING_FOR_DECISION")
  /\ UNCHANGED fail_safe_latched

request_callback(c) ==
  /\ c \in requests
  /\ requests' = requests \ {c}
  /\ LET m == Asks[c]
     IN  RequestInvalid(m) \/ RequestDuplicate(m) \/ RequestConflict(m) \/ RequestAccepted(m)
  /\ UNCHANGED <<committed, monitor, topic, foreign, client, next>>

\* _validate_decision
ValidDecisionSmallQuorum(d) ==
  /\ d.committed
  /\ d.view >= active_request.view
  /\ d.stop = active_request.stop
  /\ d.confirming \subseteq Replicas

ValidDecision(d) ==
  /\ d.committed
  /\ d.view >= active_request.view
  /\ d.stop = active_request.stop
  /\ d.confirming \subseteq Replicas
  /\ d.required = CommitThreshold
  /\ Cardinality(d.confirming) >= CommitThreshold

\* The early returns of decision_callback passed
Relevant(d) ==
  /\ active_request # NoRequest
  /\ d.body.id = active_request.id
  /\ d.stamp >= active_request.received
  /\ ValidDecision(d.body) => ~ decision_processed

DecisionIgnored(d) ==
  /\ ~ Relevant(d)
  /\ UNCHANGED <<decision_processed, fail_safe_latched, current_command,
                 current_state, timeout_timer>>

DecisionRejected(d) ==
  /\ Relevant(d) /\ ~ ValidDecision(d.body)
  /\ _activate_fail_safe
  /\ UNCHANGED <<decision_processed, timeout_timer>>

\* The output of a valid decision for the pending request
ApplyDecisionUnlatched(d) ==
  IF d.body.stop THEN Output(TRUE, "CONFIRMED_STOP")
  ELSE IF ~ AllowRelease THEN Output(TRUE, "RELEASE_BLOCKED")
  ELSE Output(FALSE, "CONFIRMED_RELEASE")

ApplyDecision(d) ==
  IF d.body.stop THEN Output(TRUE, "CONFIRMED_STOP")
  ELSE IF fail_safe_latched \/ ~ AllowRelease THEN Output(TRUE, "RELEASE_BLOCKED")
  ELSE Output(FALSE, "CONFIRMED_RELEASE")

DecisionApplied(d) ==
  /\ Relevant(d) /\ ValidDecision(d.body)
  /\ decision_processed' = TRUE
  /\ timeout_timer' = FALSE
  /\ ApplyDecision(d)
  /\ UNCHANGED fail_safe_latched

decision_callback ==
  /\ next < Len(topic)
  /\ next' = next + 1
  /\ LET d == topic[next + 1]
     IN  DecisionIgnored(d) \/ DecisionRejected(d) \/ DecisionApplied(d)
  /\ UNCHANGED <<now, committed, monitor, topic, foreign, client, requests,
                 active_request>>

\* The timer is cancelled whenever decision_processed becomes TRUE
decision_timeout_logged ==
  /\ timeout_timer
  /\ timeout_timer' = FALSE
  /\ UNCHANGED <<now, committed, monitor, topic, foreign, client, requests,
                 active_request, decision_processed, fail_safe_latched,
                 current_command, current_state, next>>

decision_timeout_callback ==
  /\ timeout_timer
  /\ timeout_timer' = FALSE
  /\ IF Pending
     THEN _activate_fail_safe
     ELSE UNCHANGED <<fail_safe_latched, current_command, current_state>>
  /\ UNCHANGED <<now, committed, monitor, topic, foreign, client, requests,
                 active_request, decision_processed, next>>
-----------------------------------------------------------------------------
ClientStep(c) ==
  \/ publish_request(c)
  \/ client_decision_callback(c)
  \/ client_timeout_callback(c)
  \/ stop_client(c)

Next ==
  /\ \/ \E c \in Clients : ClientStep(c) \/ request_callback(c)
     \/ \E r \in Replicas, v \in Views, i \in Ids :
           ReplicaCommits(r, v, i) \/ status_callback(r, v, i)
     \/ \E d \in Foreign : ForeignDecision(d)
     \/ decision_callback
     \/ decision_timeout_callback
  /\ UNCHANGED launch

Spec == Init /\ [][Next]_vars

\* The timers of a node that spins are served; nothing is assumed of the
\* network, the replicas or the clients.
Fairness == WF_vars(decision_timeout_callback /\ UNCHANGED launch)

FairSpec == Spec /\ Fairness
-----------------------------------------------------------------------------

\* d answers a request that was received or published at time t
Answers(d, i, stop, t) ==
  d.body.committed /\ d.body.id = i /\ d.body.stop = stop /\ d.stamp >= t

\* The vehicle may move only while the request the supervisor holds is a
\* release for which a full quorum of replicas was announced after the
\* supervisor had received it, with the policy allowing release and no
\* fail-safe ever latched: neither a pending request, nor an earlier or late
\* decision, nor a decision for another request lifts the stop
\* (decision_callback and request_callback of safety_supervisor.py).
ReleaseJustified ==
  ~ current_command =>
     /\ ~ fail_safe_latched /\ AllowRelease
     /\ active_request # NoRequest /\ decision_processed
     /\ ~ active_request.stop
     /\ \E n \in 1 .. next :
          /\ Answers(topic[n], active_request.id, FALSE, active_request.received)
          /\ Cardinality(topic[n].body.confirming \cap Replicas) >= CommitThreshold

\* Once latched, fail-safe stopping is final: no later request, decision,
\* duplicate or timeout clears the latch or lifts the stop
\* (_activate_fail_safe of safety_supervisor.py).
FailSafeIsFinal ==
  [][fail_safe_latched => fail_safe_latched' /\ current_command']_vars

\* While the supervisor waits for the decision of a request, a deadline is
\* running or fail-safe stopping has been latched, and a client that waits
\* has its timeout or its shutdown ahead: no sequence of requests, duplicates
\* and decisions leaves anyone waiting for ever with neither.
WaitingIsTimed ==
  /\ Pending => timeout_timer \/ fail_safe_latched
  /\ \A c \in Clients :
        client[c].sent /\ client[c].alive => client[c].timer \/ client[c].shutdown

\* What the monitor announces was executed, in that very view, by 2f + 1
\* replicas none of which is faulty (_record_committed_status and
\* _check_consensus of pbft_monitor.py).
DecisionBacked ==
  \A n \in 1 .. Len(topic) :
     LET d == topic[n].body
     IN  d \notin Foreign =>
           /\ \A r \in d.confirming : r \notin Byzantine /\ <<d.view, d.id>> \in committed[r]
           /\ Cardinality(d.confirming) >= CommitThreshold

\* Every request the supervisor waits for is decided or ends in fail-safe
\* stopping.
EveryWaitEnds == (current_state = "WAITING_FOR_DECISION") ~> ~ Pending \/ fail_safe_latched
=============================================================================
