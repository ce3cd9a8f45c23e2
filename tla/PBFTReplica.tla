---------------------------- MODULE PBFTReplica ----------------------------
(***************************************************************************)
(* The PBFT replicas of the ROS 2 emergency-stop simulator                 *)
(* (pbft_replica.py and the mixins of replica/).  Every replica is a       *)
(* single-threaded ROS node: one callback runs at a time and is one action *)
(* here.  The state of a replica is a record whose fields keep the names   *)
(* of the source; a callback is an operator from records to records that   *)
(* collects what it publishes in the field `out`.                          *)
(*                                                                         *)
(* Topics deliver a published message to each replica at most once, in any *)
(* order between topics and senders; a message still in `inbox` may stay   *)
(* there for ever (KEEP_LAST queues overflow, volatile topics).  A request *)
(* id stands for (request_id, digest, emergency_stop): compute_request_    *)
(* digest is injective, and `valid` says whether digest and value of a     *)
(* message pass the receivers' checks.                                     *)
(***************************************************************************)
EXTENDS Integers, FiniteSets

CONSTANTS F,               \* faulty replicas tolerated (max_faulty)
          Requests,        \* the client requests
          Configurations,  \* the ROS parameters of all replicas, as functions
          MaxView          \* bound: no progress timeout fires in this view

N == 3 * F + 1
Replicas == 0 .. N - 1
Views == 0 .. MaxView

Behaviours == {"none", "silent", "bad_digest", "duplicate", "equivocation",
               "skip_prepare", "skip_commit", "delayed_prepare",
               "delayed_commit", "early_commit", "wrong_sequence",
               "wrong_view", "wrong_value", "invalid_sender",
               "skip_pre_prepare"}

\* timeout: enable_progress_timeout; manual: manual_view_change_target, -1 for none
Parameters == [behaviour: Behaviours, timeout: BOOLEAN, manual: {-1} \cup Views]

ASSUME PBFTAssumption ==
  /\ F \in Nat \ {0}
  /\ MaxView \in Nat
  /\ Configurations \subseteq [Replicas -> Parameters]

VARIABLES param,   \* param[r]: the parameters replica r was started with
          rep,     \* rep[r]: the state of replica r
          inbox,   \* inbox[r]: messages published and not yet handled by r
          asked    \* requests the clients have published

vars == <<param, rep, inbox, asked>>

Correct == {r \in Replicas : param[r].behaviour = "none"}
Is(r, b) == param[r].behaviour = b

\* Deliberately wrong variants, here and below, carry the suffix of their flaw.
PrepareThresholdTooLow == F
PrepareThreshold == 2 * F
CommitThresholdTooLow == 2 * F
CommitThreshold == 2 * F + 1
ViewChangeThreshold == 2 * F + 1

PrimaryForView(v) == v % N

NoKey == <<>>
NoTimer == -1
-----------------------------------------------------------------------------
(* Messages.  A conflicting request id is made by appending to the original *)
(* one, so it is never the id of a client request.                          *)
Conflicting(q) == <<q, "conflict">>

Key(m) == <<m.view, m.seq>>

Vote(type, from, k, q, valid) ==
  [type |-> type, from |-> from, view |-> k[1], seq |-> k[2], req |-> q,
   valid |-> valid]

\* What replica r puts in its PREPARE or COMMIT for k
Outgoing(type, r, k, q) ==
  Vote(type,
       IF Is(r, "invalid_sender") THEN N ELSE r,
       <<IF Is(r, "wrong_view") THEN k[1] + 1 ELSE k[1],
         IF Is(r, "wrong_sequence") THEN 0 ELSE k[2]>>,
       q,
       ~ (Is(r, "bad_digest") \/ Is(r, "wrong_value")))

Publish(s, dests, m) == [s EXCEPT !.out = @ \cup {<<d, m>> : d \in dests}]

\* The loopback copy of a vote is dropped by its sender, which has counted it;
\* a vote with a wrong view was not counted and may be when it comes back.
Audience(r) == IF Is(r, "wrong_view") THEN Replicas ELSE Replicas \ {r}

\* _publish_equivocating_message: one recipient is told another request
Equivocate(s, type, r, k) ==
  LET dests  == Replicas \ {r}
      victim == IF 1 \in dests THEN 1 ELSE 0
      q      == s.instances[k]
  IN  [s EXCEPT !.out = @ \cup
         {<<d, Vote(type, r, k, IF d = victim THEN Conflicting(q) ELSE q, TRUE)>>
            : d \in dests}]
\* self.instances[k] = q
With(instances, k, q) ==
  [j \in DOMAIN instances \cup {k} |-> IF j = k THEN q ELSE instances[j]]
-----------------------------------------------------------------------------
InitialReplica(r) ==
  [current_view |-> 0, current_key |-> NoKey, next_sequence_number |-> 1,
   cached |-> {}, processed |-> {}, instances |-> <<>>,
   prepare_senders |-> {}, pending_prepares |-> {}, prepare_sent |-> {},
   prepare_scheduled |-> {}, prepared |-> {},
   commit_senders |-> {}, pending_commits |-> {}, commit_sent |-> {},
   commit_scheduled |-> {}, committed |-> {},
   view_changes |-> {}, view_change_sent |-> {}, new_view_sent |-> {},
   recovery_sent |-> {}, recovery_timers |-> {}, accepted_new_views |-> {},
   timeout_view |-> NoTimer, manual |-> param[r].manual > 0, out |-> {}]

Init ==
  /\ param \in Configurations
  /\ rep = [r \in Replicas |-> InitialReplica(r)]
  /\ inbox = [r \in Replicas |-> {}]
  /\ asked = {}

\* _arm_progress_timeout and _cancel_progress_timeout
Arm(s, r) == IF param[r].timeout THEN [s EXCEPT !.timeout_view = s.current_view] ELSE s
CancelTimeout(s) == [s EXCEPT !.timeout_view = NoTimer]

IsPrimary(s, r) == r = PrimaryForView(s.current_view)
Matches(s, m) == /\ Key(m) \in DOMAIN s.instances
                 /\ s.instances[Key(m)] = m.req
                 /\ m.valid
SendersOf(pairs, k) == {p[2] : p \in {x \in pairs : x[1] = k}}
Pending(ms, k) == {m \in ms : Key(m) = k}
-----------------------------------------------------------------------------
(* COMMIT *)
BufferEarlyCommits(s, k, ms) ==
  LET new == {m \in ms : \A p \in Pending(s.pending_commits, k) : p.from # m.from}
  IN  [s EXCEPT !.pending_commits = @ \cup new,
                !.current_key = IF new # {} /\ k \in DOMAIN s.instances THEN k ELSE @]

EvaluateCommitted(s, k) ==
  IF /\ k \notin s.committed
     /\ k \in s.prepared
     /\ Cardinality(SendersOf(s.commit_senders, k)) >= CommitThreshold
  THEN [CancelTimeout(s) EXCEPT !.committed = @ \cup {k}, !.current_key = k]
  ELSE s

\* _accept_commit of each message of ms in turn: the order makes no difference
AcceptCommits(s, k, ms) ==
  LET good == {m \in ms : Matches(s, m)}
      new  == {m.from : m \in good} \ SendersOf(s.commit_senders, k)
  IN  IF k \notin s.prepared THEN BufferEarlyCommits(s, k, good)
      ELSE IF new = {} THEN s
      ELSE EvaluateCommitted(
             [s EXCEPT !.commit_senders = @ \cup {<<k, a>> : a \in new},
                       !.current_key = k], k)

ScheduleDelayedCommit(s, k) == [s EXCEPT !.commit_scheduled = @ \cup {k}]

SendCommit(s, r, k, bypass) ==
  IF Is(r, "silent") \/ k \in s.commit_sent \/ k \notin s.prepared THEN s
  ELSE IF Is(r, "delayed_commit") /\ ~ bypass
    THEN ScheduleDelayedCommit(s, k)
  ELSE IF Is(r, "skip_commit") THEN s
  ELSE LET sent == [s EXCEPT !.commit_sent = @ \cup {k}]
           m    == Outgoing("COMMIT", r, k, s.instances[k])
       IN  IF Is(r, "equivocation") THEN Equivocate(sent, "COMMIT", r, k)
           ELSE Publish(IF Is(r, "invalid_sender") THEN sent
                        ELSE AcceptCommits(sent, Key(m), {m}),
                        Audience(r), m)

CommitCallback(s, r, m) ==
  IF \/ Is(r, "silent")
     \/ m.view # s.current_view
     \/ m.seq = 0
     \/ m.from \notin Replicas
     \/ ~ m.valid
  THEN s
  ELSE IF Key(m) \notin DOMAIN s.instances \/ Key(m) \notin s.prepared
    THEN BufferEarlyCommits(s, Key(m), {m})
  ELSE AcceptCommits(s, Key(m), {m})
-----------------------------------------------------------------------------
(* PREPARE *)
ProcessPendingCommits(s, k) ==
  AcceptCommits([s EXCEPT !.pending_commits = @ \ Pending(@, k)], k,
                Pending(s.pending_commits, k))

EvaluatePrepared(s, r, k) ==
  IF \/ k \in s.prepared
     \/ Cardinality(SendersOf(s.prepare_senders, k)) < PrepareThreshold
  THEN s
  ELSE SendCommit(
         ProcessPendingCommits(
           Arm([s EXCEPT !.prepared = @ \cup {k}, !.current_key = k], r), k),
         r, k, FALSE)

AcceptPrepares(s, r, k, ms) ==
  LET new == {m.from : m \in {x \in ms : Matches(s, x)}}
               \ SendersOf(s.prepare_senders, k)
  IN  IF new = {} THEN s
      ELSE EvaluatePrepared(
             [s EXCEPT !.prepare_senders = @ \cup {<<k, a>> : a \in new},
                       !.current_key = k], r, k)

ProcessPendingPrepares(s, r, k) ==
  AcceptPrepares([s EXCEPT !.pending_prepares = @ \ Pending(@, k)], r, k,
                 Pending(s.pending_prepares, k))

ScheduleDelayedPrepare(s, k) == [s EXCEPT !.prepare_scheduled = @ \cup {k}]

SendPrepare(s, r, k, bypass) ==
  IF Is(r, "silent") \/ k \in s.prepare_sent THEN s
  ELSE IF Is(r, "delayed_prepare") /\ ~ bypass
    THEN ScheduleDelayedPrepare(s, k)
  ELSE LET sent == [s EXCEPT !.prepare_sent = @ \cup {k}]
           m    == Outgoing("PREPARE", r, k, s.instances[k])
       IN  IF Is(r, "skip_prepare") THEN sent
           ELSE IF Is(r, "equivocation") THEN Equivocate(sent, "PREPARE", r, k)
           ELSE Publish(IF Is(r, "invalid_sender") THEN sent
                        ELSE AcceptPrepares(sent, r, Key(m), {m}),
                        Audience(r), m)

BufferEarlyPrepare(s, m) ==
  IF \E p \in Pending(s.pending_prepares, Key(m)) : p.from = m.from THEN s
  ELSE [s EXCEPT !.pending_prepares = @ \cup {m}]

PrepareCallback(s, r, m) ==
  IF \/ Is(r, "silent")
     \/ m.view # s.current_view
     \/ m.seq = 0
     \/ m.from \notin Replicas
     \/ m.from = PrimaryForView(s.current_view)
     \/ ~ m.valid
  THEN s
  ELSE IF Key(m) \in DOMAIN s.instances THEN AcceptPrepares(s, r, Key(m), {m})
  ELSE BufferEarlyPrepare(s, m)

\* _send_early_commit: a COMMIT before PREPARED, buffered locally
SendEarlyCommit(s, r, k) ==
  LET m == Outgoing("COMMIT", r, k, s.instances[k])
  IN  IF k \in s.commit_sent THEN s
      ELSE Publish(BufferEarlyCommits([s EXCEPT !.commit_sent = @ \cup {k}], k, {m}),
                   Audience(r), m)
-----------------------------------------------------------------------------
(* REQUEST and PRE-PREPARE *)
PrePrepare(r, k, q) == Vote("PRE-PREPARE", r, k, q, TRUE)

\* Flaw: the sequence number is not advanced
ProcessCachedRequestSameSequence(s, r, q) ==
  LET k == <<s.current_view, s.next_sequence_number>>
  IN  Arm(Publish([s EXCEPT !.instances = With(@, k, q),
                            !.processed = @ \cup {q},
                            !.current_key = k],
                  Replicas, PrePrepare(r, k, q)), r)

ProcessCachedRequestAsPrimary(s, r, q) ==
  LET k == <<s.current_view, s.next_sequence_number>>
  IN  Arm(Publish([s EXCEPT !.next_sequence_number = @ + 1,
                            !.instances = With(@, k, q),
                            !.processed = @ \cup {q},
                            !.current_key = k],
                  Replicas, PrePrepare(r, k, q)), r)

\* Flaw: only the primary caches requests
RequestCallbackPrimaryOnly(s, r, m) ==
  IF m.view # s.current_view \/ ~ IsPrimary(s, r) \/ m.req \in s.processed THEN s
  ELSE IF Is(r, "skip_pre_prepare") THEN [s EXCEPT !.processed = @ \cup {m.req}]
  ELSE ProcessCachedRequestAsPrimary([s EXCEPT !.cached = @ \cup {m.req}], r, m.req)

\* _validate_and_cache_client_request, for a request that is valid
CacheRequest(s, r, q) ==
  IF q \in s.cached THEN s ELSE Arm([s EXCEPT !.cached = @ \cup {q}], r)

\* Clients address view 0 and its primary; a replica of a later view rejects it.
RequestCallback(s, r, m) ==
  LET t == CacheRequest(s, r, m.req)
  IN  IF m.view # s.current_view THEN s
      ELSE IF ~ IsPrimary(s, r) \/ m.req \in s.processed THEN t
      ELSE IF Is(r, "skip_pre_prepare")
        THEN [t EXCEPT !.processed = @ \cup {m.req}]
      ELSE ProcessCachedRequestAsPrimary(t, r, m.req)

PrePrepareCallback(s, r, m) ==
  LET k    == Key(m)
      new  == k \notin DOMAIN s.instances
      t    == IF new THEN Arm([s EXCEPT !.instances = With(@, k, m.req)], r) ELSE s
      u    == [t EXCEPT !.current_key = k]
      v    == ProcessPendingPrepares(u, r, k)
      w    == IF Is(r, "early_commit") THEN SendEarlyCommit(v, r, k) ELSE v
  IN  IF \/ m.from # PrimaryForView(s.current_view)
         \/ m.view # s.current_view
         \/ m.seq = 0 \/ ~ m.valid
         \/ ~ new /\ s.instances[k] # m.req
      THEN s
      ELSE IF Is(r, "silent") THEN u
      ELSE IF IsPrimary(s, r) THEN w ELSE SendPrepare(w, r, k, FALSE)
-----------------------------------------------------------------------------
(* VIEW-CHANGE and NEW-VIEW *)
\* _select_prepared_instance_for_view_change: a set with at most one key
SelectPrepared(s, v) ==
  LET c == {k \in s.prepared : /\ k \in DOMAIN s.instances
                               /\ k \notin s.committed
                               /\ k[1] < v}
  IN  {k \in c : \A j \in c : j[1] < k[1] \/ (j[1] = k[1] /\ j[2] <= k[2])}

\* _build_view_change_message; `cert` is empty or the one PREPARED certificate
ViewChange(s, r, v) ==
  [type |-> "VIEW-CHANGE", from |-> r, new_view |-> v,
   cert |-> {[view |-> k[1], seq |-> k[2], req |-> s.instances[k],
              senders |-> SendersOf(s.prepare_senders, k)]
               : k \in SelectPrepared(s, v)}]

ValidCertificate(m) ==
  \A c \in m.cert : /\ c.view < m.new_view
                    /\ c.seq # 0
                    /\ Cardinality(c.senders) >= PrepareThreshold
                    /\ c.senders \subseteq Replicas \ {PrimaryForView(c.view)}

\* _select_request_for_new_view: a set with at most one selection
SelectRequest(s, proof) ==
  LET certs    == UNION {m.cert : m \in proof}
      highest  == {c \in certs : \A d \in certs : d.view <= c.view}
      choices  == {[prepared |-> TRUE, view |-> c.view, seq |-> c.seq, req |-> c.req]
                     : c \in highest}
      done     == {s.instances[k] : k \in s.committed \cap DOMAIN s.instances}
      eligible == s.cached \ done
  IN  IF certs # {}
      THEN IF Cardinality(choices) = 1 THEN choices ELSE {}
      ELSE IF Cardinality(eligible) # 1 THEN {}
      ELSE {[prepared |-> FALSE, view |-> 0, seq |-> s.next_sequence_number, req |-> q]
              : q \in eligible}

\* _build_new_view_message
NewView(r, v, proof, choice) ==
  [type |-> "NEW-VIEW", from |-> r, new_view |-> v, proof |-> proof,
   choice |-> choice]

MaybePublishNewView(s, r, v) ==
  LET proof  == {m \in s.view_changes : m.new_view = v}
      choice == SelectRequest(s, proof)
  IN  IF \/ v <= s.current_view
         \/ r # PrimaryForView(v)
         \/ v \in s.new_view_sent
         \/ Cardinality(proof) < ViewChangeThreshold
         \/ choice = {}
      THEN s
      ELSE Publish([s EXCEPT !.new_view_sent = @ \cup {v}], Replicas,
                   NewView(r, v, proof, choice))

ViewChangeCallback(s, r, m) ==
  IF \/ m.new_view <= s.current_view
     \/ ~ ValidCertificate(m)
     \/ \E p \in s.view_changes : p.new_view = m.new_view /\ p.from = m.from
  THEN s
  ELSE MaybePublishNewView([s EXCEPT !.view_changes = @ \cup {m}], r, m.new_view)

InitiateViewChange(s, r, v) ==
  IF v <= s.current_view \/ v \in s.view_change_sent \/ Is(r, "silent") THEN s
  ELSE LET m == ViewChange(s, r, v)
       IN  Publish(ViewChangeCallback(
                     [s EXCEPT !.view_change_sent = @ \cup {v}], r, m),
                   Replicas \ {r}, m)

\* _validate_new_view_message, the quorum of VIEW-CHANGE messages
ValidProof(s, m) ==
  /\ m.new_view > s.current_view
  /\ m.from = PrimaryForView(m.new_view)
  /\ Cardinality(m.proof) >= ViewChangeThreshold
  /\ Cardinality({p.from : p \in m.proof}) = Cardinality(m.proof)
  /\ \A p \in m.proof : /\ p.new_view = m.new_view
                        /\ p.from \in Replicas
                        /\ ValidCertificate(p)

\* and the selection, which is derived again from the proof and from the local
\* cache; without a certificate the primary numbers it
ValidNewView(s, m) ==
  /\ ValidProof(s, m)
  /\ \E c \in m.choice, e \in SelectRequest(s, m.proof) :
        /\ c.seq # 0
        /\ c.prepared = e.prepared /\ c.view = e.view /\ c.req = e.req
        /\ e.prepared => c.seq = e.seq

Before(v, keys) == {k \in keys : k[1] < v}
BeforeMsgs(v, ms) == {m \in ms : m.view < v}

\* Flaw: the delay timers survive the view change
CancelObsoleteKeepsTimers(s, r, v) ==
  [s EXCEPT !.recovery_timers   = @ \ Before(v, @),
            !.pending_prepares  = @ \ BeforeMsgs(v, @),
            !.pending_commits   = @ \ BeforeMsgs(v, @),
            !.manual            = @ /\ param[r].manual > v]

CancelObsolete(s, r, v) ==
  [s EXCEPT !.prepare_scheduled = @ \ Before(v, @),
            !.commit_scheduled  = @ \ Before(v, @),
            !.recovery_timers   = @ \ Before(v, @),
            !.pending_prepares  = @ \ BeforeMsgs(v, @),
            !.pending_commits   = @ \ BeforeMsgs(v, @),
            !.manual            = @ /\ param[r].manual > v]

\* Flaw: the progress timeout is cancelled and not started again
ActivateWithoutTimeout(s, r, v, c) ==
  LET k == <<v, c.seq>>
      t == [CancelObsolete(s, r, v) EXCEPT
              !.cached = @ \cup {c.req},
              !.instances = With(@, k, c.req),
              !.processed = @ \cup {c.req},
              !.current_view = v,
              !.current_key = k,
              !.timeout_view = NoTimer]
  IN  IF r = PrimaryForView(v) THEN [t EXCEPT !.recovery_timers = @ \cup {k}] ELSE t

\* _schedule_recovery_pre_prepare of the new primary
ScheduleRecovery(s, r, k) ==
  IF Is(r, "skip_pre_prepare") \/ r # PrimaryForView(k[1]) THEN s
  ELSE [s EXCEPT !.recovery_timers = @ \cup {k}]

\* _activate_new_view
Activate(s, r, v, c) ==
  LET k == <<v, c.seq>>
      t == Arm([CancelObsolete(s, r, v) EXCEPT
                  !.cached = @ \cup {c.req},
                  !.instances = With(@, k, c.req),
                  !.processed = @ \cup {c.req},
                  !.current_view = v,
                  !.current_key = k,
                  !.timeout_view = NoTimer,
                  !.next_sequence_number = IF c.seq + 1 > @ THEN c.seq + 1 ELSE @], r)
  IN  IF k \in DOMAIN s.instances /\ s.instances[k] # c.req THEN s
      ELSE ScheduleRecovery(t, r, k)

NewViewCallback(s, r, m) ==
  IF m.new_view \in s.accepted_new_views \/ ~ ValidNewView(s, m) THEN s
  ELSE Activate([s EXCEPT !.accepted_new_views = @ \cup {m.new_view}], r, m.new_view,
                CHOOSE c \in m.choice : TRUE)
-----------------------------------------------------------------------------
(* Actions *)
\* Replica r ends its callback in state s: its publications leave for the inboxes
Step(r, s, rest) ==
  /\ rep' = [rep EXCEPT ![r] = [s EXCEPT !.out = {}]]
  /\ inbox' = [d \in Replicas |->
                 (IF d = r THEN rest ELSE inbox[d])
                   \cup {o[2] : o \in {x \in s.out : x[1] = d}}]
  /\ UNCHANGED <<param, asked>>

\* A client publishes its REQUEST for view 0 and its primary
ClientRequest(q) ==
  /\ q \notin asked
  /\ asked' = asked \cup {q}
  /\ inbox' = [r \in Replicas |->
                 inbox[r] \cup {Vote("REQUEST", -1, <<0, 0>>, q, TRUE)}]
  /\ UNCHANGED <<param, rep>>

Handle(s, r, m) ==
  CASE m.type = "REQUEST"     -> RequestCallback(s, r, m)
    [] m.type = "PRE-PREPARE" -> PrePrepareCallback(s, r, m)
    [] m.type = "PREPARE"     -> PrepareCallback(s, r, m)
    [] m.type = "COMMIT"      -> CommitCallback(s, r, m)
    [] m.type = "VIEW-CHANGE" -> ViewChangeCallback(s, r, m)
    [] m.type = "NEW-VIEW"    -> NewViewCallback(s, r, m)

\* A duplicating sender publishes several copies: one may still be on its way
Duplicated(m) == /\ m.type \in {"PREPARE", "COMMIT"}
                 /\ m.from \in Replicas /\ Is(m.from, "duplicate")

Deliver(r, m) ==
  /\ m \in inbox[r]
  /\ Step(r, Handle(rep[r], r, m), inbox[r] \ {m})

Redeliver(r, m) ==
  /\ m \in inbox[r]
  /\ Duplicated(m)
  /\ Step(r, Handle(rep[r], r, m), inbox[r])

Quiet == \A r \in Replicas : inbox[r] = {}

ProgressTimeout(r) ==
  LET s == rep[r]
      t == CancelTimeout(s)
  IN  /\ s.timeout_view # NoTimer
      /\ s.current_view < MaxView
      /\ Step(r,
              IF s.timeout_view # s.current_view \/ s.current_key \in s.committed
              THEN t ELSE InitiateViewChange(t, r, s.current_view + 1),
              inbox[r])

\* _publish_delayed_prepare and _publish_delayed_commit
DelayedPrepare(r) ==
  \E k \in rep[r].prepare_scheduled :
    Step(r, SendPrepare([rep[r] EXCEPT !.prepare_scheduled = @ \ {k}], r, k, TRUE),
         inbox[r])

DelayedCommit(r) ==
  \E k \in rep[r].commit_scheduled :
    Step(r, SendCommit([rep[r] EXCEPT !.commit_scheduled = @ \ {k}], r, k, TRUE),
         inbox[r])

\* _publish_recovery_pre_prepare
RecoveryPrePrepare(r) ==
  \E k \in rep[r].recovery_timers :
    LET s == [rep[r] EXCEPT !.recovery_timers = @ \ {k}]
    IN  Step(r,
             IF k \in s.recovery_sent \/ k[1] # s.current_view \/ ~ IsPrimary(s, r)
             THEN s
             ELSE Arm(Publish([s EXCEPT !.recovery_sent = @ \cup {k},
                                        !.current_key = k],
                              Replicas, PrePrepare(r, k, s.instances[k])), r),
             inbox[r])

\* _manual_view_change_timer_callback
ManualViewChange(r) ==
  /\ rep[r].manual
  /\ Step(r, InitiateViewChange([rep[r] EXCEPT !.manual = FALSE], r, param[r].manual),
          inbox[r])

DelayStep(r) == \/ DelayedPrepare(r)
                \/ DelayedCommit(r)
                \/ RecoveryPrePrepare(r)
                \/ ManualViewChange(r)

Next == \/ \E q \in Requests : ClientRequest(q)
        \/ \E r \in Replicas : \E m \in inbox[r] : Deliver(r, m) \/ Redeliver(r, m)
        \/ \E r \in Replicas : ProgressTimeout(r) \/ DelayStep(r)

Spec == Init /\ [][Next]_vars
-----------------------------------------------------------------------------
(* Properties *)

\* Two correct replicas that reach COMMITTED for the same (view, sequence)
\* have executed the same request, whatever one faulty replica publishes
\* (_evaluate_committed of commit.py).
Agreement ==
  \A a, b \in Correct : \A k \in rep[a].committed \cap rep[b].committed :
     rep[a].instances[k] = rep[b].instances[k]

\* A replica that reaches COMMITTED is backed by f + 1 correct replicas that
\* are PREPARED for the same request in that view: early, replayed,
\* conflicting and misaddressed COMMITs of a faulty replica never replace
\* the votes of correct ones (commit.py, byzantine.py).
CommitBacked ==
  \A a \in Correct : \A k \in rep[a].committed :
     Cardinality({b \in Correct : /\ k \in rep[b].prepared
                                  /\ rep[b].instances[k] = rep[a].instances[k]}) > F

\* Every PREPARED certificate a correct replica has accepted in a VIEW-CHANGE
\* names 2f replicas, and the correct ones among them did send PREPARE for
\* that request (_build_view_change_message, view_change_callback).
CertificateBacked ==
  \A a \in Correct : \A m \in rep[a].view_changes : \A c \in m.cert :
     /\ Cardinality(c.senders) >= 2 * F
     /\ \A b \in c.senders \cap Correct :
          /\ <<c.view, c.seq>> \in rep[b].prepare_sent
          /\ rep[b].instances[<<c.view, c.seq>>] = c.req

\* While only one request was ever asked, a correct replica that works on an
\* uncommitted instance of its view has its progress timeout armed, or has
\* asked for the next view already: no order of callbacks leaves a stalled
\* replica without a watchdog (progress_timeout.py, _activate_new_view).
StalledIsWatched ==
  \A r \in Correct :
     LET s == rep[r]
     IN  (/\ Cardinality(asked) = 1
          /\ param[r].timeout
          /\ s.current_key # NoKey
          /\ s.current_key \notin s.committed)
         => \/ s.timeout_view = s.current_view
            \/ s.current_view + 1 \in s.view_change_sent

\* A replica that has installed a view never publishes a PREPARE or a COMMIT
\* of an older one, not even from a delay timer that was running when the
\* NEW-VIEW came (_cancel_obsolete_protocol_activity).
NoVoteForOlderView ==
  [][\A r \in Replicas : \A m \in inbox'[r] \ inbox[r] :
       (m.type \in {"PREPARE", "COMMIT"} /\ m.from \in Replicas)
       => m.view >= rep'[m.from].current_view]_vars

\* Nothing is on its way and no timer but a progress timeout of the last
\* modelled view is running.
Quiescent ==
  /\ Quiet
  /\ \A r \in Replicas :
       /\ rep[r].timeout_view = NoTimer \/ rep[r].current_view = MaxView
       /\ rep[r].prepare_scheduled \cup rep[r].commit_scheduled
            \cup rep[r].recovery_timers = {}

Executed(r, q) == \E k \in rep[r].committed : rep[r].instances[k] = q
=============================================================================
