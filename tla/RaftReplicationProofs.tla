------------------------ MODULE RaftReplicationProofs ------------------------
(***************************************************************************)
(* Proofs about RaftReplication, for every cluster, every set of commands  *)
(* and every bound.  In whatever windows others may run:                   *)
(*   - the fields keep their types, the commit index stays within the log, *)
(*     and no step changes the committed prefix of a coordinator's log;    *)
(*   - a submission is answered Committed for a committed index, and for   *)
(*     another entry than its own only after the node was deposed.         *)
(* When a submission appends where it has tested the role:                 *)
(*   - log matching, and the soundness of the leader's match index.        *)
(* When, besides, a round reads its requests where it has tested the role: *)
(*   - state machine safety, and that leaders hold what is committed.      *)
(***************************************************************************)
EXTENDS RaftReplication, SequenceTheorems, FiniteSetTheorems, TLAPS

-----------------------------------------------------------------------------
(* What AppendedLog returns.                                               *)

\* The log after TryAppendEntries is a log; where it differs from the old one
\* it is the old prefix followed by the entries of the request.
LEMMA AppendedLogShape ==
    ASSUME NEW l \in Seq(Entry), NEW m \in MessageType, m.prev <= Len(l)
    PROVE  /\ AppendedLog(l, m) \in Seq(Entry)
           /\ HasEntries(l, m) => AppendedLog(l, m) = l
           /\ ~HasEntries(l, m) =>
                /\ Len(AppendedLog(l, m)) = m.prev + Len(m.entries)
                /\ \A i \in 1..m.prev : AppendedLog(l, m)[i] = l[i]
                /\ \A i \in 1..Len(m.entries) :
                     AppendedLog(l, m)[m.prev + i] = m.entries[i]
<1> DEFINE pre == SubSeq(l, 1, m.prev)
<1>1. m.prev \in Nat /\ m.entries \in Seq(Entry)
  BY DEF MessageType
<1>2. /\ pre \in Seq(Entry)
      /\ Len(pre) = m.prev
      /\ \A i \in 1..m.prev : pre[i] = l[i]
  BY <1>1, SubSeqProperties, Z3
<1>3. /\ pre \o m.entries \in Seq(Entry)
      /\ Len(pre \o m.entries) = m.prev + Len(m.entries)
      /\ \A i \in 1..(m.prev + Len(m.entries)) :
           (pre \o m.entries)[i] = IF i <= m.prev THEN pre[i] ELSE m.entries[i - m.prev]
  BY <1>1, <1>2, ConcatProperties
<1>4. CASE HasEntries(l, m)
  BY <1>4 DEF AppendedLog
<1>5. CASE ~HasEntries(l, m)
  <2>1. AppendedLog(l, m) = pre \o m.entries
    BY <1>5 DEF AppendedLog
  <2>2. Len(m.entries) \in Nat
    BY <1>1, LenProperties
  <2>3. \A i \in 1..m.prev : AppendedLog(l, m)[i] = l[i]
    BY <2>1, <2>2, <1>1, <1>2, <1>3
  <2>4. ASSUME NEW i \in 1..Len(m.entries)
        PROVE  AppendedLog(l, m)[m.prev + i] = m.entries[i]
    <3>1. m.prev + i \in 1..(m.prev + Len(m.entries))
      BY <2>2, <1>1
    <3>2. ~(m.prev + i <= m.prev) /\ (m.prev + i) - m.prev = i
      BY <2>2, <1>1
    <3> QED
      BY <2>1, <3>1, <3>2, <1>3
  <2> QED
    BY <2>1, <2>3, <2>4, <1>3, <1>5
<1> QED
  BY <1>4, <1>5

\* A request TryAppendEntries accepts leaves the entries up to the commit
\* index c where they are.
LEMMA AppendedLogKeepsCommitted ==
    ASSUME NEW l \in Seq(Entry), NEW m \in MessageType,
           NEW c \in Nat, c <= Len(l), LogMatches(l, m, c)
    PROVE  /\ c <= Len(AppendedLog(l, m))
           /\ \A i \in 1..c : AppendedLog(l, m)[i] = l[i]
<1>1. /\ m.prev \in Nat /\ m.entries \in Seq(Entry)
      /\ Len(m.entries) \in Nat /\ Len(l) \in Nat
  BY LenProperties DEF MessageType
<1>2. m.prev <= Len(l)
  BY DEF LogMatches
<1>3. CASE HasEntries(l, m)
  BY <1>2, <1>3, AppendedLogShape
<1>4. CASE ~HasEntries(l, m)
  <2> DEFINE new == AppendedLog(l, m)
  <2>1. PICK i \in 1..Len(m.entries) : Differs(l, m, i)
    BY <1>4 DEF HasEntries
  <2>2. ~(m.prev + i <= c)
    BY <2>1 DEF LogMatches
  <2>3. Len(new) = m.prev + Len(m.entries)
    BY <1>2, <1>4, AppendedLogShape
  <2>4. c <= Len(new)
    BY <1>1, <2>1, <2>2, <2>3
  <2>5. ASSUME NEW j \in 1..c
        PROVE  new[j] = l[j]
    <3>1. CASE j <= m.prev
      BY <1>1, <1>2, <1>4, <3>1, AppendedLogShape
    <3>2. CASE ~(j <= m.prev)
      <4> DEFINE k == j - m.prev
      <4>1. k \in 1..Len(m.entries) /\ m.prev + k = j
        BY <1>1, <2>1, <2>2, <3>2
      <4>2. ~Differs(l, m, k)
        BY <4>1 DEF LogMatches
      <4>3. new[m.prev + k] = m.entries[k]
        BY <1>2, <1>4, <4>1, AppendedLogShape
      <4> QED
        BY <4>1, <4>2, <4>3 DEF Differs
    <3> QED
      BY <3>1, <3>2
  <2> QED
    BY <2>4, <2>5
<1> QED
  BY <1>3, <1>4

\* So does one that a crash cuts short after the entry at k, once the first
\* differing entry has been dealt with.
LEMMA CutLogKeepsCommitted ==
    ASSUME NEW l \in Seq(Entry), NEW m \in MessageType,
           NEW c \in Nat, c <= Len(l), LogMatches(l, m, c),
           NEW k \in m.prev..Len(AppendedLog(l, m)),
           NEW i \in 1..Len(m.entries), m.prev + i <= k + 1, Differs(l, m, i)
    PROVE  /\ SubSeq(AppendedLog(l, m), 1, k) \in Seq(Entry)
           /\ c <= Len(SubSeq(AppendedLog(l, m), 1, k))
           /\ \A j \in 1..c : SubSeq(AppendedLog(l, m), 1, k)[j] = l[j]
<1> DEFINE new == AppendedLog(l, m)
           cut == SubSeq(new, 1, k)
<1>1. /\ m.prev \in Nat /\ m.entries \in Seq(Entry)
      /\ Len(m.entries) \in Nat /\ Len(l) \in Nat
  BY LenProperties DEF MessageType
<1>2. m.prev <= Len(l)
  BY DEF LogMatches
<1>3. new \in Seq(Entry) /\ Len(new) \in Nat
  BY <1>2, AppendedLogShape, LenProperties
<1>4. k \in Nat /\ k <= Len(new)
  BY <1>1, <1>3
<1>5. c <= k
  <2>1. ~(m.prev + i <= c)
    BY DEF LogMatches
  <2> QED
    BY <1>1, <1>4, <2>1
<1>6. \A j \in 1..k : new[j] \in Entry
  BY <1>3, <1>4, ElementOfSeq
<1> HIDE DEF new
<1>7. /\ cut \in Seq(Entry)
      /\ Len(cut) = k
      /\ \A j \in 1..k : cut[j] = new[j]
  BY <1>4, <1>6, SubSeqProperties, Z3
<1>8. \A j \in 1..c : new[j] = l[j]
  BY AppendedLogKeepsCommitted DEF new
<1> QED
  BY <1>4, <1>5, <1>7, <1>8 DEF new

-----------------------------------------------------------------------------
(* Types of the values the actions build.                                  *)

LEMMA TermAtType ==
    ASSUME NEW l \in Seq(Entry), NEW i \in 0..Len(l)
    PROVE  TermAt(l, i) \in Nat
<1>1. Len(l) \in Nat
  BY LenProperties
<1>2. i # 0 => l[i] \in Entry
  BY <1>1, ElementOfSeq
<1> QED
  BY <1>2 DEF TermAt, Entry

LEMMA DraftTyped ==
    ASSUME NEW n \in Node, NEW p \in Node, NEW term \in Nat,
           log[n] \in Seq(Entry),
           NEW tr \in TrackerType,
           Readable(n, p, tr)
    PROVE  Draft(n, p, tr, term) \in DraftType
<1> DEFINE prev == tr.next[p] - 1
<1>1. Len(log[n]) \in Nat /\ prev \in Nat /\ prev \in 0..Len(log[n])
  BY LenProperties DEF Readable, TrackerType
<1>2. TermAt(log[n], prev) \in Nat
  BY <1>1, TermAtType
<1>3. \A i \in (prev + 1)..Len(log[n]) : log[n][i] \in Entry
  BY <1>1, ElementOfSeq
<1>4. SubSeq(log[n], prev + 1, Len(log[n])) \in Seq(Entry)
  BY <1>1, <1>3, SubSeqProperties, Z3
<1> QED
  BY <1>1, <1>2, <1>4 DEF Draft, DraftType

LEMMA FilledTyped ==
    ASSUME NEW n \in Node, NEW d \in DraftType, log[n] \in Seq(Entry)
    PROVE  Filled(n, d) \in DraftType
<1> DEFINE ent == SubSeq(log[n], d.prev + 1, Len(log[n]))
<1>1. Len(log[n]) \in Nat /\ d.prev \in Nat
  BY LenProperties DEF DraftType
<1>2. \A i \in (d.prev + 1)..Len(log[n]) : log[n][i] \in Entry
  BY <1>1, ElementOfSeq
<1>3. ent \in Seq(Entry)
  BY <1>1, <1>2, SubSeqProperties, Z3
<1> HIDE DEF ent
<1>4. [d EXCEPT !.entries = ent] \in DraftType
  BY <1>3 DEF DraftType
<1> QED
  BY <1>4 DEF Filled, ent

LEMMA BareTyped ==
    ASSUME NEW d \in DraftType
    PROVE  Bare(d) \in DraftType
  BY EmptySeq DEF Bare, DraftType

LEMMA RequestTyped ==
    ASSUME NEW d \in DraftType, NEW c \in Nat
    PROVE  Request(d, c) \in MessageType
  BY DEF Request, DraftType, MessageType

LEMMA AbandonTyped ==
    ASSUME net \subseteq MessageType, NEW n \in Node
    PROVE  Abandon(n) \subseteq MessageType
<1>1. \A m \in net : [m EXCEPT !.waited = (m.waited /\ m.from # n)] \in MessageType
  BY DEF MessageType
<1> QED
  BY <1>1 DEF Abandon

LEMMA RecordTyped ==
    ASSUME NEW tr \in TrackerType, NEW p \in Node, NEW through \in Nat
    PROVE  /\ RecordSuccess(tr, p, through) \in TrackerType
           /\ RecordFailure(tr, p) \in TrackerType
<1> DEFINE match == Larger(tr.match[p], through)
<1>1. /\ tr.next \in [Node -> Nat \ {0}] /\ tr.match \in [Node -> Nat]
      /\ tr = [term |-> tr.term, next |-> tr.next, match |-> tr.match]
      /\ tr.term \in Int
  BY DEF TrackerType
<1>2. match \in Nat
  BY <1>1 DEF Larger
<1> HIDE DEF match
<1>3. [tr.match EXCEPT ![p] = match] \in [Node -> Nat]
  BY <1>1, <1>2
<1>4. [tr.next EXCEPT ![p] = match + 1] \in [Node -> Nat \ {0}]
  BY <1>1, <1>2
<1>5. RecordSuccess(tr, p, through) =
        [term |-> tr.term, next |-> [tr.next EXCEPT ![p] = match + 1],
         match |-> [tr.match EXCEPT ![p] = match]]
  BY DEF RecordSuccess, match
<1>6. [tr.next EXCEPT ![p] = IF @ > 1 THEN @ - 1 ELSE @] \in [Node -> Nat \ {0}]
  BY <1>1
<1>7. RecordFailure(tr, p) =
        [term |-> tr.term, next |-> [tr.next EXCEPT ![p] = IF @ > 1 THEN @ - 1 ELSE @],
         match |-> tr.match]
  BY <1>1 DEF RecordFailure, TrackerType
<1> QED
  BY <1>1, <1>3, <1>4, <1>5, <1>6, <1>7 DEF TrackerType

-----------------------------------------------------------------------------
(* The inductive invariant, and what a step may do to a committed prefix.  *)

IInv == TypeOK /\ CommitWithinLog

PrefixKept ==
    \A n \in Node :
        /\ commitIndex[n] <= commitIndex'[n]
        /\ commitIndex[n] <= Len(log'[n])
        /\ \A i \in 1..commitIndex[n] : log'[n][i] = log[n][i]

LEMMA InitIInv == Init => IInv
<1> SUFFICES ASSUME Init PROVE IInv
  OBVIOUS
<1>1. << >> \in Seq(Entry) /\ Len(<< >>) = 0
  BY EmptySeq
<1>2. log \in [Node -> Seq(Entry)]
  BY <1>1 DEF Init
<1>3. tracker \in [Node -> TrackerType]
  BY DEF Init, NoTracker, TrackerType
<1>4. round \in [Node -> RoundType]
  BY DEF Init, NoRound, RoundType
<1>5. submit \in [Node -> SubmitType]
  BY DEF Init, SubmitType
<1>6. CommitWithinLog
  BY <1>1 DEF Init, CommitWithinLog
<1> QED
  BY <1>2, <1>3, <1>4, <1>5, <1>6 DEF Init, IInv, TypeOK

\* Steps that leave the logs and commit indexes alone.
LEMMA QuietStep ==
    ASSUME IInv, UNCHANGED <<log, commitIndex>>
    PROVE  CommitWithinLog' /\ PrefixKept
<1> QED
  BY DEF IInv, TypeOK, CommitWithinLog, PrefixKept

LEMMA ElectStep ==
    ASSUME IInv, NEW n \in Node, NEW Q \in Quorum, Elect(n, Q)
    PROVE  IInv' /\ PrefixKept
<1>1. currentTerm' \in [Node -> Nat]
  <2>1. PICK u \in Q : currentTerm' = [v \in Node |-> IF v \in Q THEN currentTerm[u] + 1
                                                     ELSE currentTerm[v]]
    BY DEF Elect
  <2>2. currentTerm[u] \in Nat
    BY DEF IInv, TypeOK, Quorum
  <2> QED
    BY <2>1, <2>2 DEF IInv, TypeOK
<1>2. role' \in [Node -> {"Follower", "Leader"}]
  BY DEF Elect, IInv, TypeOK
<1>3. TypeOK'
  BY <1>1, <1>2 DEF Elect, IInv, TypeOK, callVars, history
<1>4. CommitWithinLog' /\ PrefixKept
  BY QuietStep DEF Elect
<1> QED
  BY <1>3, <1>4 DEF IInv

LEMMA StartRoundStep ==
    ASSUME IInv, NEW n \in Node, NEW S \in SUBSET Peers(n), StartRound(n, S)
    PROVE  IInv' /\ PrefixKept
<1> DEFINE t == currentTerm[n]
           tr == EnsureInitialized(tracker[n], t, Len(log[n]))
<1>1. /\ t \in Nat /\ log[n] \in Seq(Entry) /\ Len(log[n]) \in Nat
      /\ commitIndex[n] \in Nat
      /\ tracker[n] \in TrackerType
  BY LenProperties DEF IInv, TypeOK
<1>2. tr \in TrackerType
  BY <1>1 DEF EnsureInitialized, TrackerType
<1> HIDE DEF tr
<1>3. tracker' \in [Node -> TrackerType]
  BY <1>2 DEF StartRound, IInv, TypeOK, tr
<1>4. round' \in [Node -> RoundType]
  <2>1. /\ [term |-> t, todo |-> S, head |-> {}, draft |-> {}] \in RoundType
        /\ [term |-> t, todo |-> {}, head |-> {}, draft |-> {}] \in RoundType
    BY <1>1 DEF RoundType, Peers
  <2>2. \/ round' = [round EXCEPT ![n] = [term |-> t, todo |-> S, head |-> {}, draft |-> {}]]
        \/ round' = [round EXCEPT ![n] = [term |-> t, todo |-> {}, head |-> {}, draft |-> {}]]
    BY DEF StartRound
  <2> QED
    BY <2>1, <2>2 DEF IInv, TypeOK
<1>5. \A p \in {q \in S : Readable(n, q, tr)} :
        Request(Draft(n, p, tr, t), commitIndex[n]) \in MessageType
  BY <1>1, <1>2, DraftTyped, RequestTyped DEF Peers
<1>6. net' \subseteq MessageType
  BY <1>5 DEF StartRound, IInv, TypeOK, tr
<1>7. TypeOK'
  BY <1>3, <1>4, <1>6 DEF StartRound, IInv, TypeOK, replicaVars, history
<1>8. CommitWithinLog' /\ PrefixKept
  BY QuietStep DEF StartRound, replicaVars
<1> QED
  BY <1>7, <1>8 DEF IInv

LEMMA ReadLogStep ==
    ASSUME IInv, NEW n \in Node, NEW p \in Peers(n), ReadLog(n, p)
    PROVE  IInv' /\ PrefixKept
<1>1. /\ round[n] \in RoundType
      /\ log[n] \in Seq(Entry) /\ p \in Node
      /\ tracker[n] \in TrackerType
      /\ round[n].term \in Nat
  BY DEF IInv, TypeOK, Peers, RoundType
<1>2. Readable(n, p, tracker[n]) => Draft(n, p, tracker[n], round[n].term) \in DraftType
  BY <1>1, DraftTyped
<1>3. round' \in [Node -> RoundType]
  <2> DEFINE d == Draft(n, p, tracker[n], round[n].term)
             ok == Readable(n, p, tracker[n])
             h == IF ok /\ "entries" \in Preempt THEN {Bare(d)} ELSE {}
             f == IF ok /\ "entries" \notin Preempt THEN {d} ELSE {}
  <2>1. h \in SUBSET DraftType /\ f \in SUBSET DraftType
    <3>1. CASE ok
      <4>1. d \in DraftType /\ Bare(d) \in DraftType
        BY <1>2, <3>1, BareTyped
      <4> QED BY <4>1
    <3>2. CASE ~ok
      BY <3>2
    <3> QED BY <3>1, <3>2
  <2>2. round' = [round EXCEPT ![n] = [term |-> round[n].term, todo |-> round[n].todo \ {p},
                                       head |-> h, draft |-> f]]
    BY DEF ReadLog
  <2> HIDE DEF h, f
  <2>3. [term |-> round[n].term, todo |-> round[n].todo \ {p}, head |-> h, draft |-> f]
          \in RoundType
    BY <1>1, <2>1 DEF RoundType
  <2> QED
    BY <2>2, <2>3 DEF IInv, TypeOK
<1>4. TypeOK'
  BY <1>3 DEF ReadLog, IInv, TypeOK, replicaVars, history
<1>5. CommitWithinLog' /\ PrefixKept
  BY QuietStep DEF ReadLog, replicaVars
<1> QED
  BY <1>4, <1>5 DEF IInv

LEMMA ReadEntriesStep ==
    ASSUME IInv, NEW n \in Node, ReadEntries(n)
    PROVE  IInv' /\ PrefixKept
<1> DEFINE f == {Filled(n, d) : d \in round[n].head}
<1>1. round[n] \in RoundType /\ log[n] \in Seq(Entry)
  BY DEF IInv, TypeOK
<1>2. f \in SUBSET DraftType
  <2>1. \A d \in round[n].head : Filled(n, d) \in DraftType
    BY <1>1, FilledTyped DEF RoundType
  <2> QED BY <2>1
<1>3. round' = [round EXCEPT ![n] = [term |-> round[n].term, todo |-> round[n].todo,
                                     head |-> {}, draft |-> f]]
  BY DEF ReadEntries
<1> HIDE DEF f
<1>4. [term |-> round[n].term, todo |-> round[n].todo, head |-> {}, draft |-> f] \in RoundType
  BY <1>1, <1>2 DEF RoundType
<1>5. round' \in [Node -> RoundType]
  BY <1>3, <1>4 DEF IInv, TypeOK
<1>6. TypeOK'
  BY <1>5 DEF ReadEntries, IInv, TypeOK, replicaVars, history
<1>7. CommitWithinLog' /\ PrefixKept
  BY QuietStep DEF ReadEntries, replicaVars
<1> QED
  BY <1>6, <1>7 DEF IInv

LEMMA SendAppendEntriesStep ==
    ASSUME IInv, NEW n \in Node, SendAppendEntries(n)
    PROVE  IInv' /\ PrefixKept
<1>1. round[n] \in RoundType
  BY DEF IInv, TypeOK
<1>2. round' \in [Node -> RoundType]
  <2>1. [term |-> round[n].term, todo |-> round[n].todo, head |-> {}, draft |-> {}] \in RoundType
    BY <1>1 DEF RoundType
  <2> QED
    BY <2>1 DEF SendAppendEntries, IInv, TypeOK
<1>3. \A d \in round[n].draft : Request(d, commitIndex[n]) \in MessageType
  BY <1>1, RequestTyped DEF IInv, TypeOK, RoundType
<1>4. net' \subseteq MessageType
  BY <1>3 DEF SendAppendEntries, IInv, TypeOK
<1>5. TypeOK'
  BY <1>2, <1>4 DEF SendAppendEntries, IInv, TypeOK, replicaVars, history
<1>6. CommitWithinLog' /\ PrefixKept
  BY QuietStep DEF SendAppendEntries, replicaVars
<1> QED
  BY <1>5, <1>6 DEF IInv

\* The leader's commit index only moves to an index of its own log.
LEMMA FinishRoundStep ==
    ASSUME IInv, NEW n \in Node, FinishRound(n)
    PROVE  IInv' /\ PrefixKept
<1>1. /\ commitIndex \in [Node -> Nat] /\ log \in [Node -> Seq(Entry)]
      /\ log' = log
      /\ \A k \in Node : Len(log[k]) \in Nat /\ commitIndex[k] <= Len(log[k])
  BY LenProperties DEF FinishRound, IInv, TypeOK, CommitWithinLog
<1>2. \/ UNCHANGED commitIndex
      \/ \E i \in Committable(n, round[n].term) : commitIndex' = [commitIndex EXCEPT ![n] = i]
  BY DEF FinishRound
<1>3. \A i \in Committable(n, round[n].term) :
        i \in Nat /\ commitIndex[n] < i /\ i <= Len(log[n])
  BY <1>1 DEF Committable
<1>4. /\ commitIndex' \in [Node -> Nat]
      /\ \A k \in Node : commitIndex[k] <= commitIndex'[k] /\ commitIndex'[k] <= Len(log[k])
  <2>1. CASE UNCHANGED commitIndex
    BY <1>1, <2>1
  <2>2. ASSUME NEW i \in Committable(n, round[n].term),
               commitIndex' = [commitIndex EXCEPT ![n] = i]
        PROVE  /\ commitIndex' \in [Node -> Nat]
               /\ \A k \in Node : commitIndex[k] <= commitIndex'[k] /\ commitIndex'[k] <= Len(log[k])
    <3>1. i \in Nat /\ commitIndex[n] < i /\ i <= Len(log[n])
      BY <1>3
    <3>2. \A k \in Node : commitIndex'[k] = IF k = n THEN i ELSE commitIndex[k]
      BY <1>1, <2>2
    <3> QED
      BY <1>1, <2>2, <3>1, <3>2
  <2> QED
    BY <1>2, <2>1, <2>2
<1>5. round' \in [Node -> RoundType]
  BY DEF FinishRound, IInv, TypeOK, NoRound, RoundType
<1>6. TypeOK'
  BY <1>4, <1>5, AbandonTyped DEF FinishRound, IInv, TypeOK, history
<1>7. CommitWithinLog' /\ PrefixKept
  BY <1>1, <1>4 DEF CommitWithinLog, PrefixKept
<1> QED
  BY <1>6, <1>7 DEF IInv

\* A handled request keeps the committed prefix: TryAppendEntries refuses
\* the requests that would not, and the new commit index is within the log.
LEMMA HandleAppendEntriesStep ==
    ASSUME IInv, NEW m \in net, NEW answered \in BOOLEAN,
           HandleAppendEntries(m, answered)
    PROVE  IInv' /\ PrefixKept
<1> DEFINE n == m.to
           l == m.from
           new == AppendedLog(log[n], m)
<1>1. /\ m \in MessageType /\ n \in Node /\ l \in Node
      /\ m.term \in Nat /\ m.prev \in Nat /\ m.commit \in Nat
      /\ Len(m.entries) \in Nat
      /\ log \in [Node -> Seq(Entry)] /\ commitIndex \in [Node -> Nat]
      /\ \A k \in Node : Len(log[k]) \in Nat /\ commitIndex[k] <= Len(log[k])
  BY LenProperties DEF IInv, TypeOK, CommitWithinLog, MessageType
<1>2. ReplyTerm(m) \in Nat
  BY <1>1 DEF ReplyTerm, Larger, IInv, TypeOK
<1>3. currentTerm' \in [Node -> Nat]
  BY <1>1, <1>2 DEF HandleAppendEntries, IInv, TypeOK
<1>4. role' \in [Node -> {"Follower", "Leader"}]
  BY <1>1 DEF HandleAppendEntries, IInv, TypeOK
<1>5. tracker' \in [Node -> TrackerType]
  <2>1. /\ RecordSuccess(tracker[l], n, m.prev + Len(m.entries)) \in TrackerType
        /\ RecordFailure(tracker[l], n) \in TrackerType
    <3>1. tracker[l] \in TrackerType /\ m.prev + Len(m.entries) \in Nat
      BY <1>1 DEF IInv, TypeOK
    <3> HIDE DEF n, l
    <3> QED
      BY <1>1, <3>1, RecordTyped
  <2>2. TrackerAfter(m) \in [Node -> TrackerType]
    BY <1>1, <2>1 DEF TrackerAfter, IInv, TypeOK
  <2> QED
    BY <2>2 DEF HandleAppendEntries, IInv, TypeOK
<1>6. ReplySuccess(m) =>
        /\ new \in Seq(Entry) /\ Len(new) \in Nat
        /\ commitIndex[n] <= Len(new)
        /\ \A i \in 1..commitIndex[n] : new[i] = log[n][i]
  <2> SUFFICES ASSUME ReplySuccess(m)
               PROVE  /\ new \in Seq(Entry) /\ Len(new) \in Nat
                      /\ commitIndex[n] <= Len(new)
                      /\ \A i \in 1..commitIndex[n] : new[i] = log[n][i]
    OBVIOUS
  <2>1. LogMatches(log[n], m, commitIndex[n]) /\ m.prev <= Len(log[n])
    BY DEF ReplySuccess, LogMatches
  <2>2. log[n] \in Seq(Entry) /\ commitIndex[n] \in Nat /\ commitIndex[n] <= Len(log[n])
    BY <1>1
  <2>3. new \in Seq(Entry)
    BY <1>1, <2>1, <2>2, AppendedLogShape
  <2>4. /\ commitIndex[n] <= Len(new)
        /\ \A i \in 1..commitIndex[n] : new[i] = log[n][i]
    BY <1>1, <2>1, <2>2, AppendedLogKeepsCommitted
  <2> QED
    BY <2>3, <2>4, LenProperties
<1> DEFINE newCommit == AdvanceFollowerCommit(commitIndex[n], m.commit, new)
<1>7. log' = [log EXCEPT ![n] = IF ReplySuccess(m) THEN new ELSE log[n]]
  BY <1>1 DEF HandleAppendEntries
<1>8. commitIndex' = [commitIndex EXCEPT ![n] =
                        IF ReplySuccess(m) THEN newCommit ELSE commitIndex[n]]
  BY <1>1 DEF HandleAppendEntries
<1> HIDE DEF new
<1>9. ReplySuccess(m) =>
        newCommit \in Nat /\ commitIndex[n] <= newCommit /\ newCommit <= Len(new)
  BY <1>1, <1>6 DEF AdvanceFollowerCommit, Larger, Smaller
<1> HIDE DEF newCommit
<1>10. log' \in [Node -> Seq(Entry)] /\ commitIndex' \in [Node -> Nat]
  BY <1>1, <1>6, <1>7, <1>8, <1>9
<1>11. CommitWithinLog' /\ PrefixKept
  <2> SUFFICES ASSUME NEW k \in Node
               PROVE  /\ commitIndex'[k] <= Len(log'[k])
                      /\ commitIndex[k] <= commitIndex'[k]
                      /\ commitIndex[k] <= Len(log'[k])
                      /\ \A i \in 1..commitIndex[k] : log'[k][i] = log[k][i]
    BY DEF CommitWithinLog, PrefixKept
  <2>1. CASE k = n /\ ReplySuccess(m)
    <3>1. log'[k] = new /\ commitIndex'[k] = newCommit
      BY <1>1, <1>7, <1>8, <2>1
    <3> QED
      BY <1>1, <1>6, <1>9, <2>1, <3>1
  <2>2. CASE ~(k = n /\ ReplySuccess(m))
    <3>1. log'[k] = log[k] /\ commitIndex'[k] = commitIndex[k]
      BY <1>1, <1>7, <1>8, <2>2
    <3> QED
      BY <1>1, <3>1
  <2> QED
    BY <2>1, <2>2
<1>12. net' \subseteq MessageType
  BY DEF HandleAppendEntries, IInv, TypeOK
<1>13. TypeOK'
  BY <1>3, <1>4, <1>5, <1>10, <1>12 DEF HandleAppendEntries, IInv, TypeOK, history
<1> QED
  BY <1>11, <1>13 DEF IInv

\* Losing a request changes nothing else.
LEMMA LoseRequestStep ==
    ASSUME IInv, NEW m \in net, LoseRequest(m)
    PROVE  IInv' /\ PrefixKept
<1>1. TypeOK'
  BY DEF LoseRequest, IInv, TypeOK, replicaVars, callVars, history
<1>2. CommitWithinLog' /\ PrefixKept
  BY QuietStep DEF LoseRequest, replicaVars
<1> QED
  BY <1>1, <1>2 DEF IInv

\* Appending one entry to a log leaves what was in it.
LEMMA AppendStep ==
    ASSUME IInv, NEW n \in Node, NEW e \in Entry,
           log' = [log EXCEPT ![n] = Append(@, e)], UNCHANGED commitIndex
    PROVE  log' \in [Node -> Seq(Entry)] /\ CommitWithinLog' /\ PrefixKept
<1>1. /\ log \in [Node -> Seq(Entry)] /\ commitIndex \in [Node -> Nat]
      /\ \A k \in Node : Len(log[k]) \in Nat /\ commitIndex[k] <= Len(log[k])
  BY LenProperties DEF IInv, TypeOK, CommitWithinLog
<1> DEFINE new == Append(log[n], e)
<1>2. /\ new \in Seq(Entry) /\ Len(new) = Len(log[n]) + 1
      /\ \A i \in 1..Len(log[n]) : new[i] = log[n][i]
  BY <1>1, AppendProperties
<1> HIDE DEF new
<1>3. \A k \in Node : log'[k] = IF k = n THEN new ELSE log[k]
  BY <1>1 DEF new
<1>4. log' \in [Node -> Seq(Entry)]
  BY <1>1, <1>2 DEF new
<1>5. CommitWithinLog' /\ PrefixKept
  <2> SUFFICES ASSUME NEW k \in Node
               PROVE  /\ commitIndex[k] <= Len(log'[k])
                      /\ \A i \in 1..commitIndex[k] : log'[k][i] = log[k][i]
    BY <1>1 DEF CommitWithinLog, PrefixKept
  <2>1. CASE k = n
    BY <1>1, <1>2, <1>3, <2>1
  <2>2. CASE k # n
    BY <1>1, <1>3, <2>2
  <2> QED
    BY <2>1, <2>2
<1> QED
  BY <1>4, <1>5

LEMMA SubmitCheckStep ==
    ASSUME IInv, NEW n \in Node, NEW c \in Command, SubmitCheck(n, c)
    PROVE  IInv' /\ PrefixKept
<1> DEFINE e == [term |-> currentTerm[n], cmd |-> c]
<1>1. e \in Entry
  BY DEF Entry, IInv, TypeOK
<1> HIDE DEF e
<1>2. \/ UNCHANGED log /\ submit' = [submit EXCEPT ![n] = [pc |-> "checked", entry |-> e]]
      \/ log' = [log EXCEPT ![n] = Append(@, e)] /\ UNCHANGED submit
  BY DEF SubmitCheck, e
<1>3. UNCHANGED commitIndex /\ issued' \subseteq Command
  BY DEF SubmitCheck, IInv, TypeOK
<1>4. CASE UNCHANGED log /\ submit' = [submit EXCEPT ![n] = [pc |-> "checked", entry |-> e]]
  <2>1. [pc |-> "checked", entry |-> e] \in SubmitType
    BY <1>1 DEF SubmitType
  <2>2. submit' \in [Node -> SubmitType]
    BY <1>4, <2>1 DEF IInv, TypeOK
  <2>3. TypeOK'
    BY <1>3, <1>4, <2>2 DEF SubmitCheck, IInv, TypeOK
  <2> QED
    BY <1>3, <1>4, <2>3, QuietStep DEF IInv
<1>5. CASE log' = [log EXCEPT ![n] = Append(@, e)] /\ UNCHANGED submit
  <2>1. log' \in [Node -> Seq(Entry)] /\ CommitWithinLog' /\ PrefixKept
    BY <1>1, <1>3, <1>5, AppendStep
  <2>2. TypeOK'
    BY <1>3, <1>5, <2>1 DEF SubmitCheck, IInv, TypeOK
  <2> QED
    BY <2>1, <2>2 DEF IInv
<1> QED
  BY <1>2, <1>4, <1>5

LEMMA AppendCommandStep ==
    ASSUME IInv, NEW n \in Node, AppendCommand(n)
    PROVE  IInv' /\ PrefixKept
<1>1. submit[n].entry \in Entry
  <2>1. submit[n] \in SubmitType /\ submit[n].pc = "checked"
    BY DEF AppendCommand, IInv, TypeOK
  <2> QED
    BY <2>1 DEF SubmitType, NoSubmit
<1>2. log' \in [Node -> Seq(Entry)] /\ CommitWithinLog' /\ PrefixKept
  BY <1>1, AppendStep DEF AppendCommand
<1>3. submit' \in [Node -> SubmitType]
  BY DEF AppendCommand, SubmitType, IInv, TypeOK
<1>4. TypeOK'
  BY <1>2, <1>3 DEF AppendCommand, IInv, TypeOK, history
<1> QED
  BY <1>2, <1>4 DEF IInv

LEMMA SubmitPollStep ==
    ASSUME IInv, NEW n \in Node, NEW i \in 1..Len(log[n]), SubmitPoll(n, i)
    PROVE  IInv' /\ PrefixKept
<1>1. log[n] \in Seq(Entry)
  BY DEF IInv, TypeOK
<1>2. i \in Nat /\ log[n][i] \in Entry
  BY <1>1, LenProperties, ElementOfSeq
<1>3. [pc |-> "polled", index |-> i, entry |-> log[n][i]] \in SubmitType
  BY <1>2 DEF SubmitType
<1>4. submit' \in [Node -> SubmitType]
  BY <1>3 DEF SubmitPoll, IInv, TypeOK
<1>5. TypeOK'
  BY <1>4 DEF SubmitPoll, IInv, TypeOK, replicaVars, history
<1>6. CommitWithinLog' /\ PrefixKept
  BY QuietStep DEF SubmitPoll, replicaVars
<1> QED
  BY <1>5, <1>6 DEF IInv

LEMMA SubmitDecideStep ==
    ASSUME IInv, NEW n \in Node, SubmitDecide(n)
    PROVE  IInv' /\ PrefixKept
<1>1. submit[n].index \in Nat /\ submit[n].entry \in Entry
  <2>1. submit[n] \in SubmitType /\ submit[n].pc = "polled"
    BY DEF SubmitDecide, IInv, TypeOK
  <2> QED
    BY <2>1 DEF SubmitType, NoSubmit
<1>2. acked' \subseteq [node : Node, index : Nat, entry : Entry]
  BY <1>1 DEF SubmitDecide, IInv, TypeOK
<1>3. submit' \in [Node -> SubmitType]
  BY DEF SubmitDecide, SubmitType, IInv, TypeOK
<1>4. TypeOK'
  BY <1>2, <1>3 DEF SubmitDecide, IInv, TypeOK, replicaVars
<1>5. CommitWithinLog' /\ PrefixKept
  BY QuietStep DEF SubmitDecide, replicaVars
<1> QED
  BY <1>4, <1>5 DEF IInv

\* What a restarted process starts from.
LEMMA LoseVolatileTyped ==
    ASSUME IInv, NEW n \in Node, LoseVolatile(n)
    PROVE  /\ role' \in [Node -> {"Follower", "Leader"}]
           /\ tracker' \in [Node -> TrackerType]
           /\ round' \in [Node -> RoundType]
           /\ submit' \in [Node -> SubmitType]
           /\ issued' \subseteq Command
           /\ acked' \subseteq [node : Node, index : Nat, entry : Entry]
           /\ crashes' \in Nat
<1>1. NoTracker \in TrackerType
  BY DEF NoTracker, TrackerType
<1>2. NoRound \in RoundType /\ NoSubmit \in SubmitType
  BY DEF NoRound, RoundType, SubmitType
<1> QED
  BY <1>1, <1>2 DEF LoseVolatile, IInv, TypeOK

LEMMA RestartStep ==
    ASSUME IInv, NEW n \in Node, Restart(n)
    PROVE  IInv' /\ PrefixKept
<1>1. TypeOK'
  BY LoseVolatileTyped, AbandonTyped DEF Restart, IInv, TypeOK
<1>2. CommitWithinLog' /\ PrefixKept
  BY QuietStep DEF Restart
<1> QED
  BY <1>1, <1>2 DEF IInv

\* A crash between two transactions of a handler keeps the committed prefix.
LEMMA CrashInAppendEntriesStep ==
    ASSUME IInv, NEW m \in net, CrashInAppendEntries(m)
    PROVE  IInv' /\ PrefixKept
<1> DEFINE n == m.to
           new == AppendedLog(log[n], m)
<1>1. /\ m \in MessageType /\ n \in Node /\ m.term \in Nat
      /\ log \in [Node -> Seq(Entry)] /\ commitIndex \in [Node -> Nat]
      /\ \A k \in Node : Len(log[k]) \in Nat /\ commitIndex[k] <= Len(log[k])
  BY LenProperties DEF IInv, TypeOK, CommitWithinLog, MessageType
<1>2. /\ LogMatches(log[n], m, commitIndex[n]) /\ LoseVolatile(n)
      /\ UNCHANGED commitIndex /\ net' = Abandon(n) \ {m}
      /\ currentTerm' = [currentTerm EXCEPT ![n] = m.term]
  BY DEF CrashInAppendEntries, ReplySuccess
<1>3. PICK k \in m.prev..Len(new) :
        /\ \E i \in 1..Len(m.entries) : m.prev + i <= k + 1 /\ Differs(log[n], m, i)
        /\ log' = [log EXCEPT ![n] = SubSeq(new, 1, k)]
  BY DEF CrashInAppendEntries
<1> DEFINE cut == SubSeq(new, 1, k)
<1>4. /\ cut \in Seq(Entry) /\ commitIndex[n] <= Len(cut)
      /\ \A j \in 1..commitIndex[n] : cut[j] = log[n][j]
  <2>1. log[n] \in Seq(Entry) /\ commitIndex[n] \in Nat /\ commitIndex[n] <= Len(log[n])
    BY <1>1
  <2>2. PICK i \in 1..Len(m.entries) : m.prev + i <= k + 1 /\ Differs(log[n], m, i)
    BY <1>3
  <2> QED
    BY <1>1, <1>2, <2>1, <2>2, CutLogKeepsCommitted
<1> HIDE DEF cut
<1>5. /\ log' \in [Node -> Seq(Entry)]
      /\ \A j \in Node : log'[j] = IF j = n THEN cut ELSE log[j]
  BY <1>1, <1>3, <1>4 DEF cut
<1>6. CommitWithinLog' /\ PrefixKept
  <2> SUFFICES ASSUME NEW j \in Node
               PROVE  /\ commitIndex[j] <= Len(log'[j])
                      /\ \A i \in 1..commitIndex[j] : log'[j][i] = log[j][i]
    BY <1>1, <1>2 DEF CommitWithinLog, PrefixKept
  <2> QED
    BY <1>1, <1>4, <1>5
<1>7. currentTerm' \in [Node -> Nat] /\ net' \subseteq MessageType
  BY <1>1, <1>2, AbandonTyped DEF IInv, TypeOK
<1>8. TypeOK'
  BY <1>1, <1>2, <1>5, <1>7, LoseVolatileTyped DEF IInv, TypeOK
<1> QED
  BY <1>6, <1>8 DEF IInv

-----------------------------------------------------------------------------
(* The theorems.                                                           *)

\* Every step keeps the invariant and every committed prefix.
LEMMA NextStep ==
    ASSUME IInv, [Next]_vars
    PROVE  IInv' /\ PrefixKept
<1>1. ASSUME NEW n \in Node, NodeStep(n)
      PROVE  IInv' /\ PrefixKept
  BY <1>1, ElectStep, StartRoundStep, ReadLogStep, ReadEntriesStep, SendAppendEntriesStep,
     FinishRoundStep, SubmitCheckStep, AppendCommandStep, RestartStep
     DEF NodeStep, RoundStep
<1>2. ASSUME NEW m \in net, RequestStep(m)
      PROVE  IInv' /\ PrefixKept
  BY <1>2, HandleAppendEntriesStep, CrashInAppendEntriesStep, LoseRequestStep
     DEF RequestStep
<1>3. CASE UNCHANGED vars
  <2>1. TypeOK'
    BY <1>3 DEF vars, replicaVars, callVars, history, IInv, TypeOK
  <2> QED
    BY <1>3, <2>1, QuietStep DEF vars, replicaVars, IInv
<1>4. ASSUME NEW n \in Node, AwaitStep(n)
      PROVE  IInv' /\ PrefixKept
  BY <1>4, SubmitPollStep, SubmitDecideStep DEF AwaitStep
<1> QED
  BY <1>1, <1>2, <1>3, <1>4 DEF Next, ReplicationNext

\* The fields of every coordinator keep their types, in any interleaving of
\* rounds, requests, submissions, elections and crashes.
THEOREM TypeCorrect == Spec => []TypeOK
<1>1. Init => IInv
  BY InitIInv
<1>2. IInv /\ [Next]_vars => IInv'
  BY NextStep
<1>3. IInv => TypeOK
  BY DEF IInv
<1> QED
  BY <1>1, <1>2, <1>3, PTL DEF Spec

\* The commit index of a coordinator never points past its log.
THEOREM CommitIndexWithinLog == Spec => []CommitWithinLog
<1>1. Init => IInv
  BY InitIInv
<1>2. IInv /\ [Next]_vars => IInv'
  BY NextStep
<1>3. IInv => CommitWithinLog
  BY DEF IInv
<1> QED
  BY <1>1, <1>2, <1>3, PTL DEF Spec

\* What a coordinator has committed it keeps, whatever requests arrive, in
\* whatever order, and wherever it crashes.
THEOREM CommittedPrefixIsStable == Spec => CommittedPrefixStable
<1>1. Init => IInv
  BY InitIInv
<1>2. IInv /\ [Next]_vars => IInv' /\ PrefixKept
  BY NextStep
<1> QED
  BY <1>1, <1>2, PTL DEF Spec, CommittedPrefixStable, PrefixKept

-----------------------------------------------------------------------------
(* Terms and their leaders.                                                *)

\* A quorum has reached term t.
Reached(t) == \E Q \in Quorum : \A v \in Q : t <= currentTerm[v]

\* own is a possible history of the elections: which coordinator has led which
\* of the terms D.  Everything a leader does in a term bears its name.
LeadersOwn(D, own) ==
    \A n \in Node : role[n] = "Leader" => currentTerm[n] \in D /\ own[currentTerm[n]] = n
RoundOwned(D, own, n) ==
    /\ round[n].term # 0 => round[n].term \in D /\ own[round[n].term] = n
    /\ round[n].todo # {} \/ round[n].head # {} \/ round[n].draft # {} => round[n].term # 0
    /\ \A d \in round[n].head \cup round[n].draft :
         d.term = round[n].term /\ d.from = n /\ d.to # n
NetOwned(D, own) ==
    \A m \in net : m.term \in D /\ own[m.term] = m.from /\ m.to # m.from
Owners(D, own) ==
    /\ \A t \in D : Reached(t)
    /\ LeadersOwn(D, own)
    /\ \A n \in Node : RoundOwned(D, own, n)
    /\ NetOwned(D, own)

OwnerInv == \E D \in SUBSET (Nat \ {0}) : \E own \in [D -> Node] : Owners(D, own)

\* Terms only grow, and nobody becomes a leader.
TermsGrow == \A n \in Node : currentTerm[n] <= currentTerm'[n]
NoNewLeader ==
    \A n \in Node : role'[n] = "Leader" =>
        role[n] = "Leader" /\ currentTerm'[n] = currentTerm[n]

\* Requests leave the network or lose the caller that waits for the answer,
\* and rounds end.
SameRequest(k, m) ==
    /\ k.term = m.term /\ k.from = m.from /\ k.to = m.to /\ k.prev = m.prev
    /\ k.prevTerm = m.prevTerm /\ k.entries = m.entries /\ k.commit = m.commit
CallsShrink ==
    /\ \A k \in net' : \E m \in net : SameRequest(k, m)
    /\ \A n \in Node : round'[n] = round[n] \/ round'[n] = NoRound

\* Two sets of at least clusterSize / 2 + 1 coordinators share one.
LEMMA QuorumsMeet ==
    ASSUME NEW P \in Quorum, NEW Q \in Quorum
    PROVE  \E v \in Node : v \in P /\ v \in Q
<1>0. /\ P \in SUBSET Node /\ Q \in SUBSET Node
      /\ Cardinality(P) >= QuorumSize /\ Cardinality(Q) >= QuorumSize
  BY DEF Quorum
<1>1. IsFiniteSet(Node) /\ Cardinality(Node) \in Nat
  BY NodeAssumption, FS_CardinalityType
<1>2. /\ IsFiniteSet(P) /\ IsFiniteSet(Q)
      /\ Cardinality(P) \in Nat /\ Cardinality(Q) \in Nat
  BY <1>0, <1>1, FS_Subset, FS_CardinalityType
<1>3. Cardinality(P \cup Q) = Cardinality(P) + Cardinality(Q) - Cardinality(P \cap Q)
  BY <1>2, FS_Union
<1>4. Cardinality(P \cup Q) <= Cardinality(Node)
  BY <1>0, <1>1, FS_Subset
<1>5. 2 * QuorumSize > Cardinality(Node) /\ QuorumSize \in Int
  BY <1>1 DEF QuorumSize
<1>6. P \cap Q = {} => Cardinality(P \cap Q) = 0
  BY FS_EmptySet
<1>7. P \cap Q # {}
  BY <1>0, <1>1, <1>2, <1>3, <1>4, <1>5, <1>6
<1> QED BY <1>0, <1>7

LEMMA ReachedStays ==
    ASSUME TypeOK, TypeOK', TermsGrow, NEW t \in Nat, Reached(t)
    PROVE  Reached(t)'
<1>1. PICK Q \in Quorum : \A v \in Q : t <= currentTerm[v]
  BY DEF Reached
<1>2. \A v \in Q : v \in Node
  BY DEF Quorum
<1>3. \A v \in Q : t <= currentTerm'[v]
  BY <1>1, <1>2 DEF TypeOK, TermsGrow
<1> QED BY <1>3 DEF Reached

\* The term of an election is new: no quorum has reached it.
LEMMA NewTerm ==
    ASSUME TypeOK, NEW Q \in Quorum, NEW u \in Q, \A v \in Q : currentTerm[v] <= currentTerm[u],
           NEW t \in Nat, Reached(t)
    PROVE  t <= currentTerm[u]
<1>1. PICK P \in Quorum : \A v \in P : t <= currentTerm[v]
  BY DEF Reached
<1>2. PICK v \in Node : v \in P /\ v \in Q
  BY QuorumsMeet
<1>3. u \in Node
  BY DEF Quorum
<1> QED BY <1>1, <1>2, <1>3 DEF TypeOK

\* What Elect does to the terms.
LEMMA ElectTerms ==
    ASSUME IInv, NEW n \in Node, NEW Q \in Quorum, Elect(n, Q)
    PROVE  \E T \in Nat \ {0} :
             /\ TermsGrow
             /\ currentTerm' = [v \in Node |-> IF v \in Q THEN T ELSE currentTerm[v]]
             /\ \A v \in Q : currentTerm[v] < T
             /\ \A t \in Nat : Reached(t) => t < T
             /\ Reached(T)'
<1>1. PICK u \in Q :
         /\ \A v \in Q : currentTerm[v] <= currentTerm[u]
         /\ currentTerm' = [v \in Node |-> IF v \in Q THEN currentTerm[u] + 1
                                           ELSE currentTerm[v]]
  BY DEF Elect
<1>2. Q \subseteq Node /\ \A v \in Node : currentTerm[v] \in Nat
  BY DEF Quorum, IInv, TypeOK
<1>3. PICK T \in Nat \ {0} : T = currentTerm[u] + 1
  BY <1>2
<1>4. \A v \in Q : currentTerm[v] < T
  BY <1>1, <1>2, <1>3
<1>5. TermsGrow
  BY <1>1, <1>2 DEF TermsGrow
<1>6. \A t \in Nat : Reached(t) => t < T
  BY <1>1, <1>2, <1>3, NewTerm DEF IInv
<1>7. Reached(T)'
  <2>1. \A v \in Q : T <= currentTerm'[v]
    BY <1>1, <1>2, <1>3
  <2> QED BY <2>1 DEF Reached
<1>8. currentTerm' = [v \in Node |-> IF v \in Q THEN T ELSE currentTerm[v]]
  BY <1>1, <1>3
<1> QED BY <1>4, <1>5, <1>6, <1>7, <1>8

LEMMA AbandonSame ==
    ASSUME TypeOK, NEW n \in Node, NEW k \in Abandon(n)
    PROVE  \E m \in net : SameRequest(k, m)
<1>1. PICK m \in net : k = [m EXCEPT !.waited = (m.waited /\ m.from # n)]
  BY DEF Abandon
<1>2. m \in MessageType
  BY DEF TypeOK
<1> QED BY <1>1, <1>2 DEF SameRequest, MessageType

LEMMA SameSelf == \A m : SameRequest(m, m)
  BY DEF SameRequest

\* The steps that only end calls, and what they do to the terms.
LEMMA FinishRoundCalls ==
    ASSUME IInv, NEW n \in Node, FinishRound(n)
    PROVE  CallsShrink /\ TermsGrow /\ NoNewLeader
<1>1. \A k \in net' : \E m \in net : SameRequest(k, m)
  BY AbandonSame DEF FinishRound, IInv
<1>2. \A j \in Node : round'[j] = round[j] \/ round'[j] = NoRound
  BY DEF FinishRound, IInv, TypeOK
<1>3. TermsGrow /\ NoNewLeader
  BY DEF FinishRound, TermsGrow, NoNewLeader, IInv, TypeOK
<1> QED BY <1>1, <1>2, <1>3 DEF CallsShrink

LEMMA HandleCalls ==
    ASSUME IInv, NEW m \in net, m.to # m.from, NEW answered \in BOOLEAN,
           HandleAppendEntries(m, answered)
    PROVE  /\ CallsShrink /\ TermsGrow /\ NoNewLeader
           /\ currentTerm'[m.to] = ReplyTerm(m)
           /\ \A v \in Node \ {m.to} :
                \/ currentTerm'[v] = currentTerm[v] /\ role'[v] = role[v]
                \/ currentTerm'[v] > currentTerm[v]
           /\ m.term >= currentTerm[m.to] => role'[m.to] = "Follower"
           /\ m.term < currentTerm[m.to] => role'[m.to] = role[m.to]
<1> DEFINE n == m.to
           l == m.from
           higher == answered /\ ReplyTerm(m) > Larger(m.term, currentTerm[l])
<1>1. /\ n \in Node /\ l \in Node /\ m.term \in Nat /\ n # l
      /\ currentTerm \in [Node -> Nat] /\ role \in [Node -> {"Follower", "Leader"}]
  BY DEF IInv, TypeOK, MessageType
<1>2. ReplyTerm(m) \in Nat /\ ReplyTerm(m) >= currentTerm[n] /\ ReplyTerm(m) >= m.term
      /\ (m.term < currentTerm[n] => ReplyTerm(m) = currentTerm[n])
  BY <1>1 DEF ReplyTerm, Larger
<1>3. higher => ReplyTerm(m) > currentTerm[l]
  BY <1>1, <1>2 DEF Larger
<1>4. /\ currentTerm' = [currentTerm EXCEPT ![n] = ReplyTerm(m),
                                            ![l] = IF higher THEN ReplyTerm(m) ELSE @]
      /\ role' = [role EXCEPT ![n] = IF m.term >= currentTerm[n] THEN "Follower" ELSE @,
                              ![l] = IF higher THEN "Follower" ELSE @]
      /\ net' = net \ {m} /\ UNCHANGED round
  BY DEF HandleAppendEntries
<1> HIDE DEF n, l, higher
<1>5. /\ currentTerm'[n] = ReplyTerm(m)
      /\ currentTerm'[l] = IF higher THEN ReplyTerm(m) ELSE currentTerm[l]
      /\ \A v \in Node : v # n /\ v # l => currentTerm'[v] = currentTerm[v]
  BY <1>1, <1>4
<1>6. /\ role'[n] = IF m.term >= currentTerm[n] THEN "Follower" ELSE role[n]
      /\ role'[l] = IF higher THEN "Follower" ELSE role[l]
      /\ \A v \in Node : v # n /\ v # l => role'[v] = role[v]
  BY <1>1, <1>4
<1>7. TermsGrow /\ NoNewLeader
  BY <1>1, <1>2, <1>3, <1>5, <1>6 DEF TermsGrow, NoNewLeader
<1>8. CallsShrink
  BY <1>4, SameSelf DEF CallsShrink
<1>9. \A v \in Node \ {n} : \/ currentTerm'[v] = currentTerm[v] /\ role'[v] = role[v]
                            \/ currentTerm'[v] > currentTerm[v]
  BY <1>1, <1>3, <1>5, <1>6
<1>10. /\ m.term >= currentTerm[n] => role'[n] = "Follower"
       /\ m.term < currentTerm[n] => role'[n] = role[n]
  BY <1>1, <1>6
<1> QED BY <1>5, <1>7, <1>8, <1>9, <1>10 DEF n

LEMMA LoseRequestCalls ==
    ASSUME IInv, NEW m \in net, LoseRequest(m)
    PROVE  CallsShrink /\ TermsGrow /\ NoNewLeader
BY SameSelf DEF LoseRequest, CallsShrink, TermsGrow, NoNewLeader, replicaVars, callVars, IInv, TypeOK

\* Submissions leave everything but the log and the submission alone.
LEMMA SubmissionCalls ==
    ASSUME IInv, UNCHANGED <<currentTerm, role, tracker, round, net, commitIndex>>
    PROVE  CallsShrink /\ TermsGrow /\ NoNewLeader
BY SameSelf DEF CallsShrink, TermsGrow, NoNewLeader, IInv, TypeOK

LEMMA RestartCalls ==
    ASSUME IInv, NEW n \in Node, Restart(n)
    PROVE  CallsShrink /\ TermsGrow /\ NoNewLeader
<1>1. \A k \in net' : \E m \in net : SameRequest(k, m)
  BY AbandonSame DEF Restart, IInv
<1>2. \A j \in Node : round'[j] = round[j] \/ round'[j] = NoRound
  BY DEF Restart, LoseVolatile, IInv, TypeOK
<1>3. TermsGrow /\ NoNewLeader
  BY DEF Restart, LoseVolatile, TermsGrow, NoNewLeader, IInv, TypeOK
<1> QED BY <1>1, <1>2, <1>3 DEF CallsShrink

LEMMA CrashCalls ==
    ASSUME IInv, NEW m \in net, CrashInAppendEntries(m)
    PROVE  /\ CallsShrink /\ TermsGrow /\ NoNewLeader
           /\ currentTerm' = [currentTerm EXCEPT ![m.to] = m.term]
           /\ currentTerm[m.to] <= m.term
<1>0. m.to \in Node /\ m.term \in Nat
  BY DEF IInv, TypeOK, MessageType
<1>1. \A k \in net' : \E j \in net : SameRequest(k, j)
  <2>1. net' \subseteq Abandon(m.to)
    BY DEF CrashInAppendEntries
  <2> QED BY <1>0, <2>1, AbandonSame DEF IInv
<1>2. \A j \in Node : round'[j] = round[j] \/ round'[j] = NoRound
  BY <1>0 DEF CrashInAppendEntries, LoseVolatile, IInv, TypeOK
<1>3. currentTerm' = [currentTerm EXCEPT ![m.to] = m.term] /\ currentTerm[m.to] <= m.term
  BY <1>0 DEF CrashInAppendEntries, ReplySuccess, IInv, TypeOK
<1>4. TermsGrow /\ NoNewLeader
  <2>1. role' = [role EXCEPT ![m.to] = "Follower"]
    BY DEF CrashInAppendEntries, LoseVolatile
  <2> QED BY <1>0, <1>3, <2>1 DEF TermsGrow, NoNewLeader, IInv, TypeOK
<1> QED BY <1>1, <1>2, <1>3, <1>4 DEF CallsShrink

-----------------------------------------------------------------------------
(* Every term has one leader.                                              *)

LEMMA OwnersKept ==
    ASSUME TypeOK, TypeOK', CallsShrink, TermsGrow, NoNewLeader,
           NEW D \in SUBSET (Nat \ {0}), NEW own \in [D -> Node], Owners(D, own)
    PROVE  Owners(D, own)'
<1>1. \A t \in D : Reached(t)'
  BY ReachedStays DEF Owners
<1>2. LeadersOwn(D, own)'
  BY DEF Owners, LeadersOwn, NoNewLeader
<1>3. ASSUME NEW n \in Node PROVE RoundOwned(D, own, n)'
  <2>1. CASE round'[n] = round[n]
    BY <2>1 DEF Owners, RoundOwned
  <2>2. CASE round'[n] = NoRound
    BY <2>2 DEF RoundOwned, NoRound
  <2> QED BY <2>1, <2>2 DEF CallsShrink
<1>4. NetOwned(D, own)'
  BY DEF Owners, NetOwned, CallsShrink, SameRequest
<1> QED BY <1>1, <1>2, <1>3, <1>4 DEF Owners

\* The winner of an election is the first to own its term.
LEMMA OwnersElect ==
    ASSUME IInv, IInv', OwnerInv, NEW n \in Node, NEW Q \in Quorum, Elect(n, Q)
    PROVE  OwnerInv'
<1>1. PICK D \in SUBSET (Nat \ {0}) : \E own \in [D -> Node] : Owners(D, own)
  BY DEF OwnerInv
<1>2. PICK own \in [D -> Node] : Owners(D, own)
  BY <1>1
<1>3. PICK T \in Nat \ {0} :
             /\ TermsGrow
             /\ currentTerm' = [v \in Node |-> IF v \in Q THEN T ELSE currentTerm[v]]
             /\ \A v \in Q : currentTerm[v] < T
             /\ \A t \in Nat : Reached(t) => t < T
             /\ Reached(T)'
  BY ElectTerms
<1>4. T \notin D
  BY <1>2, <1>3 DEF Owners
<1> DEFINE D2 == D \cup {T}
           own2 == [t \in D2 |-> IF t = T THEN n ELSE own[t]]
<1>5. /\ D2 \in SUBSET (Nat \ {0}) /\ own2 \in [D2 -> Node]
      /\ T \in D2 /\ own2[T] = n
      /\ \A t \in D : t \in D2 /\ own2[t] = own[t]
  BY <1>3, <1>4
<1> HIDE DEF D2, own2
<1>6. \A t \in D2 : Reached(t)'
  BY <1>2, <1>3, ReachedStays DEF Owners, IInv, D2
<1>7. LeadersOwn(D2, own2)'
  <2> SUFFICES ASSUME NEW v \in Node, role'[v] = "Leader"
               PROVE  currentTerm'[v] \in D2 /\ own2[currentTerm'[v]] = v
    BY DEF LeadersOwn
  <2>1. n \in Q /\ role' = [k \in Node |-> IF k = n THEN "Leader"
                               ELSE IF k \in Q THEN "Follower" ELSE role[k]]
    BY DEF Elect
  <2>2. CASE v = n
    BY <1>3, <1>5, <2>1, <2>2
  <2>3. CASE v # n
    <3>1. v \notin Q /\ role[v] = "Leader"
      BY <2>1, <2>3
    <3>2. currentTerm'[v] = currentTerm[v]
      BY <1>3, <3>1
    <3> QED BY <1>2, <1>5, <3>1, <3>2 DEF Owners, LeadersOwn
  <2> QED BY <2>2, <2>3
<1>8. UNCHANGED <<round, net>>
  BY DEF Elect, callVars
<1>9. \A v \in Node : RoundOwned(D2, own2, v)'
  BY <1>2, <1>5, <1>8 DEF Owners, RoundOwned
<1>10. NetOwned(D2, own2)'
  BY <1>2, <1>5, <1>8 DEF Owners, NetOwned
<1>11. Owners(D2, own2)'
  BY <1>6, <1>7, <1>9, <1>10 DEF Owners
<1> QED BY <1>5, <1>11 DEF OwnerInv

\* Rounds and requests carry the name and the term of the leader they are from.
LEMMA OwnersCalls ==
    ASSUME IInv, IInv', UNCHANGED <<currentTerm, role>>,
           NEW D \in SUBSET (Nat \ {0}), NEW own \in [D -> Node], Owners(D, own),
           NEW n \in Node, \A v \in Node \ {n} : round'[v] = round[v],
           RoundOwned(D, own, n)',
           \A k \in net' : k \in net \/ (k.term \in D /\ own[k.term] = k.from /\ k.to # k.from)
    PROVE  Owners(D, own)'
<1>1. TermsGrow /\ NoNewLeader
  BY DEF TermsGrow, NoNewLeader, IInv, TypeOK
<1>2. \A t \in D : Reached(t)'
  BY <1>1, ReachedStays DEF Owners, IInv
<1>3. LeadersOwn(D, own)'
  BY DEF Owners, LeadersOwn
<1>4. \A v \in Node : RoundOwned(D, own, v)'
  BY DEF Owners, RoundOwned
<1>5. NetOwned(D, own)'
  BY DEF Owners, NetOwned
<1> QED BY <1>2, <1>3, <1>4, <1>5 DEF Owners

LEMMA OwnersStartRound ==
    ASSUME IInv, IInv', OwnerInv, NEW n \in Node, NEW S \in SUBSET Peers(n), StartRound(n, S)
    PROVE  OwnerInv'
<1>1. PICK D \in SUBSET (Nat \ {0}) : \E own \in [D -> Node] : Owners(D, own)
  BY DEF OwnerInv
<1>2. PICK own \in [D -> Node] : Owners(D, own)
  BY <1>1
<1> DEFINE t == currentTerm[n]
           tr == EnsureInitialized(tracker[n], t, Len(log[n]))
<1>3. t \in D /\ own[t] = n /\ t # 0
  BY <1>2 DEF StartRound, Owners, LeadersOwn
<1>4. /\ \A v \in Node \ {n} : round'[v] = round[v]
      /\ round'[n].term = t /\ round'[n].head = {} /\ round'[n].draft = {}
  BY DEF StartRound, IInv, TypeOK
<1>5. RoundOwned(D, own, n)'
  BY <1>3, <1>4 DEF RoundOwned
<1>6. \A p \in S : LET k == Request(Draft(n, p, tr, t), commitIndex[n])
                   IN  k.term = t /\ k.from = n /\ k.to # n
  BY DEF Request, Draft, Peers
<1>7. \A k \in net' : k \in net \/ (k.term \in D /\ own[k.term] = k.from /\ k.to # k.from)
  <2> SUFFICES ASSUME NEW k \in net', k \notin net
               PROVE  k.term \in D /\ own[k.term] = k.from /\ k.to # k.from
    OBVIOUS
  <2>1. \E p \in S : k = Request(Draft(n, p, tr, t), commitIndex[n])
    BY DEF StartRound
  <2> HIDE DEF tr
  <2> QED BY <1>3, <1>6, <2>1
<1>8. Owners(D, own)'
  BY <1>2, <1>4, <1>5, <1>7, OwnersCalls DEF StartRound, replicaVars
<1> QED BY <1>8 DEF OwnerInv

LEMMA OwnersReadLog ==
    ASSUME IInv, IInv', OwnerInv, NEW n \in Node, NEW p \in Peers(n), ReadLog(n, p)
    PROVE  OwnerInv'
<1>1. PICK D \in SUBSET (Nat \ {0}) : \E own \in [D -> Node] : Owners(D, own)
  BY DEF OwnerInv
<1>2. PICK own \in [D -> Node] : Owners(D, own)
  BY <1>1
<1> DEFINE t == round[n].term
<1>3. t \in D /\ own[t] = n /\ t # 0
  BY <1>2 DEF ReadLog, Owners, RoundOwned
<1>4. /\ \A v \in Node \ {n} : round'[v] = round[v]
      /\ round'[n].term = t
      /\ round'[n].head \subseteq {Bare(Draft(n, p, tracker[n], t))}
      /\ round'[n].draft \subseteq {Draft(n, p, tracker[n], t)}
  BY DEF ReadLog, IInv, TypeOK
<1>5. \A d \in {Draft(n, p, tracker[n], t), Bare(Draft(n, p, tracker[n], t))} :
        d.term = t /\ d.from = n /\ d.to # n
  BY DEF Draft, Bare, Peers
<1>6. RoundOwned(D, own, n)'
  BY <1>3, <1>4, <1>5 DEF RoundOwned
<1>7. Owners(D, own)'
  BY <1>2, <1>4, <1>6, OwnersCalls DEF ReadLog, replicaVars
<1> QED BY <1>7 DEF OwnerInv

LEMMA OwnersReadEntries ==
    ASSUME IInv, IInv', OwnerInv, NEW n \in Node, ReadEntries(n)
    PROVE  OwnerInv'
<1>1. PICK D \in SUBSET (Nat \ {0}) : \E own \in [D -> Node] : Owners(D, own)
  BY DEF OwnerInv
<1>2. PICK own \in [D -> Node] : Owners(D, own)
  BY <1>1
<1>3. RoundOwned(D, own, n)
  BY <1>2 DEF Owners
<1>4. /\ \A v \in Node \ {n} : round'[v] = round[v]
      /\ round'[n].term = round[n].term /\ round'[n].todo = round[n].todo
      /\ round'[n].head = {} /\ round[n].head # {}
      /\ round'[n].draft = {Filled(n, d) : d \in round[n].head}
  BY DEF ReadEntries, IInv, TypeOK
<1>5. ASSUME NEW d \in round[n].head
      PROVE  /\ Filled(n, d).term = round[n].term
             /\ Filled(n, d).from = n /\ Filled(n, d).to # n
  <2>1. d \in DraftType /\ d.term = round[n].term /\ d.from = n /\ d.to # n
    BY <1>3 DEF RoundOwned, IInv, TypeOK, RoundType
  <2> QED BY <2>1 DEF Filled, DraftType
<1>6. RoundOwned(D, own, n)'
  BY <1>3, <1>4, <1>5 DEF RoundOwned
<1>7. Owners(D, own)'
  BY <1>2, <1>4, <1>6, OwnersCalls DEF ReadEntries, replicaVars
<1> QED BY <1>7 DEF OwnerInv

LEMMA OwnersSend ==
    ASSUME IInv, IInv', OwnerInv, NEW n \in Node, SendAppendEntries(n)
    PROVE  OwnerInv'
<1>1. PICK D \in SUBSET (Nat \ {0}) : \E own \in [D -> Node] : Owners(D, own)
  BY DEF OwnerInv
<1>2. PICK own \in [D -> Node] : Owners(D, own)
  BY <1>1
<1>3. PICK d \in round[n].draft : net' = net \cup {Request(d, commitIndex[n])}
  BY DEF SendAppendEntries
<1>4. RoundOwned(D, own, n)
  BY <1>2 DEF Owners
<1>5. /\ d.term = round[n].term /\ d.from = n /\ d.to # n
      /\ round[n].term \in D /\ own[round[n].term] = n
  BY <1>4 DEF RoundOwned
<1>6. /\ \A v \in Node \ {n} : round'[v] = round[v]
      /\ round'[n].term = round[n].term /\ round'[n].head = {} /\ round'[n].draft = {}
  BY DEF SendAppendEntries, IInv, TypeOK
<1>7. RoundOwned(D, own, n)'
  BY <1>4, <1>5, <1>6 DEF RoundOwned
<1>8. \A k \in net' : k \in net \/ (k.term \in D /\ own[k.term] = k.from /\ k.to # k.from)
  BY <1>3, <1>5 DEF Request
<1>9. Owners(D, own)'
  BY <1>2, <1>6, <1>7, <1>8, OwnersCalls DEF SendAppendEntries, replicaVars
<1> QED BY <1>9 DEF OwnerInv

LEMMA OwnersQuiet ==
    ASSUME IInv, IInv', OwnerInv, CallsShrink, TermsGrow, NoNewLeader
    PROVE  OwnerInv'
<1>1. PICK D \in SUBSET (Nat \ {0}) : \E own \in [D -> Node] : Owners(D, own)
  BY DEF OwnerInv
<1>2. PICK own \in [D -> Node] : Owners(D, own)
  BY <1>1
<1> QED BY <1>2, OwnersKept DEF OwnerInv, IInv

\* What the invariant says of a request: nobody sends to itself, and a leader
\* is the only one to send in its term.
LEMMA OneSender ==
    ASSUME IInv, OwnerInv, NEW m \in net
    PROVE  /\ m.to # m.from
           /\ \A n \in Node : role[n] = "Leader" /\ currentTerm[n] = m.term => m.from = n
BY DEF OwnerInv, Owners, NetOwned, LeadersOwn

LEMMA InitOwners == Init => OwnerInv
<1> SUFFICES ASSUME Init PROVE OwnerInv
  OBVIOUS
<1>1. PICK own : own \in [{} -> Node]
  <2>1. [t \in {} |-> t] \in [{} -> Node]
    OBVIOUS
  <2> QED BY <2>1
<1>2. Owners({}, own)
  BY DEF Init, Owners, LeadersOwn, RoundOwned, NetOwned, NoRound
<1> QED BY <1>1, <1>2 DEF OwnerInv

\* A submission's own steps.
SubmissionStep(n) ==
    \/ \E c \in Command : SubmitCheck(n, c)
    \/ AppendCommand(n)
    \/ AwaitStep(n)

LEMMA SubmissionQuiet ==
    ASSUME IInv, NEW n \in Node, SubmissionStep(n)
    PROVE  /\ UNCHANGED <<currentTerm, role, tracker, round, net, commitIndex>>
           /\ CallsShrink /\ TermsGrow /\ NoNewLeader
<1>1. UNCHANGED <<currentTerm, role, tracker, round, net, commitIndex>>
  BY DEF SubmissionStep, SubmitCheck, AppendCommand, AwaitStep, SubmitPoll, SubmitDecide, replicaVars
<1> QED BY <1>1, SubmissionCalls

LEMMA OwnersNext ==
    ASSUME IInv, IInv', OwnerInv, [Next]_vars
    PROVE  OwnerInv'
<1>1. ASSUME NEW n \in Node, NodeStep(n)
      PROVE  OwnerInv'
  BY <1>1, OwnersElect, OwnersStartRound, OwnersReadLog, OwnersReadEntries, OwnersSend,
     FinishRoundCalls, RestartCalls, SubmissionQuiet, OwnersQuiet
     DEF NodeStep, RoundStep, SubmissionStep
<1>2. ASSUME NEW m \in net, RequestStep(m)
      PROVE  OwnerInv'
  BY <1>2, OneSender, HandleCalls, CrashCalls, LoseRequestCalls, OwnersQuiet DEF RequestStep
<1>3. CASE UNCHANGED vars
  BY <1>3, SubmissionCalls, OwnersQuiet DEF vars, replicaVars, callVars
<1>4. ASSUME NEW n \in Node, AwaitStep(n)
      PROVE  OwnerInv'
  BY <1>4, SubmissionQuiet, OwnersQuiet DEF SubmissionStep
<1> QED
  BY <1>1, <1>2, <1>3, <1>4 DEF Next, ReplicationNext

-----------------------------------------------------------------------------
(* Answers to submissions.                                                 *)

Extends(k, l) == Len(l) <= Len(k) /\ \A i \in 1..Len(l) : k[i] = l[i]

\* A leader stays one and keeps its log, or its term is over, or it crashes.
LeaderKeeps ==
    \A n \in Node : role[n] = "Leader" =>
        \/ /\ role'[n] = "Leader" /\ currentTerm'[n] = currentTerm[n]
           /\ Extends(log'[n], log[n])
        \/ currentTerm'[n] > currentTerm[n]
        \/ submit'[n] = NoSubmit

\* A submission that waits for its answer was let through by the role test.
Polled(n, s) ==
    /\ s.index \in Nat \ {0}
    /\ \/ currentTerm[n] > s.entry.term
       \/ /\ role[n] = "Leader" /\ currentTerm[n] = s.entry.term
          /\ s.index <= Len(log[n]) /\ log[n][s.index] = s.entry

PollInv == \A n \in Node : submit[n].pc = "polled" => Polled(n, submit[n])

AckInv == AcknowledgedOrReplaced /\ \A a \in acked : a.index # 0

LEMMA ExtendsSelf == \A l : Len(l) \in Nat => Extends(l, l)
  BY DEF Extends

LEMMA AppendExtends ==
    ASSUME NEW l \in Seq(Entry), NEW e \in Entry
    PROVE  Extends(Append(l, e), l)
  BY AppendProperties, LenProperties DEF Extends

\* The leader does not change while its log, its term and its role do not.
LEMMA KeepsUnchanged ==
    ASSUME IInv, UNCHANGED <<currentTerm, role, log>>
    PROVE  LeaderKeeps
<1>1. \A n \in Node : Len(log[n]) \in Nat
  BY LenProperties DEF IInv, TypeOK
<1> QED BY <1>1, ExtendsSelf DEF LeaderKeeps

LEMMA KeepsElect ==
    ASSUME IInv, NEW n \in Node, NEW Q \in Quorum, Elect(n, Q)
    PROVE  LeaderKeeps
<1> SUFFICES ASSUME NEW v \in Node, role[v] = "Leader"
             PROVE  \/ /\ role'[v] = "Leader" /\ currentTerm'[v] = currentTerm[v]
                       /\ Extends(log'[v], log[v])
                    \/ currentTerm'[v] > currentTerm[v]
  BY DEF LeaderKeeps
<1>1. PICK T \in Nat \ {0} :
             /\ currentTerm' = [k \in Node |-> IF k \in Q THEN T ELSE currentTerm[k]]
             /\ \A k \in Q : currentTerm[k] < T
  BY ElectTerms
<1>2. Len(log[v]) \in Nat /\ currentTerm[v] \in Nat
  BY LenProperties DEF IInv, TypeOK
<1>3. CASE v \in Q
  BY <1>1, <1>2, <1>3
<1>4. CASE v \notin Q
  <2>1. role'[v] = role[v] /\ log' = log
    BY <1>4 DEF Elect
  <2> QED BY <1>1, <1>2, <1>4, <2>1, ExtendsSelf
<1> QED BY <1>3, <1>4

\* A request of the leader's own term does not reach it: it would be its own.
LEMMA KeepsHandle ==
    ASSUME IInv, OwnerInv, NEW m \in net, NEW answered \in BOOLEAN,
           HandleAppendEntries(m, answered)
    PROVE  LeaderKeeps
<1> SUFFICES ASSUME NEW v \in Node, role[v] = "Leader"
             PROVE  \/ /\ role'[v] = "Leader" /\ currentTerm'[v] = currentTerm[v]
                       /\ Extends(log'[v], log[v])
                    \/ currentTerm'[v] > currentTerm[v]
  BY DEF LeaderKeeps
<1>1. /\ m.to # m.from /\ m.to \in Node /\ m.term \in Nat
      /\ Len(log[v]) \in Nat /\ currentTerm[v] \in Nat
  BY OneSender, LenProperties DEF IInv, TypeOK, MessageType
<1>2. log' = [log EXCEPT ![m.to] = IF ReplySuccess(m) THEN AppendedLog(@, m) ELSE @]
  BY DEF HandleAppendEntries
<1>3. CASE v # m.to
  <2>1. log'[v] = log[v]
    BY <1>2, <1>3 DEF IInv, TypeOK
  <2>2. \/ currentTerm'[v] = currentTerm[v] /\ role'[v] = role[v]
        \/ currentTerm'[v] > currentTerm[v]
    BY <1>1, <1>3, HandleCalls
  <2> QED BY <1>1, <2>1, <2>2, ExtendsSelf
<1>4. CASE v = m.to /\ m.term < currentTerm[v]
  <2>1. ~ReplySuccess(m) /\ ReplyTerm(m) = currentTerm[v]
    BY <1>1, <1>4 DEF ReplySuccess, ReplyTerm, Larger
  <2>2. log'[v] = log[v]
    BY <1>2, <2>1 DEF IInv, TypeOK
  <2> QED BY <1>1, <1>4, <2>1, <2>2, HandleCalls, ExtendsSelf
<1>5. CASE v = m.to /\ m.term >= currentTerm[v]
  <2>1. m.term # currentTerm[v]
    BY <1>1, <1>5, OneSender
  <2>2. currentTerm'[v] = ReplyTerm(m)
    BY <1>1, <1>5, HandleCalls
  <2> QED BY <1>1, <1>5, <2>1, <2>2 DEF ReplyTerm, Larger
<1> QED BY <1>1, <1>3, <1>4, <1>5

LEMMA KeepsSubmission ==
    ASSUME IInv, NEW n \in Node, SubmissionStep(n)
    PROVE  LeaderKeeps
<1>1. \/ UNCHANGED log
      \/ \E e \in Entry : log' = [log EXCEPT ![n] = Append(@, e)]
  <2>1. ASSUME NEW c \in Command, SubmitCheck(n, c)
        PROVE  \/ UNCHANGED log
               \/ \E e \in Entry : log' = [log EXCEPT ![n] = Append(@, e)]
    <3>1. [term |-> currentTerm[n], cmd |-> c] \in Entry
      BY DEF Entry, IInv, TypeOK
    <3> QED BY <2>1, <3>1 DEF SubmitCheck
  <2>2. CASE AppendCommand(n)
    <3>1. submit[n] \in SubmitType /\ submit[n].pc = "checked"
      BY <2>2 DEF AppendCommand, IInv, TypeOK
    <3>2. submit[n].entry \in Entry
      BY <3>1 DEF SubmitType, NoSubmit
    <3> QED BY <2>2, <3>2 DEF AppendCommand
  <2>3. CASE AwaitStep(n)
    BY <2>3 DEF AwaitStep, SubmitPoll, SubmitDecide, replicaVars
  <2> QED BY <2>1, <2>2, <2>3 DEF SubmissionStep
<1>2. UNCHANGED <<currentTerm, role>>
  BY SubmissionQuiet
<1>3. \A v \in Node : log[v] \in Seq(Entry) /\ Len(log[v]) \in Nat
  BY LenProperties DEF IInv, TypeOK
<1>4. \A v \in Node : Extends(log'[v], log[v])
  <2>1. CASE UNCHANGED log
    BY <1>3, <2>1, ExtendsSelf
  <2>2. ASSUME NEW e \in Entry, log' = [log EXCEPT ![n] = Append(@, e)], NEW v \in Node
        PROVE  Extends(log'[v], log[v])
    <3>1. CASE v = n
      <4>1. log'[n] = Append(log[n], e)
        BY <2>2 DEF IInv, TypeOK
      <4> QED BY <1>3, <3>1, <4>1, AppendExtends
    <3>2. CASE v # n
      <4>1. log'[v] = log[v]
        BY <2>2, <3>2 DEF IInv, TypeOK
      <4> QED BY <1>3, <4>1, ExtendsSelf
    <3> QED BY <3>1, <3>2
  <2> QED BY <1>1, <2>1, <2>2
<1> QED BY <1>2, <1>4 DEF LeaderKeeps

LEMMA KeepsRestart ==
    ASSUME IInv, NEW n \in Node, Restart(n)
    PROVE  LeaderKeeps
<1>1. \A v \in Node : Len(log[v]) \in Nat
  BY LenProperties DEF IInv, TypeOK
<1>2. /\ submit'[n] = NoSubmit
      /\ \A v \in Node \ {n} : role'[v] = role[v]
      /\ UNCHANGED <<currentTerm, log>>
  BY DEF Restart, LoseVolatile, IInv, TypeOK
<1> QED BY <1>1, <1>2, ExtendsSelf DEF LeaderKeeps

LEMMA KeepsCrash ==
    ASSUME IInv, NEW m \in net, CrashInAppendEntries(m)
    PROVE  LeaderKeeps
<1>1. /\ \A v \in Node : Len(log[v]) \in Nat
      /\ m.to \in Node
  BY LenProperties DEF IInv, TypeOK, MessageType
<1>2. PICK cut : log' = [log EXCEPT ![m.to] = cut]
  BY DEF CrashInAppendEntries
<1>3. /\ submit'[m.to] = NoSubmit
      /\ \A v \in Node \ {m.to} : role'[v] = role[v]
      /\ \A v \in Node \ {m.to} : currentTerm'[v] = currentTerm[v]
  BY <1>1 DEF CrashInAppendEntries, LoseVolatile, IInv, TypeOK
<1>4. \A v \in Node \ {m.to} : log'[v] = log[v]
  BY <1>1, <1>2 DEF IInv, TypeOK
<1> QED BY <1>1, <1>3, <1>4, ExtendsSelf DEF LeaderKeeps

\* What becomes of a waiting submission while others act.
LEMMA PollKept ==
    ASSUME IInv, IInv', PollInv, LeaderKeeps, TermsGrow,
           \A n \in Node : submit'[n] = submit[n] \/ submit'[n].pc # "polled"
    PROVE  PollInv'
<1> SUFFICES ASSUME NEW n \in Node, submit'[n].pc = "polled"
             PROVE  Polled(n, submit[n])'
  BY DEF PollInv
<1>1. submit'[n] = submit[n] /\ Polled(n, submit[n]) /\ submit'[n] # NoSubmit
  BY DEF PollInv, NoSubmit
<1>2. PICK s : s = submit[n]
  OBVIOUS
<1>3. /\ s.entry.term \in Nat /\ s.index \in Nat
      /\ currentTerm[n] \in Nat /\ currentTerm'[n] \in Nat
      /\ Len(log[n]) \in Nat /\ Len(log'[n]) \in Nat
  <2>1. s \in SubmitType /\ s.pc = "polled"
    BY <1>1, <1>2 DEF IInv, TypeOK
  <2>2. s.index \in Nat /\ s.entry \in Entry
    BY <2>1 DEF SubmitType, NoSubmit
  <2> QED BY <2>2, LenProperties DEF IInv, TypeOK, Entry
<1>4. Polled(n, s)'
  <2>1. CASE currentTerm[n] > s.entry.term
    BY <1>1, <1>2, <1>3, <2>1 DEF Polled, TermsGrow
  <2>2. CASE /\ role[n] = "Leader" /\ currentTerm[n] = s.entry.term
             /\ s.index <= Len(log[n]) /\ log[n][s.index] = s.entry
    BY <1>1, <1>2, <1>3, <2>2 DEF Polled, LeaderKeeps, Extends
  <2> QED BY <1>1, <1>2, <2>1, <2>2 DEF Polled
<1> QED BY <1>1, <1>2, <1>4 DEF Polled

LEMMA PollSubmission ==
    ASSUME IInv, IInv', PollInv, NEW n \in Node, SubmissionStep(n)
    PROVE  PollInv'
<1>1. LeaderKeeps /\ TermsGrow
  BY KeepsSubmission, SubmissionQuiet
<1>2. ASSUME NEW i \in 1..Len(log[n]), SubmitPoll(n, i)
      PROVE  PollInv'
  <2>1. log[n] \in Seq(Entry) /\ Len(log[n]) \in Nat
    BY LenProperties DEF IInv, TypeOK
  <2>2. UNCHANGED <<log, role, currentTerm>>
    BY <1>2 DEF SubmitPoll, replicaVars
  <2>3. ASSUME NEW v \in Node, submit'[v].pc = "polled"
        PROVE  Polled(v, submit[v])'
    <3>1. CASE v = n
      <4>1. submit'[n] = [pc |-> "polled", index |-> i, entry |-> log[n][i]]
        BY <1>2 DEF SubmitPoll, IInv, TypeOK
      <4>2. role[n] = "Leader" /\ log[n][i].term = currentTerm[n]
        BY <1>2 DEF SubmitPoll
      <4> QED BY <2>1, <2>2, <3>1, <4>1, <4>2 DEF Polled
    <3>2. CASE v # n
      <4>1. submit'[v] = submit[v]
        BY <1>2, <3>2 DEF SubmitPoll, IInv, TypeOK
      <4> QED BY <2>2, <2>3, <4>1 DEF PollInv, Polled
    <3> QED BY <3>1, <3>2
  <2> QED BY <2>3 DEF PollInv
<1>3. CASE \/ \E c \in Command : SubmitCheck(n, c)
           \/ AppendCommand(n)
           \/ SubmitDecide(n)
  <2>1. \/ UNCHANGED submit
        \/ submit' = [submit EXCEPT ![n] = NoSubmit]
        \/ \E e : submit' = [submit EXCEPT ![n] = [pc |-> "checked", entry |-> e]]
    BY <1>3 DEF SubmitCheck, AppendCommand, SubmitDecide
  <2>2. submit'[n] = submit[n] \/ submit'[n].pc # "polled"
    BY <2>1 DEF NoSubmit, IInv, TypeOK
  <2>3. \A v \in Node : v # n => submit'[v] = submit[v]
    BY <2>1 DEF IInv, TypeOK
  <2> QED BY <1>1, <2>2, <2>3, PollKept
<1> QED BY <1>2, <1>3 DEF SubmissionStep, AwaitStep

\* An answer once given stays true: the index is committed.
LEMMA AckKept ==
    ASSUME IInv, IInv', AckInv, PrefixKept, TermsGrow, acked' = acked
    PROVE  AckInv'
<1> SUFFICES ASSUME NEW a \in acked
             PROVE  /\ a.index <= commitIndex'[a.node]
                    /\ \/ log'[a.node][a.index] = a.entry
                       \/ currentTerm'[a.node] > a.entry.term
                    /\ a.index # 0
  BY DEF AckInv, AcknowledgedOrReplaced
<1>1. /\ a.node \in Node /\ a.index \in Nat /\ a.entry.term \in Nat
      /\ commitIndex[a.node] \in Nat /\ commitIndex'[a.node] \in Nat
      /\ currentTerm[a.node] \in Nat /\ currentTerm'[a.node] \in Nat
  BY DEF IInv, TypeOK, Entry
<1>2. /\ a.index <= commitIndex[a.node] /\ a.index # 0
      /\ log[a.node][a.index] = a.entry \/ currentTerm[a.node] > a.entry.term
  BY DEF AckInv, AcknowledgedOrReplaced
<1>3. commitIndex[a.node] <= commitIndex'[a.node] /\ currentTerm[a.node] <= currentTerm'[a.node]
  BY <1>1 DEF PrefixKept, TermsGrow
<1>4. log'[a.node][a.index] = log[a.node][a.index]
  BY <1>1, <1>2 DEF PrefixKept
<1> QED BY <1>1, <1>2, <1>3, <1>4

LEMMA AckDecide ==
    ASSUME IInv, IInv', AckInv, PollInv, NEW n \in Node, SubmitDecide(n)
    PROVE  AckInv'
<1> DEFINE s == submit[n]
           b == [node |-> n, index |-> s.index, entry |-> s.entry]
<1>1. s.pc = "polled" /\ UNCHANGED <<log, commitIndex, currentTerm>>
  BY DEF SubmitDecide, replicaVars
<1>2. Polled(n, s)
  BY <1>1 DEF PollInv
<1>3. ASSUME commitIndex[n] >= s.index
      PROVE  /\ b.index <= commitIndex[b.node] /\ b.index # 0
             /\ \/ log[b.node][b.index] = b.entry
                \/ currentTerm[b.node] > b.entry.term
  <2>1. s.index \in Nat /\ s.entry.term \in Nat /\ commitIndex[n] \in Nat
    <3>1. s \in SubmitType
      BY DEF IInv, TypeOK
    <3>2. s.index \in Nat /\ s.entry \in Entry
      BY <1>1, <3>1 DEF SubmitType, NoSubmit
    <3> QED BY <3>2 DEF Entry, IInv, TypeOK
  <2> QED BY <1>2, <1>3, <2>1 DEF Polled
<1>4. \A a \in acked' : a \in acked \/ (a = b /\ commitIndex[n] >= s.index)
  BY DEF SubmitDecide
<1> HIDE DEF b, s
<1> QED BY <1>1, <1>3, <1>4 DEF AckInv, AcknowledgedOrReplaced

\* Calls and handlers leave the submissions alone; a crash ends them.
SubmitsKept ==
    /\ acked' = acked
    /\ \A n \in Node : submit'[n] = submit[n] \/ submit'[n] = NoSubmit

AnswerInv == PollInv /\ AckInv

LEMMA AnswerKept ==
    ASSUME IInv, IInv', AnswerInv, PrefixKept, LeaderKeeps, TermsGrow, SubmitsKept
    PROVE  AnswerInv'
BY PollKept, AckKept DEF AnswerInv, SubmitsKept, NoSubmit

LEMMA AnswerSubmission ==
    ASSUME IInv, IInv', AnswerInv, PrefixKept, NEW n \in Node, SubmissionStep(n)
    PROVE  AnswerInv'
<1>1. PollInv'
  BY PollSubmission DEF AnswerInv
<1>2. CASE SubmitDecide(n)
  BY <1>1, <1>2, AckDecide DEF AnswerInv
<1>3. CASE ~SubmitDecide(n)
  <2>1. acked' = acked
    BY <1>3 DEF SubmissionStep, SubmitCheck, AppendCommand, AwaitStep, SubmitPoll, history
  <2> QED BY <1>1, <2>1, SubmissionQuiet, AckKept DEF AnswerInv
<1> QED BY <1>2, <1>3

LEMMA AnswerCalls ==
    ASSUME IInv, IInv', AnswerInv, PrefixKept,
           UNCHANGED <<currentTerm, role, log, submit, acked>>
    PROVE  AnswerInv'
<1>1. TermsGrow /\ SubmitsKept
  BY DEF TermsGrow, SubmitsKept, IInv, TypeOK
<1> QED BY <1>1, KeepsUnchanged, AnswerKept

LEMMA AnswerNext ==
    ASSUME IInv, IInv', OwnerInv, PrefixKept, AnswerInv, [Next]_vars
    PROVE  AnswerInv'
<1>1. ASSUME NEW n \in Node, NEW Q \in Quorum, Elect(n, Q)
      PROVE  AnswerInv'
  <2>1. SubmitsKept /\ TermsGrow
    BY <1>1, ElectTerms DEF Elect, SubmitsKept, callVars, history
  <2> QED BY <1>1, <2>1, KeepsElect, AnswerKept
<1>2. ASSUME NEW n \in Node,
             \/ \E S \in SUBSET Peers(n) : StartRound(n, S)
             \/ RoundStep(n)
      PROVE  AnswerInv'
  <2>1. UNCHANGED <<currentTerm, role, log, submit, acked>>
    BY <1>2 DEF StartRound, RoundStep, ReadLog, ReadEntries, SendAppendEntries, FinishRound,
                replicaVars, history
  <2> QED BY <2>1, AnswerCalls
<1>3. ASSUME NEW n \in Node, Restart(n)
      PROVE  AnswerInv'
  <2>1. SubmitsKept
    BY <1>3 DEF Restart, LoseVolatile, SubmitsKept, IInv, TypeOK
  <2> QED BY <1>3, <2>1, KeepsRestart, RestartCalls, AnswerKept
<1>4. ASSUME NEW m \in net, NEW answered \in BOOLEAN, HandleAppendEntries(m, answered)
      PROVE  AnswerInv'
  <2>1. SubmitsKept
    BY <1>4 DEF HandleAppendEntries, SubmitsKept, history
  <2> QED BY <1>4, <2>1, OneSender, KeepsHandle, HandleCalls, AnswerKept
<1>5. ASSUME NEW m \in net, CrashInAppendEntries(m)
      PROVE  AnswerInv'
  <2>1. m.to \in Node
    BY DEF IInv, TypeOK, MessageType
  <2>2. SubmitsKept
    BY <1>5, <2>1 DEF CrashInAppendEntries, LoseVolatile, SubmitsKept, IInv, TypeOK
  <2> QED BY <1>5, <2>2, KeepsCrash, CrashCalls, AnswerKept
<1>6. ASSUME NEW m \in net, LoseRequest(m)
      PROVE  AnswerInv'
  BY <1>6, AnswerCalls DEF LoseRequest, replicaVars, callVars, history
<1>7. CASE UNCHANGED vars
  BY <1>7, AnswerCalls DEF vars, replicaVars, callVars, history
<1>8. ASSUME NEW n \in Node, SubmissionStep(n)
      PROVE  AnswerInv'
  BY <1>8, AnswerSubmission
<1> QED
  BY <1>1, <1>2, <1>3, <1>4, <1>5, <1>6, <1>7, <1>8
     DEF Next, ReplicationNext, NodeStep, RequestStep, SubmissionStep

\* An answer Committed is about a committed index, and about the submitted
\* entry unless the node was deposed after its second role test, in whatever
\* windows of the calls other code runs.
THEOREM AnswersAreCommitted == Spec => []AcknowledgedOrReplaced
<1> DEFINE Inv == IInv /\ OwnerInv /\ AnswerInv
<1>1. Init => Inv
  BY InitIInv, InitOwners DEF Init, AnswerInv, PollInv, AckInv, AcknowledgedOrReplaced, NoSubmit
<1>2. Inv /\ [Next]_vars => Inv'
  BY NextStep, OwnersNext, AnswerNext
<1>3. Inv => AcknowledgedOrReplaced
  BY DEF AnswerInv, AckInv
<1> QED
  BY <1>1, <1>2, <1>3, PTL DEF Spec

-----------------------------------------------------------------------------
(* The logs.  E[t] is the log of the leader of term t, as far as it has     *)
(* got: a possible history, for the terms D that have had a leader.        *)

\* k and l are the same up to the index i.
Agree(k, l, i) == i <= Len(k) /\ i <= Len(l) /\ \A j \in 1..i : k[j] = l[j]

\* Up to each of its entries, l is the log of the leader that made the entry.
Backed(l, D, E) ==
    \A i \in 1..Len(l) : l[i].term \in D /\ Agree(l, E[l[i].term], i)

\* The terms in a leader's log do not decrease, and end with its own at most.
Ordered(l, t) ==
    \A i \in 1..Len(l) : l[i].term <= t /\ \A j \in 1..i : l[j].term <= l[i].term

\* A request or a draft is a piece of the log l.
SegmentOf(m, l) ==
    /\ m.prev + Len(m.entries) <= Len(l)
    /\ m.prevTerm = TermAt(l, m.prev)
    /\ \A i \in 1..Len(m.entries) : l[m.prev + i] = m.entries[i]

Leading(n, t) == role[n] = "Leader" /\ currentTerm[n] = t

\* Others may run around a task's reads of the log, but not between them: the
\* term of the previous entry and the entries are of one log.
RequestsWhole == "replicate" \notin Preempt \/ "entries" \notin Preempt

\* It is a piece of some leader's log: of its own leader's, unless that was
\* deposed in the window between the snapshot and the reads.
Sourced(m, D, E) ==
    /\ m.term \in D
    /\ \E w \in D : SegmentOf(m, E[w])
    /\ "replicate" \notin Preempt \/ Leading(m.from, m.term) => SegmentOf(m, E[m.term])

RoundSourced(n, D, E) ==
    /\ \A d \in round[n].draft : Sourced(d, D, E)
    /\ round[n].term # 0 => round[n].term \in D
    /\ round[n].head = {}
    /\ "replicate" \notin Preempt => round[n].todo = {} /\ round[n].draft = {}

Logs(D, E) ==
    /\ \A t \in D : Reached(t) /\ Backed(E[t], D, E) /\ Ordered(E[t], t)
    /\ \A n \in Node :
         /\ Backed(log[n], D, E)
         /\ role[n] = "Leader" => currentTerm[n] \in D /\ log[n] = E[currentTerm[n]]
         /\ RoundSourced(n, D, E)
         /\ submit[n].pc # "checked"
    /\ \A m \in net : Sourced(m, D, E)

LEMMA AgreeTrans ==
    ASSUME NEW j, NEW k, NEW l, NEW i, Agree(j, k, i), Agree(l, k, i)
    PROVE  Agree(j, l, i)
BY DEF Agree

LEMMA AgreeLess ==
    ASSUME NEW k, NEW l, NEW i \in Nat, NEW h \in Nat, Len(k) \in Nat, Len(l) \in Nat,
           Agree(k, l, i), h <= i
    PROVE  Agree(k, l, h)
BY DEF Agree

\* Two such logs with the same term at an index are the same up to it.
LEMMA SameTerm ==
    ASSUME NEW D, NEW E, NEW k, NEW l, Backed(k, D, E), Backed(l, D, E),
           NEW i, i \in 1..Len(k), i \in 1..Len(l), k[i].term = l[i].term
    PROVE  Agree(k, l, i)
<1>1. Agree(k, E[k[i].term], i) /\ Agree(l, E[k[i].term], i)
  BY DEF Backed
<1> QED BY <1>1, AgreeTrans

LEMMA PrefixBacked ==
    ASSUME NEW D, NEW E, NEW k, NEW l, Backed(l, D, E), Len(k) \in Nat, Len(l) \in Nat,
           \A t \in D : Len(E[t]) \in Nat,
           Len(k) <= Len(l), \A j \in 1..Len(k) : k[j] = l[j]
    PROVE  Backed(k, D, E)
<1> SUFFICES ASSUME NEW i \in 1..Len(k)
             PROVE  k[i].term \in D /\ Agree(k, E[k[i].term], i)
  BY DEF Backed
<1>1. i \in 1..Len(l) /\ k[i] = l[i]
  OBVIOUS
<1>2. k[i].term \in D /\ Agree(l, E[k[i].term], i)
  BY <1>1 DEF Backed
<1>3. \A j \in 1..i : j \in 1..Len(k)
  OBVIOUS
<1>4. Agree(k, E[k[i].term], i)
  BY <1>1, <1>2, <1>3 DEF Agree
<1> QED BY <1>2, <1>4

\* A request that TryAppendEntries accepts makes the log the same as the one
\* the request is a piece of, up to its last entry.
LEMMA Accepted ==
    ASSUME NEW D, NEW E, NEW l \in Seq(Entry), NEW k \in Seq(Entry), NEW m \in MessageType,
           NEW c, Backed(l, D, E), Backed(k, D, E), LogMatches(l, m, c), SegmentOf(m, k)
    PROVE  /\ Agree(AppendedLog(l, m), k, m.prev + Len(m.entries))
           /\ Agree(l, k, m.prev)
<1> DEFINE p == m.prev
           q == Len(m.entries)
           new == AppendedLog(l, m)
<1>1. p \in Nat /\ q \in Nat /\ Len(l) \in Nat /\ Len(k) \in Nat
  BY LenProperties DEF MessageType
<1>2. /\ p <= Len(l) /\ p + q <= Len(k)
      /\ TermAt(l, p) = TermAt(k, p)
      /\ \A i \in 1..q : k[p + i] = m.entries[i]
  BY DEF LogMatches, SegmentOf
<1>3. Agree(l, k, p)
  <2>1. CASE p = 0
    BY <1>1, <2>1 DEF Agree
  <2>2. CASE p # 0
    <3>1. p \in 1..Len(l) /\ p \in 1..Len(k)
      BY <1>1, <1>2, <2>2
    <3>2. l[p].term = k[p].term
      BY <1>2, <2>2 DEF TermAt
    <3> QED BY <3>1, <3>2, SameTerm
  <2> QED BY <2>1, <2>2
<1>4. \A j \in 1..(p + q) : j \in 1..p \/ (j - p \in 1..q /\ p + (j - p) = j)
  BY <1>1
<1>5. CASE HasEntries(l, m)
  <2>1. new = l
    BY <1>2, <1>5, AppendedLogShape
  <2>2. \A i \in 1..q : p + i <= Len(l) /\ l[p + i] = m.entries[i]
    BY <1>5 DEF HasEntries, Differs
  <2>3. p + q <= Len(l)
    <3>1. CASE q = 0
      BY <1>1, <1>2, <3>1
    <3>2. CASE q # 0
      BY <1>1, <2>2, <3>2
    <3> QED BY <3>1, <3>2
  <2>4. \A j \in 1..(p + q) : l[j] = k[j]
    <3> SUFFICES ASSUME NEW j \in 1..(p + q) PROVE l[j] = k[j]
      OBVIOUS
    <3>1. CASE j \in 1..p
      BY <1>3, <3>1 DEF Agree
    <3>2. CASE j - p \in 1..q /\ p + (j - p) = j
      BY <1>2, <2>2, <3>2
    <3> QED BY <1>4, <3>1, <3>2
  <2> QED BY <1>1, <1>2, <1>3, <2>1, <2>3, <2>4 DEF Agree
<1>6. CASE ~HasEntries(l, m)
  <2>1. /\ Len(new) = p + q
        /\ \A i \in 1..p : new[i] = l[i]
        /\ \A i \in 1..q : new[p + i] = m.entries[i]
    BY <1>2, <1>6, AppendedLogShape
  <2>2. \A j \in 1..(p + q) : new[j] = k[j]
    <3> SUFFICES ASSUME NEW j \in 1..(p + q) PROVE new[j] = k[j]
      OBVIOUS
    <3>1. CASE j \in 1..p
      BY <1>3, <2>1, <3>1 DEF Agree
    <3>2. CASE j - p \in 1..q /\ p + (j - p) = j
      BY <1>2, <2>1, <3>2
    <3> QED BY <1>4, <3>1, <3>2
  <2> QED BY <1>1, <1>2, <1>3, <2>1, <2>2 DEF Agree
<1> QED BY <1>5, <1>6

\* So the new log is made of entries of leaders, too.
LEMMA AcceptedBacked ==
    ASSUME NEW D, NEW E, \A t \in D : Len(E[t]) \in Nat,
           NEW l \in Seq(Entry), NEW k \in Seq(Entry), NEW m \in MessageType,
           NEW c, Backed(l, D, E), Backed(k, D, E), LogMatches(l, m, c), SegmentOf(m, k)
    PROVE  Backed(AppendedLog(l, m), D, E)
<1> DEFINE new == AppendedLog(l, m)
<1>1. m.prev <= Len(l) /\ m.prev + Len(m.entries) <= Len(k)
  BY DEF LogMatches, SegmentOf
<1>2. CASE HasEntries(l, m)
  BY <1>1, <1>2, AppendedLogShape
<1>3. CASE ~HasEntries(l, m)
  <2>1. Len(new) = m.prev + Len(m.entries) /\ new \in Seq(Entry)
    BY <1>1, <1>3, AppendedLogShape
  <2>2. Agree(new, k, Len(new))
    BY <2>1, Accepted
  <2>3. Len(new) \in Nat /\ Len(k) \in Nat
    BY <2>1, LenProperties
  <2> HIDE DEF new
  <2> QED BY <2>2, <2>3, PrefixBacked DEF Agree, new
<1> QED BY <1>2, <1>3

\* The leaders a step leaves are leaders it found, with the same log.
LeadersFixed ==
    \A n \in Node : role'[n] = "Leader" =>
        role[n] = "Leader" /\ currentTerm'[n] = currentTerm[n] /\ log'[n] = log[n]

LEMMA SourcedKept ==
    ASSUME NoNewLeader, NEW D, NEW E, NEW k, NEW m, m.from \in Node,
           k.term = m.term /\ k.from = m.from /\ k.prev = m.prev,
           k.prevTerm = m.prevTerm /\ k.entries = m.entries,
           Sourced(m, D, E)
    PROVE  Sourced(k, D, E)'
BY DEF Sourced, SegmentOf, Leading, NoNewLeader

LEMMA LogsKept ==
    ASSUME IInv, IInv', CallsShrink, TermsGrow, LeadersFixed,
           NEW D \in SUBSET (Nat \ {0}), NEW E \in [D -> Seq(Entry)], Logs(D, E),
           \A n \in Node : Backed(log'[n], D, E),
           \A n \in Node : submit'[n].pc # "checked"
    PROVE  Logs(D, E)'
<1>0. NoNewLeader
  BY DEF LeadersFixed, NoNewLeader
<1>1. ASSUME NEW t \in D
      PROVE  Reached(t)' /\ Backed(E[t], D, E) /\ Ordered(E[t], t)
  BY ReachedStays DEF Logs, IInv
<1>2. ASSUME NEW n \in Node
      PROVE  role'[n] = "Leader" => currentTerm'[n] \in D /\ log'[n] = E[currentTerm'[n]]
  BY DEF Logs, LeadersFixed
<1>3. ASSUME NEW n \in Node
      PROVE  RoundSourced(n, D, E)'
  <2>1. CASE round'[n] = round[n]
    <3>1. \A d \in round[n].draft : d.from \in Node
      BY DEF IInv, TypeOK, RoundType, DraftType
    <3>2. \A d \in round[n].draft : Sourced(d, D, E)'
      BY <1>0, <3>1, SourcedKept DEF Logs, RoundSourced
    <3> QED BY <2>1, <3>2 DEF Logs, RoundSourced
  <2>2. CASE round'[n] = NoRound
    BY <2>2 DEF RoundSourced, NoRound
  <2> QED BY <2>1, <2>2 DEF CallsShrink
<1>4. ASSUME NEW k \in net'
      PROVE  Sourced(k, D, E)'
  <2>1. PICK m \in net : SameRequest(k, m)
    BY DEF CallsShrink
  <2>2. m.from \in Node
    BY DEF IInv, TypeOK, MessageType
  <2> QED BY <1>0, <2>1, <2>2, SourcedKept DEF Logs, SameRequest
<1> QED BY <1>1, <1>2, <1>3, <1>4 DEF Logs

\* Steps that leave the logs alone.
LEMMA LogsQuiet ==
    ASSUME IInv, IInv', CallsShrink, TermsGrow, NoNewLeader, UNCHANGED log,
           NEW D \in SUBSET (Nat \ {0}), NEW E \in [D -> Seq(Entry)], Logs(D, E),
           \A n \in Node : submit'[n].pc # "checked"
    PROVE  Logs(D, E)'
<1>1. LeadersFixed
  BY DEF LeadersFixed, NoNewLeader
<1>2. \A n \in Node : Backed(log'[n], D, E)
  BY DEF Logs
<1> QED BY <1>1, <1>2, LogsKept

\* A follower copies from the request.
LEMMA LogsHandle ==
    ASSUME IInv, IInv', OwnerInv, NEW m \in net, NEW answered \in BOOLEAN,
           HandleAppendEntries(m, answered),
           NEW D \in SUBSET (Nat \ {0}), NEW E \in [D -> Seq(Entry)], Logs(D, E)
    PROVE  Logs(D, E)'
<1>1. /\ m.to # m.from /\ m.to \in Node /\ m \in MessageType
      /\ log \in [Node -> Seq(Entry)] /\ log[m.to] \in Seq(Entry)
      /\ \A t \in D : Len(E[t]) \in Nat
      /\ m.term \in Nat /\ currentTerm[m.to] \in Nat
  BY OneSender, LenProperties DEF IInv, TypeOK, MessageType
<1>2. CallsShrink /\ TermsGrow /\ NoNewLeader
  BY <1>1, HandleCalls
<1>3. log' = [log EXCEPT ![m.to] = IF ReplySuccess(m) THEN AppendedLog(log[m.to], m) ELSE log[m.to]]
  BY DEF HandleAppendEntries
<1>4. LeadersFixed
  <2> SUFFICES ASSUME NEW v \in Node, role'[v] = "Leader"
               PROVE  log'[v] = log[v]
    BY <1>2 DEF LeadersFixed, NoNewLeader
  <2>1. CASE v # m.to
    BY <1>1, <1>3, <2>1
  <2>2. CASE v = m.to
    <3>1. ~(m.term >= currentTerm[v])
      BY <1>1, <2>2, HandleCalls
    <3> QED BY <1>1, <1>3, <2>2, <3>1 DEF ReplySuccess
  <2> QED BY <2>1, <2>2
<1>5. ReplySuccess(m) => Backed(AppendedLog(log[m.to], m), D, E)
  <2> SUFFICES ASSUME ReplySuccess(m) PROVE Backed(AppendedLog(log[m.to], m), D, E)
    OBVIOUS
  <2>1. PICK w \in D : SegmentOf(m, E[w])
    BY DEF Logs, Sourced
  <2>2. /\ E[w] \in Seq(Entry) /\ Backed(E[w], D, E) /\ Backed(log[m.to], D, E)
        /\ LogMatches(log[m.to], m, commitIndex[m.to])
    BY <1>1 DEF Logs, ReplySuccess
  <2> QED BY <1>1, <2>1, <2>2, AcceptedBacked
<1>6. \A v \in Node : Backed(log'[v], D, E)
  BY <1>1, <1>3, <1>5 DEF Logs
<1>7. \A v \in Node : submit'[v].pc # "checked"
  BY DEF HandleAppendEntries, Logs
<1> QED BY <1>2, <1>4, <1>6, <1>7, LogsKept

\* A crash cuts the copy short.
LEMMA LogsCrash ==
    ASSUME IInv, IInv', NEW m \in net, CrashInAppendEntries(m),
           NEW D \in SUBSET (Nat \ {0}), NEW E \in [D -> Seq(Entry)], Logs(D, E)
    PROVE  Logs(D, E)'
<1> DEFINE n == m.to
           new == AppendedLog(log[n], m)
<1>1. /\ n \in Node /\ m \in MessageType /\ m.prev \in Nat
      /\ log \in [Node -> Seq(Entry)] /\ log[n] \in Seq(Entry)
      /\ \A t \in D : Len(E[t]) \in Nat
  BY LenProperties DEF IInv, TypeOK, MessageType
<1>2. CallsShrink /\ TermsGrow /\ NoNewLeader
  BY CrashCalls
<1>3. LogMatches(log[n], m, commitIndex[n]) /\ role'[n] = "Follower" /\ submit'[n] = NoSubmit
      /\ \A v \in Node \ {n} : submit'[v] = submit[v]
  BY <1>1 DEF CrashInAppendEntries, ReplySuccess, LoseVolatile, IInv, TypeOK
<1>4. PICK k \in m.prev..Len(new) : log' = [log EXCEPT ![n] = SubSeq(new, 1, k)]
  BY DEF CrashInAppendEntries
<1>5. Backed(new, D, E) /\ new \in Seq(Entry) /\ Len(new) \in Nat
  <2>1. PICK w \in D : SegmentOf(m, E[w])
    BY DEF Logs, Sourced
  <2>2. E[w] \in Seq(Entry) /\ Backed(E[w], D, E) /\ Backed(log[n], D, E)
    BY <1>1 DEF Logs
  <2>3. new \in Seq(Entry)
    BY <1>1, <1>3, AppendedLogShape DEF LogMatches
  <2> QED BY <1>1, <1>3, <2>1, <2>2, <2>3, AcceptedBacked, LenProperties
<1> HIDE DEF new, n
<1> DEFINE cut == SubSeq(new, 1, k)
<1>6. Len(cut) = k /\ k \in Nat /\ k <= Len(new) /\ \A j \in 1..k : cut[j] = new[j]
  <2>1. k \in Nat /\ k <= Len(new)
    BY <1>1, <1>5
  <2>2. \A j \in 1..k : new[j] \in Entry
    BY <1>5, <2>1, ElementOfSeq
  <2> QED BY <1>5, <2>1, <2>2, SubSeqProperties, Z3
<1> HIDE DEF cut
<1>7. Backed(cut, D, E)
  BY <1>1, <1>5, <1>6, PrefixBacked
<1>8. \A v \in Node : log'[v] = IF v = n THEN cut ELSE log[v]
  BY <1>1, <1>4 DEF cut
<1>9. \A v \in Node : Backed(log'[v], D, E)
  BY <1>7, <1>8 DEF Logs
<1>10. LeadersFixed
  BY <1>2, <1>3, <1>8 DEF LeadersFixed, NoNewLeader
<1>11. \A v \in Node : submit'[v].pc # "checked"
  BY <1>3 DEF Logs, NoSubmit
<1> QED BY <1>2, <1>9, <1>10, <1>11, LogsKept

\* When leaders' logs grow, or there is a new leader, the old pieces stay.
Wider(D2, E2, D, E) == D \subseteq D2 /\ \A t \in D : Extends(E2[t], E[t])

LEMMA BackedWider ==
    ASSUME NEW D, NEW E, NEW D2, NEW E2, NEW l, Len(l) \in Nat,
           \A t \in D : Len(E[t]) \in Nat /\ Len(E2[t]) \in Nat,
           Wider(D2, E2, D, E), Backed(l, D, E)
    PROVE  Backed(l, D2, E2)
<1> SUFFICES ASSUME NEW i \in 1..Len(l)
             PROVE  l[i].term \in D2 /\ Agree(l, E2[l[i].term], i)
  BY DEF Backed
<1>1. PICK t \in D : t = l[i].term /\ Agree(l, E[t], i)
  BY DEF Backed
<1>2. Extends(E2[t], E[t]) /\ t \in D2
  BY DEF Wider
<1>3. Agree(l, E2[t], i)
  BY <1>1, <1>2 DEF Agree, Extends
<1> QED BY <1>1, <1>2, <1>3

LEMMA SegmentWider ==
    ASSUME NEW k, NEW l, Len(k) \in Nat, Len(l) \in Nat, Extends(k, l),
           NEW m, m.prev \in Nat, Len(m.entries) \in Nat, SegmentOf(m, l)
    PROVE  SegmentOf(m, k)
<1>1. m.prev + Len(m.entries) <= Len(k) /\ m.prev <= Len(l)
  BY DEF Extends, SegmentOf
<1>2. TermAt(k, m.prev) = TermAt(l, m.prev)
  <2>1. CASE m.prev = 0
    BY <2>1 DEF TermAt
  <2>2. CASE m.prev # 0
    BY <1>1, <2>2 DEF TermAt, Extends
  <2> QED BY <2>1, <2>2
<1>3. ASSUME NEW i \in 1..Len(m.entries)
      PROVE  k[m.prev + i] = m.entries[i]
  <2>1. m.prev + i \in 1..Len(l)
    BY DEF SegmentOf
  <2>2. k[m.prev + i] = l[m.prev + i]
    BY <2>1 DEF Extends
  <2> QED BY <2>2 DEF SegmentOf
<1> QED BY <1>1, <1>2, <1>3 DEF SegmentOf

LEMMA SourcedWider ==
    ASSUME NEW D, NEW E, NEW D2, NEW E2,
           \A t \in D : Len(E[t]) \in Nat /\ Len(E2[t]) \in Nat,
           Wider(D2, E2, D, E),
           NEW m, m.prev \in Nat, Len(m.entries) \in Nat, Sourced(m, D, E),
           Leading(m.from, m.term)' => Leading(m.from, m.term)
    PROVE  Sourced(m, D2, E2)'
<1>1. m.term \in D2 /\ m.term \in D
  BY DEF Sourced, Wider
<1>2. \A w \in D : SegmentOf(m, E[w]) => w \in D2 /\ SegmentOf(m, E2[w])
  BY SegmentWider DEF Wider
<1>3. \E w \in D2 : SegmentOf(m, E2[w])
  BY <1>2 DEF Sourced
<1>4. ASSUME "replicate" \notin Preempt \/ Leading(m.from, m.term)'
      PROVE  SegmentOf(m, E2[m.term])
  BY <1>1, <1>2, <1>4 DEF Sourced
<1> QED BY <1>1, <1>3, <1>4 DEF Sourced

\* The terms in any log do not decrease.
LEMMA TermsOrdered ==
    ASSUME NEW D \in SUBSET Nat, NEW E \in [D -> Seq(Entry)],
           \A t \in D : Ordered(E[t], t), NEW l \in Seq(Entry), Backed(l, D, E)
    PROVE  \A i \in 1..Len(l) : \A j \in 1..i : l[j].term <= l[i].term
<1> SUFFICES ASSUME NEW i \in 1..Len(l), NEW j \in 1..i
             PROVE  l[j].term <= l[i].term
  OBVIOUS
<1>0. Len(l) \in Nat
  BY LenProperties
<1>1. PICK t \in D : t = l[i].term /\ Agree(l, E[t], i)
  BY DEF Backed
<1>2. i \in 1..Len(E[t]) /\ l[i] = E[t][i] /\ l[j] = E[t][j]
  BY <1>0, <1>1 DEF Agree
<1> QED BY <1>1, <1>2 DEF Ordered

LEMMA DraftTypes ==
    ASSUME IInv, NEW n \in Node, NEW d \in round[n].draft
    PROVE  /\ d \in DraftType /\ d.from \in Node /\ d.prev \in Nat
           /\ Len(d.entries) \in Nat
<1>1. round[n] \in RoundType
  BY DEF IInv, TypeOK
<1>2. d \in DraftType
  BY <1>1 DEF RoundType
<1>3. d.from \in Node /\ d.prev \in Nat /\ d.entries \in Seq(Entry)
  BY <1>2 DEF DraftType
<1> QED BY <1>2, <1>3, LenProperties

\* The leaders' logs when l becomes the one of term T, and when the leader of
\* the term of e appends it.
WithTerm(D, T) == D \cup {T}
Elected(D, E, T, l) == [t \in D \cup {T} |-> IF t = T THEN l ELSE E[t]]
Grown(E, e) == [E EXCEPT ![e.term] = Append(@, e)]

\* The voters come into term T, the first that late.
Wins(Q, T) ==
    /\ currentTerm' = [v \in Node |-> IF v \in Q THEN T ELSE currentTerm[v]]
    /\ \A t \in Nat : Reached(t) => t < T

\* The new leader's log is one of the logs there were.
LEMMA LogsElect ==
    ASSUME IInv, IInv', NEW n \in Node, NEW Q \in Quorum, Elect(n, Q),
           NEW D \in SUBSET (Nat \ {0}), NEW E \in [D -> Seq(Entry)], Logs(D, E),
           NEW T \in Nat \ {0}, TermsGrow,
           Wins(Q, T),
           NEW D2, D2 = WithTerm(D, T),
           NEW E2, E2 = Elected(D, E, T, log[n])
    PROVE  /\ D2 \in SUBSET (Nat \ {0}) /\ E2 \in [D2 -> Seq(Entry)]
           /\ Wider(D2, E2, D, E) /\ T \notin D
           /\ Logs(D2, E2)'
<1> USE DEF Wins
<1>0. Reached(T)'
  <2>1. \A v \in Q : v \in Node /\ T <= currentTerm'[v]
    BY DEF Quorum
  <2> QED BY <2>1 DEF Reached
<1>1. /\ log \in [Node -> Seq(Entry)]
      /\ \A v \in Node : Len(log[v]) \in Nat
      /\ \A t \in D : Len(E[t]) \in Nat
  BY LenProperties DEF IInv, TypeOK
<1>2. T \notin D
  BY DEF Logs
<1>3. /\ D2 \in SUBSET (Nat \ {0}) /\ E2 \in [D2 -> Seq(Entry)]
      /\ T \in D2 /\ E2[T] = log[n]
      /\ \A t \in D : t \in D2 /\ E2[t] = E[t]
  BY <1>1, <1>2 DEF Elected, WithTerm
<1>4. Wider(D2, E2, D, E)
  BY <1>1, <1>3, ExtendsSelf DEF Wider
<1>5. UNCHANGED <<log, round, submit, net>>
  BY DEF Elect, callVars
<1>6. \A l : Len(l) \in Nat /\ Backed(l, D, E) => Backed(l, D2, E2)
  BY <1>1, <1>3, <1>4, BackedWider
<1>7. \A v \in Node : Backed(log'[v], D2, E2)
  BY <1>1, <1>5, <1>6 DEF Logs
<1>8. Ordered(log[n], T)
  <2>1. \A i \in 1..Len(log[n]) : \A j \in 1..i : log[n][j].term <= log[n][i].term
    BY <1>1, TermsOrdered DEF Logs
  <2>2. \A i \in 1..Len(log[n]) : log[n][i].term \in D
    BY DEF Logs, Backed
  <2>3. \A t \in D : t <= T
    BY DEF Logs
  <2> QED BY <2>1, <2>2, <2>3 DEF Ordered
<1>9. ASSUME NEW t \in D2
      PROVE  Reached(t)' /\ Backed(E2[t], D2, E2) /\ Ordered(E2[t], t)
  <2>1. CASE t = T
    BY <1>0, <1>1, <1>3, <1>6, <1>8, <2>1 DEF Logs
  <2>2. CASE t \in D
    BY <1>1, <1>3, <1>6, <2>2, ReachedStays DEF Logs, IInv
  <2> QED BY <2>1, <2>2 DEF WithTerm
<1>10. \A v \in Node : role'[v] = "Leader" =>
                          \/ v = n
                          \/ role[v] = "Leader" /\ currentTerm'[v] = currentTerm[v]
  BY DEF Elect
<1>11. n \in Q /\ currentTerm'[n] = T
  BY DEF Elect
<1>12. ASSUME NEW v \in Node, role'[v] = "Leader"
       PROVE  currentTerm'[v] \in D2 /\ log'[v] = E2[currentTerm'[v]]
  <2>1. CASE v = n
    BY <1>3, <1>5, <1>11, <2>1
  <2>2. CASE v # n
    <3>1. role[v] = "Leader" /\ currentTerm'[v] = currentTerm[v]
      BY <1>10, <1>12, <2>2
    <3>2. currentTerm[v] \in D /\ log[v] = E[currentTerm[v]]
      BY <3>1 DEF Logs
    <3> QED BY <1>3, <1>5, <3>1, <3>2
  <2> QED BY <2>1, <2>2
<1>13. ASSUME NEW m, m.from \in Node, m.prev \in Nat, Len(m.entries) \in Nat, Sourced(m, D, E)
       PROVE  Sourced(m, D2, E2)'
  <2>1. m.term \in D /\ m.term # T
    BY <1>2, <1>13 DEF Sourced
  <2>2. Leading(m.from, m.term)' => Leading(m.from, m.term)
    BY <1>10, <1>11, <1>13, <2>1 DEF Leading
  <2> QED BY <1>1, <1>3, <1>4, <1>13, <2>2, SourcedWider
<1>14. ASSUME NEW v \in Node
       PROVE  RoundSourced(v, D2, E2)'
  <2>1. \A d \in round[v].draft : d.from \in Node /\ d.prev \in Nat /\ Len(d.entries) \in Nat
    BY DraftTypes
  <2>2. \A d \in round[v].draft : Sourced(d, D2, E2)'
    BY <1>13, <2>1 DEF Logs, RoundSourced
  <2> QED BY <1>3, <1>5, <2>2 DEF Logs, RoundSourced
<1>15. ASSUME NEW m \in net'
       PROVE  Sourced(m, D2, E2)'
  <2>1. m \in net /\ m.from \in Node /\ m.prev \in Nat /\ Len(m.entries) \in Nat
    BY <1>5, LenProperties DEF IInv, TypeOK, MessageType
  <2> QED BY <1>13, <2>1 DEF Logs
<1>16. Logs(D2, E2)'
  BY <1>5, <1>7, <1>9, <1>12, <1>14, <1>15 DEF Logs
<1> QED BY <1>2, <1>3, <1>4, <1>16

\* What a round reads is a piece of its node's log, up to the end.
LEMMA DraftSegment ==
    ASSUME IInv, NEW n \in Node, NEW p \in Node, NEW tr \in TrackerType, NEW t,
           Readable(n, p, tr)
    PROVE  LET d == Draft(n, p, tr, t)
           IN  /\ SegmentOf(d, log[n]) /\ d.term = t /\ d.from = n
               /\ d.prev + Len(d.entries) = Len(log[n])
<1> DEFINE l == log[n]
           prev == tr.next[p] - 1
           ent == SubSeq(l, prev + 1, Len(l))
<1>1. l \in Seq(Entry) /\ Len(l) \in Nat /\ prev \in Nat /\ prev <= Len(l)
  <2>1. l \in Seq(Entry)
    BY DEF IInv, TypeOK
  <2>2. Len(l) \in Nat
    BY <2>1, LenProperties
  <2>3. tr.next[p] \in Nat \ {0}
    BY DEF TrackerType
  <2>4. prev <= Len(l)
    BY DEF Readable
  <2> QED BY <2>1, <2>2, <2>3, <2>4
<1> HIDE DEF l, prev
<1>2. \A i \in (prev + 1)..Len(l) : l[i] \in Entry
  BY <1>1, ElementOfSeq
<1>3. /\ Len(ent) = Len(l) - prev
      /\ \A i \in 1..(Len(l) - prev) : ent[i] = l[prev + i]
  <2>1. /\ Len(ent) = IF prev + 1 <= Len(l) THEN Len(l) - (prev + 1) + 1 ELSE 0
        /\ \A i \in 1..(Len(l) - (prev + 1) + 1) : ent[i] = l[prev + 1 + i - 1]
    BY <1>1, <1>2, SubSeqProperties, Z3
  <2> QED BY <1>1, <2>1
<1> HIDE DEF ent
<1>4. Draft(n, p, tr, t) = [term |-> t, from |-> n, to |-> p,
                            prev |-> prev, prevTerm |-> TermAt(l, prev), entries |-> ent]
  BY DEF Draft, l, prev, ent
<1> DEFINE d == Draft(n, p, tr, t)
<1>5. /\ d.term = t /\ d.from = n /\ d.prev = prev /\ d.prevTerm = TermAt(l, prev)
      /\ d.entries = ent
  BY <1>4
<1> HIDE DEF d
<1>6. SegmentOf(d, l) /\ d.prev + Len(d.entries) = Len(l)
  BY <1>1, <1>3, <1>5 DEF SegmentOf
<1> QED BY <1>5, <1>6 DEF d, l

\* New requests and drafts are pieces of leaders' logs.
LEMMA LogsCalls ==
    ASSUME IInv, IInv', UNCHANGED <<currentTerm, role, log, submit>>,
           NEW D \in SUBSET (Nat \ {0}), NEW E \in [D -> Seq(Entry)], Logs(D, E),
           NEW n \in Node, \A v \in Node \ {n} : round'[v] = round[v],
           RoundSourced(n, D, E)',
           \A k \in net' : k \in net \/ Sourced(k, D, E)
    PROVE  Logs(D, E)'
<1>1. TermsGrow
  BY DEF TermsGrow, IInv, TypeOK
<1>2. \A t \in D : Reached(t)'
  BY <1>1, ReachedStays DEF Logs, IInv
<1>3. \A m : Sourced(m, D, E)' <=> Sourced(m, D, E)
  BY DEF Sourced, Leading
<1>4. \A v \in Node : RoundSourced(v, D, E)'
  BY <1>3 DEF Logs, RoundSourced
<1>5. \A k \in net' : Sourced(k, D, E)'
  BY <1>3 DEF Logs
<1> QED BY <1>2, <1>4, <1>5 DEF Logs

LEMMA LogsStartRound ==
    ASSUME IInv, IInv', NEW n \in Node, NEW S \in SUBSET Peers(n), StartRound(n, S),
           NEW D \in SUBSET (Nat \ {0}), NEW E \in [D -> Seq(Entry)], Logs(D, E)
    PROVE  Logs(D, E)'
<1> DEFINE t == currentTerm[n]
           tr == EnsureInitialized(tracker[n], t, Len(log[n]))
<1>1. /\ t \in D /\ log[n] = E[t] /\ tr \in TrackerType
  BY DEF StartRound, Logs, IInv, TypeOK
<1>2. /\ \A v \in Node \ {n} : round'[v] = round[v]
      /\ round'[n].term = t /\ round'[n].head = {} /\ round'[n].draft = {}
      /\ "replicate" \notin Preempt => round'[n].todo = {}
  BY DEF StartRound, IInv, TypeOK
<1>3. RoundSourced(n, D, E)'
  BY <1>1, <1>2 DEF RoundSourced
<1> HIDE DEF tr
<1>4. ASSUME NEW p \in S, Readable(n, p, tr)
      PROVE  Sourced(Request(Draft(n, p, tr, t), commitIndex[n]), D, E)
  <2> DEFINE d == Draft(n, p, tr, t)
             k == Request(d, commitIndex[n])
  <2>1. SegmentOf(d, log[n]) /\ d.term = t
    BY <1>1, <1>4, DraftSegment DEF Peers
  <2> HIDE DEF d
  <2>2. k.term = d.term /\ k.prev = d.prev /\ k.prevTerm = d.prevTerm /\ k.entries = d.entries
    BY DEF Request
  <2> HIDE DEF k
  <2>3. SegmentOf(k, E[t]) /\ k.term = t
    BY <1>1, <2>1, <2>2 DEF SegmentOf
  <2> QED BY <1>1, <2>3 DEF Sourced, d, k
<1>5. \A k \in net' : k \in net \/ Sourced(k, D, E)
  BY <1>4 DEF StartRound, tr
<1> QED BY <1>2, <1>3, <1>5, LogsCalls DEF StartRound, replicaVars

LEMMA LogsReadLog ==
    ASSUME IInv, IInv', OwnerInv, RequestsWhole, NEW n \in Node, NEW p \in Peers(n), ReadLog(n, p),
           NEW D \in SUBSET (Nat \ {0}), NEW E \in [D -> Seq(Entry)], Logs(D, E)
    PROVE  Logs(D, E)'
<1>0. PICK t, d : t = round[n].term /\ d = Draft(n, p, tracker[n], t)
  OBVIOUS
<1>1. t # 0 /\ t \in D /\ "replicate" \in Preempt /\ "entries" \notin Preempt
  <2>1. t # 0
    BY <1>0 DEF ReadLog, OwnerInv, Owners, RoundOwned
  <2> QED BY <1>0, <2>1 DEF ReadLog, Logs, RoundSourced, RequestsWhole
<1>2. /\ \A v \in Node \ {n} : round'[v] = round[v]
      /\ round'[n].term = t
      /\ round'[n].head = {}
      /\ round'[n].draft = IF Readable(n, p, tracker[n]) THEN {d} ELSE {}
  BY <1>0, <1>1 DEF ReadLog, IInv, TypeOK
<1>3. tracker[n] \in TrackerType /\ log[n] \in Seq(Entry) /\ Len(log[n]) \in Nat
      /\ \A w \in D : Len(E[w]) \in Nat
  BY LenProperties DEF IInv, TypeOK
<1>4. ASSUME Readable(n, p, tracker[n])
      PROVE  Sourced(d, D, E)'
  <2>1. /\ SegmentOf(d, log[n]) /\ d.term = t /\ d.from = n
        /\ d.prev \in Nat /\ Len(d.entries) \in Nat
    <3>1. d \in DraftType
      BY <1>0, <1>3, <1>4, DraftTyped DEF IInv, TypeOK, Peers, RoundType
    <3>2. d.prev \in Nat /\ Len(d.entries) \in Nat
      BY <3>1, LenProperties DEF DraftType
    <3> QED BY <1>0, <1>3, <1>4, <3>2, DraftSegment DEF Peers
  <2>2. \E w \in D : SegmentOf(d, E[w])
    <3>1. CASE Len(log[n]) = 0
      <4>1. d.prev = 0 /\ Len(d.entries) = 0 /\ d.prevTerm = 0
        BY <2>1, <3>1 DEF SegmentOf, TermAt
      <4>2. SegmentOf(d, E[t])
        BY <1>1, <1>3, <4>1 DEF SegmentOf, TermAt
      <4> QED BY <1>1, <4>2
    <3>2. CASE Len(log[n]) # 0
      <4>1. PICK w \in D : Agree(log[n], E[w], Len(log[n]))
        <5>1. Backed(log[n], D, E) /\ Len(log[n]) \in 1..Len(log[n])
          BY <1>3, <3>2 DEF Logs
        <5> QED BY <5>1 DEF Backed
      <4>2. Extends(E[w], log[n])
        BY <4>1 DEF Agree, Extends
      <4> QED BY <1>3, <2>1, <4>2, SegmentWider
    <3> QED BY <3>1, <3>2
  <2>3. Leading(n, t)' => SegmentOf(d, E[t])
    <3>1. UNCHANGED <<role, currentTerm>>
      BY DEF ReadLog, replicaVars
    <3> QED BY <2>1, <3>1 DEF Logs, Leading
  <2> QED BY <1>1, <2>1, <2>2, <2>3 DEF Sourced, Leading
<1>5. RoundSourced(n, D, E)'
  BY <1>1, <1>2, <1>4 DEF RoundSourced
<1> QED BY <1>2, <1>5, LogsCalls DEF ReadLog, replicaVars

LEMMA LogsSend ==
    ASSUME IInv, IInv', NEW n \in Node, SendAppendEntries(n),
           NEW D \in SUBSET (Nat \ {0}), NEW E \in [D -> Seq(Entry)], Logs(D, E)
    PROVE  Logs(D, E)'
<1>1. PICK d \in round[n].draft : net' = net \cup {Request(d, commitIndex[n])}
  BY DEF SendAppendEntries
<1>2. RoundSourced(n, D, E)
  BY DEF Logs
<1>3. Sourced(Request(d, commitIndex[n]), D, E)
  BY <1>2 DEF RoundSourced, Request, Sourced, SegmentOf
<1>4. /\ \A v \in Node \ {n} : round'[v] = round[v]
      /\ round'[n].term = round[n].term /\ round'[n].head = {} /\ round'[n].draft = {}
      /\ round'[n].todo = round[n].todo
  BY DEF SendAppendEntries, IInv, TypeOK
<1>5. RoundSourced(n, D, E)'
  BY <1>2, <1>4 DEF RoundSourced
<1> QED BY <1>1, <1>3, <1>4, <1>5, LogsCalls DEF SendAppendEntries, replicaVars

LEMMA OneLeader ==
    ASSUME OwnerInv, NEW n \in Node, NEW v \in Node, role[n] = "Leader", role[v] = "Leader",
           currentTerm[n] = currentTerm[v]
    PROVE  n = v
BY DEF OwnerInv, Owners, LeadersOwn

\* A leader appends an entry of its term: its log is the one of the term.
LEMMA LogsAppend ==
    ASSUME IInv, IInv', OwnerInv, NEW n \in Node, role[n] = "Leader",
           NEW e \in Entry, e.term = currentTerm[n],
           log' = [log EXCEPT ![n] = Append(@, e)],
           UNCHANGED <<currentTerm, role, tracker, round, net, commitIndex, submit>>,
           NEW D \in SUBSET (Nat \ {0}), NEW E \in [D -> Seq(Entry)], Logs(D, E),
           NEW E2, E2 = Grown(E, e)
    PROVE  /\ E2 \in [D -> Seq(Entry)] /\ Wider(D, E2, D, E)
           /\ Logs(D, E2)'
<1>0. PICK t : t = e.term
  OBVIOUS
<1>1. /\ log \in [Node -> Seq(Entry)] /\ log[n] \in Seq(Entry)
      /\ \A v \in Node : Len(log[v]) \in Nat
      /\ t \in D /\ log[n] = E[t] /\ t \in Nat
      /\ \A w \in D : E[w] \in Seq(Entry) /\ Len(E[w]) \in Nat
  BY <1>0, LenProperties DEF IInv, TypeOK, Logs
<1> DEFINE new == Append(log[n], e)
<1>2. /\ new \in Seq(Entry) /\ Len(new) = Len(log[n]) + 1 /\ Len(new) \in Nat
      /\ \A i \in 1..Len(log[n]) : new[i] = log[n][i]
      /\ new[Len(new)] = e
      /\ Extends(new, log[n])
  BY <1>1, AppendProperties, AppendExtends
<1>3. /\ \A v \in Node : log'[v] = IF v = n THEN new ELSE log[v]
      /\ E2 \in [D -> Seq(Entry)]
      /\ \A w \in D : E2[w] = IF w = t THEN new ELSE E[w]
  BY <1>0, <1>1, <1>2 DEF Grown
<1> HIDE DEF new
<1>4. \A w \in D : Len(E2[w]) \in Nat
  BY <1>1, <1>2, <1>3
<1>5. Wider(D, E2, D, E)
  BY <1>1, <1>2, <1>3, ExtendsSelf DEF Wider
<1>6. \A l : Len(l) \in Nat /\ Backed(l, D, E) => Backed(l, D, E2)
  BY <1>1, <1>4, <1>5, BackedWider
<1>7. Backed(new, D, E2)
  <2> SUFFICES ASSUME NEW i \in 1..Len(new)
               PROVE  new[i].term \in D /\ Agree(new, E2[new[i].term], i)
    BY DEF Backed
  <2>1. CASE i = Len(new)
    <3>1. new[i].term = t /\ E2[t] = new
      BY <1>0, <1>1, <1>2, <1>3, <2>1
    <3> QED BY <1>1, <1>2, <3>1 DEF Agree
  <2>2. CASE i # Len(new)
    <3>1. i \in 1..Len(log[n]) /\ new[i] = log[n][i]
      BY <1>1, <1>2, <2>2
    <3>2. Backed(log[n], D, E2)
      BY <1>1, <1>6 DEF Logs
    <3>3. new[i].term \in D /\ Agree(log[n], E2[new[i].term], i)
      BY <3>1, <3>2 DEF Backed
    <3>4. Agree(new, log[n], i)
      BY <1>1, <1>2, <3>1 DEF Agree
    <3>5. PICK k : k = E2[new[i].term]
      OBVIOUS
    <3>6. Agree(new, k, i)
      BY <3>3, <3>4, <3>5 DEF Agree
    <3> QED BY <3>3, <3>5, <3>6
  <2> QED BY <2>1, <2>2
<1>8. Ordered(new, t)
  <2>1. Ordered(log[n], t)
    BY <1>1 DEF Logs
  <2> SUFFICES ASSUME NEW i \in 1..Len(new), NEW j \in 1..i
               PROVE  new[i].term <= t /\ new[j].term <= new[i].term
    BY <1>2 DEF Ordered
  <2>2. CASE i # Len(new)
    <3>1. /\ i \in 1..Len(log[n]) /\ new[i] = log[n][i]
          /\ j \in 1..Len(log[n]) /\ new[j] = log[n][j]
      BY <1>1, <1>2, <2>2
    <3> QED BY <2>1, <3>1 DEF Ordered
  <2>3. CASE i = Len(new)
    <3>1. new[i].term = t
      BY <1>0, <1>2, <2>3
    <3>2. CASE j = i
      BY <1>1, <3>1, <3>2
    <3>3. CASE j # i
      <4>1. j \in 1..Len(log[n]) /\ new[j] = log[n][j]
        BY <1>1, <1>2, <2>3, <3>3
      <4> QED BY <1>1, <2>1, <3>1, <4>1 DEF Ordered
    <3> QED BY <3>2, <3>3
  <2> QED BY <2>2, <2>3
<1>9. ASSUME NEW w \in D
      PROVE  Reached(w)' /\ Backed(E2[w], D, E2) /\ Ordered(E2[w], w)
  <2>1. Reached(w)'
    BY DEF Logs, Reached
  <2>2. CASE w = t
    BY <1>3, <1>7, <1>8, <2>1, <2>2
  <2>3. CASE w # t
    BY <1>1, <1>3, <1>6, <2>1, <2>3 DEF Logs
  <2> QED BY <2>2, <2>3
<1>10. ASSUME NEW v \in Node
       PROVE  /\ Backed(log'[v], D, E2)
              /\ role'[v] = "Leader" => currentTerm'[v] \in D /\ log'[v] = E2[currentTerm'[v]]
  <2>1. CASE v = n
    BY <1>0, <1>1, <1>3, <1>7, <2>1
  <2>2. CASE v # n
    <3>1. Backed(log'[v], D, E2)
      BY <1>1, <1>3, <1>6, <2>2 DEF Logs
    <3>2. role[v] = "Leader" => currentTerm[v] # t
      BY <1>0, <2>2, OneLeader
    <3>3. log'[v] = log[v] /\ currentTerm'[v] = currentTerm[v] /\ role'[v] = role[v]
      BY <1>3, <2>2
    <3>4. role[v] = "Leader" => currentTerm[v] \in D /\ log[v] = E[currentTerm[v]]
      BY DEF Logs
    <3>5. role[v] = "Leader" => log[v] = E2[currentTerm[v]]
      BY <1>3, <3>2, <3>4
    <3> QED BY <3>1, <3>3, <3>4, <3>5
  <2> QED BY <2>1, <2>2
<1>11. ASSUME NEW m, m.prev \in Nat, Len(m.entries) \in Nat, Sourced(m, D, E)
       PROVE  Sourced(m, D, E2)'
  <2>1. Leading(m.from, m.term)' => Leading(m.from, m.term)
    BY DEF Leading
  <2> QED BY <1>1, <1>4, <1>5, <1>11, <2>1, SourcedWider
<1>12. ASSUME NEW v \in Node
       PROVE  RoundSourced(v, D, E2)' /\ submit'[v].pc # "checked"
  <2>1. \A d \in round[v].draft : Sourced(d, D, E2)'
    BY <1>11, DraftTypes DEF Logs, RoundSourced
  <2> QED BY <2>1 DEF Logs, RoundSourced
<1>13. ASSUME NEW m \in net'
       PROVE  Sourced(m, D, E2)'
  <2>1. m \in net /\ m.prev \in Nat /\ Len(m.entries) \in Nat
    BY LenProperties DEF IInv, TypeOK, MessageType
  <2> QED BY <1>11, <2>1 DEF Logs
<1>14. Logs(D, E2)'
  BY <1>9, <1>10, <1>12, <1>13 DEF Logs
<1> QED BY <1>3, <1>5, <1>14

-----------------------------------------------------------------------------
(* What a log shares with a leader's it keeps when it copies from it.      *)

LEMMA FirstDiffers ==
    ASSUME NEW l, NEW x, NEW k \in Nat, Agree(l, x, k), NEW m \in MessageType, SegmentOf(m, x),
           NEW i \in 1..Len(m.entries), Differs(l, m, i), Len(l) \in Nat
    PROVE  m.prev + i > k
<1>1. m.prev \in Nat /\ i \in Nat /\ i >= 1
  BY LenProperties DEF MessageType
<1> SUFFICES ASSUME m.prev + i <= k PROVE FALSE
  BY <1>1
<1>2. m.prev + i \in 1..k
  BY <1>1
<1>3. l[m.prev + i] = x[m.prev + i] /\ m.prev + i <= Len(l)
  BY <1>1, <1>2 DEF Agree
<1>4. x[m.prev + i] = m.entries[i]
  BY DEF SegmentOf
<1> QED BY <1>3, <1>4 DEF Differs

LEMMA KeepsAgreed ==
    ASSUME NEW D, NEW E, NEW l \in Seq(Entry), NEW x \in Seq(Entry), NEW m \in MessageType,
           NEW c, Backed(l, D, E), Backed(x, D, E), LogMatches(l, m, c), SegmentOf(m, x),
           NEW k \in Nat, Agree(l, x, k)
    PROVE  Agree(AppendedLog(l, m), x, k)
<1>1. /\ Len(l) \in Nat /\ Len(x) \in Nat /\ m.prev \in Nat /\ Len(m.entries) \in Nat
      /\ m.prev <= Len(l)
  BY LenProperties DEF MessageType, LogMatches
<1>2. CASE HasEntries(l, m)
  BY <1>1, <1>2, AppendedLogShape
<1>3. CASE ~HasEntries(l, m)
  <2>1. PICK i \in 1..Len(m.entries) : Differs(l, m, i)
    BY <1>3 DEF HasEntries
  <2>2. m.prev + i > k
    BY <1>1, <2>1, FirstDiffers
  <2>3. Agree(AppendedLog(l, m), x, m.prev + Len(m.entries))
    BY Accepted
  <2>4. AppendedLog(l, m) \in Seq(Entry)
    BY <1>1, AppendedLogShape
  <2>5. Len(AppendedLog(l, m)) \in Nat
    BY <2>4, LenProperties
  <2>6. k <= m.prev + Len(m.entries)
    BY <1>1, <2>1, <2>2
  <2> QED BY <1>1, <2>3, <2>5, <2>6, AgreeLess
<1> QED BY <1>2, <1>3

LEMMA CutAgreed ==
    ASSUME NEW D, NEW E, NEW l \in Seq(Entry), NEW x \in Seq(Entry), NEW m \in MessageType,
           NEW c, Backed(l, D, E), Backed(x, D, E), LogMatches(l, m, c), SegmentOf(m, x),
           NEW k \in Nat, Agree(l, x, k),
           NEW q \in m.prev..Len(AppendedLog(l, m)),
           \E i \in 1..Len(m.entries) : m.prev + i <= q + 1 /\ Differs(l, m, i)
    PROVE  Agree(SubSeq(AppendedLog(l, m), 1, q), x, k)
<1> DEFINE new == AppendedLog(l, m)
<1>1. /\ Len(l) \in Nat /\ Len(x) \in Nat /\ m.prev \in Nat /\ Len(m.entries) \in Nat
      /\ m.prev <= Len(l)
  BY LenProperties DEF MessageType, LogMatches
<1>2. new \in Seq(Entry)
  BY <1>1, AppendedLogShape
<1>3. Len(new) \in Nat
  BY <1>2, LenProperties
<1>4. Agree(new, x, k)
  BY KeepsAgreed
<1>5. k <= q
  <2>1. PICK i \in 1..Len(m.entries) : m.prev + i <= q + 1 /\ Differs(l, m, i)
    OBVIOUS
  <2>2. m.prev + i > k
    BY <1>1, <2>1, FirstDiffers
  <2> QED BY <1>1, <1>3, <2>1, <2>2
<1>6. q \in Nat /\ q <= Len(new)
  BY <1>1, <1>3
<1> HIDE DEF new
<1>7. \A j \in 1..q : new[j] \in Entry
  BY <1>2, <1>6, ElementOfSeq
<1> DEFINE cut == SubSeq(new, 1, q)
<1>8. Len(cut) = q /\ \A j \in 1..q : cut[j] = new[j]
  BY <1>2, <1>6, <1>7, SubSeqProperties, Z3
<1> HIDE DEF cut
<1>9. Agree(cut, x, k)
  BY <1>4, <1>5, <1>6, <1>8 DEF Agree
<1> QED BY <1>9 DEF cut, new

-----------------------------------------------------------------------------
(* What the tracker says.                                                  *)

\* The tracker of a leader, once it is that of the leader's term: what it says
\* of a peer is true, unless the peer has gone on to a later term.
Matched(n) ==
    /\ tracker[n].term <= currentTerm[n]
    /\ role[n] = "Leader" /\ tracker[n].term = currentTerm[n] =>
         \A p \in Peers(n) :
           /\ tracker[n].match[p] <= Len(log[n])
           /\ tracker[n].match[p] # 0 => currentTerm[p] >= currentTerm[n]
           /\ currentTerm[p] = currentTerm[n] =>
                Agree(log[p], log[n], tracker[n].match[p])

MatchInv == \A n \in Node : Matched(n)

LEMMA AgreeZero == \A k, l : Len(k) \in Nat /\ Len(l) \in Nat => Agree(k, l, 0)
  BY DEF Agree

LEMMA AgreeExtends ==
    ASSUME NEW j, NEW k, NEW l, NEW i \in Nat, Len(j) \in Nat, Len(k) \in Nat, Len(l) \in Nat,
           Agree(j, l, i), Extends(k, l)
    PROVE  Agree(j, k, i)
BY DEF Agree, Extends

\* The leaders' trackers and logs are as before, and so are the logs of the
\* peers that were in the leader's term; others may have come into it.
LEMMA MatchedStays ==
    ASSUME IInv, IInv', MatchInv, TermsGrow, NEW n \in Node,
           tracker'[n] = tracker[n],
           role'[n] = "Leader" /\ tracker'[n].term = currentTerm'[n] =>
               role[n] = "Leader" /\ currentTerm'[n] = currentTerm[n] /\ log'[n] = log[n],
           \A p \in Peers(n) :
               role'[n] = "Leader" /\ currentTerm'[p] = currentTerm[p] /\ currentTerm[p] = currentTerm[n]
               => log'[p] = log[p]
    PROVE  Matched(n)'
<1>1. /\ currentTerm[n] \in Nat /\ currentTerm'[n] \in Nat /\ tracker[n].term \in Int
      /\ currentTerm[n] <= currentTerm'[n]
  BY DEF IInv, TypeOK, TrackerType, TermsGrow
<1>2. tracker'[n].term <= currentTerm'[n]
  BY <1>1 DEF MatchInv, Matched
<1> SUFFICES ASSUME role'[n] = "Leader", tracker'[n].term = currentTerm'[n], NEW p \in Peers(n)
             PROVE  /\ tracker'[n].match[p] <= Len(log'[n])
                    /\ tracker'[n].match[p] # 0 => currentTerm'[p] >= currentTerm'[n]
                    /\ currentTerm'[p] = currentTerm'[n] =>
                         Agree(log'[p], log'[n], tracker'[n].match[p])
  BY <1>2 DEF Matched, Peers
<1>3. /\ role[n] = "Leader" /\ currentTerm'[n] = currentTerm[n] /\ log'[n] = log[n]
      /\ tracker[n].term = currentTerm[n]
  OBVIOUS
<1>4. p \in Node /\ currentTerm[p] \in Nat /\ currentTerm'[p] \in Nat
      /\ currentTerm[p] <= currentTerm'[p]
      /\ Len(log[n]) \in Nat /\ Len(log'[p]) \in Nat
  BY LenProperties DEF Peers, IInv, TypeOK, TermsGrow
<1>5. /\ tracker[n].match[p] <= Len(log[n])
      /\ tracker[n].match[p] # 0 => currentTerm[p] >= currentTerm[n]
      /\ currentTerm[p] = currentTerm[n] => Agree(log[p], log[n], tracker[n].match[p])
  BY <1>3 DEF MatchInv, Matched
<1>6. CASE currentTerm'[p] = currentTerm[p] /\ currentTerm[p] = currentTerm[n]
  BY <1>3, <1>5, <1>6
<1>7. CASE currentTerm'[p] # currentTerm[p] /\ currentTerm'[p] = currentTerm'[n]
  <2>1. tracker[n].match[p] = 0
    BY <1>1, <1>3, <1>4, <1>5, <1>7
  <2> QED BY <1>3, <1>4, <1>5, <2>1, AgreeZero
<1>8. CASE currentTerm'[p] # currentTerm'[n]
  BY <1>1, <1>3, <1>4, <1>5, <1>8
<1> QED BY <1>6, <1>7, <1>8

LEMMA NodeTypes ==
    ASSUME IInv, NEW k \in Node
    PROVE  /\ currentTerm[k] \in Nat /\ commitIndex[k] \in Nat
           /\ log[k] \in Seq(Entry) /\ Len(log[k]) \in Nat
           /\ tracker[k].term \in Int /\ \A q \in Node : tracker[k].match[q] \in Nat
<1>1. /\ currentTerm[k] \in Nat /\ commitIndex[k] \in Nat /\ log[k] \in Seq(Entry)
      /\ tracker[k] \in TrackerType
  BY DEF IInv, TypeOK
<1> QED BY <1>1, LenProperties DEF TrackerType

LEMMA NextTypes ==
    ASSUME IInv', NEW k \in Node
    PROVE  /\ currentTerm'[k] \in Nat /\ commitIndex'[k] \in Nat
           /\ log'[k] \in Seq(Entry) /\ Len(log'[k]) \in Nat
<1>1. currentTerm'[k] \in Nat /\ commitIndex'[k] \in Nat /\ log'[k] \in Seq(Entry)
  BY DEF IInv, TypeOK
<1> QED BY <1>1, LenProperties

LEMMA RequestTypes ==
    ASSUME IInv, NEW m \in net
    PROVE  /\ m \in MessageType /\ m.term \in Nat /\ m.from \in Node /\ m.to \in Node
           /\ m.prev \in Nat /\ Len(m.entries) \in Nat /\ m.commit \in Nat
<1>1. m \in MessageType
  BY DEF IInv, TypeOK
<1> QED BY <1>1, LenProperties DEF MessageType

LEMMA RecordFacts ==
    ASSUME NEW tr \in TrackerType, NEW p \in Node, NEW through \in Nat
    PROVE  /\ RecordSuccess(tr, p, through).term = tr.term
           /\ RecordSuccess(tr, p, through).match[p] = Larger(tr.match[p], through)
           /\ \A q \in Node \ {p} : RecordSuccess(tr, p, through).match[q] = tr.match[q]
           /\ RecordFailure(tr, p).term = tr.term
           /\ RecordFailure(tr, p).match = tr.match
<1>1. tr.match \in [Node -> Nat] /\ tr.next \in [Node -> Nat \ {0}]
  BY DEF TrackerType
<1>2. RecordSuccess(tr, p, through).match = [tr.match EXCEPT ![p] = Larger(tr.match[p], through)]
  BY DEF RecordSuccess
<1>3. RecordFailure(tr, p).term = tr.term /\ RecordFailure(tr, p).match = tr.match
  BY DEF RecordFailure, TrackerType
<1>4. RecordSuccess(tr, p, through).term = tr.term
  BY DEF RecordSuccess
<1> QED BY <1>1, <1>2, <1>3, <1>4

\* The tracker after an answer.
LEMMA TrackerSteps ==
    ASSUME IInv, NEW m \in net, NEW answered \in BOOLEAN, HandleAppendEntries(m, answered),
           NEW v \in Node
    PROVE  /\ ~(v = m.from /\ Leading(v, m.term)) => tracker'[v] = tracker[v]
           /\ tracker'[v].term = tracker[v].term
           /\ \A q \in Node :
                \/ tracker'[v].match[q] = tracker[v].match[q]
                \/ /\ q = m.to /\ v = m.from /\ ReplySuccess(m)
                   /\ tracker'[v].match[q] =
                        Larger(tracker[v].match[q], m.prev + Len(m.entries))
<1> DEFINE n == m.from
<1>1. /\ m \in MessageType /\ n \in Node /\ m.to \in Node
      /\ m.prev + Len(m.entries) \in Nat
      /\ tracker \in [Node -> TrackerType] /\ tracker[n] \in TrackerType
  BY LenProperties DEF IInv, TypeOK, MessageType
<1>2. tracker' = IF answered THEN TrackerAfter(m) ELSE tracker
  BY DEF HandleAppendEntries
<1>3. \/ tracker' = tracker
      \/ /\ Leading(n, m.term)
         /\ ReplySuccess(m)
         /\ tracker' = [tracker EXCEPT ![n] =
                          RecordSuccess(tracker[n], m.to, m.prev + Len(m.entries))]
      \/ /\ Leading(n, m.term)
         /\ tracker' = [tracker EXCEPT ![n] = RecordFailure(tracker[n], m.to)]
  BY <1>2 DEF TrackerAfter, Leading
<1> HIDE DEF n
<1>4. CASE tracker' = tracker
  BY <1>4
<1>5. CASE /\ Leading(n, m.term)
           /\ ReplySuccess(m)
           /\ tracker' = [tracker EXCEPT ![n] =
                          RecordSuccess(tracker[n], m.to, m.prev + Len(m.entries))]
  <2>1. v # n => tracker'[v] = tracker[v]
    BY <1>1, <1>5
  <2>2. v = n => tracker'[v] = RecordSuccess(tracker[v], m.to, m.prev + Len(m.entries))
    BY <1>1, <1>5
  <2> QED BY <1>1, <1>5, <2>1, <2>2, RecordFacts DEF n
<1>6. CASE /\ Leading(n, m.term)
           /\ tracker' = [tracker EXCEPT ![n] = RecordFailure(tracker[n], m.to)]
  <2>1. v # n => tracker'[v] = tracker[v]
    BY <1>1, <1>6
  <2>2. v = n => tracker'[v] = RecordFailure(tracker[v], m.to)
    BY <1>1, <1>6
  <2> QED BY <1>1, <1>6, <2>1, <2>2, RecordFacts DEF n
<1> QED BY <1>3, <1>4, <1>5, <1>6

LEMMA MatchHandle ==
    ASSUME IInv, IInv', OwnerInv, MatchInv, NEW m \in net, NEW answered \in BOOLEAN,
           HandleAppendEntries(m, answered),
           NEW D \in SUBSET (Nat \ {0}), NEW E \in [D -> Seq(Entry)], Logs(D, E)
    PROVE  MatchInv'
<1> SUFFICES ASSUME NEW v \in Node PROVE Matched(v)'
  BY DEF MatchInv
<1>1. /\ m.to # m.from /\ m.to \in Node /\ m.from \in Node /\ m \in MessageType
      /\ log \in [Node -> Seq(Entry)] /\ m.term \in Nat
      /\ \A k \in Node : /\ currentTerm[k] \in Nat /\ currentTerm'[k] \in Nat
                         /\ Len(log[k]) \in Nat /\ Len(log'[k]) \in Nat
                         /\ tracker[k].term \in Int
                         /\ \A q \in Node : tracker[k].match[q] \in Nat
      /\ m.prev \in Nat /\ Len(m.entries) \in Nat
  <2>1. log \in [Node -> Seq(Entry)]
    BY DEF IInv, TypeOK
  <2> QED BY <2>1, OneSender, NodeTypes, NextTypes, RequestTypes
<1>2. CallsShrink /\ TermsGrow /\ NoNewLeader /\ currentTerm'[m.to] = ReplyTerm(m)
  BY <1>1, HandleCalls
<1>3. log' = [log EXCEPT ![m.to] = IF ReplySuccess(m) THEN AppendedLog(log[m.to], m) ELSE log[m.to]]
  BY DEF HandleAppendEntries
<1>4. /\ \A k \in Node \ {m.to} : log'[k] = log[k]
      /\ ~ReplySuccess(m) => log'[m.to] = log[m.to]
      /\ ReplySuccess(m) => log'[m.to] = AppendedLog(log[m.to], m)
  BY <1>1, <1>3
<1>5. ReplySuccess(m) => currentTerm[m.to] <= m.term /\ ReplyTerm(m) = m.term
  BY <1>1 DEF ReplySuccess, ReplyTerm, Larger
<1>6. role'[m.to] = "Leader" => ~ReplySuccess(m)
  BY <1>1, <1>5, HandleCalls
<1>7. role'[v] = "Leader" => role[v] = "Leader" /\ currentTerm'[v] = currentTerm[v] /\ log'[v] = log[v]
  BY <1>2, <1>4, <1>6 DEF NoNewLeader
<1>8. CASE ~Leading(v, m.term)
  <2>1. tracker'[v] = tracker[v]
    BY <1>8, TrackerSteps
  <2>2. ASSUME NEW p \in Peers(v), role'[v] = "Leader", currentTerm'[p] = currentTerm[p],
               currentTerm[p] = currentTerm[v]
        PROVE  log'[p] = log[p]
    BY <1>1, <1>2, <1>4, <1>5, <1>7, <1>8, <2>2 DEF Leading, Peers
  <2> QED BY <1>2, <1>7, <2>1, <2>2, MatchedStays
<1>9. CASE Leading(v, m.term)
  <2>1. v = m.from
    BY <1>9, OneSender DEF Leading
  <2>2. tracker'[v].term = tracker[v].term /\ tracker'[v].term <= currentTerm'[v]
    BY <1>1, <1>2, TrackerSteps DEF MatchInv, Matched, TermsGrow
  <2> SUFFICES ASSUME role'[v] = "Leader", tracker'[v].term = currentTerm'[v], NEW p \in Peers(v)
               PROVE  /\ tracker'[v].match[p] <= Len(log'[v])
                      /\ tracker'[v].match[p] # 0 => currentTerm'[p] >= currentTerm'[v]
                      /\ currentTerm'[p] = currentTerm'[v] =>
                           Agree(log'[p], log'[v], tracker'[v].match[p])
    BY <2>2 DEF Matched, Peers
  <2>3. /\ p \in Node /\ p # v
        /\ currentTerm'[v] = m.term /\ currentTerm[v] = m.term /\ log'[v] = log[v]
        /\ currentTerm[p] <= currentTerm'[p]
    BY <1>2, <1>7, <1>9 DEF Leading, Peers, TermsGrow
  <2>4. /\ tracker[v].match[p] <= Len(log[v])
        /\ tracker[v].match[p] # 0 => currentTerm[p] >= m.term
        /\ currentTerm[p] = m.term => Agree(log[p], log[v], tracker[v].match[p])
    BY <1>9, <2>2, <2>3 DEF MatchInv, Matched, Leading
  <2>5. CASE ~(p = m.to /\ ReplySuccess(m))
    <3>1. log'[p] = log[p] /\ tracker'[v].match[p] = tracker[v].match[p]
      BY <1>4, <2>3, <2>5, TrackerSteps
    <3>2. CASE currentTerm[p] = m.term
      BY <1>1, <2>3, <2>4, <3>1, <3>2
    <3>3. CASE currentTerm[p] # m.term
      <4>1. currentTerm'[p] = m.term => tracker[v].match[p] = 0
        BY <1>1, <2>3, <2>4, <3>3
      <4>2. currentTerm'[p] = m.term => Agree(log'[p], log'[v], tracker'[v].match[p])
        BY <1>1, <2>3, <3>1, <4>1, AgreeZero
      <4> QED BY <1>1, <2>3, <2>4, <3>1, <4>2
    <3> QED BY <3>2, <3>3
  <2>6. CASE p = m.to /\ ReplySuccess(m)
    <3> DEFINE old == tracker[v].match[p]
               through == m.prev + Len(m.entries)
               new == AppendedLog(log[p], m)
    <3>1. /\ log[p] \in Seq(Entry) /\ log[v] \in Seq(Entry)
          /\ Backed(log[p], D, E) /\ Backed(log[v], D, E)
          /\ LogMatches(log[p], m, commitIndex[p])
          /\ SegmentOf(m, log[v])
      <4>1. log[v] = E[m.term] /\ SegmentOf(m, E[m.term])
        BY <1>9, <2>1 DEF Logs, Leading, Sourced
      <4> QED BY <1>1, <2>3, <2>6, <4>1 DEF Logs, ReplySuccess
    <3>2. Agree(new, log[v], through)
      BY <1>1, <3>1, Accepted
    <3>3. Agree(log[p], log[v], old)
      <4>1. CASE currentTerm[p] = m.term
        BY <2>4, <4>1
      <4>2. CASE currentTerm[p] # m.term
        <5>1. old = 0
          BY <1>1, <1>5, <2>3, <2>4, <2>6, <4>2
        <5> QED BY <1>1, <2>3, <5>1, AgreeZero
      <4> QED BY <4>1, <4>2
    <3>4. old \in Nat
      BY <1>1, <2>3
    <3>5. Agree(new, log[v], old)
      BY <1>1, <3>1, <3>3, <3>4, KeepsAgreed
    <3>6. tracker'[v].match[p] \in {old, through}
      BY <2>3, TrackerSteps DEF Larger
    <3>7. Agree(new, log[v], tracker'[v].match[p])
      BY <3>2, <3>5, <3>6
    <3>8. log'[p] = new /\ currentTerm'[p] = m.term
      BY <1>2, <1>4, <1>5, <2>6
    <3> HIDE DEF new
    <3>9. tracker'[v].match[p] <= Len(log[v])
      BY <3>7 DEF Agree
    <3> QED BY <1>1, <2>3, <3>7, <3>8, <3>9
  <2> QED BY <2>5, <2>6
<1> QED BY <1>8, <1>9

LEMMA MatchCrash ==
    ASSUME IInv, IInv', OwnerInv, MatchInv, NEW m \in net, CrashInAppendEntries(m),
           NEW D \in SUBSET (Nat \ {0}), NEW E \in [D -> Seq(Entry)], Logs(D, E)
    PROVE  MatchInv'
<1> SUFFICES ASSUME NEW v \in Node PROVE Matched(v)'
  BY DEF MatchInv
<1>1. /\ m.to \in Node /\ m.from \in Node /\ m \in MessageType /\ m.term \in Nat
      /\ log \in [Node -> Seq(Entry)] /\ m.to # m.from
  BY RequestTypes, OneSender DEF IInv, TypeOK
<1>2. TermsGrow /\ NoNewLeader /\ currentTerm' = [currentTerm EXCEPT ![m.to] = m.term]
      /\ currentTerm[m.to] <= m.term
  BY CrashCalls
<1>3. PICK q \in m.prev..Len(AppendedLog(log[m.to], m)) :
         /\ \E i \in 1..Len(m.entries) : m.prev + i <= q + 1 /\ Differs(log[m.to], m, i)
         /\ log' = [log EXCEPT ![m.to] = SubSeq(AppendedLog(log[m.to], m), 1, q)]
  BY DEF CrashInAppendEntries
<1>4. /\ LogMatches(log[m.to], m, commitIndex[m.to])
      /\ role' = [role EXCEPT ![m.to] = "Follower"]
      /\ tracker' = [tracker EXCEPT ![m.to] = NoTracker]
  BY DEF CrashInAppendEntries, LoseVolatile, ReplySuccess
<1>5. CASE v = m.to
  <2>1. role'[v] = "Follower" /\ tracker'[v].term = -1 /\ currentTerm'[v] \in Nat
    BY <1>1, <1>4, <1>5, NextTypes DEF NoTracker, IInv, TypeOK
  <2> QED BY <2>1 DEF Matched
<1>6. CASE v # m.to
  <2>1. /\ tracker'[v] = tracker[v] /\ role'[v] = role[v] /\ currentTerm'[v] = currentTerm[v]
        /\ log'[v] = log[v]
        /\ \A p \in Node \ {m.to} : log'[p] = log[p] /\ currentTerm'[p] = currentTerm[p]
        /\ currentTerm'[m.to] = m.term
    BY <1>1, <1>2, <1>3, <1>4, <1>6 DEF IInv, TypeOK
  <2>2. CASE ~(Leading(v, m.term) /\ tracker[v].term = m.term /\ currentTerm[m.to] = m.term)
    <3>1. CASE role'[v] = "Leader" /\ tracker'[v].term = currentTerm'[v]
      <4>1. ASSUME NEW p \in Peers(v), currentTerm'[p] = currentTerm[p],
                   currentTerm[p] = currentTerm[v]
            PROVE  log'[p] = log[p]
        BY <2>1, <2>2, <3>1, <4>1 DEF Leading, Peers
      <4> QED BY <1>2, <2>1, <4>1, MatchedStays
    <3>2. CASE ~(role'[v] = "Leader" /\ tracker'[v].term = currentTerm'[v])
      BY <2>1, <3>2 DEF MatchInv, Matched
    <3> QED BY <3>1, <3>2
  <2>3. CASE Leading(v, m.term) /\ tracker[v].term = m.term /\ currentTerm[m.to] = m.term
    <3>1. v = m.from /\ role[v] = "Leader" /\ currentTerm[v] = m.term
      BY <2>3, OneSender DEF Leading
    <3>2. /\ log[v] = E[m.term] /\ SegmentOf(m, log[v])
          /\ Backed(log[m.to], D, E) /\ Backed(log[v], D, E)
      BY <1>1, <2>3, <3>1 DEF Logs, Leading, Sourced
    <3>3. \A p \in Peers(v) :
            /\ tracker[v].match[p] <= Len(log[v])
            /\ tracker[v].match[p] # 0 => currentTerm[p] >= currentTerm[v]
            /\ currentTerm[p] = currentTerm[v] => Agree(log[p], log[v], tracker[v].match[p])
      BY <2>3, <3>1 DEF MatchInv, Matched
    <3>4. Agree(log[m.to], log[v], tracker[v].match[m.to])
      BY <1>1, <2>3, <3>1, <3>3 DEF Peers
    <3>5. Agree(log'[m.to], log[v], tracker[v].match[m.to])
      <4>1. log'[m.to] = SubSeq(AppendedLog(log[m.to], m), 1, q)
        BY <1>1, <1>3
      <4>2. log[m.to] \in Seq(Entry) /\ log[v] \in Seq(Entry) /\ tracker[v].match[m.to] \in Nat
        BY <1>1, NodeTypes
      <4> QED BY <1>1, <1>3, <1>4, <3>2, <3>4, <4>1, <4>2, CutAgreed
    <3>6. \A p \in Peers(v) :
            /\ tracker'[v].match[p] <= Len(log'[v])
            /\ tracker'[v].match[p] # 0 => currentTerm'[p] >= currentTerm'[v]
            /\ currentTerm'[p] = currentTerm'[v] => Agree(log'[p], log'[v], tracker'[v].match[p])
      BY <2>1, <2>3, <3>1, <3>3, <3>5 DEF Peers
    <3> QED BY <1>1, <2>1, <2>3, <3>1, <3>6 DEF Matched
  <2> QED BY <2>2, <2>3
<1> QED BY <1>5, <1>6

LEMMA MatchElect ==
    ASSUME IInv, IInv', MatchInv, NEW n \in Node, NEW Q \in Quorum, Elect(n, Q)
    PROVE  MatchInv'
<1> SUFFICES ASSUME NEW v \in Node PROVE Matched(v)'
  BY DEF MatchInv
<1>1. PICK T \in Nat \ {0} :
             /\ TermsGrow
             /\ currentTerm' = [k \in Node |-> IF k \in Q THEN T ELSE currentTerm[k]]
             /\ \A k \in Q : currentTerm[k] < T
  BY ElectTerms
<1>2. UNCHANGED <<log, tracker>> /\ n \in Q
  BY DEF Elect, callVars
<1>3. role'[v] = "Leader" => v = n \/ (role[v] = "Leader" /\ currentTerm'[v] = currentTerm[v])
  BY <1>1 DEF Elect
<1>4. v = n => tracker'[v].term # currentTerm'[v]
  <2>1. tracker[n].term <= currentTerm[n] /\ currentTerm[n] < T /\ currentTerm'[n] = T
    BY <1>1, <1>2 DEF MatchInv, Matched
  <2> QED BY <1>2, <2>1, NodeTypes
<1> QED BY <1>1, <1>2, <1>3, <1>4, MatchedStays

LEMMA MatchStartRound ==
    ASSUME IInv, IInv', MatchInv, NEW n \in Node, NEW S \in SUBSET Peers(n), StartRound(n, S)
    PROVE  MatchInv'
<1> SUFFICES ASSUME NEW v \in Node PROVE Matched(v)'
  BY DEF MatchInv
<1> DEFINE tr == EnsureInitialized(tracker[n], currentTerm[n], Len(log[n]))
<1>1. UNCHANGED <<log, currentTerm, role>> /\ tracker' = [tracker EXCEPT ![n] = tr]
  BY DEF StartRound, replicaVars
<1>2. TermsGrow
  BY <1>1, NodeTypes DEF TermsGrow
<1>3. CASE tracker'[v] = tracker[v]
  BY <1>1, <1>2, <1>3, MatchedStays
<1>4. CASE tracker'[v] # tracker[v]
  <2>1. v = n /\ tracker'[v] = [term  |-> currentTerm[n],
                                next  |-> [p \in Node |-> Len(log[n]) + 1],
                                match |-> [p \in Node |-> 0]]
    BY <1>1, <1>4 DEF EnsureInitialized, IInv, TypeOK
  <2>2. /\ tracker'[v].term = currentTerm'[v]
        /\ \A p \in Peers(v) : tracker'[v].match[p] = 0
    BY <1>1, <2>1 DEF Peers
  <2>3. \A p \in Node : Len(log[p]) \in Nat /\ currentTerm[p] \in Nat
    BY NodeTypes
  <2> QED BY <1>1, <2>2, <2>3, AgreeZero DEF Matched, Peers
<1> QED BY <1>3, <1>4

LEMMA MatchRestart ==
    ASSUME IInv, IInv', MatchInv, NEW n \in Node, Restart(n)
    PROVE  MatchInv'
<1> SUFFICES ASSUME NEW v \in Node PROVE Matched(v)'
  BY DEF MatchInv
<1>1. /\ UNCHANGED <<log, currentTerm>>
      /\ role' = [role EXCEPT ![n] = "Follower"]
      /\ tracker' = [tracker EXCEPT ![n] = NoTracker]
  BY DEF Restart, LoseVolatile
<1>2. TermsGrow
  BY <1>1, NodeTypes DEF TermsGrow
<1>3. CASE v = n
  <2>1. role'[v] = "Follower" /\ tracker'[v].term = -1 /\ currentTerm'[v] \in Nat
    BY <1>1, <1>3, NextTypes DEF NoTracker, IInv, TypeOK
  <2> QED BY <2>1 DEF Matched
<1>4. CASE v # n
  <2>1. tracker'[v] = tracker[v] /\ role'[v] = role[v]
    BY <1>1, <1>4 DEF IInv, TypeOK
  <2> QED BY <1>1, <1>2, <2>1, MatchedStays
<1> QED BY <1>3, <1>4

\* Everything else: the logs may grow at their ends.
LEMMA MatchGrow ==
    ASSUME IInv, IInv', MatchInv, UNCHANGED <<currentTerm, role, tracker>>,
           \A n \in Node : Extends(log'[n], log[n])
    PROVE  MatchInv'
<1> SUFFICES ASSUME NEW v \in Node PROVE Matched(v)'
  BY DEF MatchInv
<1>1. tracker[v].term <= currentTerm[v]
  BY DEF MatchInv, Matched
<1> SUFFICES ASSUME role[v] = "Leader", tracker[v].term = currentTerm[v], NEW p \in Peers(v)
             PROVE  /\ tracker[v].match[p] <= Len(log'[v])
                    /\ tracker[v].match[p] # 0 => currentTerm[p] >= currentTerm[v]
                    /\ currentTerm[p] = currentTerm[v] =>
                         Agree(log'[p], log'[v], tracker[v].match[p])
  BY <1>1 DEF Matched, Peers
<1>2. /\ p \in Node /\ Len(log[v]) \in Nat /\ Len(log'[v]) \in Nat
      /\ Len(log[p]) \in Nat /\ Len(log'[p]) \in Nat /\ tracker[v].match[p] \in Nat
  BY NodeTypes, NextTypes DEF Peers
<1>3. /\ tracker[v].match[p] <= Len(log[v])
      /\ tracker[v].match[p] # 0 => currentTerm[p] >= currentTerm[v]
      /\ currentTerm[p] = currentTerm[v] => Agree(log[p], log[v], tracker[v].match[p])
  BY DEF MatchInv, Matched
<1>4. Extends(log'[v], log[v]) /\ Extends(log'[p], log[p])
  BY <1>2
<1>5. currentTerm[p] = currentTerm[v] => Agree(log'[p], log'[v], tracker[v].match[p])
  BY <1>2, <1>3, <1>4 DEF Agree, Extends
<1>6. tracker[v].match[p] <= Len(log'[v])
  BY <1>2, <1>3, <1>4 DEF Extends
<1> QED BY <1>3, <1>5, <1>6

-----------------------------------------------------------------------------
(* Commitment.                                                             *)

\* The leaders after term t share its leader's log up to j.
Later(t, j, D, E) == \A u \in D : u > t => Agree(E[u], E[t], j)

\* The entry j of the leader of term t is its own, a quorum that has reached
\* the term shares its log up to j, and so do the later leaders.
Stable(t, j, D, E) ==
    /\ t \in D /\ j \in 1..Len(E[t]) /\ E[t][j].term = t
    /\ \E Q \in Quorum : \A v \in Q : t <= currentTerm[v] /\ Agree(log[v], E[t], j)
    /\ Later(t, j, D, E)

\* What the commit index c of the log l stands on, in term T.
Anchored(l, c, T, D, E) ==
    \/ c = 0
    \/ \E t \in D : \E j \in Nat :
         t <= T /\ c <= j /\ Stable(t, j, D, E) /\ Agree(l, E[t], c)

\* The leader n may still get a quorum for i: nobody in it has left the term
\* without having acknowledged the entry.
Open(n, i) ==
    \E Q \in Quorum : \A v \in Q :
        currentTerm[v] <= currentTerm[n] \/ tracker[n].match[v] >= i

\* Then the later leaders and those who acknowledged have the entry.
Pending(n, i, D, E) ==
    /\ role[n] = "Leader" /\ tracker[n].term = currentTerm[n]
    /\ i \in 1..Len(log[n]) /\ log[n][i].term = currentTerm[n]
    /\ Open(n, i)
    => /\ Later(currentTerm[n], i, D, E)
       /\ \A p \in Peers(n) : tracker[n].match[p] >= i => Agree(log[p], log[n], i)

RequestAnchored(m, D, E) ==
    /\ m.commit <= m.prev + Len(m.entries)
    /\ Anchored(E[m.term], m.commit, m.term, D, E)

Commits(D, E) ==
    /\ \A n \in Node :
         /\ Anchored(log[n], commitIndex[n], currentTerm[n], D, E)
         /\ round[n].term # 0 => tracker[n].term = round[n].term
         /\ \A i \in Nat : Pending(n, i, D, E)
    /\ \A m \in net : RequestAnchored(m, D, E)

\* A candidate whose log is up to date with that of a voter who has the entry
\* has it, too.
LEMMA UpToDate ==
    ASSUME IInv, NEW D \in SUBSET (Nat \ {0}), NEW E \in [D -> Seq(Entry)], Logs(D, E),
           NEW t \in D, NEW j \in 1..Len(E[t]), E[t][j].term = t, Later(t, j, D, E),
           NEW v \in Node, NEW n \in Node, Agree(log[v], E[t], j),
           IsCandidateLogUpToDate(v, Len(log[n]), LastTerm(log[n]))
    PROVE  Agree(log[n], E[t], j)
<1> DEFINE l == log[v]
           k == log[n]
<1>1. /\ l \in Seq(Entry) /\ k \in Seq(Entry) /\ Len(l) \in Nat /\ Len(k) \in Nat
      /\ \A u \in D : E[u] \in Seq(Entry) /\ Len(E[u]) \in Nat
      /\ j \in Nat /\ t \in Nat /\ t > 0
      /\ Backed(l, D, E) /\ Backed(k, D, E)
      /\ \A u \in D : Ordered(E[u], u)
  <2>1. l \in Seq(Entry) /\ k \in Seq(Entry) /\ Len(l) \in Nat /\ Len(k) \in Nat
    BY NodeTypes
  <2>2. \A u \in D : E[u] \in Seq(Entry) /\ Len(E[u]) \in Nat
    BY LenProperties
  <2>3. Backed(l, D, E) /\ Backed(k, D, E) /\ \A u \in D : Ordered(E[u], u)
    BY DEF Logs
  <2>4. t \in Nat /\ t > 0
    OBVIOUS
  <2> QED BY <2>1, <2>2, <2>3, <2>4
<1>2. /\ LastTerm(k) > LastTerm(l) \/ (LastTerm(k) = LastTerm(l) /\ Len(k) >= Len(l))
  BY DEF IsCandidateLogUpToDate
<1> HIDE DEF l, k
<1>3. /\ j <= Len(l) /\ l[j].term = t /\ Len(l) # 0
      /\ LastTerm(l) = l[Len(l)].term /\ LastTerm(l) \in Nat
  <2>1. j <= Len(l) /\ l[j].term = t /\ Len(l) # 0
    BY <1>1 DEF Agree, l
  <2>2. l[Len(l)] \in Entry
    BY <1>1, <2>1, ElementOfSeq
  <2> QED BY <1>1, <2>1, <2>2 DEF LastTerm, TermAt, Entry
<1>4. LastTerm(l) >= t
  <2>1. \A i \in 1..Len(l) : \A h \in 1..i : l[h].term <= l[i].term
    BY <1>1, TermsOrdered
  <2> QED BY <1>1, <1>3, <2>1
<1>5. Len(k) # 0 /\ LastTerm(k) >= t
  <2>1. Len(k) = 0 => LastTerm(k) = 0
    BY DEF LastTerm, TermAt
  <2>2. Len(k) # 0 => LastTerm(k) \in Nat
    <3>1. Len(k) # 0 => k[Len(k)] \in Entry
      BY <1>1, ElementOfSeq
    <3> QED BY <3>1 DEF LastTerm, TermAt, Entry
  <2> QED BY <1>1, <1>2, <1>3, <1>4, <2>1, <2>2
<1>6. PICK s \in D : s = LastTerm(k) /\ s = k[Len(k)].term /\ Agree(k, E[s], Len(k))
  <2>1. Len(k) \in 1..Len(k)
    BY <1>1, <1>5
  <2>2. k[Len(k)].term \in D /\ Agree(k, E[k[Len(k)].term], Len(k))
    BY <1>1, <2>1 DEF Backed
  <2> QED BY <1>5, <2>2 DEF LastTerm, TermAt
<1>7. j <= Len(k) /\ Agree(E[s], E[t], j)
  <2>1. CASE s = t
    <3>1. Len(k) >= Len(l)
      BY <1>1, <1>2, <1>3, <1>4, <1>6, <2>1
    <3> QED BY <1>1, <1>3, <2>1, <3>1 DEF Agree
  <2>2. CASE s # t
    <3>1. s > t
      BY <1>1, <1>5, <1>6, <2>2
    <3>2. Agree(E[s], E[t], j)
      BY <3>1 DEF Later
    <3>3. E[s][j].term = t /\ j <= Len(E[s]) /\ E[s][Len(k)].term = s
      BY <1>1, <1>5, <1>6, <3>2 DEF Agree
    <3>4. ~(Len(k) < j)
      BY <1>1, <1>5, <3>1, <3>3 DEF Ordered
    <3> QED BY <1>1, <3>2, <3>4
  <2> QED BY <2>1, <2>2
<1>8. Agree(k, E[s], j)
  BY <1>1, <1>6, <1>7, AgreeLess
<1> QED BY <1>7, <1>8 DEF Agree, k

\* Copies of the leader's log last as long as the later leaders have it.
CopiesKeep(D, E) ==
    \A v \in Node : \A t \in D : \A j \in Nat :
        /\ t <= currentTerm[v] /\ Later(t, j, D, E) /\ Agree(log[v], E[t], j)
        => Agree(log'[v], E[t], j)

LEMMA StableKept ==
    ASSUME IInv, IInv', NEW D \in SUBSET Nat, NEW E \in [D -> Seq(Entry)],
           NEW D2, NEW E2 \in [D2 -> Seq(Entry)], Wider(D2, E2, D, E),
           TermsGrow, CopiesKeep(D, E),
           NEW t, NEW j \in Nat, Stable(t, j, D, E), Later(t, j, D2, E2)
    PROVE  Stable(t, j, D2, E2)'
<1>1. PICK Q \in Quorum : \A v \in Q : t <= currentTerm[v] /\ Agree(log[v], E[t], j)
  BY DEF Stable
<1>2. /\ t \in D /\ t \in D2 /\ Len(E[t]) \in Nat /\ Len(E2[t]) \in Nat
      /\ Extends(E2[t], E[t]) /\ t \in Nat
  BY LenProperties DEF Stable, Wider
<1>3. ASSUME NEW v \in Q
      PROVE  t <= currentTerm'[v] /\ Agree(log'[v], E2[t], j)
  <2>1. v \in Node
    BY DEF Quorum
  <2>2. Agree(log'[v], E[t], j)
    BY <1>1, <1>2, <2>1 DEF CopiesKeep, Stable
  <2>3. currentTerm[v] \in Nat /\ currentTerm'[v] \in Nat /\ Len(log'[v]) \in Nat
    BY <2>1, NodeTypes, NextTypes
  <2> QED BY <1>1, <1>2, <2>1, <2>2, <2>3, AgreeExtends DEF TermsGrow
<1>4. j \in 1..Len(E2[t]) /\ E2[t][j].term = t
  BY <1>2 DEF Stable, Extends
<1> QED BY <1>2, <1>3, <1>4 DEF Stable, Later

\* So a commit index stands on what it stood on.
LEMMA AnchorKept ==
    ASSUME NEW D \in SUBSET Nat, NEW E \in [D -> Seq(Entry)],
           NEW D2, NEW E2 \in [D2 -> Seq(Entry)], Wider(D2, E2, D, E),
           \A t, j : j \in Nat /\ Stable(t, j, D, E) => Stable(t, j, D2, E2)',
           NEW l, NEW k, Len(l) \in Nat, Len(k) \in Nat, NEW c \in Nat,
           c <= Len(k), \A i \in 1..c : k[i] = l[i],
           NEW T \in Nat, NEW T2 \in Nat, T <= T2,
           Anchored(l, c, T, D, E)
    PROVE  Anchored(k, c, T2, D2, E2)'
<1>1. CASE c = 0
  BY <1>1 DEF Anchored
<1>2. CASE c # 0
  <2>1. PICK t \in D : \E j \in Nat :
          t <= T /\ c <= j /\ Stable(t, j, D, E) /\ Agree(l, E[t], c)
    BY <1>2 DEF Anchored
  <2>2. PICK j \in Nat : t <= T /\ c <= j /\ Stable(t, j, D, E) /\ Agree(l, E[t], c)
    BY <2>1
  <2>3. t \in D2 /\ t \in Nat /\ t <= T2 /\ Stable(t, j, D2, E2)'
    BY <2>2 DEF Wider
  <2>4. Len(E[t]) \in Nat /\ Len(E2[t]) \in Nat /\ Extends(E2[t], E[t])
    BY <2>3, LenProperties DEF Wider
  <2>5. Agree(k, E2[t], c)
    BY <2>2, <2>4 DEF Agree, Extends
  <2> QED BY <2>2, <2>3, <2>5 DEF Anchored
<1> QED BY <1>1, <1>2

\* Which acknowledgements a step may record: that of a peer in the term.
AnswersRecorded ==
    \A n \in Node : role'[n] = "Leader" =>
        /\ tracker'[n].term = tracker[n].term
        /\ \A q \in Node :
             \/ tracker'[n].match[q] = tracker[n].match[q]
             \/ currentTerm[q] <= currentTerm[n] /\ currentTerm'[q] = currentTerm'[n]

LEMMA PendingKept ==
    ASSUME IInv, IInv', MatchInv, MatchInv', TermsGrow, LeadersFixed, AnswersRecorded,
           NEW D \in SUBSET (Nat \ {0}), NEW E \in [D -> Seq(Entry)], Logs(D, E),
           CopiesKeep(D, E),
           NEW n \in Node, NEW i \in Nat, Pending(n, i, D, E)
    PROVE  Pending(n, i, D, E)'
<1> SUFFICES ASSUME role'[n] = "Leader", tracker'[n].term = currentTerm'[n],
                    i \in 1..Len(log'[n]), log'[n][i].term = currentTerm'[n],
                    Open(n, i)'
             PROVE  /\ Later(currentTerm'[n], i, D, E)
                    /\ \A p \in Peers(n) : tracker'[n].match[p] >= i => Agree(log'[p], log'[n], i)
  BY DEF Pending, Later, Peers
<1>1. /\ role[n] = "Leader" /\ currentTerm'[n] = currentTerm[n] /\ log'[n] = log[n]
      /\ tracker[n].term = currentTerm[n]
  BY DEF LeadersFixed, AnswersRecorded
<1>2. \A k \in Node : currentTerm[k] \in Nat /\ currentTerm'[k] \in Nat
                      /\ currentTerm[k] <= currentTerm'[k] /\ Len(log[k]) \in Nat
                      /\ Len(log'[k]) \in Nat
  BY NodeTypes, NextTypes DEF TermsGrow
<1>3. Open(n, i)
  <2>1. PICK Q \in Quorum : \A v \in Q :
          currentTerm'[v] <= currentTerm'[n] \/ tracker'[n].match[v] >= i
    BY DEF Open
  <2>2. ASSUME NEW v \in Q
        PROVE  currentTerm[v] <= currentTerm[n] \/ tracker[n].match[v] >= i
    <3>1. v \in Node
      BY DEF Quorum
    <3>2. \/ tracker'[n].match[v] = tracker[n].match[v]
          \/ currentTerm[v] <= currentTerm[n]
      BY <3>1 DEF AnswersRecorded
    <3>3. currentTerm'[v] <= currentTerm'[n] => currentTerm[v] <= currentTerm[n]
      BY <1>1, <1>2, <3>1
    <3> QED BY <2>1, <3>2, <3>3
  <2> QED BY <2>2 DEF Open
<1>4. /\ Later(currentTerm[n], i, D, E)
      /\ \A p \in Peers(n) : tracker[n].match[p] >= i => Agree(log[p], log[n], i)
  BY <1>1, <1>3 DEF Pending
<1>5. ASSUME NEW p \in Peers(n), tracker'[n].match[p] >= i
      PROVE  Agree(log'[p], log'[n], i)
  <2>1. p \in Node
    BY DEF Peers
  <2>2. CASE tracker'[n].match[p] = tracker[n].match[p]
    <3>1. tracker[n].match[p] >= i /\ tracker[n].match[p] \in Nat
      BY <1>5, <2>1, <2>2, NodeTypes
    <3>2. currentTerm[p] >= currentTerm[n]
      BY <1>1, <3>1 DEF MatchInv, Matched
    <3>3. Agree(log[p], log[n], i)
      BY <1>4, <3>1
    <3>4. currentTerm[n] \in D /\ log[n] = E[currentTerm[n]]
      BY <1>1 DEF Logs
    <3>5. currentTerm[n] <= currentTerm[p]
      BY <1>2, <2>1, <3>2
    <3> QED BY <1>1, <1>4, <2>1, <3>3, <3>4, <3>5 DEF CopiesKeep
  <2>3. CASE currentTerm'[p] = currentTerm'[n]
    <3>1. Agree(log'[p], log'[n], tracker'[n].match[p])
      BY <2>3 DEF MatchInv, Matched, Peers
    <3>2. tracker'[n].match[p] \in Nat
      BY <2>1 DEF IInv, TypeOK, TrackerType
    <3> QED BY <1>2, <1>5, <2>1, <3>1, <3>2, AgreeLess
  <2> QED BY <2>1, <2>2, <2>3 DEF AnswersRecorded
<1> QED BY <1>1, <1>4, <1>5

LEMMA CommitsKept ==
    ASSUME IInv, IInv', MatchInv, MatchInv', CallsShrink, TermsGrow, LeadersFixed, AnswersRecorded,
           NEW D \in SUBSET (Nat \ {0}), NEW E \in [D -> Seq(Entry)], Logs(D, E), Commits(D, E),
           CopiesKeep(D, E),
           \A n \in Node : round'[n].term # 0 => tracker'[n].term = round'[n].term,
           \A n \in Node : Anchored(log[n], commitIndex[n], currentTerm[n], D, E)'
    PROVE  Commits(D, E)'
<1>1. \A n \in Node, i \in Nat : Pending(n, i, D, E)'
  BY PendingKept DEF Commits
<1>2. \A t, j : j \in Nat /\ Stable(t, j, D, E) => Stable(t, j, D, E)'
  <2>1. Wider(D, E, D, E)
    BY LenProperties, ExtendsSelf DEF Wider
  <2> QED BY <2>1, StableKept DEF Stable
<1>3. ASSUME NEW k \in net'
      PROVE  RequestAnchored(k, D, E)'
  <2>1. PICK m \in net : SameRequest(k, m)
    BY DEF CallsShrink
  <2>2. RequestAnchored(m, D, E)
    BY DEF Commits
  <2> QED BY <1>2, <2>1, <2>2 DEF RequestAnchored, SameRequest, Anchored
<1> QED BY <1>1, <1>3 DEF Commits

\* A log that keeps its committed prefix keeps what it stands on.
LEMMA SameCommit ==
    ASSUME IInv, IInv', PrefixKept, TermsGrow,
           NEW D \in SUBSET (Nat \ {0}), NEW E \in [D -> Seq(Entry)],
           NEW D2, NEW E2 \in [D2 -> Seq(Entry)], Wider(D2, E2, D, E),
           \A t, j : j \in Nat /\ Stable(t, j, D, E) => Stable(t, j, D2, E2)',
           NEW n \in Node, commitIndex'[n] = commitIndex[n],
           Anchored(log[n], commitIndex[n], currentTerm[n], D, E)
    PROVE  Anchored(log[n], commitIndex[n], currentTerm[n], D2, E2)'
<1>1. /\ Len(log[n]) \in Nat /\ Len(log'[n]) \in Nat /\ commitIndex[n] \in Nat
      /\ currentTerm[n] \in Nat /\ currentTerm'[n] \in Nat
      /\ currentTerm[n] <= currentTerm'[n]
      /\ commitIndex[n] <= Len(log'[n])
      /\ \A i \in 1..commitIndex[n] : log'[n][i] = log[n][i]
  BY NodeTypes, NextTypes DEF PrefixKept, TermsGrow
<1>2. PICK l, k, c, T, T2 :
        /\ l = log[n] /\ k = log'[n] /\ c = commitIndex[n] /\ T = currentTerm[n] /\ T2 = currentTerm'[n]
  OBVIOUS
<1>3. Anchored(k, c, T2, D2, E2)'
  BY <1>1, <1>2, AnchorKept
<1> QED BY <1>2, <1>3 DEF Anchored

LEMMA AgreeGrown ==
    ASSUME NEW k, NEW l, NEW k2, NEW l2, NEW i \in Nat,
           Len(k) \in Nat, Len(l) \in Nat, Len(k2) \in Nat, Len(l2) \in Nat,
           Extends(k2, k), Extends(l2, l), Agree(k, l, i)
    PROVE  Agree(k2, l2, i)
BY DEF Agree, Extends

LEMMA AgreeSym == \A k, l, i : Agree(k, l, i) => Agree(l, k, i)
BY DEF Agree

LEMMA LaterLeader ==
    ASSUME NEW D \in SUBSET Nat, NEW E \in [D -> Seq(Entry)], NEW t \in D, NEW u \in D, t <= u,
           NEW j \in Nat, j <= Len(E[t]), Later(t, j, D, E)
    PROVE  Agree(E[u], E[t], j)
<1>1. CASE u = t
  BY <1>1, LenProperties DEF Agree
<1>2. CASE u # t
  <2>1. u > t
    BY <1>2
  <2> QED BY <2>1 DEF Later
<1> QED BY <1>1, <1>2

\* A coordinator that accepts a request keeps the copies it has, since the
\* request is a piece of the log of a leader that has them.
LEMMA CopiesTaken ==
    ASSUME IInv, NEW D \in SUBSET (Nat \ {0}), NEW E \in [D -> Seq(Entry)], Logs(D, E),
           "replicate" \notin Preempt, NEW m \in net, ReplySuccess(m),
           NEW t \in D, NEW j \in Nat, t <= currentTerm[m.to], Later(t, j, D, E),
           Agree(log[m.to], E[t], j)
    PROVE  /\ Agree(AppendedLog(log[m.to], m), E[t], j)
           /\ \A q \in m.prev..Len(AppendedLog(log[m.to], m)) :
                (\E i \in 1..Len(m.entries) : m.prev + i <= q + 1 /\ Differs(log[m.to], m, i))
                => Agree(SubSeq(AppendedLog(log[m.to], m), 1, q), E[t], j)
<1>1. /\ m \in MessageType /\ m.to \in Node /\ m.term \in Nat
      /\ log[m.to] \in Seq(Entry) /\ currentTerm[m.to] \in Nat
  BY RequestTypes, NodeTypes
<1>2. /\ m.term \in D /\ SegmentOf(m, E[m.term])
      /\ Backed(log[m.to], D, E) /\ Backed(E[m.term], D, E)
  BY <1>1 DEF Logs, Sourced
<1>3. LogMatches(log[m.to], m, commitIndex[m.to]) /\ currentTerm[m.to] <= m.term
  BY <1>1 DEF ReplySuccess
<1>4. t <= m.term
  BY <1>1, <1>3
<1>5. j <= Len(E[t])
  BY DEF Agree
<1>6. Agree(E[m.term], E[t], j)
  BY <1>2, <1>4, <1>5, LaterLeader
<1>7. Agree(log[m.to], E[m.term], j) /\ Agree(E[t], E[m.term], j)
  BY <1>6, AgreeTrans, AgreeSym
<1>8. Agree(AppendedLog(log[m.to], m), E[m.term], j)
  BY <1>1, <1>2, <1>3, <1>7, KeepsAgreed
<1>9. Agree(AppendedLog(log[m.to], m), E[t], j)
  BY <1>7, <1>8, AgreeTrans
<1>10. ASSUME NEW q \in m.prev..Len(AppendedLog(log[m.to], m)),
              \E i \in 1..Len(m.entries) : m.prev + i <= q + 1 /\ Differs(log[m.to], m, i)
       PROVE  Agree(SubSeq(AppendedLog(log[m.to], m), 1, q), E[t], j)
  <2>1. Agree(SubSeq(AppendedLog(log[m.to], m), 1, q), E[m.term], j)
    BY <1>1, <1>2, <1>3, <1>7, <1>10, CutAgreed
  <2> QED BY <1>7, <2>1, AgreeTrans
<1> QED BY <1>9, <1>10

LEMMA CopiesHandle ==
    ASSUME IInv, "replicate" \notin Preempt, NEW m \in net, NEW answered \in BOOLEAN,
           HandleAppendEntries(m, answered),
           NEW D \in SUBSET (Nat \ {0}), NEW E \in [D -> Seq(Entry)], Logs(D, E)
    PROVE  CopiesKeep(D, E)
<1> SUFFICES ASSUME NEW v \in Node, NEW t \in D, NEW j \in Nat, t <= currentTerm[v],
                    Later(t, j, D, E), Agree(log[v], E[t], j)
             PROVE  Agree(log'[v], E[t], j)
  BY DEF CopiesKeep
<1>1. log' = [log EXCEPT ![m.to] = IF ReplySuccess(m) THEN AppendedLog(log[m.to], m) ELSE log[m.to]]
  BY DEF HandleAppendEntries
<1>2. log \in [Node -> Seq(Entry)]
  BY DEF IInv, TypeOK
<1>3. CASE v = m.to /\ ReplySuccess(m)
  <2>1. Agree(AppendedLog(log[m.to], m), E[t], j)
    BY <1>3, CopiesTaken
  <2> QED BY <1>1, <1>2, <1>3, <2>1
<1>4. CASE ~(v = m.to /\ ReplySuccess(m))
  <2>1. log'[v] = log[v]
    BY <1>1, <1>2, <1>4
  <2> QED BY <2>1
<1> QED BY <1>3, <1>4

LEMMA CopiesCrash ==
    ASSUME IInv, "replicate" \notin Preempt, NEW m \in net, CrashInAppendEntries(m),
           NEW D \in SUBSET (Nat \ {0}), NEW E \in [D -> Seq(Entry)], Logs(D, E)
    PROVE  CopiesKeep(D, E)
<1> SUFFICES ASSUME NEW v \in Node, NEW t \in D, NEW j \in Nat, t <= currentTerm[v],
                    Later(t, j, D, E), Agree(log[v], E[t], j)
             PROVE  Agree(log'[v], E[t], j)
  BY DEF CopiesKeep
<1>1. PICK q \in m.prev..Len(AppendedLog(log[m.to], m)) :
        /\ \E i \in 1..Len(m.entries) : m.prev + i <= q + 1 /\ Differs(log[m.to], m, i)
        /\ log' = [log EXCEPT ![m.to] = SubSeq(AppendedLog(log[m.to], m), 1, q)]
  BY DEF CrashInAppendEntries
<1>2. log \in [Node -> Seq(Entry)] /\ ReplySuccess(m)
  BY DEF IInv, TypeOK, CrashInAppendEntries
<1>3. CASE v = m.to
  <2>1. Agree(SubSeq(AppendedLog(log[m.to], m), 1, q), E[t], j)
    BY <1>1, <1>2, <1>3, CopiesTaken
  <2> QED BY <1>1, <1>2, <1>3, <2>1
<1>4. CASE v # m.to
  <2>1. log'[v] = log[v]
    BY <1>1, <1>2, <1>4
  <2> QED BY <2>1
<1> QED BY <1>3, <1>4

LEMMA CopiesGrow ==
    ASSUME IInv, IInv', \A n \in Node : Extends(log'[n], log[n]),
           NEW D \in SUBSET (Nat \ {0}), NEW E \in [D -> Seq(Entry)]
    PROVE  CopiesKeep(D, E)
<1> SUFFICES ASSUME NEW v \in Node, NEW t \in D, NEW j \in Nat, Agree(log[v], E[t], j)
             PROVE  Agree(log'[v], E[t], j)
  BY DEF CopiesKeep
<1>1. Len(log[v]) \in Nat /\ Len(log'[v]) \in Nat /\ Len(E[t]) \in Nat
  BY NodeTypes, NextTypes, LenProperties
<1> QED BY <1>1 DEF Agree, Extends

LEMMA StableSame ==
    ASSUME IInv, IInv', NEW D \in SUBSET (Nat \ {0}), NEW E \in [D -> Seq(Entry)],
           TermsGrow, CopiesKeep(D, E)
    PROVE  /\ Wider(D, E, D, E)
           /\ \A t, j : j \in Nat /\ Stable(t, j, D, E) => Stable(t, j, D, E)'
<1>1. Wider(D, E, D, E)
  BY LenProperties, ExtendsSelf DEF Wider
<1> QED BY <1>1, StableKept DEF Stable

\* Steps that commit nothing and record no answer.
LEMMA CommitsQuiet ==
    ASSUME IInv, IInv', PrefixKept, MatchInv, MatchInv',
           CallsShrink, TermsGrow, LeadersFixed, UNCHANGED commitIndex,
           \A n \in Node : \/ tracker'[n] = tracker[n]
                           \/ role'[n] = "Follower" /\ round'[n] = NoRound,
           NEW D \in SUBSET (Nat \ {0}), NEW E \in [D -> Seq(Entry)], Logs(D, E), Commits(D, E),
           CopiesKeep(D, E)
    PROVE  Commits(D, E)'
<1>1. AnswersRecorded
  BY DEF AnswersRecorded
<1>2. ASSUME NEW n \in Node
      PROVE  round'[n].term # 0 => tracker'[n].term = round'[n].term
  <2>1. round[n].term # 0 => tracker[n].term = round[n].term
    BY DEF Commits
  <2>2. NoRound.term = 0
    BY DEF NoRound
  <2> QED BY <2>1, <2>2 DEF CallsShrink
<1>3. ASSUME NEW n \in Node
      PROVE  Anchored(log[n], commitIndex[n], currentTerm[n], D, E)'
  <2>1. Anchored(log[n], commitIndex[n], currentTerm[n], D, E) /\ commitIndex'[n] = commitIndex[n]
    BY DEF Commits
  <2> QED BY <2>1, StableSame, SameCommit
<1> QED BY <1>1, <1>2, <1>3, CommitsKept

LEMMA CommitsHandle ==
    ASSUME IInv, IInv', PrefixKept, OwnerInv, MatchInv, MatchInv', "replicate" \notin Preempt,
           NEW m \in net, NEW answered \in BOOLEAN, HandleAppendEntries(m, answered),
           NEW D \in SUBSET (Nat \ {0}), NEW E \in [D -> Seq(Entry)], Logs(D, E), Commits(D, E)
    PROVE  Commits(D, E)'
<1> DEFINE new == AppendedLog(log[m.to], m)
           through == m.prev + Len(m.entries)
<1>1. /\ m.to # m.from /\ m \in MessageType /\ m.to \in Node /\ m.from \in Node /\ m.term \in Nat
      /\ through \in Nat /\ m.commit \in Nat /\ m.prev \in Nat
      /\ log \in [Node -> Seq(Entry)] /\ commitIndex \in [Node -> Nat]
  <2>1. log \in [Node -> Seq(Entry)] /\ commitIndex \in [Node -> Nat]
    BY DEF IInv, TypeOK
  <2> QED BY <2>1, OneSender, RequestTypes
<1>2. CallsShrink /\ TermsGrow /\ NoNewLeader /\ currentTerm'[m.to] = ReplyTerm(m)
  BY <1>1, HandleCalls
<1>3. /\ \A v \in Node : log'[v] = IF v = m.to /\ ReplySuccess(m) THEN new ELSE log[v]
      /\ \A v \in Node : commitIndex'[v] = IF v = m.to /\ ReplySuccess(m)
                                           THEN AdvanceFollowerCommit(commitIndex[v], m.commit, new)
                                           ELSE commitIndex[v]
      /\ round' = round
  BY <1>1 DEF HandleAppendEntries
<1>4. ReplySuccess(m) => /\ currentTerm[m.to] <= m.term /\ ReplyTerm(m) = m.term
                         /\ role'[m.to] = "Follower"
                         /\ LogMatches(log[m.to], m, commitIndex[m.to])
  <2>1. currentTerm[m.to] \in Nat
    BY <1>1, NodeTypes
  <2>2. ReplySuccess(m) => m.term >= currentTerm[m.to] /\ LogMatches(log[m.to], m, commitIndex[m.to])
    BY DEF ReplySuccess
  <2>3. m.term >= currentTerm[m.to] => ReplyTerm(m) = m.term
    BY <1>1, <2>1 DEF ReplyTerm, Larger
  <2> QED BY <1>1, <2>1, <2>2, <2>3, HandleCalls
<1> HIDE DEF new, through
<1>5. LeadersFixed
  BY <1>2, <1>3, <1>4 DEF LeadersFixed, NoNewLeader
<1>6. AnswersRecorded
  <2> SUFFICES ASSUME NEW n \in Node, role'[n] = "Leader"
               PROVE  /\ tracker'[n].term = tracker[n].term
                      /\ \A q \in Node :
                           \/ tracker'[n].match[q] = tracker[n].match[q]
                           \/ currentTerm[q] <= currentTerm[n] /\ currentTerm'[q] = currentTerm'[n]
    BY DEF AnswersRecorded
  <2>1. tracker'[n].term = tracker[n].term
    BY TrackerSteps
  <2>2. ASSUME NEW q \in Node, tracker'[n].match[q] # tracker[n].match[q]
        PROVE  currentTerm[q] <= currentTerm[n] /\ currentTerm'[q] = currentTerm'[n]
    <3>1. q = m.to /\ n = m.from /\ ReplySuccess(m) /\ Leading(n, m.term)
      BY <2>2, TrackerSteps
    <3>2. currentTerm[n] = m.term /\ currentTerm'[n] = m.term
      BY <1>2, <3>1 DEF Leading, NoNewLeader
    <3> QED BY <1>2, <1>4, <3>1, <3>2
  <2> QED BY <2>1, <2>2
<1>7. ASSUME NEW n \in Node
      PROVE  round'[n].term # 0 => tracker'[n].term = round'[n].term
  BY <1>3, TrackerSteps DEF Commits
<1>8. CopiesKeep(D, E)
  BY CopiesHandle
<1>9. ASSUME NEW n \in Node
      PROVE  Anchored(log[n], commitIndex[n], currentTerm[n], D, E)'
  <2>1. CASE commitIndex'[n] = commitIndex[n]
    BY <1>2, <1>8, <2>1, StableSame, SameCommit DEF Commits
  <2>2. CASE commitIndex'[n] # commitIndex[n]
    <3>1. n = m.to /\ ReplySuccess(m) /\ log'[n] = new
      BY <1>3, <2>2
    <3>2. new \in Seq(Entry) /\ Len(new) \in Nat
      <4>1. new \in Seq(Entry)
        BY <1>1, <1>4, <3>1, AppendedLogShape DEF LogMatches, new
      <4> QED BY <4>1, LenProperties
    <3>3. PICK c : c = commitIndex'[n]
      OBVIOUS
    <3>4. c \in Nat /\ c <= m.commit
      BY <1>1, <1>3, <2>2, <3>1, <3>2, <3>3 DEF AdvanceFollowerCommit, Larger, Smaller
    <3>5. RequestAnchored(m, D, E)
      BY DEF Commits
    <3>6. m.commit <= through /\ Anchored(E[m.term], m.commit, m.term, D, E)
      BY <3>5 DEF RequestAnchored, through
    <3>7. m.term \in D /\ Agree(new, E[m.term], through)
      <4>1. m.term \in D /\ SegmentOf(m, E[m.term])
        BY DEF Logs, Sourced
      <4>2. Backed(log[m.to], D, E) /\ Backed(E[m.term], D, E)
        BY <1>1, <4>1 DEF Logs
      <4> QED BY <1>1, <1>4, <3>1, <4>1, <4>2, Accepted DEF new, through
    <3>8. Len(E[m.term]) \in Nat /\ c <= through
      BY <1>1, <3>4, <3>6, <3>7, LenProperties
    <3>9. Agree(new, E[m.term], c)
      BY <1>1, <3>2, <3>4, <3>7, <3>8, AgreeLess
    <3>10. Anchored(E[m.term], c, m.term, D, E)
      <4>1. CASE m.commit = 0
        BY <3>4, <4>1 DEF Anchored
      <4>2. CASE m.commit # 0
        <5>1. PICK t \in D : \E j \in Nat : t <= m.term /\ m.commit <= j /\ Stable(t, j, D, E)
                                            /\ Agree(E[m.term], E[t], m.commit)
          BY <3>6, <4>2 DEF Anchored
        <5>2. PICK j \in Nat : t <= m.term /\ m.commit <= j /\ Stable(t, j, D, E)
                               /\ Agree(E[m.term], E[t], m.commit)
          BY <5>1
        <5>3. Len(E[t]) \in Nat
          BY LenProperties
        <5>4. Agree(E[m.term], E[t], c) /\ c <= j
          BY <1>1, <3>4, <3>8, <5>2, <5>3, AgreeLess
        <5> QED BY <5>2, <5>4 DEF Anchored
      <4> QED BY <4>1, <4>2
    <3>11. c <= Len(new) /\ \A i \in 1..c : new[i] = E[m.term][i]
      BY <3>9 DEF Agree
    <3>12. PICK l, T : l = new /\ T = m.term
      OBVIOUS
    <3>13. Anchored(l, c, T, D, E)'
      <4>1. PICK k : k = E[T]
        OBVIOUS
      <4>2. /\ Wider(D, E, D, E)
            /\ \A t, j : j \in Nat /\ Stable(t, j, D, E) => Stable(t, j, D, E)'
        BY <1>2, <1>8, StableSame
      <4>3. /\ Len(k) \in Nat /\ Len(l) \in Nat /\ T \in Nat /\ Anchored(k, c, T, D, E)
            /\ c <= Len(l) /\ \A i \in 1..c : l[i] = k[i]
        BY <1>1, <3>2, <3>8, <3>10, <3>11, <3>12, <4>1
      <4> QED BY <3>4, <4>2, <4>3, AnchorKept
    <3>14. currentTerm'[n] = m.term
      BY <1>2, <1>4, <3>1
    <3> QED BY <3>1, <3>3, <3>12, <3>13, <3>14 DEF Anchored
  <2> QED BY <2>1, <2>2
<1> QED BY <1>2, <1>5, <1>6, <1>7, <1>8, <1>9, CommitsKept

LEMMA CommitsCrash ==
    ASSUME IInv, IInv', PrefixKept, MatchInv, MatchInv', "replicate" \notin Preempt,
           NEW m \in net, CrashInAppendEntries(m),
           NEW D \in SUBSET (Nat \ {0}), NEW E \in [D -> Seq(Entry)], Logs(D, E), Commits(D, E)
    PROVE  Commits(D, E)'
<1>1. m.to \in Node
  BY RequestTypes
<1>2. CallsShrink /\ TermsGrow /\ NoNewLeader /\ CopiesKeep(D, E) /\ UNCHANGED commitIndex
  BY CrashCalls, CopiesCrash DEF CrashInAppendEntries
<1>3. /\ \A v \in Node \ {m.to} : log'[v] = log[v]
      /\ \A v \in Node : \/ tracker'[v] = tracker[v] /\ v # m.to
                         \/ role'[v] = "Follower" /\ round'[v] = NoRound
  BY <1>1 DEF CrashInAppendEntries, LoseVolatile, IInv, TypeOK
<1>4. role'[m.to] = "Follower"
  BY <1>1 DEF CrashInAppendEntries, LoseVolatile, IInv, TypeOK
<1>5. LeadersFixed
  BY <1>2, <1>3, <1>4 DEF LeadersFixed, NoNewLeader
<1> QED BY <1>2, <1>3, <1>5, CommitsQuiet

LEMMA CopiesSame ==
    ASSUME UNCHANGED log, NEW D, NEW E
    PROVE  CopiesKeep(D, E)
BY DEF CopiesKeep

LEMMA CommitsRestart ==
    ASSUME IInv, IInv', PrefixKept, MatchInv, MatchInv', NEW n \in Node, Restart(n),
           NEW D \in SUBSET (Nat \ {0}), NEW E \in [D -> Seq(Entry)], Logs(D, E), Commits(D, E)
    PROVE  Commits(D, E)'
<1>1. CallsShrink /\ TermsGrow /\ NoNewLeader /\ UNCHANGED <<log, commitIndex>>
  BY RestartCalls DEF Restart
<1>2. LeadersFixed /\ CopiesKeep(D, E)
  BY <1>1, CopiesSame DEF LeadersFixed, NoNewLeader
<1>3. \A v \in Node : \/ tracker'[v] = tracker[v]
                      \/ role'[v] = "Follower" /\ round'[v] = NoRound
  BY DEF Restart, LoseVolatile, IInv, TypeOK
<1> QED BY <1>1, <1>2, <1>3, CommitsQuiet

\* Nothing but requests and submissions changes.
LEMMA CommitsIdle ==
    ASSUME IInv, IInv', PrefixKept, MatchInv, MatchInv', CallsShrink,
           UNCHANGED <<currentTerm, role, log, commitIndex, tracker>>,
           NEW D \in SUBSET (Nat \ {0}), NEW E \in [D -> Seq(Entry)], Logs(D, E), Commits(D, E)
    PROVE  Commits(D, E)'
<1>1. TermsGrow /\ LeadersFixed /\ CopiesKeep(D, E)
  BY CopiesSame, NodeTypes DEF TermsGrow, LeadersFixed
<1> QED BY <1>1, CommitsQuiet

\* The peers that the tracker says have i, and the leader, are a quorum.
LEMMA CountedQuorum ==
    ASSUME NEW n \in Node, NEW P \in SUBSET Peers(n), 1 + Cardinality(P) >= QuorumSize
    PROVE  P \cup {n} \in Quorum
<1>1. IsFiniteSet(P) /\ n \notin P /\ P \cup {n} \in SUBSET Node
  BY NodeAssumption, FS_Subset DEF Peers
<1>2. Cardinality(P \cup {n}) = Cardinality(P) + 1 /\ Cardinality(P) \in Nat
  BY <1>1, FS_AddElement, FS_CardinalityType
<1> QED BY <1>1, <1>2 DEF Quorum

\* An entry of its term that a quorum acknowledged is there to stay.
LEMMA CommittableStable ==
    ASSUME IInv, MatchInv, NEW n \in Node, role[n] = "Leader", round[n].term # 0,
           currentTerm[n] = round[n].term,
           NEW i \in Committable(n, round[n].term),
           NEW D \in SUBSET (Nat \ {0}), NEW E \in [D -> Seq(Entry)], Logs(D, E), Commits(D, E)
    PROVE  /\ Stable(currentTerm[n], i, D, E) /\ currentTerm[n] \in D
           /\ i \in Nat /\ Agree(log[n], E[currentTerm[n]], i)
<1> DEFINE P == {p \in Peers(n) : tracker[n].match[p] >= i}
           Q == P \cup {n}
           t == currentTerm[n]
<1>1. /\ i \in 1..Len(log[n]) /\ log[n][i].term = t /\ Q \in Quorum /\ P \in SUBSET Peers(n)
      /\ Len(log[n]) \in Nat /\ i \in Nat /\ i # 0 /\ t \in Nat
  <2>1. commitIndex[n] \in Nat /\ Len(log[n]) \in Nat /\ t \in Nat
    BY NodeTypes
  <2>2. /\ i \in (commitIndex[n] + 1)..Len(log[n]) /\ log[n][i].term = t
        /\ 1 + Cardinality(P) >= QuorumSize
    BY DEF Committable
  <2> QED BY <2>1, <2>2, CountedQuorum
<1>2. tracker[n].term = t
  BY DEF Commits
<1>3. Open(n, i)
  <2>1. \A v \in Q : currentTerm[v] <= currentTerm[n] \/ tracker[n].match[v] >= i
    BY <1>1
  <2> QED BY <1>1, <2>1 DEF Open
<1>4. /\ Later(t, i, D, E)
      /\ \A p \in P : Agree(log[p], log[n], i)
  <2>1. Pending(n, i, D, E)
    BY <1>1 DEF Commits
  <2> QED BY <1>1, <1>2, <1>3, <2>1 DEF Pending
<1>5. t \in D /\ log[n] = E[t]
  BY DEF Logs
<1>6. ASSUME NEW v \in Q
      PROVE  t <= currentTerm[v] /\ Agree(log[v], E[t], i)
  <2>1. CASE v = n
    BY <1>1, <1>5, <2>1 DEF Agree
  <2>2. CASE v \in P
    <3>1. v \in Node /\ currentTerm[v] \in Nat /\ tracker[n].match[v] \in Nat /\ tracker[n].match[v] # 0
      BY <1>1, <2>2, NodeTypes DEF Peers
    <3>2. currentTerm[v] >= t
      BY <1>2, <2>2, <3>1 DEF MatchInv, Matched
    <3> QED BY <1>1, <1>4, <1>5, <2>2, <3>1, <3>2
  <2> QED BY <2>1, <2>2
<1>7. Agree(log[n], E[t], i)
  BY <1>1, <1>5 DEF Agree
<1>8. \E R \in Quorum : \A v \in R : t <= currentTerm[v] /\ Agree(log[v], E[t], i)
  BY <1>1, <1>6
<1>9. Stable(t, i, D, E)
  BY <1>1, <1>4, <1>5, <1>8 DEF Stable
<1> QED BY <1>1, <1>5, <1>7, <1>9

LEMMA CommitsFinishRound ==
    ASSUME IInv, IInv', PrefixKept, MatchInv, MatchInv', NEW n \in Node, FinishRound(n),
           NEW D \in SUBSET (Nat \ {0}), NEW E \in [D -> Seq(Entry)], Logs(D, E), Commits(D, E)
    PROVE  Commits(D, E)'
<1>1. CallsShrink /\ TermsGrow /\ NoNewLeader /\ UNCHANGED <<currentTerm, role, log, tracker>>
  BY FinishRoundCalls DEF FinishRound
<1>2. LeadersFixed /\ CopiesKeep(D, E) /\ AnswersRecorded
  BY <1>1, CopiesSame DEF LeadersFixed, NoNewLeader, AnswersRecorded
<1>3. ASSUME NEW v \in Node
      PROVE  round'[v].term # 0 => tracker'[v].term = round'[v].term
  <2>1. round[v].term # 0 => tracker[v].term = round[v].term
    BY DEF Commits
  <2>2. NoRound.term = 0
    BY DEF NoRound
  <2> QED BY <1>1, <2>1, <2>2 DEF CallsShrink
<1>4. ASSUME NEW v \in Node
      PROVE  Anchored(log[v], commitIndex[v], currentTerm[v], D, E)'
  <2>1. CASE commitIndex'[v] = commitIndex[v]
    BY <1>1, <1>2, <2>1, StableSame, SameCommit DEF Commits
  <2>2. CASE commitIndex'[v] # commitIndex[v]
    <3>1. /\ v = n /\ role[n] = "Leader" /\ currentTerm[n] = round[n].term /\ round[n].term # 0
          /\ commitIndex'[n] \in Committable(n, round[n].term)
      BY <2>2 DEF FinishRound, IInv, TypeOK
    <3>2. PICK t, i, l : t = currentTerm[n] /\ i = commitIndex'[n] /\ l = log[n]
      OBVIOUS
    <3>3. Stable(t, i, D, E) /\ t \in D /\ i \in Nat /\ Agree(l, E[t], i)
      BY <3>1, <3>2, CommittableStable
    <3>4. Stable(t, i, D, E)' /\ t <= t /\ i <= i
      BY <1>1, <1>2, <3>3, StableSame
    <3>5. Anchored(l, i, t, D, E)'
      BY <3>3, <3>4 DEF Anchored
    <3> QED BY <1>1, <3>1, <3>2, <3>5 DEF Anchored
  <2> QED BY <2>1, <2>2
<1> QED BY <1>1, <1>2, <1>3, <1>4, CommitsKept

\* While a quorum is not past term t, no later term has had a leader.
LEMMA NoneLater ==
    ASSUME IInv, NEW D \in SUBSET (Nat \ {0}), NEW E, Logs(D, E), NEW t \in Nat,
           NEW Q \in Quorum, \A v \in Q : currentTerm[v] <= t, NEW u \in D
    PROVE  u <= t
<1>1. PICK R \in Quorum : \A v \in R : u <= currentTerm[v]
  BY DEF Logs, Reached
<1>2. PICK v \in Node : v \in Q /\ v \in R
  BY <1>1, QuorumsMeet
<1>3. currentTerm[v] \in Nat /\ currentTerm[v] <= t /\ u <= currentTerm[v] /\ u \in Nat
  BY <1>1, <1>2, NodeTypes
<1> QED BY <1>3

LEMMA CommitsStartRound ==
    ASSUME IInv, IInv', PrefixKept, "replicate" \notin Preempt,
           NEW n \in Node, NEW S \in SUBSET Peers(n), StartRound(n, S),
           NEW D \in SUBSET (Nat \ {0}), NEW E \in [D -> Seq(Entry)], Logs(D, E), Commits(D, E)
    PROVE  Commits(D, E)'
<1> DEFINE t == currentTerm[n]
           tr == EnsureInitialized(tracker[n], t, Len(log[n]))
<1>1. /\ t \in D /\ log[n] = E[t] /\ tr \in TrackerType /\ t \in Nat /\ role[n] = "Leader"
      /\ commitIndex[n] <= Len(log[n])
  <2>1. tr \in TrackerType
    BY DEF StartRound, IInv, TypeOK
  <2>2. role[n] = "Leader"
    BY DEF StartRound
  <2> QED BY <2>1, <2>2, NodeTypes DEF Logs, IInv, CommitWithinLog
<1>2. /\ UNCHANGED <<currentTerm, role, log, commitIndex>>
      /\ \A v \in Node : tracker'[v] = IF v = n THEN tr ELSE tracker[v]
      /\ \A v \in Node \ {n} : round'[v] = round[v]
      /\ round'[n].term = t
  BY DEF StartRound, IInv, TypeOK, replicaVars
<1>3. /\ tr.term = t
      /\ tracker[n].term = t => tr = tracker[n]
      /\ tracker[n].term # t => \A p \in Node : tr.match[p] = 0
  BY DEF EnsureInitialized
<1>4. \A k \in net' : \/ k \in net
                      \/ \E p \in S : Readable(n, p, tr) /\ k = Request(Draft(n, p, tr, t), commitIndex[n])
  BY DEF StartRound
<1> HIDE DEF tr
<1>5. TermsGrow /\ CopiesKeep(D, E)
  BY <1>2, CopiesSame, NodeTypes DEF TermsGrow
<1>6. /\ Wider(D, E, D, E)
      /\ \A s, j : j \in Nat /\ Stable(s, j, D, E) => Stable(s, j, D, E)'
  BY <1>5, StableSame
<1>7. ASSUME NEW v \in Node
      PROVE  Anchored(log[v], commitIndex[v], currentTerm[v], D, E)'
  BY <1>2, <1>5, <1>6, SameCommit DEF Commits
<1>8. ASSUME NEW v \in Node
      PROVE  round'[v].term # 0 => tracker'[v].term = round'[v].term
  BY <1>2, <1>3 DEF Commits
<1>9. ASSUME NEW v \in Node, NEW i \in Nat
      PROVE  Pending(v, i, D, E)'
  <2>1. CASE tracker'[v] = tracker[v]
    <3>1. Pending(v, i, D, E)
      BY DEF Commits
    <3> QED BY <1>2, <2>1, <3>1 DEF Pending, Open, Later, Peers
  <2>2. CASE tracker'[v] # tracker[v]
    <3>1. v = n /\ tracker'[n] = tr /\ \A p \in Node : tr.match[p] = 0
      BY <1>2, <1>3, <2>2
    <3> SUFFICES ASSUME i \in 1..Len(log'[n]), Open(n, i)'
                 PROVE  /\ Later(currentTerm'[n], i, D, E)
                        /\ \A p \in Peers(n) :
                             tracker'[n].match[p] >= i => Agree(log'[p], log'[n], i)
      BY <3>1 DEF Pending, Later, Peers
    <3>2. ~(0 >= i)
      OBVIOUS
    <3>3. PICK Q \in Quorum : \A w \in Q : currentTerm'[w] <= currentTerm'[n]
                                           \/ tracker'[n].match[w] >= i
      BY DEF Open
    <3>4. \A w \in Q : currentTerm[w] <= t
      BY <1>2, <3>1, <3>2, <3>3 DEF Quorum
    <3>5. \A u \in D : u <= t
      BY <1>1, <3>4, NoneLater
    <3>6. Later(currentTerm'[n], i, D, E)
      <4>1. currentTerm'[n] = t /\ t \in Nat
        BY <1>1, <1>2
      <4> HIDE DEF t
      <4>2. ASSUME NEW u \in D PROVE ~(u > t)
        <5>1. u <= t /\ u \in Nat
          BY <3>5
        <5> QED BY <4>1, <5>1
      <4> QED BY <4>1, <4>2 DEF Later
    <3> QED BY <3>1, <3>2, <3>6 DEF Peers
  <2> QED BY <2>1, <2>2
<1>10. ASSUME NEW l, NEW c, NEW T, Anchored(l, c, T, D, E)
       PROVE  Anchored(l, c, T, D, E)'
  BY <1>6, <1>10 DEF Anchored
<1>11. ASSUME NEW k \in net'
       PROVE  RequestAnchored(k, D, E)'
  <2>1. RequestAnchored(k, D, E)
    <3>1. CASE k \in net
      BY <3>1 DEF Commits
    <3>2. ASSUME NEW p \in S, Readable(n, p, tr), k = Request(Draft(n, p, tr, t), commitIndex[n])
          PROVE  RequestAnchored(k, D, E)
      <4>1. /\ Draft(n, p, tr, t).term = t
            /\ Draft(n, p, tr, t).prev + Len(Draft(n, p, tr, t).entries) = Len(log[n])
        BY <1>1, <3>2, DraftSegment DEF Peers
      <4>2. k.commit = commitIndex[n] /\ k.term = t /\ k.prev + Len(k.entries) = Len(log[n])
        BY <3>2, <4>1 DEF Request
      <4>3. Anchored(log[n], commitIndex[n], t, D, E)
        BY DEF Commits
      <4> QED BY <1>1, <4>2, <4>3 DEF RequestAnchored
    <3> QED BY <1>4, <3>1, <3>2
  <2> QED BY <1>10, <2>1 DEF RequestAnchored
<1> QED BY <1>7, <1>8, <1>9, <1>11 DEF Commits

\* A commit index that a request carries stays anchored when terms and
\* leaders' logs grow.
LEMMA RequestsAnchored ==
    ASSUME IInv, NEW D \in SUBSET (Nat \ {0}), NEW E \in [D -> Seq(Entry)],
           NEW D2, NEW E2 \in [D2 -> Seq(Entry)], Wider(D2, E2, D, E),
           \A t, j : j \in Nat /\ Stable(t, j, D, E) => Stable(t, j, D2, E2)',
           NEW m \in net, m.term \in D, RequestAnchored(m, D, E)
    PROVE  RequestAnchored(m, D2, E2)'
<1>1. PICK l, k, c, T : l = E[m.term] /\ k = E2[m.term] /\ c = m.commit /\ T = m.term
  OBVIOUS
<1>2. c \in Nat /\ T \in Nat /\ T \in D2 /\ Len(l) \in Nat /\ Len(k) \in Nat /\ Extends(k, l)
  BY <1>1, RequestTypes, LenProperties DEF Wider
<1>3. Anchored(l, c, T, D, E) /\ c <= Len(l)
  BY <1>1, <1>2 DEF RequestAnchored, Anchored, Agree
<1>4. c <= Len(k) /\ \A i \in 1..c : k[i] = l[i]
  BY <1>2, <1>3 DEF Extends
<1>5. T <= T
  BY <1>2
<1>6. Anchored(k, c, T, D2, E2)'
  BY <1>2, <1>3, <1>4, <1>5, AnchorKept
<1> QED BY <1>1, <1>6 DEF RequestAnchored

\* An election keeps everything that may have been committed: the voters of
\* the new leader and those who have the entry have one in common.
LEMMA CommitsElect ==
    ASSUME IInv, IInv', PrefixKept, MatchInv, NEW n \in Node, NEW Q \in Quorum, Elect(n, Q),
           NEW D \in SUBSET (Nat \ {0}), NEW E \in [D -> Seq(Entry)], Logs(D, E), Commits(D, E),
           NEW T \in Nat \ {0}, TermsGrow,
           Wins(Q, T),
           NEW D2, D2 = WithTerm(D, T), T \notin D,
           NEW E2, E2 = Elected(D, E, T, log[n]),
           E2 \in [D2 -> Seq(Entry)], Wider(D2, E2, D, E)
    PROVE  Commits(D2, E2)'
<1> USE DEF Wins
<1>1. /\ UNCHANGED <<log, commitIndex, tracker, round, net>>
      /\ n \in Q /\ \A v \in Q : IsCandidateLogUpToDate(v, Len(log[n]), LastTerm(log[n]))
      /\ \A v \in Node : role'[v] = "Leader" => v = n \/ (role[v] = "Leader" /\ v \notin Q)
  BY DEF Elect, callVars
<1>2. /\ \A t \in D : E2[t] = E[t] /\ t \in D2 /\ t < T /\ t \in Nat
      /\ T \in D2 /\ E2[T] = log[n]
  BY DEF Logs, Elected, WithTerm
<1>3. ASSUME NEW t \in D, NEW j \in 1..Len(E[t]), E[t][j].term = t, Later(t, j, D, E),
             NEW v \in Node, v \in Q, Agree(log[v], E[t], j)
      PROVE  Later(t, j, D2, E2)
  <2>1. Agree(log[n], E[t], j)
    BY <1>1, <1>3, UpToDate
  <2> SUFFICES ASSUME NEW u \in D2, u > t PROVE Agree(E2[u], E2[t], j)
    BY DEF Later
  <2>2. CASE u = T
    BY <1>2, <2>1, <2>2
  <2>3. CASE u \in D
    BY <1>2, <1>3, <2>3 DEF Later
  <2> QED BY <2>2, <2>3 DEF WithTerm
<1>4. ASSUME NEW t, NEW j \in Nat, Stable(t, j, D, E)
      PROVE  Stable(t, j, D2, E2)'
  <2>1. PICK R \in Quorum : \A v \in R : t <= currentTerm[v] /\ Agree(log[v], E[t], j)
    BY <1>4 DEF Stable
  <2>2. PICK v \in Node : v \in Q /\ v \in R
    BY <2>1, QuorumsMeet
  <2>3. Later(t, j, D2, E2)
    BY <1>3, <1>4, <2>1, <2>2 DEF Stable
  <2>4. CopiesKeep(D, E)
    BY <1>1, CopiesSame
  <2> QED BY <1>4, <2>3, <2>4, StableKept
<1>5. ASSUME NEW v \in Node
      PROVE  Anchored(log[v], commitIndex[v], currentTerm[v], D2, E2)'
  BY <1>1, <1>4, SameCommit DEF Commits
<1>6. ASSUME NEW m \in net'
      PROVE  RequestAnchored(m, D2, E2)'
  <2>1. m \in net /\ m.term \in D /\ RequestAnchored(m, D, E)
    BY <1>1 DEF Logs, Commits, Sourced
  <2> QED BY <1>4, <2>1, RequestsAnchored
<1>7. ASSUME NEW v \in Node, NEW i \in Nat
      PROVE  Pending(v, i, D2, E2)'
  <2> SUFFICES ASSUME role'[v] = "Leader", tracker'[v].term = currentTerm'[v],
                      i \in 1..Len(log'[v]), log'[v][i].term = currentTerm'[v],
                      Open(v, i)'
               PROVE  /\ Later(currentTerm'[v], i, D2, E2)
                      /\ \A p \in Peers(v) : tracker'[v].match[p] >= i => Agree(log'[p], log'[v], i)
    BY DEF Pending, Later, Peers
  <2>1. v # n
    <3>1. tracker[n].term <= currentTerm[n] /\ currentTerm[n] \in Nat /\ currentTerm'[n] = T
      BY <1>1, NodeTypes DEF MatchInv, Matched
    <3>2. currentTerm[n] < T
      <4>1. \E u \in Q : currentTerm[u] + 1 = T /\ currentTerm[n] <= currentTerm[u] /\ u \in Node
        BY <1>1, NodeTypes DEF Elect, Quorum
      <4> QED BY <3>1, <4>1, NodeTypes
    <3>3. tracker[n].term \in Int
      BY NodeTypes
    <3> QED BY <1>1, <3>1, <3>2, <3>3
  <2>2. role[v] = "Leader" /\ v \notin Q /\ currentTerm'[v] = currentTerm[v]
    BY <1>1, <2>1
  <2>3. PICK t : t = currentTerm[v]
    OBVIOUS
  <2>4. t \in D /\ log[v] = E[t] /\ t < T /\ t \in Nat
    BY <1>2, <2>2, <2>3 DEF Logs
  <2>5. PICK R \in Quorum : \A w \in R : currentTerm'[w] <= t \/ tracker[v].match[w] >= i
    BY <1>1, <2>2, <2>3 DEF Open
  <2>6. Open(v, i)
    <3>1. ASSUME NEW w \in R
          PROVE  currentTerm[w] <= currentTerm[v] \/ tracker[v].match[w] >= i
      <4>1. w \in Node /\ currentTerm[w] <= currentTerm'[w]
        BY DEF Quorum, TermsGrow
      <4>2. currentTerm[w] \in Nat /\ currentTerm'[w] \in Nat
        BY <4>1, NodeTypes, NextTypes
      <4>3. currentTerm'[w] <= t \/ tracker[v].match[w] >= i
        BY <2>5
      <4>4. currentTerm'[w] <= t => currentTerm[w] <= t
        BY <2>4, <4>1, <4>2
      <4> QED BY <2>3, <4>3, <4>4
    <3> QED BY <3>1 DEF Open
  <2>7. /\ Later(t, i, D, E)
        /\ \A p \in Peers(v) : tracker[v].match[p] >= i => Agree(log[p], log[v], i)
    <3>1. Pending(v, i, D, E)
      BY DEF Commits
    <3> QED BY <1>1, <2>2, <2>3, <2>6, <3>1 DEF Pending
  <2>8. PICK w \in Node : w \in Q /\ w \in R
    BY QuorumsMeet
  <2>9. tracker[v].match[w] >= i /\ w \in Peers(v)
    <3>1. currentTerm'[w] = T
      BY <2>8
    <3>2. ~(T <= t)
      BY <2>4
    <3> QED BY <2>2, <2>5, <2>8, <3>1, <3>2 DEF Peers
  <2>10. Agree(log[w], E[t], i)
    BY <2>4, <2>7, <2>9
  <2>11. i \in 1..Len(E[t]) /\ E[t][i].term = t
    BY <1>1, <2>2, <2>3, <2>4
  <2>12. Later(t, i, D2, E2)
    BY <1>3, <2>4, <2>7, <2>8, <2>10, <2>11
  <2> QED BY <1>1, <2>2, <2>3, <2>7, <2>12
<1>8. \A v \in Node : round'[v].term # 0 => tracker'[v].term = round'[v].term
  BY <1>1 DEF Commits
<1> QED BY <1>5, <1>6, <1>7, <1>8 DEF Commits

\* The leader's own log grows.
LEMMA CommitsAppend ==
    ASSUME IInv, IInv', PrefixKept, OwnerInv, MatchInv, NEW n \in Node, role[n] = "Leader",
           NEW e \in Entry, e.term = currentTerm[n],
           log' = [log EXCEPT ![n] = Append(@, e)],
           UNCHANGED <<currentTerm, role, tracker, round, net, commitIndex, submit>>,
           NEW D \in SUBSET (Nat \ {0}), NEW E \in [D -> Seq(Entry)], Logs(D, E), Commits(D, E),
           NEW E2 \in [D -> Seq(Entry)], Wider(D, E2, D, E)
    PROVE  Commits(D, E2)'
<1>1. /\ log \in [Node -> Seq(Entry)]
      /\ \A v \in Node : log[v] \in Seq(Entry) /\ Len(log[v]) \in Nat /\ Len(log'[v]) \in Nat
      /\ \A t \in D : Len(E[t]) \in Nat /\ Len(E2[t]) \in Nat /\ Extends(E2[t], E[t])
  <2>1. log \in [Node -> Seq(Entry)]
    BY DEF IInv, TypeOK
  <2> QED BY <2>1, NodeTypes, NextTypes, LenProperties DEF Wider
<1>2. /\ \A v \in Node : v # n => log'[v] = log[v]
      /\ \A v \in Node : Extends(log'[v], log[v])
      /\ Len(log'[n]) = Len(log[n]) + 1
  BY <1>1, ExtendsSelf, AppendExtends, AppendProperties
<1>3. ASSUME NEW t \in D, NEW j \in Nat, Later(t, j, D, E)
      PROVE  Later(t, j, D, E2)
  <2> SUFFICES ASSUME NEW u \in D, u > t PROVE Agree(E2[u], E2[t], j)
    BY DEF Later
  <2>1. Agree(E[u], E[t], j)
    BY <1>3 DEF Later
  <2>2. /\ Len(E[u]) \in Nat /\ Len(E[t]) \in Nat /\ Len(E2[u]) \in Nat /\ Len(E2[t]) \in Nat
        /\ Extends(E2[u], E[u]) /\ Extends(E2[t], E[t])
    BY <1>1
  <2> QED BY <2>1, <2>2, AgreeGrown
<1>4. TermsGrow /\ CopiesKeep(D, E)
  BY <1>2, CopiesGrow, NodeTypes DEF TermsGrow
<1>5. ASSUME NEW t, NEW j \in Nat, Stable(t, j, D, E)
      PROVE  Stable(t, j, D, E2)'
  <2>1. Later(t, j, D, E2)
    BY <1>3, <1>5 DEF Stable
  <2> QED BY <1>4, <1>5, <2>1, StableKept
<1>6. ASSUME NEW v \in Node
      PROVE  Anchored(log[v], commitIndex[v], currentTerm[v], D, E2)'
  BY <1>4, <1>5, SameCommit DEF Commits
<1>7. ASSUME NEW m \in net'
      PROVE  RequestAnchored(m, D, E2)'
  <2>1. m \in net /\ m.term \in D /\ RequestAnchored(m, D, E)
    BY DEF Logs, Commits, Sourced
  <2> QED BY <1>5, <2>1, RequestsAnchored
<1>8. ASSUME NEW v \in Node, NEW i \in Nat
      PROVE  Pending(v, i, D, E2)'
  <2> SUFFICES ASSUME role[v] = "Leader", tracker[v].term = currentTerm[v],
                      i \in 1..Len(log'[v]), log'[v][i].term = currentTerm[v],
                      Open(v, i)
               PROVE  /\ Later(currentTerm[v], i, D, E2)
                      /\ \A p \in Peers(v) : tracker[v].match[p] >= i => Agree(log'[p], log'[v], i)
    BY DEF Pending, Later, Peers, Open
  <2>1. currentTerm[v] \in D /\ currentTerm[v] \in Nat
    BY DEF Logs
  <2>2. CASE i <= Len(log[v])
    <3>1. i \in 1..Len(log[v]) /\ log'[v][i] = log[v][i]
      BY <1>1, <1>2, <2>2 DEF Extends
    <3>2. Pending(v, i, D, E)
      BY DEF Commits
    <3>3. /\ Later(currentTerm[v], i, D, E)
          /\ \A p \in Peers(v) : tracker[v].match[p] >= i => Agree(log[p], log[v], i)
      BY <3>1, <3>2 DEF Pending
    <3>4. ASSUME NEW p \in Peers(v), tracker[v].match[p] >= i
          PROVE  Agree(log'[p], log'[v], i)
      <4>1. Agree(log[p], log[v], i) /\ p \in Node
        BY <3>3, <3>4 DEF Peers
      <4>2. Extends(log'[p], log[p]) /\ Extends(log'[v], log[v])
        BY <1>2, <4>1
      <4> QED BY <1>1, <4>1, <4>2 DEF Agree, Extends
    <3> QED BY <1>3, <2>1, <3>3, <3>4
  <2>3. CASE i > Len(log[v])
    <3>1. \A p \in Peers(v) : ~(tracker[v].match[p] >= i)
      <4> SUFFICES ASSUME NEW p \in Peers(v) PROVE ~(tracker[v].match[p] >= i)
        OBVIOUS
      <4>1. tracker[v].match[p] <= Len(log[v]) /\ p \in Node
        BY DEF MatchInv, Matched, Peers
      <4>2. tracker[v].match[p] \in Nat
        BY <4>1, NodeTypes
      <4> QED BY <1>1, <2>3, <4>1, <4>2
    <3>2. PICK Q \in Quorum : \A w \in Q : currentTerm[w] <= currentTerm[v]
                                           \/ tracker[v].match[w] >= i
      BY DEF Open
    <3>3. ASSUME NEW w \in Q PROVE currentTerm[w] <= currentTerm[v]
      <4>1. w = v \/ w \in Peers(v)
        BY DEF Quorum, Peers
      <4>2. currentTerm[v] <= currentTerm[v]
        BY <2>1
      <4> QED BY <3>1, <3>2, <4>1, <4>2
    <3>4. \A u \in D : u <= currentTerm[v]
      BY <2>1, <3>3, NoneLater
    <3>5. Later(currentTerm[v], i, D, E2)
      BY <2>1, <3>4 DEF Later
    <3> QED BY <3>1, <3>5
  <2> QED BY <1>1, <2>2, <2>3
<1>9. \A v \in Node : round'[v].term # 0 => tracker'[v].term = round'[v].term
  BY DEF Commits
<1> QED BY <1>6, <1>7, <1>8, <1>9 DEF Commits

-----------------------------------------------------------------------------
(* The logs, step by step.                                                 *)

History(D, E) ==
    /\ Logs(D, E)
    /\ "replicate" \notin Preempt => Commits(D, E)

LogInv == \E D \in SUBSET (Nat \ {0}) : \E E \in [D -> Seq(Entry)] : History(D, E)

LEMMA InitLogs == Init => MatchInv /\ LogInv
<1> SUFFICES ASSUME Init PROVE MatchInv /\ LogInv
  OBVIOUS
<1>1. PICK E : E \in [{} -> Seq(Entry)]
  <2>1. [t \in {} |-> t] \in [{} -> Seq(Entry)]
    OBVIOUS
  <2> QED BY <2>1
<1>2. Len(<< >>) = 0
  BY EmptySeq
<1>3. Logs({}, E)
  BY <1>2 DEF Init, Logs, Backed, RoundSourced, NoRound, NoSubmit
<1>4. ASSUME NEW n \in Node PROVE Anchored(log[n], commitIndex[n], currentTerm[n], {}, E)
  BY DEF Init, Anchored
<1>5. Commits({}, E)
  BY <1>4 DEF Init, Commits, Pending, NoRound
<1>6. MatchInv
  BY DEF Init, MatchInv, Matched, NoTracker
<1> QED BY <1>1, <1>3, <1>5, <1>6 DEF LogInv, History

LEMMA LogInvElect ==
    ASSUME IInv, IInv', PrefixKept, MatchInv, LogInv, NEW n \in Node, NEW Q \in Quorum, Elect(n, Q)
    PROVE  LogInv'
<1>1. PICK D \in SUBSET (Nat \ {0}) : \E E \in [D -> Seq(Entry)] : History(D, E)
  BY DEF LogInv
<1>2. PICK E \in [D -> Seq(Entry)] : History(D, E)
  BY <1>1
<1>3. PICK T \in Nat \ {0} : TermsGrow /\ Wins(Q, T)
  BY ElectTerms DEF Wins
<1>4. PICK D2 : D2 = WithTerm(D, T)
  OBVIOUS
<1>5. PICK E2 : E2 = Elected(D, E, T, log[n])
  OBVIOUS
<1>6. Logs(D, E)
  BY <1>2 DEF History
<1>7. /\ D2 \in SUBSET (Nat \ {0}) /\ E2 \in [D2 -> Seq(Entry)]
      /\ Wider(D2, E2, D, E) /\ T \notin D
      /\ Logs(D2, E2)'
  BY <1>3, <1>4, <1>5, <1>6, LogsElect
<1>8. "replicate" \notin Preempt => Commits(D2, E2)'
  <2> SUFFICES ASSUME "replicate" \notin Preempt PROVE Commits(D2, E2)'
    OBVIOUS
  <2>1. Commits(D, E)
    BY <1>2 DEF History
  <2> QED BY <1>3, <1>4, <1>5, <1>6, <1>7, <2>1, CommitsElect
<1>9. History(D2, E2)'
  BY <1>7, <1>8 DEF History
<1> QED BY <1>7, <1>9 DEF LogInv

LEMMA LogInvAppend ==
    ASSUME IInv, IInv', PrefixKept, OwnerInv, MatchInv, LogInv,
           "append" \notin Preempt, NEW n \in Node, NEW c \in Command, SubmitCheck(n, c)
    PROVE  LogInv' /\ MatchInv'
<1>1. PICK D \in SUBSET (Nat \ {0}) : \E E \in [D -> Seq(Entry)] : History(D, E)
  BY DEF LogInv
<1>2. PICK E \in [D -> Seq(Entry)] : History(D, E)
  BY <1>1
<1>3. PICK e : e = [term |-> currentTerm[n], cmd |-> c]
  OBVIOUS
<1>4. /\ e \in Entry /\ e.term = currentTerm[n] /\ role[n] = "Leader"
      /\ log' = [log EXCEPT ![n] = Append(@, e)]
      /\ UNCHANGED <<currentTerm, role, tracker, round, net, commitIndex, submit>>
  BY <1>3, NodeTypes DEF SubmitCheck, Entry
<1>5. PICK E2 : E2 = Grown(E, e)
  OBVIOUS
<1>6. Logs(D, E)
  BY <1>2 DEF History
<1>7. E2 \in [D -> Seq(Entry)] /\ Wider(D, E2, D, E) /\ Logs(D, E2)'
  BY <1>4, <1>5, <1>6, LogsAppend
<1>8. "replicate" \notin Preempt => Commits(D, E2)'
  <2> SUFFICES ASSUME "replicate" \notin Preempt PROVE Commits(D, E2)'
    OBVIOUS
  <2>1. Commits(D, E)
    BY <1>2 DEF History
  <2> QED BY <1>4, <1>6, <1>7, <2>1, CommitsAppend
<1>9. History(D, E2)'
  BY <1>7, <1>8 DEF History
<1>10. MatchInv'
  <2>1. ASSUME NEW v \in Node PROVE Extends(log'[v], log[v])
    <3>1. log \in [Node -> Seq(Entry)] /\ log[v] \in Seq(Entry) /\ Len(log[v]) \in Nat
      BY NodeTypes DEF IInv, TypeOK
    <3> QED BY <1>4, <3>1, ExtendsSelf, AppendExtends
  <2> QED BY <1>4, <2>1, MatchGrow
<1> QED BY <1>7, <1>9, <1>10 DEF LogInv

\* The steps after which the leaders' logs are what they were.
LEMMA LogInvRequest ==
    ASSUME IInv, IInv', PrefixKept, OwnerInv, MatchInv, LogInv, NEW m \in net, RequestStep(m)
    PROVE  LogInv' /\ MatchInv'
<1>1. PICK D \in SUBSET (Nat \ {0}) : \E E \in [D -> Seq(Entry)] : History(D, E)
  BY DEF LogInv
<1>2. PICK E \in [D -> Seq(Entry)] : History(D, E)
  BY <1>1
<1>3. Logs(D, E) /\ ("replicate" \notin Preempt => Commits(D, E))
  BY <1>2 DEF History
<1>4. ASSUME NEW answered \in BOOLEAN, HandleAppendEntries(m, answered)
      PROVE  History(D, E)' /\ MatchInv'
  <2>1. Logs(D, E)' /\ MatchInv'
    BY <1>3, <1>4, LogsHandle, MatchHandle
  <2>2. "replicate" \notin Preempt => Commits(D, E)'
    BY <1>3, <1>4, <2>1, CommitsHandle
  <2> QED BY <2>1, <2>2 DEF History
<1>5. ASSUME CrashInAppendEntries(m)
      PROVE  History(D, E)' /\ MatchInv'
  <2>1. Logs(D, E)' /\ MatchInv'
    BY <1>3, <1>5, LogsCrash, MatchCrash
  <2>2. "replicate" \notin Preempt => Commits(D, E)'
    BY <1>3, <1>5, <2>1, CommitsCrash
  <2> QED BY <2>1, <2>2 DEF History
<1>6. ASSUME LoseRequest(m)
      PROVE  History(D, E)' /\ MatchInv'
  <2>1. /\ CallsShrink /\ TermsGrow /\ NoNewLeader
        /\ UNCHANGED <<currentTerm, role, log, commitIndex, tracker, submit>>
    BY <1>6, LoseRequestCalls DEF LoseRequest, replicaVars, callVars
  <2>2. \A v \in Node : submit'[v].pc # "checked" /\ Extends(log'[v], log[v])
    BY <1>3, <2>1, NodeTypes, ExtendsSelf DEF Logs
  <2>3. Logs(D, E)' /\ MatchInv'
    BY <1>3, <2>1, <2>2, LogsQuiet, MatchGrow
  <2>4. "replicate" \notin Preempt => Commits(D, E)'
    BY <1>3, <2>1, <2>3, CommitsIdle
  <2> QED BY <2>3, <2>4 DEF History
<1>7. History(D, E)' /\ MatchInv'
  BY <1>4, <1>5, <1>6 DEF RequestStep
<1> QED BY <1>7 DEF LogInv

LEMMA LogInvCalls ==
    ASSUME IInv, IInv', PrefixKept, OwnerInv, MatchInv, LogInv, RequestsWhole, NEW n \in Node,
           \/ \E S \in SUBSET Peers(n) : StartRound(n, S)
           \/ RoundStep(n)
           \/ Restart(n)
    PROVE  LogInv' /\ MatchInv'
<1>1. PICK D \in SUBSET (Nat \ {0}) : \E E \in [D -> Seq(Entry)] : History(D, E)
  BY DEF LogInv
<1>2. PICK E \in [D -> Seq(Entry)] : History(D, E)
  BY <1>1
<1>3. Logs(D, E) /\ ("replicate" \notin Preempt => Commits(D, E))
  BY <1>2 DEF History
<1>4. ASSUME NEW S \in SUBSET Peers(n), StartRound(n, S)
      PROVE  History(D, E)' /\ MatchInv'
  <2>1. Logs(D, E)' /\ MatchInv'
    BY <1>3, <1>4, LogsStartRound, MatchStartRound
  <2>2. "replicate" \notin Preempt => Commits(D, E)'
    BY <1>3, <1>4, CommitsStartRound
  <2> QED BY <2>1, <2>2 DEF History
<1>5. UNCHANGED <<currentTerm, role, tracker, log>> => MatchInv'
  <2> SUFFICES ASSUME UNCHANGED <<currentTerm, role, tracker, log>> PROVE MatchInv'
    OBVIOUS
  <2>1. \A v \in Node : Extends(log'[v], log[v])
    BY NodeTypes, ExtendsSelf
  <2> QED BY <2>1, MatchGrow
<1>6. RoundSourced(n, D, E)
  BY <1>3 DEF Logs
<1>7. ASSUME NEW p \in Peers(n), ReadLog(n, p)
      PROVE  History(D, E)' /\ MatchInv'
  <2>1. Logs(D, E)'
    BY <1>3, <1>7, LogsReadLog
  <2>2. "replicate" \in Preempt
    BY <1>6, <1>7 DEF ReadLog, RoundSourced
  <2>3. MatchInv'
    BY <1>5, <1>7 DEF ReadLog, replicaVars
  <2> QED BY <2>1, <2>2, <2>3 DEF History
<1>8. ASSUME SendAppendEntries(n)
      PROVE  History(D, E)' /\ MatchInv'
  <2>1. Logs(D, E)'
    BY <1>3, <1>8, LogsSend
  <2>2. "replicate" \in Preempt
    BY <1>6, <1>8 DEF SendAppendEntries, RoundSourced
  <2>3. MatchInv'
    BY <1>5, <1>8 DEF SendAppendEntries, replicaVars
  <2> QED BY <2>1, <2>2, <2>3 DEF History
<1>9. ASSUME FinishRound(n)
      PROVE  History(D, E)' /\ MatchInv'
  <2>1. /\ CallsShrink /\ TermsGrow /\ NoNewLeader
        /\ UNCHANGED <<currentTerm, role, log, tracker, submit>>
    BY <1>9, FinishRoundCalls DEF FinishRound
  <2>2. MatchInv' /\ \A v \in Node : submit'[v].pc # "checked"
    BY <1>3, <1>5, <2>1 DEF Logs
  <2>3. Logs(D, E)'
    BY <1>3, <2>1, <2>2, LogsQuiet
  <2>4. "replicate" \notin Preempt => Commits(D, E)'
    BY <1>3, <1>9, <2>2, CommitsFinishRound
  <2> QED BY <2>2, <2>3, <2>4 DEF History
<1>10. ASSUME Restart(n)
       PROVE  History(D, E)' /\ MatchInv'
  <2>1. CallsShrink /\ TermsGrow /\ NoNewLeader /\ UNCHANGED log
    BY <1>10, RestartCalls DEF Restart
  <2>2. \A v \in Node : submit'[v].pc # "checked"
    BY <1>3, <1>10 DEF Restart, LoseVolatile, IInv, TypeOK, NoSubmit, Logs
  <2>3. Logs(D, E)' /\ MatchInv'
    BY <1>3, <1>10, <2>1, <2>2, LogsQuiet, MatchRestart
  <2>4. "replicate" \notin Preempt => Commits(D, E)'
    BY <1>3, <1>10, <2>3, CommitsRestart
  <2> QED BY <2>3, <2>4 DEF History
<1>11. ~ReadEntries(n)
  BY <1>6 DEF ReadEntries, RoundSourced
<1>12. History(D, E)' /\ MatchInv'
  BY <1>4, <1>7, <1>8, <1>9, <1>10, <1>11 DEF RoundStep
<1> QED BY <1>12 DEF LogInv

\* Submissions that append nothing, and stuttering.
LEMMA LogInvIdle ==
    ASSUME IInv, IInv', PrefixKept, MatchInv, LogInv,
           UNCHANGED <<currentTerm, role, log, commitIndex, tracker, round, net>>,
           \A v \in Node : submit[v].pc # "checked" => submit'[v].pc # "checked"
    PROVE  LogInv' /\ MatchInv'
<1>1. PICK D \in SUBSET (Nat \ {0}) : \E E \in [D -> Seq(Entry)] : History(D, E)
  BY DEF LogInv
<1>2. PICK E \in [D -> Seq(Entry)] : History(D, E)
  BY <1>1
<1>3. Logs(D, E) /\ ("replicate" \notin Preempt => Commits(D, E))
  BY <1>2 DEF History
<1>4. CallsShrink /\ TermsGrow /\ NoNewLeader
  BY SubmissionCalls
<1>5. \A v \in Node : submit'[v].pc # "checked" /\ Extends(log'[v], log[v])
  BY <1>3, NodeTypes, ExtendsSelf DEF Logs
<1>6. Logs(D, E)' /\ MatchInv'
  BY <1>3, <1>4, <1>5, LogsQuiet, MatchGrow
<1>7. "replicate" \notin Preempt => Commits(D, E)'
  BY <1>3, <1>4, <1>6, CommitsIdle
<1>8. History(D, E)'
  BY <1>6, <1>7 DEF History
<1> QED BY <1>6, <1>8 DEF LogInv

LEMMA LogInvNext ==
    ASSUME IInv, IInv', PrefixKept, OwnerInv, MatchInv, LogInv, "append" \notin Preempt,
           RequestsWhole, [Next]_vars
    PROVE  LogInv' /\ MatchInv'
<1>1. ASSUME NEW n \in Node, NEW Q \in Quorum, Elect(n, Q)
      PROVE  LogInv' /\ MatchInv'
  BY <1>1, LogInvElect, MatchElect
<1>2. ASSUME NEW n \in Node, NEW c \in Command, SubmitCheck(n, c)
      PROVE  LogInv' /\ MatchInv'
  BY <1>2, LogInvAppend
<1>3. ASSUME NEW n \in Node, AppendCommand(n)
      PROVE  LogInv' /\ MatchInv'
  <2>1. submit[n].pc # "checked"
    BY DEF LogInv, History, Logs
  <2> QED BY <1>3, <2>1 DEF AppendCommand
<1>4. ASSUME NEW n \in Node, AwaitStep(n)
      PROVE  LogInv' /\ MatchInv'
  <2>1. UNCHANGED <<currentTerm, role, log, commitIndex, tracker, round, net>>
    BY <1>4 DEF AwaitStep, SubmitPoll, SubmitDecide, replicaVars
  <2>2. submit \in [Node -> SubmitType]
    BY DEF IInv, TypeOK
  <2>3. ASSUME NEW i \in 1..Len(log[n]), SubmitPoll(n, i)
        PROVE  \A v \in Node : submit[v].pc # "checked" => submit'[v].pc # "checked"
    BY <2>2, <2>3 DEF SubmitPoll
  <2>4. ASSUME SubmitDecide(n)
        PROVE  \A v \in Node : submit[v].pc # "checked" => submit'[v].pc # "checked"
    BY <2>2, <2>4 DEF SubmitDecide, NoSubmit
  <2> QED BY <1>4, <2>1, <2>3, <2>4, LogInvIdle DEF AwaitStep
<1>5. CASE UNCHANGED vars
  BY <1>5, LogInvIdle DEF vars, replicaVars, callVars
<1> QED
  BY <1>1, <1>2, <1>3, <1>4, <1>5, LogInvCalls, LogInvRequest DEF Next, ReplicationNext, NodeStep

-----------------------------------------------------------------------------
(* What the logs and the tracker promise.  Nothing may run between the     *)
(* test of the role and AppendCommand: a deposed leader would append an    *)
(* entry of its old term to a log that a later leader has rewritten, and   *)
(* term and index would no longer tell entries apart.  Nothing may run      *)
(* between the read of a previous entry's term and the read of the entries *)
(* either (RequestsWhole): a deposed leader would send the term of its own *)
(* entry with the entries of its successor, and a follower that still has  *)
(* the former would append the latter.  For what is committed, nothing may *)
(* run between the test of the role and the reads of the requests at all   *)
(* (the run replication_stale_commit).                                     *)

AppendsAtomic == "append" \notin Preempt
ReadsAtomic == "replicate" \notin Preempt

LogsSafe == IInv /\ OwnerInv /\ (AppendsAtomic /\ RequestsWhole => LogInv /\ MatchInv)

LEMMA LogsSafeHolds == Spec => []LogsSafe
<1>1. Init => LogsSafe
  BY InitIInv, InitOwners, InitLogs DEF LogsSafe
<1>2. LogsSafe /\ [Next]_vars => LogsSafe'
  <2> SUFFICES ASSUME LogsSafe, [Next]_vars PROVE LogsSafe'
    OBVIOUS
  <2>1. IInv' /\ PrefixKept
    BY NextStep DEF LogsSafe
  <2>2. OwnerInv'
    BY <2>1, OwnersNext DEF LogsSafe
  <2>3. AppendsAtomic /\ RequestsWhole => LogInv' /\ MatchInv'
    BY <2>1, LogInvNext DEF LogsSafe, AppendsAtomic
  <2> QED BY <2>1, <2>2, <2>3 DEF LogsSafe, AppendsAtomic, RequestsWhole
<1> QED BY <1>1, <1>2, PTL DEF Spec

\* Logs with the same term at an index are the same up to it, in every
\* cluster: whatever is lost or late, whoever crashes in the middle of a
\* handler, and also when others run between the test of the role, the reads
\* of the log and the read of the commit index, so long as nobody runs between
\* GetTermAt and GetEntriesFrom.
THEOREM LogsMatch == Spec => [](AppendsAtomic /\ RequestsWhole => LogMatching)
<1>1. LogsSafe => (AppendsAtomic /\ RequestsWhole => LogMatching)
  <2> SUFFICES ASSUME LogsSafe, AppendsAtomic, RequestsWhole PROVE LogMatching
    OBVIOUS
  <2>1. PICK D \in SUBSET (Nat \ {0}) : \E E \in [D -> Seq(Entry)] : History(D, E)
    BY DEF LogsSafe, LogInv
  <2>2. PICK E \in [D -> Seq(Entry)] : History(D, E)
    BY <2>1
  <2> SUFFICES ASSUME NEW m \in Node, NEW n \in Node,
                      NEW i \in 1..Smaller(Len(log[m]), Len(log[n])),
                      log[m][i].term = log[n][i].term
               PROVE  \A j \in 1..i : log[m][j] = log[n][j]
    BY DEF LogMatching
  <2>3. i \in 1..Len(log[m]) /\ i \in 1..Len(log[n])
    BY NodeTypes DEF LogsSafe, Smaller
  <2>4. Backed(log[m], D, E) /\ Backed(log[n], D, E)
    BY <2>2 DEF History, Logs
  <2>5. Agree(log[m], log[n], i)
    BY <2>3, <2>4, SameTerm
  <2> QED BY <2>5 DEF Agree
<1> QED BY <1>1, LogsSafeHolds, PTL

\* The match index of a peer of the leader's term is an index up to which the
\* peer's log is the leader's, under the same conditions: a request put
\* together from two logs would be acknowledged for what it left in neither.
THEOREM TrackerIsSound == Spec => [](AppendsAtomic /\ RequestsWhole => MatchIndexSound)
<1>1. LogsSafe => (AppendsAtomic /\ RequestsWhole => MatchIndexSound)
  <2> SUFFICES ASSUME LogsSafe, AppendsAtomic, RequestsWhole PROVE MatchIndexSound
    OBVIOUS
  <2> SUFFICES ASSUME NEW n \in Node, NEW p \in Peers(n), role[n] = "Leader",
                      tracker[n].term = currentTerm[n], currentTerm[p] = currentTerm[n]
               PROVE  /\ tracker[n].match[p] <= Smaller(Len(log[n]), Len(log[p]))
                      /\ \A i \in 1..tracker[n].match[p] : log[p][i] = log[n][i]
    BY DEF MatchIndexSound
  <2>1. Agree(log[p], log[n], tracker[n].match[p])
    BY DEF LogsSafe, MatchInv, Matched
  <2> QED BY <2>1 DEF Agree, Smaller
<1> QED BY <1>1, LogsSafeHolds, PTL

\* What a coordinator has committed, in the log of a leader that came later.
LEMMA AnchorHolds ==
    ASSUME NEW D \in SUBSET (Nat \ {0}), NEW E \in [D -> Seq(Entry)],
           NEW l, NEW c \in Nat, NEW T, c # 0, Anchored(l, c, T, D, E)
    PROVE  \E t \in D : /\ t <= T
                        /\ Agree(l, E[t], c)
                        /\ \A u \in D : t <= u => Agree(E[u], E[t], c)
<1>1. PICK t \in D : \E j \in Nat :
        t <= T /\ c <= j /\ Stable(t, j, D, E) /\ Agree(l, E[t], c)
  BY DEF Anchored
<1>2. PICK j \in Nat : t <= T /\ c <= j /\ Stable(t, j, D, E) /\ Agree(l, E[t], c)
  BY <1>1
<1>3. ASSUME NEW u \in D, t <= u PROVE Agree(E[u], E[t], c)
  <2>1. j <= Len(E[t]) /\ Later(t, j, D, E) /\ Len(E[t]) \in Nat /\ Len(E[u]) \in Nat
    BY <1>2, LenProperties DEF Stable
  <2>2. Agree(E[u], E[t], j)
    BY <1>3, <2>1, LaterLeader
  <2> QED BY <1>2, <2>1, <2>2, AgreeLess
<1> QED BY <1>2, <1>3

\* Coordinators that commit an index commit the same command there.
THEOREM CommitsAgree == Spec => [](AppendsAtomic /\ ReadsAtomic => StateMachineSafety)
<1>1. LogsSafe => (AppendsAtomic /\ ReadsAtomic => StateMachineSafety)
  <2> SUFFICES ASSUME LogsSafe, AppendsAtomic, ReadsAtomic PROVE StateMachineSafety
    OBVIOUS
  <2>1. PICK D \in SUBSET (Nat \ {0}) : \E E \in [D -> Seq(Entry)] : History(D, E)
    BY DEF LogsSafe, LogInv, ReadsAtomic, RequestsWhole
  <2>2. PICK E \in [D -> Seq(Entry)] : History(D, E)
    BY <2>1
  <2>3. Commits(D, E)
    BY <2>2 DEF History, ReadsAtomic
  <2> SUFFICES ASSUME NEW m \in Node, NEW n \in Node,
                      NEW i \in 1..Smaller(commitIndex[m], commitIndex[n])
               PROVE  log[m][i] = log[n][i]
    BY DEF StateMachineSafety
  <2>4. /\ commitIndex[m] \in Nat /\ commitIndex[n] \in Nat
        /\ commitIndex[m] # 0 /\ commitIndex[n] # 0
        /\ i \in 1..commitIndex[m] /\ i \in 1..commitIndex[n]
    BY NodeTypes DEF LogsSafe, Smaller
  <2>5. PICK t \in D : /\ Agree(log[m], E[t], commitIndex[m])
                       /\ \A u \in D : t <= u => Agree(E[u], E[t], commitIndex[m])
    BY <2>3, <2>4, AnchorHolds DEF Commits
  <2>6. PICK s \in D : /\ Agree(log[n], E[s], commitIndex[n])
                       /\ \A u \in D : s <= u => Agree(E[u], E[s], commitIndex[n])
    BY <2>3, <2>4, AnchorHolds DEF Commits
  <2>7. log[m][i] = E[t][i] /\ log[n][i] = E[s][i]
    BY <2>4, <2>5, <2>6 DEF Agree
  <2>8. CASE t <= s
    BY <2>4, <2>5, <2>7, <2>8 DEF Agree
  <2>9. CASE s <= t
    BY <2>4, <2>6, <2>7, <2>9 DEF Agree
  <2> QED BY <2>8, <2>9
<1> QED BY <1>1, LogsSafeHolds, PTL

\* A leader has in its log what a coordinator of its term or an earlier one
\* has committed.
THEOREM LeadersHoldCommitted == Spec => [](AppendsAtomic /\ ReadsAtomic => LeaderHoldsCommitted)
<1>1. LogsSafe => (AppendsAtomic /\ ReadsAtomic => LeaderHoldsCommitted)
  <2> SUFFICES ASSUME LogsSafe, AppendsAtomic, ReadsAtomic PROVE LeaderHoldsCommitted
    OBVIOUS
  <2>1. PICK D \in SUBSET (Nat \ {0}) : \E E \in [D -> Seq(Entry)] : History(D, E)
    BY DEF LogsSafe, LogInv, ReadsAtomic, RequestsWhole
  <2>2. PICK E \in [D -> Seq(Entry)] : History(D, E)
    BY <2>1
  <2>3. Commits(D, E) /\ Logs(D, E)
    BY <2>2 DEF History, ReadsAtomic
  <2> SUFFICES ASSUME NEW m \in Node, NEW n \in Node, role[n] = "Leader",
                      currentTerm[m] <= currentTerm[n]
               PROVE  /\ commitIndex[m] <= Len(log[n])
                      /\ \A i \in 1..commitIndex[m] : log[n][i] = log[m][i]
    BY DEF LeaderHoldsCommitted
  <2>4. /\ commitIndex[m] \in Nat /\ Len(log[n]) \in Nat
        /\ currentTerm[m] \in Nat /\ currentTerm[n] \in Nat
    BY NodeTypes DEF LogsSafe
  <2>5. CASE commitIndex[m] = 0
    BY <2>4, <2>5
  <2>6. CASE commitIndex[m] # 0
    <3>1. PICK t \in D : /\ t <= currentTerm[m]
                         /\ Agree(log[m], E[t], commitIndex[m])
                         /\ \A u \in D : t <= u => Agree(E[u], E[t], commitIndex[m])
      BY <2>3, <2>4, <2>6, AnchorHolds DEF Commits
    <3>2. currentTerm[n] \in D /\ log[n] = E[currentTerm[n]] /\ t <= currentTerm[n]
      BY <2>3, <2>4, <3>1 DEF Logs
    <3>3. Agree(log[n], E[t], commitIndex[m])
      BY <3>1, <3>2
    <3> QED BY <3>1, <3>3 DEF Agree
  <2> QED BY <2>5, <2>6
<1> QED BY <1>1, LogsSafeHolds, PTL
=============================================================================
