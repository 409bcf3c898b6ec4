----------------------------- MODULE RaftProofs -----------------------------
(***************************************************************************)
(* Proofs about Raft.tla for every cluster size: type correctness, and as  *)
(* long as no crashed node is restarted election safety and log matching.  *)
(* (With restarts they do not hold: restartNode forgets the vote, and TLC  *)
(* finds two leaders of one term.)                                         *)
(*                                                                         *)
(* Every handler lets the state of a node `evolve': its term does not go   *)
(* back, a vote of the term is kept, and it does not become a leader.  An  *)
(* election is then the only step with something to prove: the new leader  *)
(* and a leader of the same term would share a voter.                      *)
(***************************************************************************)
EXTENDS Raft, TLAPS, WellFoundedInduction, SequenceTheorems, FiniteSetTheorems

-----------------------------------------------------------------------------
(* Arithmetic and sequences. *)

\* The least element the code's loops stop at exists.
LEMMA LeastInSet ==
  ASSUME NEW S \in SUBSET Nat, S # {}
  PROVE  Least(S) \in S /\ \A y \in S : Least(S) <= y
<1> DEFINE R == OpToRel(<, Nat)
<1>1. PICK x \in S : \A y \in S : ~ (<<y, x>> \in R)
  BY NatLessThanWellFounded, WFMin
<1>2. \A y \in S : x <= y
  <2> TAKE y \in S
  <2>1. <<y, x>> \in Nat \X Nat
    OBVIOUS
  <2>2. ~ (y < x)
    BY <1>1, <2>1 DEF OpToRel
  <2> QED
    BY <2>2
<1> QED
  BY <1>2 DEF Least

\* A non-empty set of numbers up to k has a greatest element.
LEMMA GreatestInSet ==
  ASSUME NEW k \in Nat, NEW S \in SUBSET (0..k), S # {}
  PROVE  Greatest(S) \in S /\ \A y \in S : Greatest(S) >= y
<1> DEFINE T == {k - x : x \in S}
<1>1. \A x \in S : x \in Nat /\ x <= k
  OBVIOUS
<1>2. T \in SUBSET Nat
  BY <1>1
<1>3. T # {}
  OBVIOUS
<1>4. Least(T) \in T /\ \A u \in T : Least(T) <= u
  BY <1>2, <1>3, LeastInSet
<1>5. PICK x \in S : Least(T) = k - x
  BY <1>4
<1>6. \A y \in S : x >= y
  <2> TAKE y \in S
  <2>1. k - y \in T
    OBVIOUS
  <2>2. k - x <= k - y
    BY <1>4, <1>5, <2>1
  <2> QED
    BY <1>1, <2>2
<1> QED
  BY <1>6 DEF Greatest

\* A piece of a log is a log, wherever it is cut.
LEMMA SubSeqOfLog ==
  ASSUME NEW log \in Seq(Entry), NEW i \in Nat \ {0}, NEW j \in Nat, j <= Len(log)
  PROVE  SubSeq(log, i, j) \in Seq(Entry)
<1>1. CASE i <= j
  <2>1. i \in 1..(Len(log) + 1) /\ j \in (i - 1)..Len(log)
    BY <1>1, LenProperties
  <2> QED
    BY <2>1, SubSeqProperties, IsASeq
<1>2. CASE i > j
  BY <1>2, SubSeqEmpty, EmptySeq
<1> QED
  BY <1>1, <1>2

-----------------------------------------------------------------------------
(* The handlers keep a node's state well-typed. *)

\* Resetting the election timer keeps the type (raft.ts:114-117).
LEMMA TimerType ==
  ASSUME NEW s \in NodeState, NEW j \in Jitter
  PROVE  ResetTimer(s, j) \in NodeState
<1>1. BaseTimeout + j \in Nat
  BY SizeAssumption DEF Jitter
<1> QED
  BY <1>1 DEF ResetTimer, NodeState

\* Adopting a term of a message keeps the type.
LEMMA StepDownType ==
  ASSUME NEW s \in NodeState, NEW t \in Nat
  PROVE  StepDownIfStale(s, t) \in NodeState
BY DEF StepDownIfStale, NodeState

\* What handleRequestVote is called with.
VoteRequest == [term : Nat, candidate : Nodes, lastLogIndex : Nat,
                lastLogTerm : Nat]

\* Whatever is asked of a voter, its state keeps its type.
LEMMA HandleRequestVoteType ==
  ASSUME NEW s \in NodeState, NEW req \in VoteRequest, NEW j \in Jitter
  PROVE  HandleRequestVote(s, req, j) \in NodeState
<1> DEFINE voter == StepDownIfStale(s, req.term)
<1>1. voter \in NodeState
  BY StepDownType DEF VoteRequest
<1>2. [voter EXCEPT !.votedFor = req.candidate] \in NodeState
  BY <1>1 DEF NodeState, VoteRequest
<1> QED
  BY <1>1, <1>2, TimerType DEF HandleRequestVote

\* Applying runs over the end of the log neither way.
LEMMA ApplyCommittedType ==
  ASSUME NEW s \in NodeState
  PROVE  ApplyCommitted(s) \in NodeState
<1> DEFINE upto == Smaller(s.commitIndex, Len(s.log))
           extended == s.applied \o SubSeq(s.log, s.lastApplied + 1, upto)
<1>1. /\ s.log \in Seq(Entry) /\ s.applied \in Seq(Entry)
      /\ s.commitIndex \in Nat /\ s.lastApplied \in Nat
  BY DEF NodeState
<1>2. upto \in Nat /\ upto <= Len(s.log)
  BY <1>1, LenProperties DEF Smaller
<1>3. extended \in Seq(Entry)
  BY <1>1, <1>2, SubSeqOfLog, ConcatProperties
<1> QED
  BY <1>1, <1>3 DEF ApplyCommitted, NodeState

\* What handleAppendEntries is called with.
AppendRequests == [term : Nat, prevLogIndex : Nat, prevLogTerm : Nat,
                   entries : Seq(Entry), leaderCommit : Nat]

\* Merging entries after a matching prefix leaves no hole in the log: the
\* first entry that differs is at most one past its end.
LEMMA MergeEntriesType ==
  ASSUME NEW log \in Seq(Entry), NEW prev \in Nat, NEW entries \in Seq(Entry),
         prev <= Len(log)
  PROVE  MergeEntries(log, prev, entries) \in Seq(Entry)
<1> DEFINE fresh == {i \in DOMAIN entries : TermAt(log, prev + i) # entries[i].term}
           k == Least(fresh)
<1>1. CASE fresh = {}
  BY <1>1 DEF MergeEntries
<1>2. CASE fresh # {}
  <2>1. Len(entries) \in Nat /\ DOMAIN entries = 1..Len(entries)
    BY LenProperties
  <2>2. k \in fresh /\ \A i \in fresh : k <= i
    <3>1. fresh \in SUBSET Nat
      BY <2>1
    <3> HIDE DEF fresh
    <3> QED
      BY <1>2, <3>1, LeastInSet
  <2> HIDE DEF k
  <2>3. k \in 1..Len(entries) /\ k \in Nat \ {0}
    BY <2>1, <2>2
  <2>4. SubSeq(entries, k, Len(entries)) \in Seq(Entry)
    <3>1. Len(entries) <= Len(entries)
      BY <2>1
    <3> QED
      BY <2>1, <2>3, <3>1, SubSeqOfLog
  <2>5. SubSeq(log, 1, prev + k - 1) \in Seq(Entry)
    <3>1. prev + k - 1 <= Len(log)
      <4> SUFFICES ASSUME prev + k - 1 > Len(log) PROVE FALSE
        BY <2>3, LenProperties
      <4>1. k > 1 /\ k - 1 \in DOMAIN entries
        BY <2>1, <2>3, LenProperties
      <4>2. prev + (k - 1) \notin DOMAIN log
        BY <2>3, LenProperties
      <4>3. k - 1 \notin fresh
        BY <2>2, <2>3, <4>1
      <4>4. entries[k - 1].term = TermAt(log, prev + (k - 1))
        BY <4>1, <4>3
      <4>5. entries[k - 1] \in Entry
        BY <2>1, <4>1, LenProperties
      <4> QED
        BY <4>2, <4>4, <4>5 DEF TermAt, Entry
    <3>2. prev + k - 1 \in Nat /\ 1 \in Nat \ {0}
      BY <2>3
    <3> QED
      BY <3>1, <3>2, SubSeqOfLog
  <2>6. MergeEntries(log, prev, entries)
          = SubSeq(log, 1, prev + k - 1) \o SubSeq(entries, k, Len(entries))
    BY <1>2 DEF MergeEntries, k
  <2> QED
    BY <2>4, <2>5, <2>6, ConcatProperties
<1> QED
  BY <1>1, <1>2

\* The leader's commit index is taken over as a natural number.
LEMMA FollowLeaderCommitType ==
  ASSUME NEW s \in NodeState, NEW req \in AppendRequests
  PROVE  FollowLeaderCommit(s, req) \in NodeState
<1> DEFINE c == Smaller(req.leaderCommit, req.prevLogIndex + Len(req.entries))
<1>1. c \in Nat
  BY LenProperties DEF Smaller, AppendRequests
<1>2. [s EXCEPT !.commitIndex = c] \in NodeState
  BY <1>1 DEF NodeState
<1> QED
  BY <1>2, ApplyCommittedType DEF FollowLeaderCommit

\* Whatever a follower is sent, its state keeps its type.
LEMMA HandleAppendEntriesType ==
  ASSUME NEW s \in NodeState, NEW req \in AppendRequests, NEW j \in Jitter
  PROVE  HandleAppendEntries(s, req, j) \in NodeState
<1> DEFINE current  == StepDownIfStale(s, req.term)
           follower == ResetTimer([current EXCEPT !.role = "follower"], j)
           merged   == [follower EXCEPT !.log =
                          MergeEntries(@, req.prevLogIndex, req.entries)]
<1>1. current \in NodeState
  BY StepDownType DEF AppendRequests
<1>2. follower \in NodeState
  <2>1. [current EXCEPT !.role = "follower"] \in NodeState
    BY <1>1 DEF NodeState
  <2> QED
    BY <2>1, TimerType
<1> HIDE DEF follower
<1>3. CASE PrevMatches(follower.log, req)
  <2>1. follower.log \in Seq(Entry) /\ req.prevLogIndex \in Nat
        /\ req.entries \in Seq(Entry)
    BY <1>2 DEF NodeState, AppendRequests
  <2>2. req.prevLogIndex <= Len(follower.log)
    BY <1>3, <2>1, LenProperties DEF PrevMatches
  <2>3. MergeEntries(follower.log, req.prevLogIndex, req.entries) \in Seq(Entry)
    BY <2>1, <2>2, MergeEntriesType
  <2>4. merged \in NodeState
    BY <1>2, <2>3 DEF NodeState
  <2> QED
    BY <1>1, <1>2, <2>4, <1>3, FollowLeaderCommitType
    DEF HandleAppendEntries, follower
<1>4. CASE ~PrevMatches(follower.log, req)
  BY <1>1, <1>2, <1>4 DEF HandleAppendEntries, follower
<1> QED
  BY <1>3, <1>4

\* A leader with positive nextIndex builds a proper request: the index before
\* the first entry it sends is never negative.
LEMMA AppendRequestType ==
  ASSUME NEW s \in NodeState, NEW p \in Nodes
  PROVE  AppendRequest(s, p) \in AppendRequests
<1>1. s.log \in Seq(Entry) /\ s.nextIndex[p] \in Nat \ {0} /\ s.term \in Nat
      /\ s.commitIndex \in Nat
  BY DEF NodeState
<1>2. Len(s.log) \in Nat
  BY <1>1, LenProperties
<1>3. SubSeq(s.log, s.nextIndex[p], Len(s.log)) \in Seq(Entry)
  BY <1>1, <1>2, SubSeqOfLog
<1>4. TermAt(s.log, s.nextIndex[p] - 1) \in Nat
  <2>1. \A i \in DOMAIN s.log : s.log[i] \in Entry
    BY <1>1, LenProperties
  <2> QED
    BY <2>1 DEF TermAt, Entry
<1> QED
  BY <1>1, <1>3, <1>4 DEF AppendRequest, AppendRequests

\* However the peers answer, nextIndex stays positive.
LEMMA RecordRepliesType ==
  ASSUME NEW s \in NodeState, NEW heard, NEW before,
         NEW after \in [Nodes -> NodeState]
  PROVE  RecordReplies(s, heard, before, after) \in NodeState
<1> DEFINE next(p) == Greatest({1, s.nextIndex[p] - 1})
<1>1. \A p \in Nodes : /\ s.nextIndex[p] \in Nat \ {0}
                       /\ s.matchIndex[p] \in Nat
                       /\ Len(after[p].log) \in Nat
  BY LenProperties DEF NodeState
<1>2. \A p \in Nodes : next(p) \in Nat \ {0}
  <2> TAKE p \in Nodes
  <2>1. CASE s.nextIndex[p] - 1 >= 1
    <3>1. \E x \in {1, s.nextIndex[p] - 1} :
             \A y \in {1, s.nextIndex[p] - 1} : x >= y
      BY <1>1, <2>1
    <3> QED
      BY <1>1, <2>1, <3>1 DEF Greatest
  <2>2. CASE ~ (s.nextIndex[p] - 1 >= 1)
    <3>1. \E x \in {1, s.nextIndex[p] - 1} :
             \A y \in {1, s.nextIndex[p] - 1} : x >= y
      BY <1>1, <2>2
    <3>2. next(p) \in {1, s.nextIndex[p] - 1} /\ next(p) >= 1
      BY <3>1 DEF Greatest
    <3> QED
      BY <1>1, <3>2
  <2> QED
    BY <2>1, <2>2
<1> HIDE DEF next
<1> DEFINE accepted(p) == Accepts(before[p], AppendRequest(s, p))
           m == [p \in Nodes |-> IF p \in heard /\ accepted(p)
                                 THEN Len(after[p].log) ELSE s.matchIndex[p]]
           n == [p \in Nodes |-> IF p \notin heard THEN s.nextIndex[p]
                                 ELSE IF accepted(p) THEN Len(after[p].log) + 1
                                 ELSE next(p)]
<1>3. m \in [Nodes -> Nat] /\ n \in [Nodes -> Nat \ {0}]
  BY <1>1, <1>2
<1>4. RecordReplies(s, heard, before, after)
        = [s EXCEPT !.matchIndex = m, !.nextIndex = n]
  BY DEF RecordReplies, next
<1> HIDE DEF m, n
<1> QED
  BY <1>3, <1>4 DEF NodeState

\* The commit index moves to an index of the leader's log, if it moves.
LEMMA UpdateCommitIndexType ==
  ASSUME NEW s \in NodeState, NEW peers
  PROVE  UpdateCommitIndex(s, peers) \in NodeState
<1>1. s.log \in Seq(Entry) /\ s.commitIndex \in Nat
  BY DEF NodeState
<1>2. Committable(s, peers) \in SUBSET (0..Len(s.log)) /\ Len(s.log) \in Nat
  BY <1>1, LenProperties DEF Committable
<1>3. CASE Committable(s, peers) # {}
  <2>1. Greatest(Committable(s, peers)) \in Nat
    <3> DEFINE C == Committable(s, peers)
               k == Len(s.log)
    <3>1. C \in SUBSET (0..k) /\ k \in Nat /\ C # {}
      BY <1>2, <1>3
    <3> HIDE DEF C, k
    <3>2. Greatest(C) \in C
      BY <3>1, GreatestInSet
    <3>3. Greatest(C) \in 0..k
      BY <3>1, <3>2
    <3>4. Greatest(C) \in Nat
      BY <3>3
    <3> QED
      BY <3>4 DEF C
  <2>2. [s EXCEPT !.commitIndex = Greatest(Committable(s, peers))] \in NodeState
    BY <2>1 DEF NodeState
  <2> QED
    BY <1>3, <2>2, ApplyCommittedType DEF UpdateCommitIndex
<1> QED
  BY <1>3 DEF UpdateCommitIndex

\* What the random generator hands out in one step.
Draws == [Nodes -> Jitter]

\* The nodes are finitely many numbers, and two majorities exceed them.
LEMMA NodesFinite ==
  /\ IsFiniteSet(Nodes)
  /\ Cardinality(Nodes) = NumNodes
  /\ Nodes \in SUBSET Nat
  /\ NumNodes \in Nat \ {0}
  /\ Majority \in Nat
  /\ 2 * Majority > NumNodes
<1>1. NumNodes \in Nat \ {0}
  BY SizeAssumption
<1> QED
  BY <1>1, FS_Interval DEF Nodes, Majority

\* A broadcast keeps the type of every node's state.
LEMMA BroadcastType ==
  ASSUME NEW ns \in [Nodes -> NodeState], NEW l \in Nodes,
         NEW peers \in SUBSET Nodes, NEW jitter \in Draws
  PROVE  Broadcast(ns, l, peers, jitter) \in [Nodes -> NodeState]
<1> DEFINE stale  == {p \in peers : ns[p].term > ns[l].term}
           called == {p \in peers : \A q \in stale : p <= q}
           after  == [p \in Nodes |->
                        IF p \in called
                        THEN HandleAppendEntries(ns[p], AppendRequest(ns[l], p),
                                                 jitter[p])
                        ELSE ns[p]]
           leader == RecordReplies(ns[l], called \ stale, ns, after)
           final  == IF stale = {} THEN UpdateCommitIndex(leader, peers)
                     ELSE StepDownIfStale(leader, ns[Least(stale)].term)
<1>1. after \in [Nodes -> NodeState]
  <2>1. \A p \in Nodes : jitter[p] \in Jitter
    BY DEF Draws
  <2>2. \A p \in Nodes : HandleAppendEntries(ns[p], AppendRequest(ns[l], p),
                                             jitter[p]) \in NodeState
    BY <2>1, AppendRequestType, HandleAppendEntriesType
  <2> QED
    BY <2>2
<1>2. stale # {} => Least(stale) \in Nodes
  <2>1. stale \in SUBSET Nat
    BY NodesFinite
  <2> QED
    BY <2>1, LeastInSet
<1>3. Broadcast(ns, l, peers, jitter) = [after EXCEPT ![l] = final]
  BY DEF Broadcast
<1> HIDE DEF after
<1>4. leader \in NodeState
  BY <1>1, RecordRepliesType
<1> HIDE DEF leader
<1>5. final \in NodeState
  <2>1. stale # {} => ns[Least(stale)].term \in Nat
    BY <1>2 DEF NodeState
  <2> QED
    BY <1>4, <2>1, UpdateCommitIndexType, StepDownType
<1> QED
  BY <1>1, <1>3, <1>5

\* The call of startElection on node n, up to the counting of the votes.
RequestOf(candidate, n) ==
  [term |-> candidate.term, candidate |-> n,
   lastLogIndex |-> Len(candidate.log), lastLogTerm |-> LastTerm(candidate.log)]
Polled(ns, n, peers, jitter) ==
  [m \in Nodes |->
     IF m = n THEN Candidacy(ns[n], n, jitter[n])
     ELSE IF m \in peers
          THEN HandleRequestVote(ns[m],
                 RequestOf(Candidacy(ns[n], n, jitter[n]), n), jitter[m])
          ELSE ns[m]]
Granting(ns, n, peers, jitter) ==
  {m \in peers : Grants(ns[m], RequestOf(Candidacy(ns[n], n, jitter[n]), n))}
Crowned(s, peers) ==
  [s EXCEPT !.role = "leader",
            !.nextIndex = [p \in Nodes |->
               IF p \in peers THEN Len(s.log) + 1 ELSE s.nextIndex[p]],
            !.matchIndex = [p \in Nodes |->
               IF p \in peers THEN 0 ELSE s.matchIndex[p]]]

\* startElection in three parts: the poll, the crowning and the broadcast.
LEMMA ElectionUnfolds ==
  ASSUME NEW ns \in [Nodes -> NodeState], NEW n \in Nodes,
         NEW peers, NEW jitter
  PROVE  StartElection(ns, n, peers, jitter) =
           LET polled == Polled(ns, n, peers, jitter)
           IN IF Cardinality(Granting(ns, n, peers, jitter)) + 1 >= Majority
              THEN Broadcast([polled EXCEPT ![n] = Crowned(polled[n], peers)],
                             n, peers, jitter)
              ELSE polled
BY DEF StartElection, BecomeLeader, Polled, Granting, Crowned, RequestOf

\* What becoming a candidate does to a node, and what it then asks.
LEMMA CandidacyType ==
  ASSUME NEW s \in NodeState, NEW n \in Nodes, NEW j \in Jitter
  PROVE  /\ Candidacy(s, n, j) \in NodeState
         /\ Candidacy(s, n, j).role = "candidate"
         /\ Candidacy(s, n, j).term = s.term + 1
         /\ Candidacy(s, n, j).votedFor = n
         /\ RequestOf(Candidacy(s, n, j), n) \in VoteRequest
<1> DEFINE c == [s EXCEPT !.role = "candidate", !.term = @ + 1, !.votedFor = n]
<1>1. c \in NodeState
  <2>1. s.term + 1 \in Nat /\ s.term + 1 > 0
    BY DEF NodeState
  <2>2. c = [s EXCEPT !.role = "candidate", !.term = s.term + 1, !.votedFor = n]
    BY DEF NodeState
  <2> QED
    BY <2>1, <2>2 DEF NodeState
<1>2. Candidacy(s, n, j) \in NodeState
  BY <1>1, TimerType DEF Candidacy
<1>3. /\ Candidacy(s, n, j).role = "candidate"
      /\ Candidacy(s, n, j).term = s.term + 1
      /\ Candidacy(s, n, j).votedFor = n
  BY DEF Candidacy, ResetTimer, NodeState
<1>4. \A d \in NodeState : RequestOf(d, n) \in VoteRequest
  <2> TAKE d \in NodeState
  <2>1. d.log \in Seq(Entry) /\ d.term \in Nat
    BY DEF NodeState
  <2>2. Len(d.log) \in Nat /\ \A i \in DOMAIN d.log : d.log[i] \in Entry
    BY <2>1, LenProperties
  <2>3. LastTerm(d.log) \in Nat
    BY <2>2 DEF LastTerm, TermAt, Entry
  <2> QED
    BY <2>1, <2>2, <2>3 DEF RequestOf, VoteRequest
<1> QED
  BY <1>2, <1>3, <1>4

\* A winner has left term 0, so its leader state is well-typed.
LEMMA CrownedType ==
  ASSUME NEW s \in NodeState, s.term > 0, NEW peers
  PROVE  Crowned(s, peers) \in NodeState
<1>1. Len(s.log) \in Nat
  BY LenProperties DEF NodeState
<1>2. /\ [p \in Nodes |-> IF p \in peers THEN Len(s.log) + 1 ELSE s.nextIndex[p]]
           \in [Nodes -> Nat \ {0}]
      /\ [p \in Nodes |-> IF p \in peers THEN 0 ELSE s.matchIndex[p]]
           \in [Nodes -> Nat]
  BY <1>1 DEF NodeState
<1> QED
  BY <1>2 DEF Crowned, NodeState

\* Asking for votes keeps the type of every node's state.
LEMMA PolledType ==
  ASSUME NEW ns \in [Nodes -> NodeState], NEW n \in Nodes,
         NEW peers \in SUBSET Nodes, NEW jitter \in Draws
  PROVE  Polled(ns, n, peers, jitter) \in [Nodes -> NodeState]
<1>1. \A m \in Nodes : jitter[m] \in Jitter
  BY DEF Draws
<1>2. /\ Candidacy(ns[n], n, jitter[n]) \in NodeState
      /\ RequestOf(Candidacy(ns[n], n, jitter[n]), n) \in VoteRequest
  BY <1>1, CandidacyType
<1>3. \A m \in Nodes : HandleRequestVote(ns[m],
         RequestOf(Candidacy(ns[n], n, jitter[n]), n), jitter[m]) \in NodeState
  BY <1>1, <1>2, HandleRequestVoteType
<1> QED
  BY <1>2, <1>3 DEF Polled

\* A whole election keeps the type of every node's state.
LEMMA StartElectionType ==
  ASSUME NEW ns \in [Nodes -> NodeState], NEW n \in Nodes,
         NEW peers \in SUBSET Nodes, NEW jitter \in Draws
  PROVE  StartElection(ns, n, peers, jitter) \in [Nodes -> NodeState]
<1> DEFINE polled == Polled(ns, n, peers, jitter)
<1>1. polled \in [Nodes -> NodeState]
  BY PolledType
<1>2. polled[n].term > 0
  <2>1. polled[n] = Candidacy(ns[n], n, jitter[n])
    BY DEF Polled
  <2>2. jitter[n] \in Jitter /\ ns[n].term \in Nat
    BY DEF Draws, NodeState
  <2> QED
    BY <2>1, <2>2, CandidacyType
<1> HIDE DEF polled
<1>3. [polled EXCEPT ![n] = Crowned(polled[n], peers)] \in [Nodes -> NodeState]
  BY <1>1, <1>2, CrownedType
<1>4. Broadcast([polled EXCEPT ![n] = Crowned(polled[n], peers)], n, peers, jitter)
        \in [Nodes -> NodeState]
  BY <1>3, BroadcastType
<1>5. \/ StartElection(ns, n, peers, jitter) = polled
      \/ StartElection(ns, n, peers, jitter) =
           Broadcast([polled EXCEPT ![n] = Crowned(polled[n], peers)],
                     n, peers, jitter)
  BY ElectionUnfolds DEF polled
<1> QED
  BY <1>1, <1>4, <1>5
-----------------------------------------------------------------------------
(* Type correctness. *)

\* Only nodes are called.
LEMMA PeersAreNodes ==
  ASSUME NEW n
  PROVE  PeersOf(n) \in SUBSET Nodes
BY DEF PeersOf

\* The visit the running loop makes next is to a node.
LEMMA NextVisit ==
  ASSUME NEW S \in SUBSET Nodes, S # {}
  PROVE  Least(S) \in Nodes /\ Least(S) \in S
<1>1. S \in SUBSET Nat
  BY NodesFinite
<1> QED
  BY <1>1, LeastInSet

\* The clock of a node that hears nothing for a tick.
Ticked(s) == [s EXCEPT !.timer = IF @ > 0 THEN @ - 1 ELSE 0]

\* A tick of the clock keeps the type.
LEMMA TickedType ==
  ASSUME NEW s \in NodeState
  PROVE  Ticked(s) \in NodeState
<1>1. s.timer \in Nat
  BY DEF NodeState
<1>2. (IF s.timer > 0 THEN s.timer - 1 ELSE 0) \in Nat
  BY <1>1
<1> QED
  BY <1>2 DEF Ticked, NodeState

\* A leader that has appended a proposal to its log.
Extended(s, c) ==
  [s EXCEPT !.log = Append(@, [term |-> s.term, command |-> c])]

\* A leader's proposal carries a positive term.
LEMMA ExtendedType ==
  ASSUME NEW s \in NodeState, s.role = "leader", NEW c \in Commands
  PROVE  Extended(s, c) \in NodeState
<1>1. [term |-> s.term, command |-> c] \in Entry
  BY DEF NodeState, Entry
<1>2. s.log \in Seq(Entry)
  BY DEF NodeState
<1>3. Append(s.log, [term |-> s.term, command |-> c]) \in Seq(Entry)
  BY <1>1, <1>2, AppendProperties
<1> QED
  BY <1>3 DEF Extended, NodeState

Restarted(s) == [s EXCEPT !.role = "follower", !.votedFor = NoVote]

\* A restart keeps the type.
LEMMA RestartedType ==
  ASSUME NEW s \in NodeState
  PROVE  Restarted(s) \in NodeState
BY DEF Restarted, NodeState

Fresh(j) == [role |-> "follower", term |-> 0,
             votedFor |-> NoVote, log |-> <<>>,
             commitIndex |-> 0, lastApplied |-> 0,
             applied |-> <<>>, timer |-> BaseTimeout + j,
             nextIndex |-> [p \in Nodes |-> 1],
             matchIndex |-> [p \in Nodes |-> 0]]

\* A node starts well-typed.
LEMMA FreshType ==
  ASSUME NEW j \in Jitter
  PROVE  Fresh(j) \in NodeState
<1>1. BaseTimeout + j \in Nat
  BY SizeAssumption DEF Jitter
<1>2. <<>> \in Seq(Entry)
  BY EmptySeq
<1>3. /\ [p \in Nodes |-> 1] \in [Nodes -> Nat \ {0}]
      /\ [p \in Nodes |-> 0] \in [Nodes -> Nat]
  OBVIOUS
<1> QED
  BY <1>1, <1>2, <1>3 DEF Fresh, NodeState

\* The cluster starts well-typed.
LEMMA InitType == Init => TypeOK
<1> SUFFICES ASSUME Init PROVE TypeOK
  OBVIOUS
<1>1. node \in [Nodes -> {Fresh(j) : j \in Jitter}]
  BY DEF Init, Fresh
<1>2. {Fresh(j) : j \in Jitter} \subseteq NodeState
  BY FreshType
<1>3. node \in [Nodes -> NodeState]
  <2> DEFINE Start == {Fresh(j) : j \in Jitter}
  <2>1. node \in [Nodes -> Start] /\ Start \subseteq NodeState
    BY <1>1, <1>2
  <2> HIDE DEF Start
  <2> QED
    BY <2>1
<1> QED
  BY <1>3, NodesFinite DEF Init, TypeOK

\* Every step of the cluster keeps every variable's type.
LEMMA NextType == TypeOK /\ [Next]_vars => TypeOK'
<1> SUFFICES ASSUME TypeOK, [Next]_vars PROVE TypeOK'
  OBVIOUS
<1> USE DEF TypeOK
<1>1. CASE Tick
  <2>1. \A n \in Nodes : Ticked(node[n]) \in NodeState
    BY TickedType
  <2>2. node' = [n \in Nodes |-> Ticked(node[n])]
    BY <1>1 DEF Tick, Ticked
  <2>3. node' \in [Nodes -> NodeState]
    BY <2>1, <2>2
  <2> QED
    BY <1>1, <2>3 DEF Tick
<1>2. CASE ElectionTimeout
  <2>1. Least(Due) \in Nodes
    BY <1>2, NextVisit DEF ElectionTimeout, Due
  <2>2. PICK jitter \in Draws :
          node' = StartElection(node, Least(Due), PeersOf(Least(Due)), jitter)
    BY <1>2 DEF ElectionTimeout, Draws
  <2>3. node' \in [Nodes -> NodeState]
    BY <2>1, <2>2, PeersAreNodes, StartElectionType
  <2> QED
    BY <1>2, <2>1, <2>3 DEF ElectionTimeout, Nodes
<1>3. CASE EndElections
  BY <1>3, NodesFinite DEF EndElections
<1>4. CASE Heartbeat
  <2>1. Least(Leading) \in Nodes
    BY <1>4, NextVisit DEF Heartbeat, Leading
  <2>2. PICK jitter \in Draws :
          node' = Broadcast(node, Least(Leading), PeersOf(Least(Leading)), jitter)
    BY <1>4 DEF Heartbeat, Draws
  <2>3. node' \in [Nodes -> NodeState]
    BY <2>1, <2>2, PeersAreNodes, BroadcastType
  <2> QED
    BY <1>4, <2>1, <2>3 DEF Heartbeat, Nodes
<1>5. CASE EndTick
  BY <1>5, NodesFinite DEF EndTick
<1>6. ASSUME NEW n \in Nodes, NEW c \in Commands, Propose(n, c) PROVE TypeOK'
  <2> DEFINE grown == [node EXCEPT ![n] = Extended(node[n], c)]
  <2>1. Extended(node[n], c) \in NodeState
    BY <1>6, ExtendedType DEF Propose
  <2>2. grown \in [Nodes -> NodeState]
    BY <2>1
  <2>3. PICK jitter \in Draws : node' = Broadcast(grown, n, PeersOf(n), jitter)
    BY <1>6 DEF Propose, Draws, Extended
  <2> HIDE DEF grown
  <2>4. node' \in [Nodes -> NodeState]
    BY <2>2, <2>3, PeersAreNodes, BroadcastType
  <2> QED
    BY <1>6, <2>4 DEF Propose
<1>7. ASSUME NEW n \in Nodes, Crash(n) PROVE TypeOK'
  BY <1>7 DEF Crash
<1>8. ASSUME NEW n \in Nodes, Restart(n) PROVE TypeOK'
  <2>1. PICK j \in Jitter :
          node' = [node EXCEPT ![n] = ResetTimer(Restarted(node[n]), j)]
    BY <1>8 DEF Restart, Restarted
  <2>2. ResetTimer(Restarted(node[n]), j) \in NodeState
    BY RestartedType, TimerType
  <2>3. node' \in [Nodes -> NodeState]
    BY <2>1, <2>2
  <2> QED
    BY <1>8, <2>3 DEF Restart
<1>9. CASE SetPartition
  BY <1>9, FailureAssumption DEF SetPartition
<1>10. CASE HealPartition
  BY <1>10 DEF HealPartition
<1>11. CASE UNCHANGED vars
  BY <1>11 DEF vars
<1> QED
  BY <1>1, <1>2, <1>3, <1>4, <1>5, <1>6, <1>7, <1>8, <1>9, <1>10, <1>11
  DEF Next, CrashStopNext, TickStep, Operate

\* For every cluster size and every pattern of failures each variable keeps
\* its type; in particular nextIndex stays positive, so that a leader never
\* asks for an entry before the first (raft.ts:77-111, 339).
THEOREM TypeCorrect == Spec => []TypeOK
<1>1. Init => TypeOK
  BY InitType
<1>2. TypeOK /\ [Next]_vars => TypeOK'
  BY NextType
<1> QED
  BY <1>1, <1>2, PTL DEF Spec

-----------------------------------------------------------------------------
(* Election safety. *)

\* How a node's state may change other than by winning an election.
Evolves(s, t) ==
  /\ t.term >= s.term
  /\ t.term = s.term /\ s.votedFor # NoVote => t.votedFor = s.votedFor
  /\ t.role = "leader" => s.role = "leader" /\ t.term = s.term

\* ElectionSafety and LeaderHasQuorum, of any assignment of states to nodes.
BackersIn(ns, l) ==
  {v \in Nodes : \/ ns[v].term > ns[l].term
                 \/ ns[v].term = ns[l].term /\ ns[v].votedFor = l}

Sound(ns) ==
  /\ \A a, b \in Nodes : /\ ns[a].role = "leader"
                         /\ ns[b].role = "leader"
                         /\ ns[a].term = ns[b].term
                         => a = b
  /\ \A l \in Nodes :
       ns[l].role = "leader" => Cardinality(BackersIn(ns, l)) >= Majority

-----------------------------------------------------------------------------
(* Every handler lets a node evolve. *)

\* The fields of a node's state that an election looks at.
Ballot(s) == <<s.role, s.term, s.votedFor>>

\* A step that leaves the ballot alone is an evolution.
LEMMA SameBallotEvolves ==
  ASSUME NEW s \in NodeState, NEW t, Ballot(t) = Ballot(s)
  PROVE  Evolves(s, t)
<1>1. s.term \in Nat
  BY DEF NodeState
<1>2. t.term = s.term /\ t.role = s.role /\ t.votedFor = s.votedFor
  BY DEF Ballot
<1> QED
  BY <1>1, <1>2 DEF Evolves

\* Two evolutions in a row are one.
LEMMA EvolvesInSteps ==
  ASSUME NEW s \in NodeState, NEW t \in NodeState, NEW u \in NodeState,
         Evolves(s, t), Evolves(t, u)
  PROVE  Evolves(s, u)
<1>1. s.term \in Nat /\ t.term \in Nat /\ u.term \in Nat
  BY DEF NodeState
<1> QED
  BY <1>1 DEF Evolves

\* Stepping down takes the newer of the two terms and never crowns.
LEMMA StepDownEvolves ==
  ASSUME NEW s \in NodeState, NEW t \in Nat
  PROVE  /\ Evolves(s, StepDownIfStale(s, t))
         /\ StepDownIfStale(s, t).term = IF t > s.term THEN t ELSE s.term
BY DEF Evolves, StepDownIfStale, NodeState

\* A voter evolves; when it grants, it stands by the candidate.
LEMMA VoterEvolves ==
  ASSUME NEW s \in NodeState, NEW req \in VoteRequest, NEW j \in Jitter
  PROVE  /\ Evolves(s, HandleRequestVote(s, req, j))
         /\ Grants(s, req) =>
              /\ HandleRequestVote(s, req, j).term = req.term
              /\ HandleRequestVote(s, req, j).votedFor = req.candidate
<1> DEFINE voter == StepDownIfStale(s, req.term)
           given == [voter EXCEPT !.votedFor = req.candidate]
<1>1. req.term \in Nat /\ req.candidate \in Nodes
  BY DEF VoteRequest
<1>2. /\ voter \in NodeState
      /\ Evolves(s, voter)
      /\ voter.term = IF req.term > s.term THEN req.term ELSE s.term
  BY <1>1, StepDownType, StepDownEvolves
<1>3. CASE Grants(s, req)
  <2>1. voter.votedFor \in {NoVote, req.candidate} /\ req.term >= voter.term
    BY <1>3 DEF Grants
  <2> HIDE DEF voter
  <2>2. voter.term = req.term
    BY <1>1, <1>2, <2>1 DEF NodeState
  <2>3. given \in NodeState
    BY <1>1, <1>2 DEF NodeState
  <2>4. /\ given.term = voter.term
        /\ given.role = voter.role
        /\ given.votedFor = req.candidate
    BY <1>2 DEF NodeState
  <2>5. Evolves(voter, given)
    <3>1. voter.term \in Nat
      BY <1>2 DEF NodeState
    <3> QED
      BY <2>1, <2>4, <3>1 DEF Evolves
  <2>6. Ballot(ResetTimer(given, j)) = Ballot(given)
    BY <2>3 DEF ResetTimer, Ballot, NodeState
  <2> HIDE DEF given
  <2>7. /\ ResetTimer(given, j) \in NodeState
        /\ Evolves(given, ResetTimer(given, j))
    BY <2>3, <2>6, SameBallotEvolves, TimerType
  <2>8. Evolves(s, ResetTimer(given, j))
    <3>1. Evolves(s, given)
      BY <1>2, <2>3, <2>5, EvolvesInSteps
    <3> QED
      BY <2>3, <2>7, <3>1, EvolvesInSteps
  <2>9. HandleRequestVote(s, req, j) = ResetTimer(given, j)
    BY <1>3 DEF HandleRequestVote, given, voter
  <2>10. /\ ResetTimer(given, j).term = req.term
         /\ ResetTimer(given, j).votedFor = req.candidate
    BY <2>2, <2>4, <2>6 DEF Ballot
  <2> QED
    BY <2>8, <2>9, <2>10
<1>4. CASE ~Grants(s, req)
  BY <1>2, <1>4 DEF HandleRequestVote
<1> QED
  BY <1>3, <1>4

\* Applying entries and following the leader's commit index touch no ballot.
LEMMA CommitKeepsBallot ==
  ASSUME NEW s \in NodeState, NEW req \in AppendRequests
  PROVE  /\ Ballot(ApplyCommitted(s)) = Ballot(s)
         /\ Ballot(FollowLeaderCommit(s, req)) = Ballot(s)
<1>1. \A t \in NodeState : Ballot(ApplyCommitted(t)) = Ballot(t)
  BY DEF ApplyCommitted, Ballot, NodeState
<1> DEFINE c == Smaller(req.leaderCommit, req.prevLogIndex + Len(req.entries))
           t == [s EXCEPT !.commitIndex = c]
<1>2. c \in Nat
  BY LenProperties DEF Smaller, AppendRequests
<1> HIDE DEF c
<1>3. t \in NodeState /\ Ballot(t) = Ballot(s)
  BY <1>2 DEF Ballot, NodeState
<1>4. FollowLeaderCommit(s, req) \in {s, ApplyCommitted(t)}
  BY DEF FollowLeaderCommit, c
<1> HIDE DEF t
<1> QED
  BY <1>1, <1>3, <1>4

\* A node that hears a leader, of whatever term, evolves.
LEMMA FollowerEvolves ==
  ASSUME NEW s \in NodeState, NEW req \in AppendRequests, NEW j \in Jitter
  PROVE  Evolves(s, HandleAppendEntries(s, req, j))
<1> DEFINE current  == StepDownIfStale(s, req.term)
           demoted  == [current EXCEPT !.role = "follower"]
           follower == ResetTimer(demoted, j)
           newLog   == MergeEntries(follower.log, req.prevLogIndex, req.entries)
           merged   == [follower EXCEPT !.log = newLog]
<1>1. current \in NodeState /\ Evolves(s, current)
  BY StepDownType, StepDownEvolves DEF AppendRequests
<1> HIDE DEF current
<1>2. demoted \in NodeState /\ Evolves(current, demoted)
  <2>1. /\ demoted \in NodeState
        /\ demoted.role = "follower"
        /\ demoted.term = current.term
        /\ demoted.votedFor = current.votedFor
        /\ current.term \in Nat
    BY <1>1 DEF NodeState
  <2> HIDE DEF demoted
  <2> QED
    BY <2>1 DEF Evolves
<1> HIDE DEF demoted
<1>3. follower \in NodeState /\ Ballot(follower) = Ballot(demoted)
  BY <1>2, TimerType DEF ResetTimer, Ballot, NodeState
<1> HIDE DEF follower
<1>4. Evolves(s, follower)
  <2>1. Evolves(demoted, follower)
    BY <1>2, <1>3, SameBallotEvolves
  <2>2. Evolves(s, demoted)
    BY <1>1, <1>2, EvolvesInSteps
  <2> QED
    BY <1>2, <1>3, <2>1, <2>2, EvolvesInSteps
<1>5. CASE PrevMatches(follower.log, req)
  <2>1. follower.log \in Seq(Entry) /\ req.prevLogIndex \in Nat
        /\ req.entries \in Seq(Entry)
    BY <1>3 DEF NodeState, AppendRequests
  <2>2. req.prevLogIndex <= Len(follower.log)
    BY <1>5, <2>1, LenProperties DEF PrevMatches
  <2>3. newLog \in Seq(Entry)
    BY <2>1, <2>2, MergeEntriesType
  <2> HIDE DEF newLog
  <2>4. merged \in NodeState /\ Ballot(merged) = Ballot(follower)
    BY <1>3, <2>3 DEF Ballot, NodeState
  <2> HIDE DEF merged
  <2>5. Ballot(FollowLeaderCommit(merged, req)) = Ballot(follower)
    BY <2>4, CommitKeepsBallot
  <2>6. FollowLeaderCommit(merged, req) \in NodeState
    BY <2>4, FollowLeaderCommitType
  <2>7. Evolves(s, FollowLeaderCommit(merged, req))
    BY <1>3, <1>4, <2>5, <2>6, SameBallotEvolves, EvolvesInSteps
  <2>8. HandleAppendEntries(s, req, j) \in
          {current, FollowLeaderCommit(merged, req)}
    BY <1>5 DEF HandleAppendEntries, current, demoted, follower, newLog, merged
  <2> QED
    BY <1>1, <2>7, <2>8
<1>6. CASE ~PrevMatches(follower.log, req)
  <2>1. HandleAppendEntries(s, req, j) \in {current, follower}
    BY <1>6 DEF HandleAppendEntries, current, demoted, follower
  <2> QED
    BY <1>1, <1>4, <2>1
<1> QED
  BY <1>5, <1>6

\* Counting replies and advancing the commit index touch no ballot.
LEMMA LeaderKeepsBallot ==
  ASSUME NEW s \in NodeState, NEW heard, NEW before, NEW after, NEW peers
  PROVE  /\ Ballot(RecordReplies(s, heard, before, after)) = Ballot(s)
         /\ Ballot(UpdateCommitIndex(s, peers)) = Ballot(s)
<1>1. Ballot(RecordReplies(s, heard, before, after)) = Ballot(s)
  <2>1. \A m, n : Ballot([s EXCEPT !.matchIndex = m, !.nextIndex = n]) = Ballot(s)
    BY DEF Ballot, NodeState
  <2> QED
    BY <2>1 DEF RecordReplies
<1>2. Ballot(UpdateCommitIndex(s, peers)) = Ballot(s)
  <2> DEFINE g == Greatest(Committable(s, peers))
             t == [s EXCEPT !.commitIndex = g]
  <2> HIDE DEF g
  <2>1. Ballot(t) = Ballot(s)
    BY DEF Ballot, NodeState
  <2>2. Ballot(ApplyCommitted(t)) = Ballot(t)
    <3>1. \A a, b : Ballot([t EXCEPT !.applied = a, !.lastApplied = b]) = Ballot(t)
      BY DEF Ballot, NodeState
    <3> HIDE DEF t
    <3> QED
      BY <3>1 DEF ApplyCommitted
  <2>3. UpdateCommitIndex(s, peers) \in {s, ApplyCommitted(t)}
    BY DEF UpdateCommitIndex, g
  <2> HIDE DEF t
  <2> QED
    BY <2>1, <2>2, <2>3
<1> QED
  BY <1>1, <1>2

\* A broadcast lets every node evolve, the leader and its peers alike.
LEMMA BroadcastEvolves ==
  ASSUME NEW ns \in [Nodes -> NodeState], NEW l \in Nodes,
         NEW peers \in SUBSET Nodes, NEW jitter \in Draws
  PROVE  \A m \in Nodes : Evolves(ns[m], Broadcast(ns, l, peers, jitter)[m])
<1> DEFINE stale  == {p \in peers : ns[p].term > ns[l].term}
           called == {p \in peers : \A q \in stale : p <= q}
           heard(m) == HandleAppendEntries(ns[m], AppendRequest(ns[l], m), jitter[m])
           after  == [p \in Nodes |->
                        IF p \in called
                        THEN HandleAppendEntries(ns[p], AppendRequest(ns[l], p),
                                                 jitter[p])
                        ELSE ns[p]]
           leader == RecordReplies(ns[l], called \ stale, ns, after)
           final  == IF stale = {} THEN UpdateCommitIndex(leader, peers)
                     ELSE StepDownIfStale(leader, ns[Least(stale)].term)
<1>1. Broadcast(ns, l, peers, jitter) = [after EXCEPT ![l] = final]
  BY DEF Broadcast
<1>2. \A m \in Nodes : jitter[m] \in Jitter /\ ns[m] \in NodeState
  BY DEF Draws
<1>3. \A m \in Nodes : heard(m) \in NodeState /\ Evolves(ns[m], heard(m))
  BY <1>2, AppendRequestType, HandleAppendEntriesType, FollowerEvolves
<1>4. \A m \in Nodes : Evolves(ns[m], ns[m])
  BY <1>2, SameBallotEvolves
<1>5. /\ after \in [Nodes -> NodeState]
      /\ \A m \in Nodes : Evolves(ns[m], after[m])
  <2>1. \A m \in Nodes : after[m] \in {heard(m), ns[m]}
    OBVIOUS
  <2>2. after = [m \in Nodes |-> after[m]]
    OBVIOUS
  <2> HIDE DEF after, heard
  <2> QED
    BY <1>2, <1>3, <1>4, <2>1, <2>2
<1> HIDE DEF after
<1>6. stale # {} => Least(stale) \in Nodes
  BY NextVisit
<1>7. leader \in NodeState /\ Ballot(leader) = Ballot(ns[l])
  BY <1>2, <1>5, RecordRepliesType, LeaderKeepsBallot
<1> HIDE DEF leader
<1>8. final \in NodeState /\ Evolves(leader, final)
  <2>1. stale # {} => ns[Least(stale)].term \in Nat
    BY <1>2, <1>6 DEF NodeState
  <2>2. CASE stale = {}
    <3>1. final = UpdateCommitIndex(leader, peers)
      BY <2>2
    <3> QED
      BY <1>7, <3>1, UpdateCommitIndexType, LeaderKeepsBallot, SameBallotEvolves
  <2>3. CASE stale # {}
    <3>1. final = StepDownIfStale(leader, ns[Least(stale)].term)
      BY <2>3
    <3> QED
      BY <1>7, <2>1, <2>3, <3>1, StepDownType, StepDownEvolves
  <2> QED
    BY <2>2, <2>3
<1> HIDE DEF final
<1>9. Evolves(ns[l], final)
  BY <1>2, <1>7, <1>8, SameBallotEvolves, EvolvesInSteps
<1> QED
  BY <1>1, <1>5, <1>9

-----------------------------------------------------------------------------
(* Soundness is kept by evolution, and by elections. *)

\* Backers are a subset of the finitely many nodes.
LEMMA BackersFinite ==
  ASSUME NEW ns, NEW l
  PROVE  /\ BackersIn(ns, l) \in SUBSET Nodes
         /\ IsFiniteSet(BackersIn(ns, l))
         /\ Cardinality(BackersIn(ns, l)) \in Nat
<1>1. BackersIn(ns, l) \in SUBSET Nodes
  BY DEF BackersIn
<1> QED
  BY <1>1, NodesFinite, FS_Subset, FS_CardinalityType

\* If every node evolves, no leader loses a backer and none appears.
LEMMA EvolutionIsSound ==
  ASSUME NEW ns \in [Nodes -> NodeState], NEW nt \in [Nodes -> NodeState],
         Sound(ns), \A m \in Nodes : Evolves(ns[m], nt[m])
  PROVE  Sound(nt)
<1>1. \A m \in Nodes : /\ ns[m].term \in Nat
                       /\ nt[m].term \in Nat
                       /\ nt[m].term >= ns[m].term
  BY DEF NodeState, Evolves
<1>2. \A l \in Nodes : nt[l].role = "leader" =>
        ns[l].role = "leader" /\ nt[l].term = ns[l].term
  BY DEF Evolves
<1>3. ASSUME NEW l \in Nodes, nt[l].role = "leader"
      PROVE  Cardinality(BackersIn(nt, l)) >= Majority
  <2>1. BackersIn(ns, l) \subseteq BackersIn(nt, l)
    <3> SUFFICES ASSUME NEW v \in Nodes, v \in BackersIn(ns, l)
                 PROVE  v \in BackersIn(nt, l)
      BY DEF BackersIn
    <3>1. nt[l].term = ns[l].term
      BY <1>2, <1>3
    <3>2. l # NoVote
      BY DEF Nodes, NoVote
    <3>3. CASE ns[v].term > ns[l].term
      BY <1>1, <3>1, <3>3 DEF BackersIn
    <3>4. CASE ns[v].term = ns[l].term /\ ns[v].votedFor = l
      <4>1. nt[v].term = ns[v].term => nt[v].votedFor = l
        BY <3>2, <3>4 DEF Evolves
      <4> QED
        BY <1>1, <3>1, <3>4, <4>1 DEF BackersIn
    <3> QED
      BY <3>3, <3>4 DEF BackersIn
  <2>2. Cardinality(BackersIn(ns, l)) <= Cardinality(BackersIn(nt, l))
    BY <2>1, BackersFinite, FS_Subset
  <2>3. Cardinality(BackersIn(ns, l)) >= Majority
    BY <1>2, <1>3 DEF Sound
  <2> QED
    BY <2>2, <2>3, BackersFinite, NodesFinite
<1>4. \A a, b \in Nodes : /\ nt[a].role = "leader"
                           /\ nt[b].role = "leader"
                           /\ nt[a].term = nt[b].term
                           => a = b
  BY <1>2 DEF Sound
<1> QED
  BY <1>3, <1>4 DEF Sound

\* Asking for votes lets every node evolve, and whoever grants its vote
\* stands by the candidate in the candidate's new term.
LEMMA PollEvolves ==
  ASSUME NEW ns \in [Nodes -> NodeState], NEW n \in Nodes,
         NEW peers \in SUBSET Nodes, n \notin peers, NEW jitter \in Draws
  PROVE  /\ \A m \in Nodes : Evolves(ns[m], Polled(ns, n, peers, jitter)[m])
         /\ \A m \in Granting(ns, n, peers, jitter) \cup {n} :
              /\ Polled(ns, n, peers, jitter)[m].term
                   = Polled(ns, n, peers, jitter)[n].term
              /\ Polled(ns, n, peers, jitter)[m].votedFor = n
<1> DEFINE c == Candidacy(ns[n], n, jitter[n])
           req == RequestOf(c, n)
           polled == Polled(ns, n, peers, jitter)
           answer(m) == HandleRequestVote(ns[m], req, jitter[m])
<1>1. \A m \in Nodes : jitter[m] \in Jitter /\ ns[m] \in NodeState
  BY DEF Draws
<1>2. /\ c \in NodeState /\ c.role = "candidate" /\ c.term = ns[n].term + 1
      /\ c.votedFor = n /\ req \in VoteRequest
  BY <1>1, CandidacyType
<1>3. req.term = c.term /\ req.candidate = n
  BY DEF RequestOf
<1>4. /\ polled[n] = c
      /\ \A m \in peers : polled[m] = answer(m)
      /\ \A m \in Nodes \ (peers \cup {n}) : polled[m] = ns[m]
  BY DEF Polled
<1>5. \A m \in Granting(ns, n, peers, jitter) : m \in peers /\ Grants(ns[m], req)
  BY DEF Granting
<1> HIDE DEF c, req, polled
<1>6. \A m \in Nodes : /\ Evolves(ns[m], answer(m))
                       /\ Grants(ns[m], req) =>
                            answer(m).term = req.term /\ answer(m).votedFor = req.candidate
  BY <1>1, <1>2, VoterEvolves
<1> HIDE DEF answer
<1>7. Evolves(ns[n], c)
  <2>1. ns[n].term \in Nat
    BY DEF NodeState
  <2> QED
    BY <1>2, <2>1 DEF Evolves
<1>8. \A m \in Nodes : Evolves(ns[m], polled[m])
  <2> TAKE m \in Nodes
  <2>1. CASE m = n
    BY <1>4, <1>7, <2>1
  <2>2. CASE m \in peers
    BY <1>4, <1>6, <2>2
  <2>3. CASE m \notin peers \cup {n}
    BY <1>1, <1>4, <2>3, SameBallotEvolves
  <2> QED
    BY <2>1, <2>2, <2>3
<1>9. \A m \in Granting(ns, n, peers, jitter) \cup {n} :
        polled[m].term = polled[n].term /\ polled[m].votedFor = n
  BY <1>2, <1>3, <1>4, <1>5, <1>6
<1> QED
  BY <1>8, <1>9 DEF polled

\* The votes startElection has counted cannot all be missing from the backers
\* of another leader of the term: two majorities share a node, and its vote is
\* one.
LEMMA NoRival ==
  ASSUME NEW ns \in [Nodes -> NodeState], Sound(ns), NEW n \in Nodes,
         NEW Q \in SUBSET Nodes, Cardinality(Q) >= Majority,
         \A m \in Q : ns[m].term = ns[n].term /\ ns[m].votedFor = n,
         NEW b \in Nodes, ns[b].role = "leader", ns[b].term = ns[n].term
  PROVE  b = n
<1>1. Cardinality(BackersIn(ns, b)) >= Majority
  BY DEF Sound
<1>2. IsFiniteSet(Q) /\ Cardinality(Q) \in Nat
  BY NodesFinite, FS_Subset, FS_CardinalityType
<1>3. BackersIn(ns, b) \cap Q # {}
  <2>1. Cardinality(BackersIn(ns, b)) + Cardinality(Q) > Cardinality(Nodes)
    BY <1>1, <1>2, BackersFinite, NodesFinite
  <2> QED
    BY <2>1, BackersFinite, NodesFinite, FS_MajoritiesIntersect
<1>4. PICK v \in Q : v \in BackersIn(ns, b)
  BY <1>3
<1>5. ns[v].term = ns[b].term /\ ns[n].term \in Nat
  BY <1>4 DEF NodeState
<1>6. ns[v].votedFor = b
  BY <1>4, <1>5 DEF BackersIn
<1> QED
  BY <1>4, <1>6

\* Crowning a node that a majority has voted for keeps the states sound.
LEMMA CrowningIsSound ==
  ASSUME NEW ns \in [Nodes -> NodeState], Sound(ns), NEW n \in Nodes,
         NEW Q \in SUBSET Nodes, Cardinality(Q) >= Majority,
         \A m \in Q : ns[m].term = ns[n].term /\ ns[m].votedFor = n,
         NEW peers
  PROVE  Sound([ns EXCEPT ![n] = Crowned(ns[n], peers)])
<1> DEFINE nt == [ns EXCEPT ![n] = Crowned(ns[n], peers)]
<1>1. \A m \in Nodes : /\ nt[m].term = ns[m].term
                       /\ nt[m].votedFor = ns[m].votedFor
                       /\ m # n => nt[m].role = ns[m].role
  <2>1. \A s \in NodeState : /\ Crowned(s, peers).term = s.term
                             /\ Crowned(s, peers).votedFor = s.votedFor
    BY DEF Crowned, NodeState
  <2>2. nt[n] = Crowned(ns[n], peers) /\ ns[n] \in NodeState
    OBVIOUS
  <2>3. \A m \in Nodes : m # n => nt[m] = ns[m]
    OBVIOUS
  <2> HIDE DEF nt
  <2> QED
    BY <2>1, <2>2, <2>3
<1> HIDE DEF nt
<1>2. \A l \in Nodes : BackersIn(nt, l) = BackersIn(ns, l)
  BY <1>1 DEF BackersIn
<1>3. Cardinality(BackersIn(nt, n)) >= Majority
  <2>1. Q \subseteq BackersIn(ns, n)
    BY DEF BackersIn
  <2>2. Cardinality(Q) <= Cardinality(BackersIn(ns, n)) /\ Cardinality(Q) \in Nat
    BY <2>1, BackersFinite, FS_Subset, FS_CardinalityType
  <2> QED
    BY <1>2, <2>2, BackersFinite, NodesFinite
<1>4. \A l \in Nodes :
        nt[l].role = "leader" => Cardinality(BackersIn(nt, l)) >= Majority
  BY <1>1, <1>2, <1>3 DEF Sound
<1>5. \A a, b \in Nodes : /\ nt[a].role = "leader"
                           /\ nt[b].role = "leader"
                           /\ nt[a].term = nt[b].term
                           => a = b
  <2> SUFFICES ASSUME NEW a \in Nodes, NEW b \in Nodes,
                      nt[a].role = "leader", nt[b].role = "leader",
                      nt[a].term = nt[b].term
               PROVE  a = b
    OBVIOUS
  <2>1. CASE a = n \/ b = n
    BY <1>1, <2>1, NoRival
  <2>2. CASE a # n /\ b # n
    BY <1>1, <2>2 DEF Sound
  <2> QED
    BY <2>1, <2>2
<1> QED
  BY <1>4, <1>5 DEF Sound, nt

\* startElection keeps the states sound, whoever wins.
LEMMA ElectionIsSound ==
  ASSUME NEW ns \in [Nodes -> NodeState], Sound(ns), NEW n \in Nodes,
         NEW peers \in SUBSET Nodes, n \notin peers, NEW jitter \in Draws
  PROVE  Sound(StartElection(ns, n, peers, jitter))
<1> DEFINE polled == Polled(ns, n, peers, jitter)
           granting == Granting(ns, n, peers, jitter)
           Q == granting \cup {n}
           crowned == [polled EXCEPT ![n] = Crowned(polled[n], peers)]
<1>1. polled \in [Nodes -> NodeState] /\ Sound(polled)
  BY PolledType, PollEvolves, EvolutionIsSound
<1>2. /\ granting \in SUBSET Nodes /\ n \notin granting
      /\ \A m \in Q : polled[m].term = polled[n].term /\ polled[m].votedFor = n
  BY PollEvolves DEF Granting
<1>3. polled[n].term > 0
  <2>1. polled[n] = Candidacy(ns[n], n, jitter[n])
    BY DEF Polled
  <2>2. jitter[n] \in Jitter /\ ns[n].term \in Nat
    BY DEF Draws, NodeState
  <2> QED
    BY <2>1, <2>2, CandidacyType
<1>4. StartElection(ns, n, peers, jitter) =
        IF Cardinality(granting) + 1 >= Majority
        THEN Broadcast(crowned, n, peers, jitter) ELSE polled
  BY ElectionUnfolds
<1> HIDE DEF polled, granting
<1>5. CASE Cardinality(granting) + 1 >= Majority
  <2>1. Cardinality(Q) = Cardinality(granting) + 1
    BY <1>2, NodesFinite, FS_Subset, FS_AddElement
  <2>2. Sound(crowned)
    BY <1>1, <1>2, <1>5, <2>1, CrowningIsSound
  <2>3. crowned \in [Nodes -> NodeState]
    BY <1>1, <1>3, CrownedType
  <2> HIDE DEF crowned
  <2>4. /\ Broadcast(crowned, n, peers, jitter) \in [Nodes -> NodeState]
        /\ \A m \in Nodes : Evolves(crowned[m], Broadcast(crowned, n, peers, jitter)[m])
    BY <2>3, BroadcastType, BroadcastEvolves
  <2> QED
    BY <1>4, <1>5, <2>2, <2>3, <2>4, EvolutionIsSound
<1>6. CASE ~(Cardinality(granting) + 1 >= Majority)
  BY <1>1, <1>4, <1>6
<1> QED
  BY <1>5, <1>6

-----------------------------------------------------------------------------
(* Election safety. *)

IInv == TypeOK /\ Sound(node)

\* At first nobody leads.
LEMMA InitSound == Init => IInv
<1> SUFFICES ASSUME Init PROVE Sound(node)
  BY InitType DEF IInv
<1>1. node \in [Nodes -> {Fresh(j) : j \in Jitter}]
  BY DEF Init, Fresh
<1>2. \A j \in Jitter : Fresh(j).role = "follower"
  BY DEF Fresh
<1>3. \A n \in Nodes : node[n].role = "follower"
  BY <1>1, <1>2
<1> QED
  BY <1>3 DEF Sound

\* Every step keeps the invariant, if no step is a restart.
LEMMA NextSound == IInv /\ [CrashStopNext]_vars => IInv'
<1> SUFFICES ASSUME IInv, [CrashStopNext]_vars PROVE Sound(node')
  BY NextType DEF IInv, Sound, BackersIn, Next
<1> USE DEF IInv
<1>1. node \in [Nodes -> NodeState] /\ node' \in [Nodes -> NodeState]
  BY NextType DEF TypeOK, Next
<1>2. ASSUME node' = node PROVE Sound(node')
  BY <1>2
<1>3. CASE Tick
  <2>1. \A n \in Nodes : Ballot(node'[n]) = Ballot(node[n])
    <3>1. \A s \in NodeState : Ballot(Ticked(s)) = Ballot(s)
      BY DEF Ticked, Ballot, NodeState
    <3>2. \A n \in Nodes : node'[n] = Ticked(node[n])
      BY <1>3 DEF Tick, Ticked
    <3> QED
      BY <1>1, <3>1, <3>2
  <2> QED
    BY <1>1, <2>1, SameBallotEvolves, EvolutionIsSound
<1>4. CASE ElectionTimeout
  <2>1. Least(Due) \in Nodes
    BY <1>4, NextVisit DEF ElectionTimeout, Due
  <2>2. PICK jitter \in Draws :
          node' = StartElection(node, Least(Due), PeersOf(Least(Due)), jitter)
    BY <1>4 DEF ElectionTimeout, Draws
  <2>3. Least(Due) \notin PeersOf(Least(Due))
    BY DEF PeersOf
  <2> QED
    BY <1>1, <2>1, <2>2, <2>3, PeersAreNodes, ElectionIsSound
<1>5. CASE Heartbeat
  <2>1. Least(Leading) \in Nodes
    BY <1>5, NextVisit DEF Heartbeat, Leading
  <2>2. PICK jitter \in Draws :
          node' = Broadcast(node, Least(Leading), PeersOf(Least(Leading)), jitter)
    BY <1>5 DEF Heartbeat, Draws
  <2> QED
    BY <1>1, <2>1, <2>2, PeersAreNodes, BroadcastEvolves, EvolutionIsSound
<1>6. ASSUME NEW n \in Nodes, NEW c \in Commands, Propose(n, c)
      PROVE  Sound(node')
  <2> DEFINE grown == [node EXCEPT ![n] = Extended(node[n], c)]
  <2>1. Extended(node[n], c) \in NodeState
    BY <1>1, <1>6, ExtendedType DEF Propose
  <2>2. Ballot(Extended(node[n], c)) = Ballot(node[n])
    BY <1>1 DEF Extended, Ballot, NodeState
  <2>3. PICK jitter \in Draws : node' = Broadcast(grown, n, PeersOf(n), jitter)
    BY <1>6 DEF Propose, Draws, Extended
  <2>4. grown \in [Nodes -> NodeState]
    BY <1>1, <2>1
  <2>5. \A m \in Nodes : Ballot(grown[m]) = Ballot(node[m])
    BY <1>1, <2>2
  <2> HIDE DEF grown
  <2>6. Sound(grown)
    BY <1>1, <2>4, <2>5, SameBallotEvolves, EvolutionIsSound
  <2> QED
    BY <1>1, <2>3, <2>4, <2>6, PeersAreNodes, BroadcastEvolves, EvolutionIsSound
<1>7. ASSUME NEW n \in Nodes, Crash(n) PROVE Sound(node')
  BY <1>2, <1>7 DEF Crash
<1>8. CASE EndElections \/ EndTick \/ SetPartition \/ HealPartition
           \/ UNCHANGED vars
  BY <1>2, <1>8 DEF EndElections, EndTick, SetPartition, HealPartition, vars
<1> QED
  BY <1>3, <1>4, <1>5, <1>6, <1>7, <1>8 DEF CrashStopNext, TickStep, Operate

\* While no node is restarted two leaders never share a term, for every
\* cluster size, timeout, partition and crash (raft.ts:142-161, 177-214).
THEOREM AtMostOneLeaderPerTerm == CrashStopSpec => []ElectionSafety
<1>1. Init => IInv
  BY InitSound
<1>2. IInv /\ [CrashStopNext]_vars => IInv'
  BY NextSound
<1>3. IInv => ElectionSafety
  BY DEF IInv, Sound, ElectionSafety
<1> QED
  BY <1>1, <1>2, <1>3, PTL DEF CrashStopSpec

\* While no node is restarted the majority that elected a leader stands by it
\* or has left its term (raft.ts:153-160).
THEOREM LeadersKeepTheirQuorum == CrashStopSpec => []LeaderHasQuorum
<1>1. Init => IInv
  BY InitSound
<1>2. IInv /\ [CrashStopNext]_vars => IInv'
  BY NextSound
<1>3. IInv => LeaderHasQuorum
  BY DEF IInv, Sound, LeaderHasQuorum, BackersIn, Backers
<1> QED
  BY <1>1, <1>2, <1>3, PTL DEF CrashStopSpec

-----------------------------------------------------------------------------
(***************************************************************************)
(* Log matching while no crashed node is restarted, and what a vote and a  *)
(* majority are worth.                                                     *)
(*                                                                         *)
(* The log a follower ends a broadcast with is the log it had or, entry for *)
(* entry, the leader's: that is what prevLogIndex and the truncation are    *)
(* for, given that the logs matched before.  So a broadcast makes no new    *)
(* log, and only a proposal does.  The index it fills must be free in every *)
(* other log for the leader's term, which takes the two other parts of the  *)
(* invariant: each entry has an author that a majority voted for in the     *)
(* entry's term, and the leader of a term holds all entries of that term.   *)
(***************************************************************************)

\* Two logs agree: where they have an entry of one term at one index, they
\* are the same up to it.
Agree(log1, log2) ==
  \A i \in DOMAIN log1 \cap DOMAIN log2 :
    log1[i].term = log2[i].term => \A k \in 1..i : log1[k] = log2[k]

\* The nodes that voted for a in term t, or have left that term behind.
Backing(ns, a, t) ==
  {v \in Nodes : ns[v].term > t \/ (ns[v].term = t /\ ns[v].votedFor = a)}

Matching(ns) == \A m, n \in Nodes : Agree(ns[m].log, ns[n].log)

\* Every entry was appended by a node that a majority elected for its term.
Authored(ns) ==
  \A m \in Nodes : \A i \in DOMAIN ns[m].log :
    \E a \in Nodes :
      /\ ns[a].term >= ns[m].log[i].term
      /\ Cardinality(Backing(ns, a, ns[m].log[i].term)) >= Majority

\* A leader holds every entry of its term, wherever the entry is.
Held(ns) ==
  \A l, m \in Nodes : \A i \in DOMAIN ns[m].log :
    ns[l].role = "leader" /\ ns[m].log[i].term = ns[l].term =>
      i \in DOMAIN ns[l].log /\ ns[l].log[i].term = ns[l].term

Recorded(ns) == Matching(ns) /\ Authored(ns) /\ Held(ns)

-----------------------------------------------------------------------------
(* What the handlers do to a log and to a commit index. *)

\* The part of a node's state that a ballot leaves alone.
Ledger(s) == <<s.log, s.commitIndex>>

\* Entries of a log have positive terms.
LEMMA EntriesOfLog ==
  ASSUME NEW log \in Seq(Entry)
  PROVE  /\ Len(log) \in Nat
         /\ DOMAIN log = 1..Len(log)
         /\ \A i \in DOMAIN log : /\ log[i] \in Entry
                                  /\ log[i].term \in Nat
                                  /\ log[i].term > 0
                                  /\ TermAt(log, i) = log[i].term
<1>1. Len(log) \in Nat /\ DOMAIN log = 1..Len(log)
  BY LenProperties
<1>2. \A i \in DOMAIN log : log[i] \in Entry
  BY LenProperties
<1> QED
  BY <1>1, <1>2 DEF Entry, TermAt

\* Voting touches neither the log nor the commit index (raft.ts:177-214).
LEMMA VoterKeepsLedger ==
  ASSUME NEW s \in NodeState, NEW req \in VoteRequest, NEW j \in Jitter
  PROVE  Ledger(HandleRequestVote(s, req, j)) = Ledger(s)
<1> DEFINE voter == StepDownIfStale(s, req.term)
           given == [voter EXCEPT !.votedFor = req.candidate]
<1>1. voter \in NodeState /\ Ledger(voter) = Ledger(s)
  <2>1. req.term \in Nat
    BY DEF VoteRequest
  <2>2. Ledger(voter) = Ledger(s)
    BY DEF StepDownIfStale, Ledger, NodeState
  <2> QED
    BY <2>1, <2>2, StepDownType
<1> HIDE DEF voter
<1>2. given \in NodeState /\ Ledger(given) = Ledger(voter)
  BY <1>1 DEF Ledger, NodeState, VoteRequest
<1> HIDE DEF given
<1>3. Ledger(ResetTimer(given, j)) = Ledger(given)
  BY <1>2 DEF ResetTimer, Ledger, NodeState
<1>4. HandleRequestVote(s, req, j) \in {voter, ResetTimer(given, j)}
  BY DEF HandleRequestVote, voter, given
<1> QED
  BY <1>1, <1>2, <1>3, <1>4

\* Where the logs match before the loop of raft.ts:250-264, the loop either
\* leaves the follower's log alone or makes it the leader's.
LEMMA MergeCopies ==
  ASSUME NEW log \in Seq(Entry), NEW leading \in Seq(Entry), Agree(log, leading),
         NEW next \in Nat \ {0},
         \/ next = 1
         \/ /\ next - 1 \in DOMAIN log
            /\ log[next - 1].term = TermAt(leading, next - 1)
  PROVE  MergeEntries(log, next - 1, SubSeq(leading, next, Len(leading)))
           \in {log, leading}
<1> DEFINE prev == next - 1
           sent == SubSeq(leading, next, Len(leading))
           fresh == {i \in DOMAIN sent : TermAt(log, prev + i) # sent[i].term}
           k == Least(fresh)
           kept == SubSeq(log, 1, prev + k - 1)
           added == SubSeq(sent, k, Len(sent))
<1>1. /\ Len(log) \in Nat /\ Len(leading) \in Nat /\ prev \in Nat
      /\ DOMAIN log = 1..Len(log) /\ DOMAIN leading = 1..Len(leading)
  BY EntriesOfLog
<1>2. /\ \A i \in DOMAIN log : log[i].term > 0 /\ TermAt(log, i) = log[i].term
      /\ \A i \in DOMAIN leading : leading[i].term > 0
      /\ \A i : i \notin DOMAIN log => TermAt(log, i) = 0
      /\ \A i : i \notin DOMAIN leading => TermAt(leading, i) = 0
      /\ \A i \in DOMAIN leading : TermAt(leading, i) = leading[i].term
  <2>1. \A i : /\ i \notin DOMAIN log => TermAt(log, i) = 0
               /\ i \notin DOMAIN leading => TermAt(leading, i) = 0
    BY DEF TermAt
  <2> QED
    BY <2>1, EntriesOfLog
<1>3. CASE fresh = {}
  BY <1>3 DEF MergeEntries
<1>4. CASE fresh # {}
  <2>1. /\ sent \in Seq(Entry) /\ Len(sent) \in Nat
        /\ DOMAIN sent = 1..Len(sent)
    <3>1. sent \in Seq(Entry)
      BY <1>1, SubSeqOfLog
    <3> QED
      BY <3>1, EntriesOfLog
  <2>2. k \in fresh /\ \A i \in fresh : k <= i
    <3>1. fresh \in SUBSET Nat
      BY <2>1
    <3> HIDE DEF fresh
    <3> QED
      BY <1>4, <3>1, LeastInSet
  <2>3. k \in 1..Len(sent)
    BY <2>1, <2>2
  <2>4. next <= Len(leading)
    <3> SUFFICES ASSUME next > Len(leading) PROVE FALSE
      BY <1>1
    <3>1. sent = << >>
      BY <1>1, SubSeqEmpty
    <3> QED
      BY <2>3, <3>1
  <2>5. /\ Len(sent) = Len(leading) - prev
        /\ \A i \in 1..Len(sent) : sent[i] = leading[prev + i]
    <3>1. next \in 1..(Len(leading) + 1) /\ Len(leading) \in (next - 1)..Len(leading)
      BY <1>1, <2>4
    <3> QED
      BY <1>1, <3>1, SubSeqProperties
  <2> HIDE DEF fresh, k, sent, prev
  <2>6. prev + k - 1 <= Len(log)
        /\ \A i \in 1..(prev + k - 1) : log[i] = leading[i]
    <3>1. CASE k = 1 /\ next = 1
      BY <1>1, <3>1 DEF prev
    <3>2. CASE k = 1 /\ next # 1
      <4>1. prev \in DOMAIN log /\ prev \in DOMAIN leading
            /\ log[prev].term = leading[prev].term
        BY <1>1, <1>2, <3>2 DEF prev
      <4>2. \A i \in 1..prev : log[i] = leading[i]
        BY <4>1 DEF Agree
      <4> QED
        BY <1>1, <3>2, <4>1, <4>2
    <3>3. CASE k # 1
      <4>1. k - 1 \in 1..Len(sent) /\ k - 1 \notin fresh
        BY <2>1, <2>2, <2>3, <3>3
      <4>2. TermAt(log, prev + (k - 1)) = leading[prev + (k - 1)].term
        BY <2>1, <2>5, <4>1 DEF fresh
      <4>3. prev + (k - 1) \in DOMAIN leading
        BY <1>1, <2>1, <2>5, <4>1
      <4> DEFINE i == prev + (k - 1)
      <4>4. i \in DOMAIN log /\ log[i].term = leading[i].term
        BY <1>2, <4>2, <4>3
      <4>5. \A q \in 1..i : log[q] = leading[q]
        BY <4>3, <4>4 DEF Agree
      <4> QED
        BY <1>1, <2>3, <4>4, <4>5
    <3> QED
      BY <3>1, <3>2, <3>3
  <2>7. MergeEntries(log, prev, sent) = kept \o added
    BY <1>4 DEF MergeEntries, fresh, k
  <2>8. /\ kept \in Seq(Entry) /\ Len(kept) = prev + k - 1
        /\ \A i \in 1..(prev + k - 1) : kept[i] = log[i]
    <3>1. 1 \in 1..(Len(log) + 1) /\ prev + k - 1 \in 0..Len(log)
      BY <1>1, <2>3, <2>6
    <3> QED
      BY <1>1, <3>1, SubSeqProperties
  <2>9. /\ added \in Seq(Entry) /\ Len(added) = Len(sent) - k + 1
        /\ \A i \in 1..Len(added) : added[i] = sent[k + i - 1]
    <3>1. k \in 1..(Len(sent) + 1) /\ Len(sent) \in (k - 1)..Len(sent)
      BY <2>1, <2>3
    <3> QED
      BY <2>1, <2>3, <3>1, SubSeqProperties
  <2> HIDE DEF kept, added
  <2>10. /\ kept \o added \in Seq(Entry)
         /\ Len(kept \o added) = Len(leading)
         /\ \A i \in 1..Len(leading) : (kept \o added)[i] =
              IF i <= Len(kept) THEN kept[i] ELSE added[i - Len(kept)]
    <3>1. Len(kept) + Len(added) = Len(leading)
      BY <1>1, <2>1, <2>3, <2>5, <2>8, <2>9
    <3> QED
      BY <2>8, <2>9, <3>1, ConcatProperties
  <2>11. \A i \in 1..Len(leading) : (kept \o added)[i] = leading[i]
    <3> TAKE i \in 1..Len(leading)
    <3>1. CASE i <= prev + k - 1
      BY <1>1, <2>3, <2>6, <2>8, <2>10, <3>1
    <3>2. CASE i > prev + k - 1
      <4> DEFINE q == i - (prev + k - 1)
      <4>1. q \in 1..Len(added) /\ k + q - 1 \in 1..Len(sent)
            /\ prev + (k + q - 1) = i
        BY <1>1, <2>1, <2>3, <2>5, <2>9, <3>2
      <4>2. added[q] = sent[k + q - 1]
        BY <2>9, <4>1
      <4>3. sent[k + q - 1] = leading[prev + (k + q - 1)]
        BY <2>5, <4>1
      <4>4. (kept \o added)[i] = added[q]
        BY <1>1, <2>3, <2>8, <2>10, <3>2
      <4> QED
        BY <4>1, <4>2, <4>3, <4>4
    <3>3. i <= prev + k - 1 \/ i > prev + k - 1
      BY <1>1, <2>1, <2>3
    <3> QED
      BY <3>1, <3>2, <3>3
  <2>12. kept \o added = leading
    BY <2>10, <2>11, SeqEqual
  <2> QED
    BY <2>7, <2>12 DEF sent, prev
<1> QED
  BY <1>3, <1>4

\* Applying and following the leader's commit index leave the log alone.
LEMMA CommitKeepsLog ==
  ASSUME NEW s \in NodeState, NEW req \in AppendRequests
  PROVE  /\ Ledger(ApplyCommitted(s)) = Ledger(s)
         /\ FollowLeaderCommit(s, req).log = s.log
<1>1. \A t \in NodeState : Ledger(ApplyCommitted(t)) = Ledger(t)
  <2> TAKE t \in NodeState
  <2>1. \A a, b : Ledger([t EXCEPT !.applied = a, !.lastApplied = b]) = Ledger(t)
    BY DEF Ledger, NodeState
  <2> QED
    BY <2>1 DEF ApplyCommitted
<1> DEFINE c == Smaller(req.leaderCommit, req.prevLogIndex + Len(req.entries))
           t == [s EXCEPT !.commitIndex = c]
<1>2. c \in Nat
  BY LenProperties DEF Smaller, AppendRequests
<1> HIDE DEF c
<1>3. t \in NodeState /\ t.log = s.log
  BY <1>2 DEF NodeState
<1>4. FollowLeaderCommit(s, req) \in {s, ApplyCommitted(t)}
  BY DEF FollowLeaderCommit, c
<1> HIDE DEF t
<1>5. ApplyCommitted(t).log = t.log
  BY <1>1, <1>3 DEF Ledger
<1> QED
  BY <1>1, <1>3, <1>4, <1>5

\* What hearing a leader does to a node that stays a leader: nothing, the
\* request was stale (raft.ts:221-231).
LEMMA LeaderIgnoresStale ==
  ASSUME NEW s \in NodeState, NEW req \in AppendRequests, NEW j \in Jitter,
         HandleAppendEntries(s, req, j).role = "leader"
  PROVE  Ledger(HandleAppendEntries(s, req, j)) = Ledger(s)
<1> DEFINE current  == StepDownIfStale(s, req.term)
           demoted  == [current EXCEPT !.role = "follower"]
           follower == ResetTimer(demoted, j)
           newLog   == MergeEntries(follower.log, req.prevLogIndex, req.entries)
           merged   == [follower EXCEPT !.log = newLog]
<1>1. current \in NodeState /\ Ledger(current) = Ledger(s)
  <2>1. req.term \in Nat
    BY DEF AppendRequests
  <2>2. Ledger(current) = Ledger(s)
    BY DEF StepDownIfStale, Ledger, NodeState
  <2> QED
    BY <2>1, <2>2, StepDownType
<1> HIDE DEF current
<1>2. demoted \in NodeState /\ demoted.role = "follower"
  BY <1>1 DEF NodeState
<1> HIDE DEF demoted
<1>3. follower \in NodeState /\ follower.role = "follower"
  BY <1>2, TimerType DEF ResetTimer, NodeState
<1> HIDE DEF follower
<1>4. CASE PrevMatches(follower.log, req)
  <2>1. /\ follower.log \in Seq(Entry) /\ req.prevLogIndex \in Nat
        /\ req.entries \in Seq(Entry) /\ req.prevLogIndex <= Len(follower.log)
    BY <1>3, <1>4, LenProperties DEF NodeState, AppendRequests, PrevMatches
  <2>2. newLog \in Seq(Entry)
    BY <2>1, MergeEntriesType
  <2> HIDE DEF newLog
  <2>3. merged \in NodeState /\ merged.role = "follower"
    BY <1>3, <2>2 DEF NodeState
  <2> HIDE DEF merged
  <2>4. FollowLeaderCommit(merged, req).role = "follower"
    BY <2>3, CommitKeepsBallot DEF Ballot
  <2>5. HandleAppendEntries(s, req, j) \in
          {current, FollowLeaderCommit(merged, req)}
    BY <1>4 DEF HandleAppendEntries, current, demoted, follower, newLog, merged
  <2> QED
    BY <1>1, <2>4, <2>5
<1>5. CASE ~PrevMatches(follower.log, req)
  <2>1. HandleAppendEntries(s, req, j) \in {current, follower}
    BY <1>5 DEF HandleAppendEntries, current, demoted, follower
  <2> QED
    BY <1>1, <1>3, <2>1
<1> QED
  BY <1>4, <1>5

\* A follower ends with its own log or with the leader's (raft.ts:216-281).
LEMMA FollowerCopies ==
  ASSUME NEW s \in NodeState, NEW leader \in NodeState, NEW p \in Nodes,
         NEW j \in Jitter, Agree(s.log, leader.log)
  PROVE  HandleAppendEntries(s, AppendRequest(leader, p), j).log
           \in {s.log, leader.log}
<1> DEFINE req == AppendRequest(leader, p)
           next == leader.nextIndex[p]
           current  == StepDownIfStale(s, req.term)
           demoted  == [current EXCEPT !.role = "follower"]
           follower == ResetTimer(demoted, j)
           newLog   == MergeEntries(follower.log, req.prevLogIndex, req.entries)
           merged   == [follower EXCEPT !.log = newLog]
<1>1. /\ req \in AppendRequests /\ next \in Nat \ {0}
      /\ s.log \in Seq(Entry) /\ leader.log \in Seq(Entry)
  BY AppendRequestType DEF NodeState
<1>2. /\ req.prevLogIndex = next - 1
      /\ req.prevLogTerm = TermAt(leader.log, next - 1)
      /\ req.entries = SubSeq(leader.log, next, Len(leader.log))
  BY DEF AppendRequest
<1> HIDE DEF req, next
<1>3. req.term \in Nat
  BY <1>1 DEF AppendRequests
<1>4. current \in NodeState /\ current.log = s.log
  <2>1. current.log = s.log
    BY DEF StepDownIfStale, NodeState
  <2> QED
    BY <1>3, <2>1, StepDownType
<1> HIDE DEF current
<1>5. demoted \in NodeState /\ demoted.log = s.log
  BY <1>4 DEF NodeState
<1> HIDE DEF demoted
<1>6. follower \in NodeState /\ follower.log = s.log
  BY <1>5, TimerType DEF ResetTimer, NodeState
<1> HIDE DEF follower
<1>7. CASE PrevMatches(follower.log, req)
  <2>1. \/ next = 1
        \/ /\ next - 1 \in DOMAIN s.log
           /\ s.log[next - 1].term = TermAt(leader.log, next - 1)
    BY <1>1, <1>2, <1>6, <1>7 DEF PrevMatches
  <2>2. newLog \in {s.log, leader.log}
    BY <1>1, <1>2, <1>6, <2>1, MergeCopies
  <2> HIDE DEF newLog
  <2>3. merged \in NodeState /\ merged.log = newLog
    BY <1>1, <1>6, <2>2 DEF NodeState
  <2> HIDE DEF merged
  <2>4. FollowLeaderCommit(merged, req).log = newLog
    BY <1>1, <2>3, CommitKeepsLog
  <2>5. HandleAppendEntries(s, req, j) \in
          {current, FollowLeaderCommit(merged, req)}
    BY <1>7 DEF HandleAppendEntries, current, demoted, follower, newLog, merged
  <2> QED
    BY <1>4, <2>2, <2>4, <2>5 DEF req
<1>8. CASE ~PrevMatches(follower.log, req)
  <2>1. HandleAppendEntries(s, req, j) \in {current, follower}
    BY <1>8 DEF HandleAppendEntries, current, demoted, follower
  <2> QED
    BY <1>4, <1>6, <2>1 DEF req
<1> QED
  BY <1>7, <1>8

\* Counting replies, stepping down and committing keep the leader's log, and
\* only a leader that reaches a majority commits (raft.ts:352-375).
LEMMA LeaderKeepsLog ==
  ASSUME NEW s \in NodeState, NEW peers \in SUBSET Nodes
  PROVE  /\ \A heard, before, after :
              Ledger(RecordReplies(s, heard, before, after)) = Ledger(s)
         /\ \A t \in Nat : Ledger(StepDownIfStale(s, t)) = Ledger(s)
         /\ UpdateCommitIndex(s, peers).log = s.log
         /\ UpdateCommitIndex(s, peers) = s \/ Cardinality(peers) + 1 >= Majority
<1>1. ASSUME NEW heard, NEW before, NEW after
      PROVE  Ledger(RecordReplies(s, heard, before, after)) = Ledger(s)
  <2>1. \A m, n : Ledger([s EXCEPT !.matchIndex = m, !.nextIndex = n]) = Ledger(s)
    BY DEF Ledger, NodeState
  <2> QED
    BY <2>1 DEF RecordReplies
<1>2. \A t \in Nat : Ledger(StepDownIfStale(s, t)) = Ledger(s)
  BY DEF StepDownIfStale, Ledger, NodeState
<1>3. CASE Committable(s, peers) = {}
  BY <1>1, <1>2, <1>3 DEF UpdateCommitIndex
<1>4. CASE Committable(s, peers) # {}
  <2> DEFINE g == Greatest(Committable(s, peers))
             t == [s EXCEPT !.commitIndex = g]
  <2>1. s.log \in Seq(Entry) /\ Len(s.log) \in Nat
    BY EntriesOfLog DEF NodeState
  <2>2. Committable(s, peers) \in SUBSET (0..Len(s.log))
    BY <2>1, EntriesOfLog DEF Committable
  <2>3. g \in Committable(s, peers) /\ g \in 0..Len(s.log)
    <3> DEFINE C == Committable(s, peers)
               k == Len(s.log)
    <3>1. C \in SUBSET (0..k) /\ k \in Nat /\ C # {}
      BY <1>4, <2>1, <2>2
    <3> HIDE DEF C, k
    <3>2. Greatest(C) \in C
      BY <3>1, GreatestInSet
    <3> QED
      BY <3>1, <3>2 DEF C, k
  <2>4. UpdateCommitIndex(s, peers) = ApplyCommitted(t)
    BY <1>4 DEF UpdateCommitIndex
  <2> DEFINE acks == {p \in peers : s.matchIndex[p] >= g}
  <2>5. Cardinality(acks) + 1 >= Majority
    BY <2>3 DEF Committable
  <2> HIDE DEF g
  <2>6. t \in NodeState /\ t.log = s.log
    <3>1. g \in Nat
      BY <2>1, <2>3
    <3> QED
      BY <3>1 DEF NodeState
  <2> HIDE DEF t
  <2>7. ApplyCommitted(t).log = s.log
    <3>1. \A a, b : [t EXCEPT !.applied = a, !.lastApplied = b].log = t.log
      BY <2>6 DEF NodeState
    <3> QED
      BY <2>6, <3>1 DEF ApplyCommitted
  <2>8. /\ Cardinality(acks) <= Cardinality(peers)
        /\ Cardinality(acks) \in Nat /\ Cardinality(peers) \in Nat
    <3>1. IsFiniteSet(peers) /\ acks \subseteq peers
      BY NodesFinite, FS_Subset
    <3> QED
      BY <3>1, FS_Subset, FS_CardinalityType
  <2>9. Cardinality(peers) + 1 >= Majority
    BY <2>5, <2>8, NodesFinite
  <2> QED
    BY <1>1, <1>2, <2>4, <2>7, <2>9
<1> QED
  BY <1>3, <1>4

\* After a broadcast a node has the log it had or the leader's; one that still
\* leads has heard nothing, and the broadcaster commits with a majority only.
LEMMA BroadcastCopies ==
  ASSUME NEW ns \in [Nodes -> NodeState], NEW l \in Nodes,
         NEW peers \in SUBSET Nodes, NEW jitter \in Draws
  PROVE  LET nt == Broadcast(ns, l, peers, jitter)
         IN /\ (\A m \in Nodes : Agree(ns[m].log, ns[l].log)) =>
                  \A m \in Nodes : nt[m].log \in {ns[m].log, ns[l].log}
            /\ \A m \in Nodes : m # l /\ nt[m].role = "leader" =>
                  Ledger(nt[m]) = Ledger(ns[m])
            /\ nt[l].log = ns[l].log
            /\ \/ nt[l].commitIndex = ns[l].commitIndex
               \/ Cardinality(peers) + 1 >= Majority
<1> DEFINE nt     == Broadcast(ns, l, peers, jitter)
           stale  == {p \in peers : ns[p].term > ns[l].term}
           called == {p \in peers : \A q \in stale : p <= q}
           heard(m) == HandleAppendEntries(ns[m], AppendRequest(ns[l], m), jitter[m])
           after  == [p \in Nodes |->
                        IF p \in called
                        THEN HandleAppendEntries(ns[p], AppendRequest(ns[l], p),
                                                 jitter[p])
                        ELSE ns[p]]
           leader == RecordReplies(ns[l], called \ stale, ns, after)
           final  == IF stale = {} THEN UpdateCommitIndex(leader, peers)
                     ELSE StepDownIfStale(leader, ns[Least(stale)].term)
<1>1. nt = [after EXCEPT ![l] = final]
  BY DEF Broadcast
<1>2. \A m \in Nodes : jitter[m] \in Jitter /\ ns[m] \in NodeState
  BY DEF Draws
<1>3. \A m \in Nodes : after[m] \in {heard(m), ns[m]}
  OBVIOUS
<1>4. /\ after \in [Nodes -> NodeState]
      /\ \A m \in Nodes : /\ nt[m] = IF m = l THEN final ELSE after[m]
  <2>1. \A m \in Nodes : heard(m) \in NodeState
    BY <1>2, AppendRequestType, HandleAppendEntriesType
  <2>2. after = [m \in Nodes |-> after[m]]
    OBVIOUS
  <2> HIDE DEF after, heard, nt, final
  <2> QED
    BY <1>1, <1>2, <1>3, <2>1, <2>2
<1>5. leader \in NodeState /\ Ledger(leader) = Ledger(ns[l])
  <2> HIDE DEF after
  <2> QED
    BY <1>2, <1>4, RecordRepliesType, LeaderKeepsLog
<1>6. stale # {} => Least(stale) \in Nodes
  BY NextVisit
<1> HIDE DEF after, leader
<1>7. /\ final.log = ns[l].log
      /\ \/ final.commitIndex = ns[l].commitIndex
         \/ Cardinality(peers) + 1 >= Majority
  <2>1. CASE stale = {}
    BY <1>5, <2>1, LeaderKeepsLog DEF Ledger
  <2>2. CASE stale # {}
    <3>1. ns[Least(stale)].term \in Nat
      BY <1>2, <1>6, <2>2 DEF NodeState
    <3>2. final = StepDownIfStale(leader, ns[Least(stale)].term)
      BY <2>2
    <3> HIDE DEF final
    <3> QED
      BY <1>5, <3>1, <3>2, LeaderKeepsLog DEF Ledger
  <2> QED
    BY <2>1, <2>2
<1>8. ASSUME NEW m \in Nodes, m # l, nt[m].role = "leader"
      PROVE  Ledger(nt[m]) = Ledger(ns[m])
  <2>1. nt[m] \in {heard(m), ns[m]}
    BY <1>3, <1>4, <1>8
  <2>2. AppendRequest(ns[l], m) \in AppendRequests
    BY <1>2, AppendRequestType
  <2>3. heard(m).role = "leader" => Ledger(heard(m)) = Ledger(ns[m])
    BY <1>2, <2>2, LeaderIgnoresStale
  <2> HIDE DEF nt, heard
  <2> QED
    BY <1>8, <2>1, <2>3
<1>9. ASSUME \A m \in Nodes : Agree(ns[m].log, ns[l].log), NEW m \in Nodes
      PROVE  nt[m].log \in {ns[m].log, ns[l].log}
  <2>1. heard(m).log \in {ns[m].log, ns[l].log}
    BY <1>2, <1>9, FollowerCopies
  <2>2. m # l => nt[m] \in {heard(m), ns[m]}
    BY <1>3, <1>4
  <2>3. m = l => nt[m] = final
    BY <1>4
  <2> HIDE DEF nt, heard, final
  <2> QED
    BY <1>7, <2>1, <2>2, <2>3
<1>10. nt[l] = final
  BY <1>4
<1> HIDE DEF nt, final
<1>11. /\ (\A m \in Nodes : Agree(ns[m].log, ns[l].log)) =>
             \A m \in Nodes : nt[m].log \in {ns[m].log, ns[l].log}
       /\ \A m \in Nodes : m # l /\ nt[m].role = "leader" =>
             Ledger(nt[m]) = Ledger(ns[m])
       /\ nt[l].log = ns[l].log
       /\ \/ nt[l].commitIndex = ns[l].commitIndex
          \/ Cardinality(peers) + 1 >= Majority
  BY <1>7, <1>8, <1>9, <1>10
<1> QED
  BY <1>11 DEF nt

\* In particular a peer that still leads has neither taken entries nor
\* committed any.
LEMMA BroadcastSparesLeaders ==
  ASSUME NEW ns \in [Nodes -> NodeState], NEW l \in Nodes,
         NEW peers \in SUBSET Nodes, NEW jitter \in Draws, NEW m \in Nodes, m # l,
         Broadcast(ns, l, peers, jitter)[m].role = "leader"
  PROVE  Ledger(Broadcast(ns, l, peers, jitter)[m]) = Ledger(ns[m])
BY BroadcastCopies

-----------------------------------------------------------------------------
(* The logs stay sound. *)

\* Backers do not go away while every node evolves.
LEMMA BackingGrows ==
  ASSUME NEW ns \in [Nodes -> NodeState], NEW nt \in [Nodes -> NodeState],
         \A m \in Nodes : Evolves(ns[m], nt[m]),
         NEW a \in Nodes, NEW t \in Nat,
         Cardinality(Backing(ns, a, t)) >= Majority
  PROVE  Cardinality(Backing(nt, a, t)) >= Majority
<1>1. Backing(ns, a, t) \subseteq Backing(nt, a, t)
  <2> SUFFICES ASSUME NEW v \in Nodes, v \in Backing(ns, a, t)
               PROVE  v \in Backing(nt, a, t)
    BY DEF Backing
  <2>1. ns[v].term \in Nat /\ nt[v].term \in Nat
    BY DEF NodeState
  <2>2. a # NoVote
    BY DEF Nodes, NoVote
  <2> QED
    BY <2>1, <2>2 DEF Backing, Evolves
<1>2. /\ IsFiniteSet(Backing(nt, a, t))
      /\ Cardinality(Backing(ns, a, t)) <= Cardinality(Backing(nt, a, t))
      /\ Cardinality(Backing(ns, a, t)) \in Nat
      /\ Cardinality(Backing(nt, a, t)) \in Nat
  <2>1. Backing(nt, a, t) \subseteq Nodes
    BY DEF Backing
  <2> QED
    BY <1>1, <2>1, NodesFinite, FS_Subset, FS_CardinalityType
<1> QED
  BY <1>2, NodesFinite

\* If every node evolves and ends with a log some node had, and the leaders
\* keep their own, the logs stay sound.
LEMMA CopyingIsSound ==
  ASSUME NEW ns \in [Nodes -> NodeState], NEW nt \in [Nodes -> NodeState],
         Recorded(ns), \A m \in Nodes : Evolves(ns[m], nt[m]),
         \A m \in Nodes : \E k \in Nodes : nt[m].log = ns[k].log,
         \A m \in Nodes : nt[m].role = "leader" => nt[m].log = ns[m].log
  PROVE  Recorded(nt)
<1>1. Matching(nt)
  BY DEF Recorded, Matching
<1>2. Authored(nt)
  <2> SUFFICES ASSUME NEW m \in Nodes, NEW i \in DOMAIN nt[m].log
               PROVE  \E a \in Nodes :
                        /\ nt[a].term >= nt[m].log[i].term
                        /\ Cardinality(Backing(nt, a, nt[m].log[i].term)) >= Majority
    BY DEF Authored
  <2>1. PICK k \in Nodes : nt[m].log = ns[k].log
    OBVIOUS
  <2> DEFINE t == ns[k].log[i].term
  <2>2. PICK a \in Nodes : /\ ns[a].term >= t
                           /\ Cardinality(Backing(ns, a, t)) >= Majority
    BY <2>1 DEF Recorded, Authored
  <2>3. t \in Nat
    <3>1. ns[k].log \in Seq(Entry)
      BY DEF NodeState
    <3> QED
      BY <2>1, <3>1, EntriesOfLog
  <2> HIDE DEF t
  <2>4. nt[a].term >= t
    <3>1. ns[a].term \in Nat /\ nt[a].term \in Nat /\ nt[a].term >= ns[a].term
      BY DEF NodeState, Evolves
    <3> QED
      BY <2>2, <2>3, <3>1
  <2>5. Cardinality(Backing(nt, a, t)) >= Majority
    BY <2>2, <2>3, BackingGrows
  <2> QED
    BY <2>1, <2>4, <2>5 DEF t
<1>3. Held(nt)
  <2> SUFFICES ASSUME NEW l \in Nodes, NEW m \in Nodes, NEW i \in DOMAIN nt[m].log,
                      nt[l].role = "leader", nt[m].log[i].term = nt[l].term
               PROVE  i \in DOMAIN nt[l].log /\ nt[l].log[i].term = nt[l].term
    BY DEF Held
  <2>1. nt[l].log = ns[l].log
    OBVIOUS
  <2>2. ns[l].role = "leader" /\ nt[l].term = ns[l].term
    BY DEF Evolves
  <2>3. PICK k \in Nodes : nt[m].log = ns[k].log
    OBVIOUS
  <2> QED
    BY <2>1, <2>2, <2>3 DEF Recorded, Held
<1> QED
  BY <1>1, <1>2, <1>3 DEF Recorded

\* A broadcast keeps the logs sound: its followers copy.
LEMMA BroadcastIsSound ==
  ASSUME NEW ns \in [Nodes -> NodeState], Recorded(ns), NEW l \in Nodes,
         NEW peers \in SUBSET Nodes, NEW jitter \in Draws
  PROVE  Recorded(Broadcast(ns, l, peers, jitter))
<1> DEFINE nt == Broadcast(ns, l, peers, jitter)
<1>1. nt \in [Nodes -> NodeState] /\ \A m \in Nodes : Evolves(ns[m], nt[m])
  BY BroadcastType, BroadcastEvolves
<1>2. \A m \in Nodes : Agree(ns[m].log, ns[l].log)
  BY DEF Recorded, Matching
<1>3. /\ \A m \in Nodes : nt[m].log \in {ns[m].log, ns[l].log}
      /\ \A m \in Nodes : m # l /\ nt[m].role = "leader" =>
            Ledger(nt[m]) = Ledger(ns[m])
      /\ nt[l].log = ns[l].log
  BY <1>2, BroadcastCopies
<1> HIDE DEF nt
<1>4. \A m \in Nodes : \E k \in Nodes : nt[m].log = ns[k].log
  BY <1>3
<1>5. \A m \in Nodes : nt[m].role = "leader" => nt[m].log = ns[m].log
  BY <1>3 DEF Ledger
<1> QED
  BY <1>1, <1>4, <1>5, CopyingIsSound DEF nt

\* Asking for votes touches no ledger.
LEMMA PollKeepsLedger ==
  ASSUME NEW ns \in [Nodes -> NodeState], NEW n \in Nodes,
         NEW peers \in SUBSET Nodes, NEW jitter \in Draws, NEW m \in Nodes
  PROVE  Ledger(Polled(ns, n, peers, jitter)[m]) = Ledger(ns[m])
<1> DEFINE c == Candidacy(ns[n], n, jitter[n])
           req == RequestOf(c, n)
           answer == HandleRequestVote(ns[m], req, jitter[m])
<1>1. jitter[m] \in Jitter /\ jitter[n] \in Jitter
  BY DEF Draws
<1>2. req \in VoteRequest
  BY <1>1, CandidacyType
<1>3. Ledger(c) = Ledger(ns[n])
  BY DEF Candidacy, ResetTimer, Ledger, NodeState
<1>4. Polled(ns, n, peers, jitter)[m] =
        IF m = n THEN c ELSE IF m \in peers THEN answer ELSE ns[m]
  BY DEF Polled
<1> HIDE DEF c, req
<1>5. Ledger(answer) = Ledger(ns[m])
  BY <1>1, <1>2, VoterKeepsLedger
<1> QED
  BY <1>3, <1>4, <1>5

\* The term of a new leader is new to every log: the author of an entry of
\* that term would share a voter with it, so it would be the candidate itself,
\* which only now enters the term.
LEMMA TermIsOpen ==
  ASSUME NEW ns \in [Nodes -> NodeState], Authored(ns), NEW n \in Nodes,
         NEW nt \in [Nodes -> NodeState],
         \A m \in Nodes : Evolves(ns[m], nt[m]), nt[n].term > ns[n].term,
         NEW Q \in SUBSET Nodes, Cardinality(Q) >= Majority,
         \A m \in Q : nt[m].term = nt[n].term /\ nt[m].votedFor = n,
         NEW m \in Nodes, NEW i \in DOMAIN ns[m].log
  PROVE  ns[m].log[i].term # nt[n].term
<1> DEFINE t == ns[m].log[i].term
<1> SUFFICES ASSUME t = nt[n].term PROVE FALSE
  OBVIOUS
<1>1. t \in Nat /\ ns[n].term \in Nat
  BY DEF NodeState
<1>2. PICK a \in Nodes : /\ ns[a].term >= t
                         /\ Cardinality(Backing(ns, a, t)) >= Majority
  BY DEF Authored
<1>3. Cardinality(Backing(nt, a, t)) >= Majority
  BY <1>1, <1>2, BackingGrows
<1>4. Backing(nt, a, t) \cap Q # {}
  <2>1. Backing(nt, a, t) \in SUBSET Nodes
    BY DEF Backing
  <2>2. Cardinality(Backing(nt, a, t)) \in Nat /\ Cardinality(Q) \in Nat
    BY <2>1, NodesFinite, FS_Subset, FS_CardinalityType
  <2>3. Cardinality(Backing(nt, a, t)) + Cardinality(Q) > Cardinality(Nodes)
    BY <1>3, <2>2, NodesFinite
  <2> QED
    BY <2>1, <2>3, NodesFinite, FS_MajoritiesIntersect
<1>5. PICK v \in Q : v \in Backing(nt, a, t)
  BY <1>4
<1>6. nt[v].term = t /\ nt[v].votedFor = a
  BY <1>1, <1>5 DEF Backing
<1>7. a = n
  BY <1>5, <1>6
<1> QED
  BY <1>1, <1>2, <1>7

\* An election keeps the logs sound, whoever wins.
LEMMA ElectionKeepsLogs ==
  ASSUME NEW ns \in [Nodes -> NodeState], Recorded(ns), NEW n \in Nodes,
         NEW peers \in SUBSET Nodes, n \notin peers, NEW jitter \in Draws
  PROVE  Recorded(StartElection(ns, n, peers, jitter))
<1> DEFINE polled == Polled(ns, n, peers, jitter)
           granting == Granting(ns, n, peers, jitter)
           Q == granting \cup {n}
           crowned == [polled EXCEPT ![n] = Crowned(polled[n], peers)]
<1>1. /\ polled \in [Nodes -> NodeState]
      /\ \A m \in Nodes : Evolves(ns[m], polled[m])
      /\ \A m \in Nodes : polled[m].log = ns[m].log
  BY PolledType, PollEvolves, PollKeepsLedger DEF Ledger
<1>2. /\ granting \in SUBSET Nodes /\ n \notin granting
      /\ \A m \in Q : polled[m].term = polled[n].term /\ polled[m].votedFor = n
  BY PollEvolves DEF Granting
<1>3. polled[n].term > ns[n].term /\ polled[n].term > 0
  <2>1. polled[n] = Candidacy(ns[n], n, jitter[n])
    BY DEF Polled
  <2>2. jitter[n] \in Jitter /\ ns[n].term \in Nat
    BY DEF Draws, NodeState
  <2> QED
    BY <2>1, <2>2, CandidacyType
<1>4. StartElection(ns, n, peers, jitter) =
        IF Cardinality(granting) + 1 >= Majority
        THEN Broadcast(crowned, n, peers, jitter) ELSE polled
  BY ElectionUnfolds
<1> HIDE DEF polled, granting
<1>5. Recorded(polled)
  BY <1>1, CopyingIsSound
<1>6. CASE Cardinality(granting) + 1 >= Majority
  <2>1. Cardinality(Q) >= Majority
    <3>1. Cardinality(Q) = Cardinality(granting) + 1
      BY <1>2, NodesFinite, FS_Subset, FS_AddElement
    <3> QED
      BY <1>6, <3>1
  <2>2. \A m \in Nodes : \A i \in DOMAIN ns[m].log :
           ns[m].log[i].term # polled[n].term
    BY <1>1, <1>2, <1>3, <2>1, TermIsOpen DEF Recorded
  <2>3. crowned \in [Nodes -> NodeState]
    BY <1>1, <1>3, CrownedType
  <2>4. \A m \in Nodes : /\ crowned[m].term = polled[m].term
                         /\ crowned[m].votedFor = polled[m].votedFor
                         /\ crowned[m].log = polled[m].log
                         /\ m # n => crowned[m].role = polled[m].role
    <3>1. \A s \in NodeState : /\ Crowned(s, peers).term = s.term
                               /\ Crowned(s, peers).votedFor = s.votedFor
                               /\ Crowned(s, peers).log = s.log
      BY DEF Crowned, NodeState
    <3>2. /\ crowned[n] = Crowned(polled[n], peers)
          /\ \A m \in Nodes : m # n => crowned[m] = polled[m]
      BY <1>1
    <3> HIDE DEF crowned
    <3> QED
      BY <1>1, <3>1, <3>2
  <2> HIDE DEF crowned
  <2>5. Recorded(crowned)
    <3>1. Matching(crowned)
      BY <1>5, <2>4 DEF Recorded, Matching
    <3>2. Authored(crowned)
      <4>1. \A a \in Nodes : \A t : Backing(crowned, a, t) = Backing(polled, a, t)
        BY <2>4 DEF Backing
      <4> QED
        BY <1>5, <2>4, <4>1 DEF Recorded, Authored
    <3>3. Held(crowned)
      <4> SUFFICES ASSUME NEW l \in Nodes, NEW m \in Nodes,
                          NEW i \in DOMAIN crowned[m].log,
                          crowned[l].role = "leader",
                          crowned[m].log[i].term = crowned[l].term
                   PROVE  /\ i \in DOMAIN crowned[l].log
                          /\ crowned[l].log[i].term = crowned[l].term
        BY DEF Held
      <4>1. i \in DOMAIN ns[m].log /\ crowned[m].log[i] = ns[m].log[i]
        BY <1>1, <2>4
      <4>2. l # n
        BY <2>2, <2>4, <4>1
      <4> QED
        BY <1>5, <2>4, <4>2 DEF Recorded, Held
    <3> QED
      BY <3>1, <3>2, <3>3 DEF Recorded
  <2> QED
    BY <1>4, <1>6, <2>3, <2>5, BroadcastIsSound
<1>7. CASE ~(Cardinality(granting) + 1 >= Majority)
  BY <1>4, <1>5, <1>7
<1> QED
  BY <1>6, <1>7

\* Taking a proposal keeps the logs sound: its index is free, in the leader's
\* term, in every log.
LEMMA ProposalKeepsLogs ==
  ASSUME NEW ns \in [Nodes -> NodeState], Recorded(ns), Sound(ns),
         NEW n \in Nodes, ns[n].role = "leader", NEW c \in Commands
  PROVE  Recorded([ns EXCEPT ![n] = Extended(ns[n], c)])
<1> DEFINE nt == [ns EXCEPT ![n] = Extended(ns[n], c)]
           entry == [term |-> ns[n].term, command |-> c]
           old == ns[n].log
           k == Len(old) + 1
<1>1. /\ old \in Seq(Entry) /\ Len(old) \in Nat /\ DOMAIN old = 1..Len(old)
      /\ entry \in Entry /\ ns[n].term \in Nat
  <2>1. ns[n].log \in Seq(Entry) /\ ns[n].term \in Nat /\ ns[n].term > 0
    BY DEF NodeState
  <2> QED
    BY <2>1, EntriesOfLog DEF Entry
<1>2. /\ nt[n].log = Append(old, entry)
      /\ \A m \in Nodes : m # n => nt[m].log = ns[m].log
  BY DEF Extended, NodeState
<1>3. \A m \in Nodes : /\ nt[m].role = ns[m].role
                        /\ nt[m].term = ns[m].term
                        /\ nt[m].votedFor = ns[m].votedFor
  BY DEF Extended, NodeState
<1> HIDE DEF nt
<1>4. /\ DOMAIN nt[n].log = 1..k
      /\ nt[n].log[k] = entry /\ entry.term = ns[n].term
      /\ \A i \in 1..Len(old) : nt[n].log[i] = old[i]
  <2>1. Append(old, entry) \in Seq(Entry)
    BY <1>1, AppendProperties
  <2> QED
    BY <1>1, <1>2, <2>1, AppendProperties, LenProperties
<1>5. \A m \in Nodes : k \in DOMAIN ns[m].log => ns[m].log[k].term # ns[n].term
  <2>1. k \notin DOMAIN old
    BY <1>1
  <2> QED
    BY <2>1 DEF Recorded, Held
<1>6. \A a \in Nodes : \A t : Backing(nt, a, t) = Backing(ns, a, t)
  BY <1>3 DEF Backing
<1> HIDE DEF entry, k
<1>7. \A i \in DOMAIN nt[n].log :
        i = k \/ (i \in DOMAIN old /\ nt[n].log[i] = old[i])
  BY <1>1, <1>4 DEF k
<1>8. Matching(nt)
  <2>1. ASSUME NEW m \in Nodes, m # n,
               NEW i \in DOMAIN nt[n].log \cap DOMAIN ns[m].log,
               nt[n].log[i].term = ns[m].log[i].term
        PROVE  \A q \in 1..i : nt[n].log[q] = ns[m].log[q]
    <3>1. i # k
      BY <1>4, <1>5, <2>1
    <3>2. i \in DOMAIN old /\ nt[n].log[i] = old[i]
      BY <1>7, <3>1
    <3>3. \A q \in 1..i : old[q] = ns[m].log[q]
      BY <2>1, <3>2 DEF Recorded, Matching, Agree
    <3>4. \A q \in 1..i : q \in 1..Len(old)
      BY <1>1, <3>2
    <3> QED
      BY <1>4, <3>3, <3>4
  <2>2. \A a, b \in Nodes : a # n /\ b # n => Agree(nt[a].log, nt[b].log)
    BY <1>2 DEF Recorded, Matching
  <2>3. \A m \in Nodes : m # n =>
           Agree(nt[n].log, nt[m].log) /\ Agree(nt[m].log, nt[n].log)
    <3> SUFFICES ASSUME NEW m \in Nodes, m # n
                 PROVE  /\ Agree(nt[n].log, ns[m].log)
                        /\ Agree(ns[m].log, nt[n].log)
      BY <1>2
    <3> DEFINE grown == nt[n].log
               other == ns[m].log
    <3>1. \A i \in DOMAIN grown \cap DOMAIN other :
             grown[i].term = other[i].term => \A q \in 1..i : grown[q] = other[q]
      BY <2>1
    <3> HIDE DEF grown, other
    <3>2. Agree(grown, other) /\ Agree(other, grown)
      BY <3>1 DEF Agree
    <3> QED
      BY <3>2 DEF grown, other
  <2>4. Agree(nt[n].log, nt[n].log)
    BY DEF Agree
  <2> QED
    BY <2>2, <2>3, <2>4 DEF Matching
<1>9. Authored(nt)
  <2> SUFFICES ASSUME NEW m \in Nodes, NEW i \in DOMAIN nt[m].log
               PROVE  \E a \in Nodes :
                        /\ ns[a].term >= nt[m].log[i].term
                        /\ Cardinality(Backing(ns, a, nt[m].log[i].term)) >= Majority
    BY <1>3, <1>6 DEF Authored
  <2>1. CASE m = n /\ i = k
    <3>1. nt[m].log[i].term = ns[n].term
      BY <1>4, <2>1
    <3>2. Backing(ns, n, ns[n].term) = BackersIn(ns, n)
      BY DEF Backing, BackersIn
    <3>3. Cardinality(BackersIn(ns, n)) >= Majority
      BY DEF Sound
    <3> QED
      BY <1>1, <3>1, <3>2, <3>3
  <2>2. CASE ~(m = n /\ i = k)
    <3>1. i \in DOMAIN ns[m].log /\ nt[m].log[i] = ns[m].log[i]
      BY <1>2, <1>7, <2>2
    <3> QED
      BY <3>1 DEF Recorded, Authored
  <2> QED
    BY <2>1, <2>2
<1>10. Held(nt)
  <2> SUFFICES ASSUME NEW l \in Nodes, NEW m \in Nodes, NEW i \in DOMAIN nt[m].log,
                      ns[l].role = "leader", nt[m].log[i].term = ns[l].term
               PROVE  i \in DOMAIN nt[l].log /\ nt[l].log[i].term = ns[l].term
    BY <1>3 DEF Held
  <2>1. CASE m = n /\ i = k
    <3>1. l = n
      BY <1>4, <2>1 DEF Sound
    <3> QED
      BY <2>1, <3>1
  <2>2. CASE ~(m = n /\ i = k)
    <3>1. i \in DOMAIN ns[m].log /\ nt[m].log[i] = ns[m].log[i]
      BY <1>2, <1>7, <2>2
    <3>2. i \in DOMAIN ns[l].log /\ ns[l].log[i].term = ns[l].term
      BY <3>1 DEF Recorded, Held
    <3>3. CASE l # n
      BY <1>2, <3>2, <3>3
    <3>4. CASE l = n
      <4>1. i \in 1..k /\ nt[n].log[i] = old[i]
        BY <1>1, <1>4, <3>2, <3>4 DEF k
      <4> QED
        BY <1>4, <3>2, <3>4, <4>1
    <3> QED
      BY <3>3, <3>4
  <2> QED
    BY <2>1, <2>2
<1> QED
  BY <1>8, <1>9, <1>10 DEF Recorded, nt

-----------------------------------------------------------------------------
(* The steps of the cluster. *)

\* What the steps of the cluster that are not restarts do to the nodes.
Untouched == \A m \in Nodes : /\ Ballot(node'[m]) = Ballot(node[m])
                              /\ Ledger(node'[m]) = Ledger(node[m])
Elects == \E n \in Nodes, jitter \in Draws :
            node' = StartElection(node, n, PeersOf(n), jitter)
Beats == \E n \in Nodes, jitter \in Draws :
           /\ node[n].role = "leader"
           /\ node' = Broadcast(node, n, PeersOf(n), jitter)
Proposes == \E n \in Nodes, c \in Commands, jitter \in Draws :
              /\ node[n].role = "leader"
              /\ node' = Broadcast([node EXCEPT ![n] = Extended(node[n], c)],
                                   n, PeersOf(n), jitter)

\* There are no others.
LEMMA StepsOfTheCluster ==
  ASSUME TypeOK, [CrashStopNext]_vars
  PROVE  Untouched \/ Elects \/ Beats \/ Proposes
<1>1. node \in [Nodes -> NodeState]
  BY DEF TypeOK
<1>2. ASSUME node' = node PROVE Untouched
  BY <1>2 DEF Untouched
<1>3. CASE Tick
  <2>1. \A s \in NodeState : /\ Ballot(Ticked(s)) = Ballot(s)
                             /\ Ledger(Ticked(s)) = Ledger(s)
    BY DEF Ticked, Ballot, Ledger, NodeState
  <2>2. \A n \in Nodes : node'[n] = Ticked(node[n])
    BY <1>3 DEF Tick, Ticked
  <2> QED
    BY <1>1, <2>1, <2>2 DEF Untouched
<1>4. CASE ElectionTimeout
  <2>1. Least(Due) \in Nodes
    BY <1>4, NextVisit DEF ElectionTimeout, Due
  <2>2. PICK jitter \in Draws :
          node' = StartElection(node, Least(Due), PeersOf(Least(Due)), jitter)
    BY <1>4 DEF ElectionTimeout, Draws
  <2> QED
    BY <2>1, <2>2 DEF Elects
<1>5. CASE Heartbeat
  <2>1. Least(Leading) \in Nodes /\ Least(Leading) \in Leading
    BY <1>5, NextVisit DEF Heartbeat, Leading
  <2>2. node[Least(Leading)].role = "leader"
    BY <2>1 DEF Leading
  <2>3. PICK jitter \in Draws :
          node' = Broadcast(node, Least(Leading), PeersOf(Least(Leading)), jitter)
    BY <1>5 DEF Heartbeat, Draws
  <2> QED
    BY <2>1, <2>2, <2>3 DEF Beats
<1>6. ASSUME NEW n \in Nodes, NEW c \in Commands, Propose(n, c)
      PROVE  Proposes
  <2>1. PICK jitter \in Draws :
          node' = Broadcast([node EXCEPT ![n] = Extended(node[n], c)],
                            n, PeersOf(n), jitter)
    BY <1>6 DEF Propose, Draws, Extended
  <2> QED
    BY <1>6, <2>1 DEF Proposes, Propose
<1>7. ASSUME NEW n \in Nodes, Crash(n) PROVE Untouched
  BY <1>2, <1>7 DEF Crash
<1>8. CASE EndElections \/ EndTick \/ SetPartition \/ HealPartition
           \/ UNCHANGED vars
  BY <1>2, <1>8 DEF EndElections, EndTick, SetPartition, HealPartition, vars
<1> QED
  BY <1>3, <1>4, <1>5, <1>6, <1>7, <1>8 DEF CrashStopNext, TickStep, Operate

\* A leader that takes a proposal grows its log and nothing else.
LEMMA ProposalUnfolds ==
  ASSUME NEW ns \in [Nodes -> NodeState], NEW n \in Nodes,
         ns[n].role = "leader", NEW c \in Commands
  PROVE  LET grown == [ns EXCEPT ![n] = Extended(ns[n], c)]
         IN /\ grown \in [Nodes -> NodeState]
            /\ \A m \in Nodes : /\ Ballot(grown[m]) = Ballot(ns[m])
                                 /\ grown[m].commitIndex = ns[m].commitIndex
<1>1. Extended(ns[n], c) \in NodeState
  BY ExtendedType
<1> QED
  BY <1>1 DEF Extended, Ballot, NodeState

\* The inductive invariant of the logs.
LogInv == IInv /\ Recorded(node)

\* At first there is nothing in the logs.
LEMMA InitRecorded == Init => LogInv
<1> SUFFICES ASSUME Init PROVE Recorded(node)
  BY InitSound DEF LogInv
<1>1. node \in [Nodes -> {Fresh(j) : j \in Jitter}]
  BY DEF Init, Fresh
<1>2. \A j \in Jitter : Fresh(j).log = << >>
  BY DEF Fresh
<1>3. \A n \in Nodes : node[n].log = << >>
  BY <1>1, <1>2
<1> QED
  BY <1>3 DEF Recorded, Matching, Authored, Held, Agree

\* Every step that is not a restart keeps the logs sound.
LEMMA NextRecorded == LogInv /\ [CrashStopNext]_vars => LogInv'
<1> SUFFICES ASSUME LogInv, [CrashStopNext]_vars PROVE Recorded(node')
  BY NextSound DEF LogInv, Recorded, Matching, Authored, Held, Backing
<1>1. /\ node \in [Nodes -> NodeState] /\ node' \in [Nodes -> NodeState]
      /\ Sound(node) /\ Recorded(node)
  BY NextSound DEF LogInv, IInv, TypeOK
<1>2. CASE Untouched
  <2>1. \A m \in Nodes : Evolves(node[m], node'[m])
    BY <1>1, <1>2, SameBallotEvolves DEF Untouched
  <2>2. \A m \in Nodes : node'[m].log = node[m].log
    BY <1>2 DEF Untouched, Ledger
  <2> QED
    BY <1>1, <2>1, <2>2, CopyingIsSound
<1>3. CASE Elects
  <2>1. \A n : n \notin PeersOf(n)
    BY DEF PeersOf
  <2> QED
    BY <1>1, <1>3, <2>1, PeersAreNodes, ElectionKeepsLogs DEF Elects
<1>4. CASE Beats
  BY <1>1, <1>4, PeersAreNodes, BroadcastIsSound DEF Beats
<1>5. CASE Proposes
  <2>1. PICK n \in Nodes, c \in Commands, jitter \in Draws :
          /\ node[n].role = "leader"
          /\ node' = Broadcast([node EXCEPT ![n] = Extended(node[n], c)],
                               n, PeersOf(n), jitter)
    BY <1>5 DEF Proposes
  <2> DEFINE grown == [node EXCEPT ![n] = Extended(node[n], c)]
  <2>2. grown \in [Nodes -> NodeState] /\ Recorded(grown)
    BY <1>1, <2>1, ProposalUnfolds, ProposalKeepsLogs
  <2> HIDE DEF grown
  <2>3. node' = Broadcast(grown, n, PeersOf(n), jitter)
    BY <2>1 DEF grown
  <2> QED
    BY <2>2, <2>3, PeersAreNodes, BroadcastIsSound
<1> QED
  BY <1>2, <1>3, <1>4, <1>5, StepsOfTheCluster DEF LogInv, IInv

\* While no node is restarted, two logs with an entry of one term at one index
\* are the same up to it, for every cluster size, log length and pattern of
\* crashes and partitions (raft.ts:235-264).
THEOREM LogsMatch == CrashStopSpec => []LogMatching
<1>1. Init => LogInv
  BY InitRecorded
<1>2. LogInv /\ [CrashStopNext]_vars => LogInv'
  BY NextRecorded
<1>3. LogInv => LogMatching
  <2> SUFFICES ASSUME LogInv, NEW a \in Nodes, NEW b \in Nodes,
                      NEW i \in DOMAIN node[a].log \cap DOMAIN node[b].log,
                      node[a].log[i].term = node[b].log[i].term
               PROVE  SubSeq(node[a].log, 1, i) = SubSeq(node[b].log, 1, i)
    BY DEF LogMatching
  <2> DEFINE p == node[a].log
             q == node[b].log
  <2>1. /\ p \in Seq(Entry) /\ Len(p) \in Nat /\ DOMAIN p = 1..Len(p)
        /\ q \in Seq(Entry) /\ Len(q) \in Nat /\ DOMAIN q = 1..Len(q)
    <3>1. p \in Seq(Entry) /\ q \in Seq(Entry)
      BY DEF LogInv, IInv, TypeOK, NodeState
    <3> QED
      BY <3>1, EntriesOfLog
  <2>2. \A k \in 1..i : p[k] = q[k]
    BY DEF LogInv, Recorded, Matching, Agree
  <2> HIDE DEF p, q
  <2>3. /\ i \in Nat \ {0}
        /\ \A k \in 1..i : p[k] \in Entry /\ q[k] \in Entry
    <3>1. i \in 1..Len(p) /\ i \in 1..Len(q)
      BY <2>1 DEF p, q
    <3>2. \A k \in 1..i : k \in 1..Len(p) /\ k \in 1..Len(q)
      BY <2>1, <3>1
    <3> QED
      BY <2>1, <3>1, <3>2, EntriesOfLog
  <2>4. /\ SubSeq(p, 1, i) \in Seq(Entry) /\ Len(SubSeq(p, 1, i)) = i
        /\ SubSeq(q, 1, i) \in Seq(Entry) /\ Len(SubSeq(q, 1, i)) = i
        /\ \A k \in 1..i : /\ SubSeq(p, 1, i)[k] = p[k]
                           /\ SubSeq(q, 1, i)[k] = q[k]
    BY <2>3, SubSeqProperties
  <2>5. SubSeq(p, 1, i) = SubSeq(q, 1, i)
    BY <2>2, <2>4, SeqEqual
  <2> QED
    BY <2>5 DEF p, q
<1> QED
  BY <1>1, <1>2, <1>3, PTL DEF CrashStopSpec

-----------------------------------------------------------------------------
(* What a vote is worth. *)

\* A node keeps a vote it has given for as long as it stays in the term.
KeepsVote(s, t) ==
  /\ t.term >= s.term
  /\ t.term = s.term /\ s.votedFor # NoVote => t.votedFor = s.votedFor

\* Evolving keeps votes, and so does winning an election.
LEMMA VotesAreKept ==
  ASSUME NEW ns \in [Nodes -> NodeState], NEW n \in Nodes,
         NEW peers \in SUBSET Nodes, n \notin peers, NEW jitter \in Draws
  PROVE  \A m \in Nodes : KeepsVote(ns[m], StartElection(ns, n, peers, jitter)[m])
<1> DEFINE polled == Polled(ns, n, peers, jitter)
           crowned == [polled EXCEPT ![n] = Crowned(polled[n], peers)]
           nt == Broadcast(crowned, n, peers, jitter)
<1>1. /\ polled \in [Nodes -> NodeState]
      /\ \A m \in Nodes : Evolves(ns[m], polled[m])
  BY PolledType, PollEvolves
<1>2. polled[n].term > 0
  <2>1. polled[n] = Candidacy(ns[n], n, jitter[n])
    BY DEF Polled
  <2>2. jitter[n] \in Jitter /\ ns[n].term \in Nat
    BY DEF Draws, NodeState
  <2> QED
    BY <2>1, <2>2, CandidacyType
<1>3. StartElection(ns, n, peers, jitter) \in {polled, nt}
  BY ElectionUnfolds
<1> HIDE DEF polled
<1>4. /\ crowned \in [Nodes -> NodeState]
      /\ \A m \in Nodes : /\ crowned[m].term = polled[m].term
                           /\ crowned[m].votedFor = polled[m].votedFor
  <2>1. Crowned(polled[n], peers) \in NodeState
    BY <1>1, <1>2, CrownedType
  <2>2. /\ Crowned(polled[n], peers).term = polled[n].term
        /\ Crowned(polled[n], peers).votedFor = polled[n].votedFor
    BY <1>1 DEF Crowned, NodeState
  <2> QED
    BY <1>1, <2>1, <2>2
<1> HIDE DEF crowned
<1>5. \A m \in Nodes : Evolves(crowned[m], nt[m])
  BY <1>4, BroadcastEvolves
<1>6. nt \in [Nodes -> NodeState]
  BY <1>4, BroadcastType
<1> HIDE DEF nt
<1>7. ASSUME NEW m \in Nodes
      PROVE  KeepsVote(ns[m], polled[m]) /\ KeepsVote(ns[m], nt[m])
  <2>1. /\ ns[m].term \in Nat /\ polled[m].term \in Nat
        /\ crowned[m].term \in Nat /\ nt[m].term \in Nat
    BY <1>1, <1>4, <1>6 DEF NodeState
  <2>2. KeepsVote(ns[m], polled[m]) /\ KeepsVote(crowned[m], nt[m])
    BY <1>1, <1>5 DEF Evolves, KeepsVote
  <2> QED
    BY <1>4, <2>1, <2>2 DEF KeepsVote
<1> QED
  BY <1>3, <1>7

\* While no node is restarted, a vote given in a term stands until the node
\* leaves the term, whatever it hears (raft.ts:177-231).
THEOREM VotesAreFinal == CrashStopSpec => VoteIsFinal
<1>1. TypeOK /\ [CrashStopNext]_vars =>
        [\A n \in Nodes :
           node'[n].term = node[n].term /\ node[n].votedFor # NoVote =>
             node'[n].votedFor = node[n].votedFor]_vars
  <2> SUFFICES ASSUME TypeOK, [CrashStopNext]_vars
               PROVE  \A n \in Nodes : KeepsVote(node[n], node'[n])
    BY DEF KeepsVote
  <2>1. node \in [Nodes -> NodeState]
    BY DEF TypeOK
  <2>2. \A s \in NodeState : \A t : Evolves(s, t) => KeepsVote(s, t)
    BY DEF Evolves, KeepsVote
  <2>3. CASE Untouched
    BY <2>1, <2>2, <2>3, SameBallotEvolves DEF Untouched
  <2>4. CASE Elects
    <3>1. \A n : n \notin PeersOf(n)
      BY DEF PeersOf
    <3> QED
      BY <2>1, <2>4, <3>1, PeersAreNodes, VotesAreKept DEF Elects
  <2>5. CASE Beats
    BY <2>1, <2>2, <2>5, PeersAreNodes, BroadcastEvolves DEF Beats
  <2>6. CASE Proposes
    <3>1. PICK n \in Nodes, c \in Commands, jitter \in Draws :
            /\ node[n].role = "leader"
            /\ node' = Broadcast([node EXCEPT ![n] = Extended(node[n], c)],
                                 n, PeersOf(n), jitter)
      BY <2>6 DEF Proposes
    <3> DEFINE grown == [node EXCEPT ![n] = Extended(node[n], c)]
    <3>2. /\ grown \in [Nodes -> NodeState]
          /\ \A m \in Nodes : Ballot(grown[m]) = Ballot(node[m])
      BY <2>1, <3>1, ProposalUnfolds
    <3> HIDE DEF grown
    <3>3. \A m \in Nodes : Evolves(grown[m], node'[m])
      BY <3>1, <3>2, PeersAreNodes, BroadcastEvolves DEF grown
    <3>4. \A m \in Nodes : KeepsVote(grown[m], node'[m])
      BY <2>2, <3>2, <3>3
    <3> QED
      BY <3>2, <3>4 DEF KeepsVote, Ballot
  <2> QED
    BY <2>3, <2>4, <2>5, <2>6, StepsOfTheCluster
<1>2. CrashStopSpec => []TypeOK
  <2>1. Init => TypeOK
    BY InitType
  <2>2. TypeOK /\ [CrashStopNext]_vars => TypeOK'
    BY NextType DEF Next
  <2> QED
    BY <2>1, <2>2, PTL DEF CrashStopSpec
<1> QED
  BY <1>1, <1>2, PTL DEF CrashStopSpec, VoteIsFinal

-----------------------------------------------------------------------------
(* What a majority is worth. *)

\* A node that leads after a step led before it with the same commit index,
\* or it reaches a majority of the cluster.
Powerless(s, t, n) ==
  t.role = "leader" =>
    \/ s.role = "leader" /\ t.commitIndex = s.commitIndex
    \/ Cardinality(PeersOf(n)) + 1 >= Majority

\* In a broadcast only the broadcaster can do more, and it needs a majority.
LEMMA BroadcastNeedsMajority ==
  ASSUME NEW ns \in [Nodes -> NodeState], NEW l \in Nodes, ns[l].role = "leader",
         NEW jitter \in Draws, NEW m \in Nodes
  PROVE  Powerless(ns[m], Broadcast(ns, l, PeersOf(l), jitter)[m], m)
<1> DEFINE nt == Broadcast(ns, l, PeersOf(l), jitter)
<1>1. PeersOf(l) \in SUBSET Nodes
  BY PeersAreNodes
<1>2. Evolves(ns[m], nt[m])
  BY <1>1, BroadcastEvolves
<1>3. /\ m # l /\ nt[m].role = "leader" => Ledger(nt[m]) = Ledger(ns[m])
      /\ \/ nt[l].commitIndex = ns[l].commitIndex
         \/ Cardinality(PeersOf(l)) + 1 >= Majority
  BY <1>1, BroadcastCopies
<1> HIDE DEF nt
<1>4. Powerless(ns[m], nt[m], m)
  BY <1>2, <1>3 DEF Powerless, Evolves, Ledger
<1> QED
  BY <1>4 DEF nt

\* In an election only the winner can do more, and it was given the votes of
\* a majority by peers it reaches.
LEMMA ElectionNeedsMajority ==
  ASSUME NEW ns \in [Nodes -> NodeState], NEW n \in Nodes,
         NEW jitter \in Draws, NEW m \in Nodes
  PROVE  Powerless(ns[m], StartElection(ns, n, PeersOf(n), jitter)[m], m)
<1> DEFINE peers == PeersOf(n)
           polled == Polled(ns, n, peers, jitter)
           granting == Granting(ns, n, peers, jitter)
           crowned == [polled EXCEPT ![n] = Crowned(polled[n], peers)]
           nt == Broadcast(crowned, n, peers, jitter)
<1>1. peers \in SUBSET Nodes /\ n \notin peers
  BY PeersAreNodes DEF PeersOf
<1>2. polled \in [Nodes -> NodeState]
  BY <1>1, PolledType
<1>3. \A k \in Nodes : Evolves(ns[k], polled[k]) /\ Ledger(polled[k]) = Ledger(ns[k])
  BY <1>1, PollEvolves, PollKeepsLedger
<1>4. StartElection(ns, n, peers, jitter) =
        IF Cardinality(granting) + 1 >= Majority THEN nt ELSE polled
  BY ElectionUnfolds
<1>5. polled[n].term > 0
  <2>1. polled[n] = Candidacy(ns[n], n, jitter[n])
    BY DEF Polled
  <2>2. jitter[n] \in Jitter /\ ns[n].term \in Nat
    BY DEF Draws, NodeState
  <2> QED
    BY <2>1, <2>2, CandidacyType
<1>6. Cardinality(granting) + 1 >= Majority => Cardinality(peers) + 1 >= Majority
  <2>1. granting \subseteq peers /\ IsFiniteSet(peers)
    BY <1>1, NodesFinite, FS_Subset DEF Granting
  <2>2. /\ Cardinality(granting) <= Cardinality(peers)
        /\ Cardinality(granting) \in Nat /\ Cardinality(peers) \in Nat
    BY <2>1, FS_Subset, FS_CardinalityType
  <2> HIDE DEF granting, peers
  <2> QED
    BY <2>2, NodesFinite
<1>7. Powerless(ns[m], polled[m], m)
  BY <1>3 DEF Powerless, Evolves, Ledger
<1> HIDE DEF polled, granting
<1>8. crowned \in [Nodes -> NodeState]
  BY <1>2, <1>5, CrownedType
<1>9. m # n => crowned[m] = polled[m]
  BY <1>2
<1> HIDE DEF crowned
<1>10. ASSUME m # n PROVE Powerless(ns[m], nt[m], m)
  <2>1. Evolves(crowned[m], nt[m])
    BY <1>1, <1>8, BroadcastEvolves
  <2>2. nt[m].role = "leader" => Ledger(nt[m]) = Ledger(crowned[m])
    BY <1>1, <1>8, <1>10, BroadcastSparesLeaders
  <2>3. Evolves(ns[m], polled[m]) /\ Ledger(polled[m]) = Ledger(ns[m])
    BY <1>3
  <2> HIDE DEF nt
  <2> QED
    BY <1>9, <1>10, <2>1, <2>2, <2>3 DEF Powerless, Evolves, Ledger
<1> HIDE DEF nt
<1>11. CASE Cardinality(granting) + 1 >= Majority
  <2>1. m = n => Powerless(ns[m], nt[m], m)
    BY <1>6, <1>11 DEF Powerless
  <2> QED
    BY <1>4, <1>10, <1>11, <2>1
<1>12. CASE ~(Cardinality(granting) + 1 >= Majority)
  BY <1>4, <1>7, <1>12
<1> QED
  BY <1>11, <1>12

\* Restarts included, a node that does not reach a majority of the whole
\* cluster neither becomes a leader nor commits as one, for every cluster size
\* and every way to partition it (raft.ts:156, 352-360).
THEOREM MinoritiesArePowerless == Spec => MinorityIsPowerless
<1>1. TypeOK /\ [Next]_vars =>
        [\A n \in Nodes :
           /\ node'[n].role = "leader"
           /\ \/ node[n].role # "leader"
              \/ node'[n].commitIndex > node[n].commitIndex
           => Cardinality(PeersOf(n)) + 1 >= Majority]_vars
  <2> SUFFICES ASSUME TypeOK, [Next]_vars, NEW n \in Nodes,
                      node'[n].role = "leader",
                      \/ node[n].role # "leader"
                      \/ node'[n].commitIndex > node[n].commitIndex
               PROVE  Cardinality(PeersOf(n)) + 1 >= Majority
    OBVIOUS
  <2>1. node \in [Nodes -> NodeState]
    BY DEF TypeOK
  <2> DEFINE Guarded == \A m \in Nodes : Powerless(node[m], node'[m], m)
  <2>2. ASSUME Untouched PROVE Guarded
    BY <2>2 DEF Untouched, Ballot, Ledger, Powerless
  <2>3. ASSUME Elects PROVE Guarded
    BY <2>1, <2>3, ElectionNeedsMajority DEF Elects
  <2>4. ASSUME Beats PROVE Guarded
    BY <2>1, <2>4, BroadcastNeedsMajority DEF Beats
  <2>5. ASSUME Proposes PROVE Guarded
    <3>1. PICK l \in Nodes, c \in Commands, jitter \in Draws :
            /\ node[l].role = "leader"
            /\ node' = Broadcast([node EXCEPT ![l] = Extended(node[l], c)],
                                 l, PeersOf(l), jitter)
      BY <2>5 DEF Proposes
    <3> DEFINE grown == [node EXCEPT ![l] = Extended(node[l], c)]
    <3>2. /\ grown \in [Nodes -> NodeState]
          /\ \A m \in Nodes : /\ Ballot(grown[m]) = Ballot(node[m])
                               /\ grown[m].commitIndex = node[m].commitIndex
      BY <2>1, <3>1, ProposalUnfolds
    <3> HIDE DEF grown
    <3>3. node' = Broadcast(grown, l, PeersOf(l), jitter)
      BY <3>1 DEF grown
    <3>4. grown[l].role = "leader"
      BY <3>1, <3>2 DEF Ballot
    <3>5. \A m \in Nodes : Powerless(grown[m], node'[m], m)
      BY <3>2, <3>3, <3>4, BroadcastNeedsMajority
    <3> QED
      BY <3>2, <3>5 DEF Powerless, Ballot
  <2>6. ASSUME NEW k \in Nodes, Restart(k) PROVE Guarded
    <3>1. PICK j \in Jitter :
            node' = [node EXCEPT ![k] = ResetTimer(Restarted(node[k]), j)]
      BY <2>6 DEF Restart, Restarted
    <3>2. ResetTimer(Restarted(node[k]), j).role = "follower"
      BY <2>1 DEF ResetTimer, Restarted, NodeState
    <3> QED
      BY <2>1, <3>1, <3>2 DEF Powerless
  <2>7. Guarded
    BY <2>2, <2>3, <2>4, <2>5, <2>6, StepsOfTheCluster DEF Next
  <2>8. node[n].commitIndex \in Nat
    <3>1. node[n] \in NodeState
      BY <2>1
    <3> QED
      BY <3>1 DEF NodeState
  <2> QED
    BY <2>7, <2>8 DEF Powerless
<1> QED
  BY <1>1, TypeCorrect, PTL DEF Spec, MinorityIsPowerless

-----------------------------------------------------------------------------
(* What becomes of a commit index. *)

\* From s to t the commit index stays or grows, or the node has heard from a
\* leader whose log ends before what it has committed, and before what the
\* leader has.
Recedes(s, t, leader) ==
  \/ t.commitIndex >= s.commitIndex
  \/ Len(leader.log) < s.commitIndex /\ s.commitIndex < leader.commitIndex

\* A request that is accepted reaches to the end of the leader's log: an index
\* past it has no term there that an entry could match (raft.ts:235-248).
LEMMA RequestReachesEnd ==
  ASSUME NEW leader \in NodeState, NEW p \in Nodes, NEW log \in Seq(Entry),
         PrevMatches(log, AppendRequest(leader, p))
  PROVE  LET req == AppendRequest(leader, p)
         IN req.prevLogIndex + Len(req.entries) = Len(leader.log)
<1> DEFINE next == leader.nextIndex[p]
           req == AppendRequest(leader, p)
<1>1. leader.log \in Seq(Entry) /\ next \in Nat \ {0} /\ Len(leader.log) \in Nat
  BY LenProperties DEF NodeState
<1>2. /\ req.prevLogIndex = next - 1
      /\ req.prevLogTerm = TermAt(leader.log, next - 1)
      /\ req.entries = SubSeq(leader.log, next, Len(leader.log))
  BY DEF AppendRequest
<1> HIDE DEF req, next
<1>3. next - 1 <= Len(leader.log)
  <2>1. CASE req.prevLogIndex = 0
    BY <1>1, <1>2, <2>1
  <2>2. CASE req.prevLogIndex \in DOMAIN log /\ log[req.prevLogIndex].term = req.prevLogTerm
    <3>1. TermAt(leader.log, next - 1) > 0
      BY <1>2, <2>2, EntriesOfLog
    <3>2. next - 1 \in DOMAIN leader.log
      BY <3>1 DEF TermAt
    <3> QED
      BY <1>1, <3>2, EntriesOfLog
  <2> QED
    BY <2>1, <2>2 DEF PrevMatches, req
<1>4. Len(req.entries) = Len(leader.log) - (next - 1)
  <2>1. CASE next <= Len(leader.log)
    BY <1>1, <1>2, <2>1, SubSeqProperties
  <2>2. CASE next = Len(leader.log) + 1
    BY <1>1, <1>2, <2>2, SubSeqProperties
  <2> QED
    BY <1>1, <1>3, <2>1, <2>2
<1>5. req.prevLogIndex + Len(req.entries) = Len(leader.log)
  BY <1>1, <1>2, <1>4
<1> QED
  BY <1>5 DEF req

\* What following the leader's commit index makes of the node's own.
LEMMA CommitFollows ==
  ASSUME NEW s \in NodeState, NEW req \in AppendRequests
  PROVE  FollowLeaderCommit(s, req).commitIndex =
           IF req.leaderCommit > s.commitIndex
           THEN Smaller(req.leaderCommit, req.prevLogIndex + Len(req.entries))
           ELSE s.commitIndex
<1> DEFINE c == Smaller(req.leaderCommit, req.prevLogIndex + Len(req.entries))
           t == [s EXCEPT !.commitIndex = c]
<1>1. c \in Nat
  BY LenProperties DEF Smaller, AppendRequests
<1> HIDE DEF c
<1>2. t \in NodeState /\ t.commitIndex = c
  BY <1>1 DEF NodeState
<1> HIDE DEF t
<1>3. ApplyCommitted(t).commitIndex = c
  BY <1>2, CommitKeepsLog DEF Ledger
<1>4. FollowLeaderCommit(s, req) =
        IF req.leaderCommit > s.commitIndex THEN ApplyCommitted(t) ELSE s
  BY DEF FollowLeaderCommit, c, t
<1> QED
  BY <1>3, <1>4 DEF c

\* A follower takes back a commit only for a leader that has lost more.
LEMMA FollowerRecedes ==
  ASSUME NEW s \in NodeState, NEW leader \in NodeState, NEW p \in Nodes,
         NEW j \in Jitter
  PROVE  Recedes(s, HandleAppendEntries(s, AppendRequest(leader, p), j), leader)
<1> DEFINE req == AppendRequest(leader, p)
           current  == StepDownIfStale(s, req.term)
           demoted  == [current EXCEPT !.role = "follower"]
           follower == ResetTimer(demoted, j)
           newLog   == MergeEntries(follower.log, req.prevLogIndex, req.entries)
           merged   == [follower EXCEPT !.log = newLog]
           t        == HandleAppendEntries(s, req, j)
<1>1. /\ req \in AppendRequests /\ req.leaderCommit = leader.commitIndex
      /\ s.commitIndex \in Nat /\ leader.commitIndex \in Nat
      /\ Len(leader.log) \in Nat
  BY AppendRequestType, LenProperties DEF AppendRequest, NodeState
<1>2. PrevMatches(s.log, req) => req.prevLogIndex + Len(req.entries) = Len(leader.log)
  <2>1. s.log \in Seq(Entry)
    BY DEF NodeState
  <2> QED
    BY <2>1, RequestReachesEnd
<1> HIDE DEF req
<1>3. req.term \in Nat
  BY <1>1 DEF AppendRequests
<1>4. current \in NodeState /\ current.log = s.log /\ current.commitIndex = s.commitIndex
  <2>1. current.log = s.log /\ current.commitIndex = s.commitIndex
    BY DEF StepDownIfStale, NodeState
  <2> QED
    BY <1>3, <2>1, StepDownType
<1> HIDE DEF current
<1>5. demoted \in NodeState /\ demoted.log = s.log /\ demoted.commitIndex = s.commitIndex
  BY <1>4 DEF NodeState
<1> HIDE DEF demoted
<1>6. follower \in NodeState /\ follower.log = s.log /\ follower.commitIndex = s.commitIndex
  BY <1>5, TimerType DEF ResetTimer, NodeState
<1> HIDE DEF follower
<1>7. CASE PrevMatches(follower.log, req)
  <2>1. /\ follower.log \in Seq(Entry) /\ req.prevLogIndex \in Nat
        /\ req.entries \in Seq(Entry) /\ req.prevLogIndex <= Len(follower.log)
    <3>1. follower.log \in Seq(Entry)
      BY <1>6 DEF NodeState
    <3>2. req.prevLogIndex \in Nat /\ req.entries \in Seq(Entry)
      BY <1>1 DEF AppendRequests
    <3>3. Len(follower.log) \in Nat /\ DOMAIN follower.log = 1..Len(follower.log)
      BY <3>1, LenProperties
    <3> QED
      BY <1>7, <3>1, <3>2, <3>3 DEF PrevMatches
  <2>2. newLog \in Seq(Entry)
    BY <2>1, MergeEntriesType
  <2> HIDE DEF newLog
  <2>3. merged \in NodeState /\ merged.commitIndex = s.commitIndex
    BY <1>6, <2>2 DEF NodeState
  <2> HIDE DEF merged
  <2>4. t \in {current, FollowLeaderCommit(merged, req)}
    BY <1>7 DEF HandleAppendEntries, current, demoted, follower, newLog, merged
  <2>5. FollowLeaderCommit(merged, req).commitIndex =
          IF leader.commitIndex > s.commitIndex
          THEN Smaller(leader.commitIndex, Len(leader.log)) ELSE s.commitIndex
    BY <1>1, <1>2, <1>6, <1>7, <2>3, CommitFollows
  <2> HIDE DEF t
  <2>6. ASSUME t = current PROVE Recedes(s, t, leader)
    BY <1>1, <1>4, <2>6 DEF Recedes
  <2>7. ASSUME t = FollowLeaderCommit(merged, req) PROVE Recedes(s, t, leader)
    BY <1>1, <2>5, <2>7 DEF Recedes, Smaller
  <2>8. Recedes(s, t, leader)
    BY <2>4, <2>6, <2>7
  <2> QED
    BY <2>8 DEF t, req
<1>8. CASE ~PrevMatches(follower.log, req)
  <2>1. t \in {current, follower}
    BY <1>8 DEF HandleAppendEntries, current, demoted, follower
  <2> HIDE DEF t
  <2>2. Recedes(s, t, leader)
    BY <1>1, <1>4, <1>6, <2>1 DEF Recedes
  <2> QED
    BY <2>2 DEF t, req
<1> QED
  BY <1>7, <1>8

\* A leader's own commit index only grows (raft.ts:345-375).
LEMMA LeaderCommitGrows ==
  ASSUME NEW s \in NodeState, NEW peers
  PROVE  UpdateCommitIndex(s, peers).commitIndex >= s.commitIndex
<1>1. s.log \in Seq(Entry) /\ Len(s.log) \in Nat /\ s.commitIndex \in Nat
  BY EntriesOfLog DEF NodeState
<1>2. CASE Committable(s, peers) = {}
  BY <1>1, <1>2 DEF UpdateCommitIndex
<1>3. CASE Committable(s, peers) # {}
  <2> DEFINE C == Committable(s, peers)
             k == Len(s.log)
             g == Greatest(C)
             t == [s EXCEPT !.commitIndex = g]
  <2>1. C \in SUBSET (0..k) /\ k \in Nat /\ C # {} /\ \A n \in C : n > s.commitIndex
    <3>1. DOMAIN s.log = 1..k /\ k \in Nat
      BY <1>1, EntriesOfLog
    <3>2. C \subseteq DOMAIN s.log /\ \A n \in C : n > s.commitIndex
      BY DEF Committable
    <3>3. C # {}
      BY <1>3
    <3> HIDE DEF C, k
    <3> QED
      BY <3>1, <3>2, <3>3
  <2>2. UpdateCommitIndex(s, peers) = ApplyCommitted(t)
    BY <1>3 DEF UpdateCommitIndex
  <2> HIDE DEF C, k
  <2>3. g \in C
    BY <2>1, GreatestInSet
  <2> HIDE DEF g
  <2>4. g \in Nat /\ g > s.commitIndex
    BY <2>1, <2>3
  <2>5. t \in NodeState /\ t.commitIndex = g
    BY <2>4 DEF NodeState
  <2> HIDE DEF t
  <2>6. ApplyCommitted(t).commitIndex = g
    <3>1. \A a, b : [t EXCEPT !.applied = a, !.lastApplied = b].commitIndex = t.commitIndex
      BY <2>5 DEF NodeState
    <3> QED
      BY <2>5, <3>1 DEF ApplyCommitted
  <2> QED
    BY <1>1, <2>2, <2>4, <2>6
<1> QED
  BY <1>2, <1>3

\* In a broadcast a node takes back a commit only at the broadcaster's word.
LEMMA BroadcastRecedes ==
  ASSUME NEW ns \in [Nodes -> NodeState], NEW l \in Nodes,
         NEW peers \in SUBSET Nodes, NEW jitter \in Draws, NEW m \in Nodes
  PROVE  Recedes(ns[m], Broadcast(ns, l, peers, jitter)[m], ns[l])
<1> DEFINE stale  == {p \in peers : ns[p].term > ns[l].term}
           called == {p \in peers : \A q \in stale : p <= q}
           heard(p) == HandleAppendEntries(ns[p], AppendRequest(ns[l], p), jitter[p])
           after  == [p \in Nodes |->
                        IF p \in called
                        THEN HandleAppendEntries(ns[p], AppendRequest(ns[l], p),
                                                 jitter[p])
                        ELSE ns[p]]
           leader == RecordReplies(ns[l], called \ stale, ns, after)
           final  == IF stale = {} THEN UpdateCommitIndex(leader, peers)
                     ELSE StepDownIfStale(leader, ns[Least(stale)].term)
           t      == Broadcast(ns, l, peers, jitter)[m]
<1>1. Broadcast(ns, l, peers, jitter) = [after EXCEPT ![l] = final]
  BY DEF Broadcast
<1>2. \A p \in Nodes : jitter[p] \in Jitter /\ ns[p] \in NodeState /\ ns[p].commitIndex \in Nat
  BY DEF Draws, NodeState
<1>3. after \in [Nodes -> NodeState] /\ after[m] \in {heard(m), ns[m]}
  <2>1. \A p \in Nodes : heard(p) \in NodeState
    BY <1>2, AppendRequestType, HandleAppendEntriesType
  <2>2. \A p \in Nodes : after[p] \in {heard(p), ns[p]}
    OBVIOUS
  <2>3. after = [p \in Nodes |-> after[p]]
    OBVIOUS
  <2> HIDE DEF after, heard
  <2> QED
    BY <1>2, <2>1, <2>2, <2>3
<1>4. Recedes(ns[m], heard(m), ns[l])
  BY <1>2, FollowerRecedes
<1>5. t \in {final, after[m]} /\ (m # l => t = after[m])
  <2> HIDE DEF after, final
  <2> QED
    BY <1>1, <1>3
<1> HIDE DEF after, heard
<1>6. leader \in NodeState /\ leader.commitIndex = ns[l].commitIndex
  <2>1. leader \in NodeState
    BY <1>3, RecordRepliesType
  <2>2. Ledger(leader) = Ledger(ns[l])
    BY LeaderKeepsLog
  <2> HIDE DEF leader
  <2> QED
    BY <2>1, <2>2 DEF Ledger
<1> HIDE DEF leader
<1>7. final.commitIndex >= ns[l].commitIndex
  <2>1. CASE stale = {}
    BY <1>6, <2>1, LeaderCommitGrows
  <2>2. CASE stale # {}
    <3>1. Least(stale) \in Nodes
      BY <2>2, NextVisit
    <3>2. ns[Least(stale)].term \in Nat
      BY <1>2, <3>1 DEF NodeState
    <3>3. final = StepDownIfStale(leader, ns[Least(stale)].term)
      BY <2>2
    <3> HIDE DEF final
    <3>4. final.commitIndex = leader.commitIndex
      BY <1>6, <3>2, <3>3, LeaderKeepsLog DEF Ledger
    <3> QED
      BY <1>2, <1>6, <3>4
  <2> QED
    BY <2>1, <2>2
<1> HIDE DEF final
<1>8. Recedes(ns[m], ns[m], ns[l])
  BY <1>2 DEF Recedes
<1>9. Recedes(ns[m], t, ns[l])
  <2>1. CASE t = after[m]
    BY <1>3, <1>4, <1>8, <2>1
  <2>2. CASE t = final /\ m = l
    BY <1>7, <2>2 DEF Recedes
  <2> QED
    BY <1>5, <2>1, <2>2
<1> QED
  BY <1>9

\* So it is in an election: voting and being crowned leave commits alone.
LEMMA ElectionRecedes ==
  ASSUME NEW ns \in [Nodes -> NodeState], NEW n \in Nodes,
         NEW peers \in SUBSET Nodes, NEW jitter \in Draws, NEW m \in Nodes
  PROVE  Recedes(ns[m], StartElection(ns, n, peers, jitter)[m], ns[n])
<1> DEFINE polled == Polled(ns, n, peers, jitter)
           crowned == [polled EXCEPT ![n] = Crowned(polled[n], peers)]
           nt == Broadcast(crowned, n, peers, jitter)
<1>1. polled \in [Nodes -> NodeState]
  BY PolledType
<1>2. \A k \in Nodes : Ledger(polled[k]) = Ledger(ns[k])
  BY PollKeepsLedger
<1>3. StartElection(ns, n, peers, jitter) \in {nt, polled}
  BY ElectionUnfolds
<1>4. polled[n].term > 0
  <2>1. polled[n] = Candidacy(ns[n], n, jitter[n])
    BY DEF Polled
  <2>2. jitter[n] \in Jitter /\ ns[n].term \in Nat
    BY DEF Draws, NodeState
  <2> QED
    BY <2>1, <2>2, CandidacyType
<1> HIDE DEF polled
<1>5. crowned \in [Nodes -> NodeState]
  BY <1>1, <1>4, CrownedType
<1>6. \A k \in Nodes : Ledger(crowned[k]) = Ledger(ns[k])
  <2>1. Ledger(Crowned(polled[n], peers)) = Ledger(polled[n])
    BY <1>1 DEF Crowned, Ledger, NodeState
  <2>2. \A k \in Nodes : crowned[k] = IF k = n THEN Crowned(polled[n], peers) ELSE polled[k]
    BY <1>1
  <2> HIDE DEF crowned
  <2> QED
    BY <1>2, <2>1, <2>2
<1> HIDE DEF crowned
<1>7. Recedes(crowned[m], nt[m], crowned[n])
  BY <1>5, BroadcastRecedes
<1> HIDE DEF nt
<1>8. Recedes(ns[m], nt[m], ns[n])
  BY <1>6, <1>7 DEF Recedes, Ledger
<1>9. Recedes(ns[m], polled[m], ns[n])
  <2>1. ns[m].commitIndex \in Nat
    BY DEF NodeState
  <2> QED
    BY <1>2, <2>1 DEF Recedes, Ledger
<1> QED
  BY <1>3, <1>8, <1>9

\* With restarts too, whoever leads and however the cluster is cut: a commit index
\* falls only when some node has lost at least two entries it had committed, which is
\* where matchIndex as the code counts it can lead (raft.ts:267-274, 334).
THEOREM CommitsFallOnlyWithLoss == Spec => CommitFallsOnlyWithLoss
<1>1. TypeOK /\ [Next]_vars =>
        [\A n \in Nodes :
           node'[n].commitIndex < node[n].commitIndex =>
             \E l \in Nodes : /\ Len(node[l].log) < node[n].commitIndex
                              /\ node[n].commitIndex < node[l].commitIndex]_vars
  <2> SUFFICES ASSUME TypeOK, [Next]_vars, NEW n \in Nodes,
                      node'[n].commitIndex < node[n].commitIndex
               PROVE  \E l \in Nodes : /\ Len(node[l].log) < node[n].commitIndex
                                       /\ node[n].commitIndex < node[l].commitIndex
    OBVIOUS
  <2>1. node \in [Nodes -> NodeState] /\ node' \in [Nodes -> NodeState]
    BY NextType DEF TypeOK
  <2>2. node[n].commitIndex \in Nat /\ node'[n].commitIndex \in Nat
    BY <2>1 DEF NodeState
  <2>3. SUFFICES \E l \in Nodes : Recedes(node[n], node'[n], node[l])
    BY <2>2, <2>3 DEF Recedes
  <2>4. ASSUME Untouched \/ \E k \in Nodes : Restart(k) PROVE FALSE
    <3>1. ASSUME NEW k \in Nodes, Restart(k) PROVE FALSE
      <4>1. PICK j \in Jitter :
              node' = [node EXCEPT ![k] = ResetTimer(Restarted(node[k]), j)]
        BY <3>1 DEF Restart, Restarted
      <4>2. ResetTimer(Restarted(node[k]), j).commitIndex = node[k].commitIndex
        BY <2>1 DEF ResetTimer, Restarted, NodeState
      <4>3. node'[n].commitIndex = node[n].commitIndex
        BY <2>1, <4>1, <4>2
      <4> QED
        BY <2>2, <4>3
    <3>2. ASSUME Untouched PROVE FALSE
      BY <2>2, <3>2 DEF Untouched, Ledger
    <3> QED
      BY <2>4, <3>1, <3>2
  <2>5. ASSUME Elects PROVE \E l \in Nodes : Recedes(node[n], node'[n], node[l])
    <3>1. PICK l \in Nodes, jitter \in Draws : node' = StartElection(node, l, PeersOf(l), jitter)
      BY <2>5 DEF Elects
    <3>2. PeersOf(l) \in SUBSET Nodes
      BY PeersAreNodes
    <3> QED
      BY <2>1, <3>1, <3>2, ElectionRecedes
  <2>6. ASSUME Beats PROVE \E l \in Nodes : Recedes(node[n], node'[n], node[l])
    <3>1. PICK l \in Nodes, jitter \in Draws : node' = Broadcast(node, l, PeersOf(l), jitter)
      BY <2>6 DEF Beats
    <3>2. PeersOf(l) \in SUBSET Nodes
      BY PeersAreNodes
    <3> QED
      BY <2>1, <3>1, <3>2, BroadcastRecedes
  <2>7. ASSUME Proposes PROVE \E l \in Nodes : Recedes(node[n], node'[n], node[l])
    <3>1. PICK l \in Nodes, c \in Commands, jitter \in Draws :
            /\ node[l].role = "leader"
            /\ node' = Broadcast([node EXCEPT ![l] = Extended(node[l], c)],
                                 l, PeersOf(l), jitter)
      BY <2>7 DEF Proposes
    <3> DEFINE grown == [node EXCEPT ![l] = Extended(node[l], c)]
    <3>2. /\ grown \in [Nodes -> NodeState]
          /\ \A m \in Nodes : grown[m].commitIndex = node[m].commitIndex
      BY <2>1, <3>1, ProposalUnfolds
    <3>3. Len(grown[l].log) = Len(node[l].log) + 1 /\ Len(node[l].log) \in Nat
      <4> DEFINE s == node[l]
      <4>1. s \in NodeState /\ grown[l] = Extended(s, c)
        BY <2>1
      <4>2. s.role = "leader"
        BY <3>1
      <4> HIDE DEF s, grown
      <4>3. grown[l].log = Append(s.log, [term |-> s.term, command |-> c])
        BY <4>1 DEF Extended, NodeState
      <4>4. s.log \in Seq(Entry) /\ [term |-> s.term, command |-> c] \in Entry
        BY <4>1, <4>2 DEF NodeState, Entry
      <4> QED
        BY <4>3, <4>4, AppendProperties, LenProperties DEF s
    <3>4. PeersOf(l) \in SUBSET Nodes
      BY PeersAreNodes
    <3> HIDE DEF grown
    <3>5. Recedes(grown[n], node'[n], grown[l])
      BY <3>1, <3>2, <3>4, BroadcastRecedes DEF grown
    <3>6. Recedes(node[n], node'[n], node[l])
      BY <2>2, <3>2, <3>3, <3>5 DEF Recedes
    <3> QED
      BY <3>6
  <2> QED
    BY <2>4, <2>5, <2>6, <2>7, StepsOfTheCluster DEF Next
<1> QED
  BY <1>1, TypeCorrect, PTL DEF Spec, CommitFallsOnlyWithLoss
=============================================================================
