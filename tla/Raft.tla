-------------------------------- MODULE Raft --------------------------------
(***************************************************************************)
(* The Raft simulation of 15-consensus/raft.ts: RaftNode and RaftCluster.  *)
(*                                                                         *)
(* The program is single-threaded and every RPC is a synchronous call, so  *)
(* a whole startElection (votes, becomeLeader, first broadcast) is one     *)
(* step.  A tick is the exception that has structure of its own: it visits *)
(* the nodes in insertion order, first for election timeouts and then for  *)
(* heartbeats.  The variables `phase' and `cursor' are the program counter *)
(* of that loop; proposals and failures happen only between two ticks,     *)
(* when the phase is "idle".                                               *)
(*                                                                         *)
(* Nodes are numbered in the order they were added to the cluster.  A      *)
(* node's clock is the number of ticks left before its electionDeadline.   *)
(***************************************************************************)
EXTENDS Integers, Sequences, FiniteSets

CONSTANTS
  NumNodes,      \* how many nodes the cluster has
  BaseTimeout,   \* baseElectionTimeout, in ticks
  Overrun,       \* 1 if next() may return exactly 1, which it does once in
                 \* 2^32 - 1 draws and puts range() above its maximum, or 0
  Commands,      \* the commands clients propose
  Restartable,   \* the nodes that may be restarted after a crash
  Partitions,    \* the arguments setPartition is called with
  MaxTerm,       \* bound: a node whose term is MaxTerm never times out
  MaxLog,        \* bound: a leader takes proposals up to this log length
  MaxFaults      \* bound: crashes and partitions in one behaviour

Nodes == 1..NumNodes

ASSUME SizeAssumption ==
  NumNodes \in Nat \ {0} /\ BaseTimeout \in Nat \ {0} /\ Overrun \in {0, 1}
ASSUME BoundAssumption ==
  MaxTerm \in Nat /\ MaxLog \in Nat /\ MaxFaults \in Nat
ASSUME FailureAssumption ==
  Restartable \subseteq Nodes /\ Partitions \subseteq SUBSET (SUBSET Nodes)

VARIABLES
  node,     \* the state of each RaftNode
  down,     \* downNodes
  groups,   \* partitionGroups; {Nodes} stands for null
  phase,    \* "idle", or the loop of tick() that is running
  cursor,   \* the last node that loop has visited, 0 before the first
  faults    \* how many faults have been injected so far

vars == <<node, down, groups, phase, cursor, faults>>

NoVote == 0
\* What rng.range(0, baseElectionTimeout / 2) returns.
Jitter == 0 .. (BaseTimeout \div 2 + Overrun)
Majority == NumNodes \div 2 + 1
Least(S) == CHOOSE x \in S : \A y \in S : x <= y
Greatest(S) == CHOOSE x \in S : \A y \in S : x >= y
Smaller(a, b) == IF a <= b THEN a ELSE b

TermAt(log, i) == IF i \in DOMAIN log THEN log[i].term ELSE 0
LastTerm(log) == TermAt(log, Len(log))

Entry == [term : Nat \ {0}, command : Commands]

\* The state of one RaftNode.  `applied' is what stateMachine is a fold of.
\* A node that has ever been a candidate or a leader has left term 0.
NodeState ==
  {s \in [role : {"follower", "candidate", "leader"},
          term : Nat,
          votedFor : Nodes \cup {NoVote},
          log : Seq(Entry),
          commitIndex : Nat,
          lastApplied : Nat,
          applied : Seq(Entry),
          timer : Nat,
          nextIndex : [Nodes -> Nat \ {0}],
          matchIndex : [Nodes -> Nat]] : s.role # "follower" => s.term > 0}

-----------------------------------------------------------------------------
(* What a node does with the calls it receives.  s is a node's state. *)

ResetTimer(s, jitter) == [s EXCEPT !.timer = BaseTimeout + jitter]

\* MUTANT: a message of the current term also clears the vote.
StepDownAtSameTerm(s, term) ==
  IF term >= s.term
  THEN [s EXCEPT !.term = term, !.role = "follower", !.votedFor = NoVote]
  ELSE s

StepDownIfStale(s, term) ==
  IF term > s.term
  THEN [s EXCEPT !.term = term, !.role = "follower", !.votedFor = NoVote]
  ELSE s

\* Whether the candidate's log is at least as complete as the voter's.
UpToDate(req, log) ==
  \/ req.lastLogTerm > LastTerm(log)
  \/ req.lastLogTerm = LastTerm(log) /\ req.lastLogIndex >= Len(log)

\* MUTANT: the voter forgets that it has already voted in this term.
GrantsAnyCandidate(s, req) ==
  /\ req.term >= s.term
  /\ UpToDate(req, s.log)

\* Whether handleRequestVote answers voteGranted.
Grants(s, req) ==
  LET voter == StepDownIfStale(s, req.term)
  IN /\ req.term >= voter.term
     /\ voter.votedFor \in {NoVote, req.candidate}
     /\ UpToDate(req, voter.log)

HandleRequestVote(s, req, jitter) ==
  LET voter == StepDownIfStale(s, req.term)
  IN IF Grants(s, req)
     THEN ResetTimer([voter EXCEPT !.votedFor = req.candidate], jitter)
     ELSE voter

ApplyCommitted(s) ==
  [s EXCEPT
     !.applied = IF s.commitIndex > s.lastApplied
                 THEN @ \o SubSeq(s.log, s.lastApplied + 1,
                                  Smaller(s.commitIndex, Len(s.log)))
                 ELSE @,
     !.lastApplied = IF s.commitIndex > @ THEN s.commitIndex ELSE @]

PrevMatches(log, req) ==
  \/ req.prevLogIndex = 0
  \/ /\ req.prevLogIndex \in DOMAIN log
     /\ log[req.prevLogIndex].term = req.prevLogTerm

\* MUTANT: the loop appends what is missing and keeps conflicting entries.
MergeWithoutTruncation(log, prev, entries) ==
  IF prev + Len(entries) > Len(log)
  THEN log \o SubSeq(entries, Len(log) - prev + 1, Len(entries))
  ELSE log

\* The follower's log after the loop that appends the request's entries:
\* everything from the first entry that is missing or has another term on
\* is replaced, and a log that already holds the entries stays as it is.
MergeEntries(log, prev, entries) ==
  LET fresh == {i \in DOMAIN entries :
                  TermAt(log, prev + i) # entries[i].term}
  IN IF fresh = {}
     THEN log
     ELSE SubSeq(log, 1, prev + Least(fresh) - 1)
          \o SubSeq(entries, Least(fresh), Len(entries))

\* MUTANT: the leader's commit index is taken over even when it is behind.
FollowLeaderCommitAlways(s, req) ==
  ApplyCommitted([s EXCEPT !.commitIndex =
    Smaller(req.leaderCommit, req.prevLogIndex + Len(req.entries))])

FollowLeaderCommit(s, req) ==
  IF req.leaderCommit > s.commitIndex
  THEN ApplyCommitted([s EXCEPT !.commitIndex =
         Smaller(req.leaderCommit, req.prevLogIndex + Len(req.entries))])
  ELSE s

HandleAppendEntries(s, req, jitter) ==
  LET current  == StepDownIfStale(s, req.term)
      follower == ResetTimer([current EXCEPT !.role = "follower"], jitter)
      merged   == [follower EXCEPT !.log =
                     MergeEntries(@, req.prevLogIndex, req.entries)]
  IN IF req.term < current.term THEN current
     ELSE IF ~PrevMatches(follower.log, req) THEN follower
     ELSE FollowLeaderCommit(merged, req)

\* Whether handleAppendEntries answers success.
Accepts(s, req) == req.term >= s.term /\ PrevMatches(s.log, req)

-----------------------------------------------------------------------------
(* What a leader does.  ns maps each node to its state, peers are the nodes *)
(* the leader l reaches, and jitter is what the random generator returns to *)
(* each node that resets its timer.                                         *)

AppendRequest(leader, p) ==
  LET next == leader.nextIndex[p]
  IN [term |-> leader.term,
      prevLogIndex |-> next - 1,
      prevLogTerm |-> TermAt(leader.log, next - 1),
      entries |-> SubSeq(leader.log, next, Len(leader.log)),
      leaderCommit |-> leader.commitIndex]

\* MUTANT: the majority is taken over the reachable nodes only.
CommittableAmongReachable(s, peers) ==
  {n \in DOMAIN s.log :
     /\ n > s.commitIndex
     /\ s.log[n].term = s.term
     /\ Cardinality({p \in peers : s.matchIndex[p] >= n}) + 1
          >= (Cardinality(peers) + 1) \div 2 + 1}

\* The entries of the leader's own term that a majority has, counting the
\* leader and the reachable peers against the size of the whole cluster.
Committable(s, peers) ==
  {n \in DOMAIN s.log :
     /\ n > s.commitIndex
     /\ s.log[n].term = s.term
     /\ Cardinality({p \in peers : s.matchIndex[p] >= n}) + 1 >= Majority}

UpdateCommitIndex(s, peers) ==
  IF Committable(s, peers) = {}
  THEN s
  ELSE ApplyCommitted([s EXCEPT !.commitIndex =
                                   Greatest(Committable(s, peers))])

\* MUTANT: a refused request is sent again unchanged.
RecordRepliesWithoutRetry(leader, heard, before, after) ==
  LET accepted(p) == p \in heard /\ Accepts(before[p], AppendRequest(leader, p))
  IN [leader EXCEPT
        !.matchIndex = [p \in Nodes |-> IF accepted(p) THEN Len(after[p].log)
                                        ELSE leader.matchIndex[p]],
        !.nextIndex = [p \in Nodes |-> IF accepted(p) THEN Len(after[p].log) + 1
                                       ELSE leader.nextIndex[p]]]

\* The leader after the peers in `heard' have answered: their replies move
\* nextIndex and matchIndex.  A failure moves nextIndex back by one.
RecordReplies(leader, heard, before, after) ==
  LET accepted(p) == Accepts(before[p], AppendRequest(leader, p))
  IN [leader EXCEPT
        !.matchIndex = [p \in Nodes |->
           IF p \in heard /\ accepted(p) THEN Len(after[p].log)
           ELSE leader.matchIndex[p]],
        !.nextIndex = [p \in Nodes |->
           IF p \notin heard THEN leader.nextIndex[p]
           ELSE IF accepted(p) THEN Len(after[p].log) + 1
           ELSE Greatest({1, leader.nextIndex[p] - 1})]]

\* broadcastAppendEntries of leader l.  The calls go out in insertion order,
\* and the first peer with a higher term makes the leader step down and
\* return: the peers after it are not called, and nothing is committed.
Broadcast(ns, l, peers, jitter) ==
  LET stale   == {p \in peers : ns[p].term > ns[l].term}
      called  == {p \in peers : \A q \in stale : p <= q}
      after   == [p \in Nodes |->
                    IF p \in called
                    THEN HandleAppendEntries(ns[p], AppendRequest(ns[l], p),
                                             jitter[p])
                    ELSE ns[p]]
      leader  == RecordReplies(ns[l], called \ stale, ns, after)
  IN [after EXCEPT ![l] =
        IF stale = {} THEN UpdateCommitIndex(leader, peers)
        ELSE StepDownIfStale(leader, ns[Least(stale)].term)]

\* becomeLeader: only the peers reachable now get fresh indices.
BecomeLeader(ns, n, peers, jitter) ==
  LET leader == [ns[n] EXCEPT
        !.role = "leader",
        !.nextIndex = [p \in Nodes |->
           IF p \in peers THEN Len(ns[n].log) + 1 ELSE ns[n].nextIndex[p]],
        !.matchIndex = [p \in Nodes |->
           IF p \in peers THEN 0 ELSE ns[n].matchIndex[p]]]
  IN Broadcast([ns EXCEPT ![n] = leader], n, peers, jitter)

\* MUTANT: the candidate forgets to move to a new term.
CandidacyInSameTerm(s, n, jitter) ==
  ResetTimer([s EXCEPT !.role = "candidate", !.votedFor = n], jitter)

\* How startElection begins: a new term and a vote for the node itself.
Candidacy(s, n, jitter) ==
  ResetTimer([s EXCEPT !.role = "candidate", !.term = @ + 1, !.votedFor = n],
             jitter)

\* startElection of node n: one RequestVote to each reachable peer, the vote
\* for itself included in the count.
StartElection(ns, n, peers, jitter) ==
  LET candidate == Candidacy(ns[n], n, jitter[n])
      req   == [term |-> candidate.term, candidate |-> n,
                lastLogIndex |-> Len(candidate.log),
                lastLogTerm |-> LastTerm(candidate.log)]
      voted == [m \in Nodes |->
                  IF m = n THEN candidate
                  ELSE IF m \in peers
                       THEN HandleRequestVote(ns[m], req, jitter[m])
                       ELSE ns[m]]
      votes == Cardinality({m \in peers : Grants(ns[m], req)}) + 1
  IN IF votes >= Majority THEN BecomeLeader(voted, n, peers, jitter)
     ELSE voted

-----------------------------------------------------------------------------
(* The cluster. *)

Connected(a, b) == \E g \in groups : a \in g /\ b \in g

PeersOf(n) ==
  IF n \in down THEN {}
  ELSE {p \in Nodes \ (down \cup {n}) : Connected(n, p)}

Init ==
  /\ node \in [Nodes -> {[role |-> "follower", term |-> 0,
                          votedFor |-> NoVote, log |-> <<>>,
                          commitIndex |-> 0, lastApplied |-> 0,
                          applied |-> <<>>, timer |-> BaseTimeout + j,
                          nextIndex |-> [p \in Nodes |-> 1],
                          matchIndex |-> [p \in Nodes |-> 0]] : j \in Jitter}]
  /\ down = {}
  /\ groups = {Nodes}
  /\ phase = "idle"
  /\ cursor = 0
  /\ faults = 0

Idle == phase = "idle"

\* tick(): the clock advances, and the loop over election timeouts begins.
Tick ==
  /\ Idle
  /\ node' = [n \in Nodes |->
                [node[n] EXCEPT !.timer = IF @ > 0 THEN @ - 1 ELSE 0]]
  /\ phase' = "elections"
  /\ UNCHANGED <<down, groups, cursor, faults>>

TimedOut(n) ==
  /\ n \notin down
  /\ node[n].role # "leader"
  /\ node[n].timer = 0
  /\ node[n].term < MaxTerm

\* The nodes the running loop still has to act for.
Due == {n \in Nodes : n > cursor /\ TimedOut(n)}
Leading == {n \in Nodes : n > cursor /\ n \notin down /\ node[n].role = "leader"}

\* The next node in order whose election timeout has passed.
ElectionTimeout ==
  /\ phase = "elections"
  /\ Due # {}
  /\ \E jitter \in [Nodes -> Jitter] :
       node' = StartElection(node, Least(Due), PeersOf(Least(Due)), jitter)
  /\ cursor' = Least(Due)
  /\ UNCHANGED <<down, groups, phase, faults>>

EndElections ==
  /\ phase = "elections"
  /\ Due = {}
  /\ phase' = "heartbeats"
  /\ cursor' = 0
  /\ UNCHANGED <<node, down, groups, faults>>

\* The next leader in order sends its heartbeat.
Heartbeat ==
  /\ phase = "heartbeats"
  /\ Leading # {}
  /\ \E jitter \in [Nodes -> Jitter] :
       node' = Broadcast(node, Least(Leading), PeersOf(Least(Leading)), jitter)
  /\ cursor' = Least(Leading)
  /\ UNCHANGED <<down, groups, phase, faults>>

EndTick ==
  /\ phase = "heartbeats"
  /\ Leading = {}
  /\ phase' = "idle"
  /\ cursor' = 0
  /\ UNCHANGED <<node, down, groups, faults>>

\* propose(), called on a leader by proposeToLeader or by its owner.
Propose(n, command) ==
  /\ Idle
  /\ n \notin down
  /\ node[n].role = "leader"
  /\ Len(node[n].log) < MaxLog
  /\ \E jitter \in [Nodes -> Jitter] :
       LET entry == [term |-> node[n].term, command |-> command]
       IN node' = Broadcast([node EXCEPT ![n].log = Append(@, entry)],
                            n, PeersOf(n), jitter)
  /\ UNCHANGED <<down, groups, phase, cursor, faults>>

\* crashNode: the role and the rest of the node's state freeze.
Crash(n) ==
  /\ Idle
  /\ n \notin down
  /\ faults < MaxFaults
  /\ down' = down \cup {n}
  /\ faults' = faults + 1
  /\ UNCHANGED <<node, groups, phase, cursor>>

\* restartNode: the log and the term survive, the vote does not.
Restart(n) ==
  /\ Idle
  /\ n \in down \cap Restartable
  /\ down' = down \ {n}
  /\ \E j \in Jitter :
       node' = [node EXCEPT ![n] = ResetTimer([@ EXCEPT !.role = "follower",
                                                        !.votedFor = NoVote],
                                              j)]
  /\ UNCHANGED <<groups, phase, cursor, faults>>

SetPartition ==
  /\ Idle
  /\ faults < MaxFaults
  /\ groups' \in Partitions \ {groups}
  /\ faults' = faults + 1
  /\ UNCHANGED <<node, down, phase, cursor>>

HealPartition ==
  /\ Idle
  /\ groups # {Nodes}
  /\ groups' = {Nodes}
  /\ UNCHANGED <<node, down, phase, cursor, faults>>

TickStep == Tick \/ ElectionTimeout \/ EndElections \/ Heartbeat \/ EndTick

Operate ==
  \/ \E n \in Nodes, c \in Commands : Propose(n, c)
  \/ \E n \in Nodes : Crash(n)
  \/ SetPartition
  \/ HealPartition

CrashStopNext == TickStep \/ Operate

Next == CrashStopNext \/ \E n \in Nodes : Restart(n)

\* What the cluster does while nobody calls restartNode.
CrashStopSpec == Init /\ [][CrashStopNext]_vars

Spec == Init /\ [][Next]_vars

-----------------------------------------------------------------------------
(* Properties. *)

\* Every variable has its type; nextIndex never falls below 1 (raft.ts:339).
TypeOK ==
  /\ node \in [Nodes -> NodeState]
  /\ down \subseteq Nodes
  /\ groups \subseteq SUBSET Nodes
  /\ phase \in {"idle", "elections", "heartbeats"}
  /\ cursor \in 0..NumNodes
  /\ faults \in Nat

\* Two nodes that consider themselves leaders do not share a term, a crashed
\* leader, whose role stays frozen, included (demo.ts:408-410, README:51).
ElectionSafety ==
  \A a, b \in Nodes :
    /\ node[a].role = "leader"
    /\ node[b].role = "leader"
    /\ node[a].term = node[b].term
    => a = b

\* A leader of term t was given the votes of a majority, and no voter has
\* taken its vote in t back: it still stands, or the voter has moved to a
\* higher term.  With TypeOK and ElectionSafety this is inductive.
Backers(l) ==
  {v \in Nodes : \/ node[v].term > node[l].term
                 \/ node[v].term = node[l].term /\ node[v].votedFor = l}

LeaderHasQuorum ==
  \A l \in Nodes :
    node[l].role = "leader" => Cardinality(Backers(l)) >= Majority

\* Two logs with an entry of the same term at the same index agree on
\* everything up to that index: what the prevLogIndex check is for
\* (raft.ts:235-248) and the truncation of conflicts (raft.ts:250-264).
LogMatching ==
  \A a, b \in Nodes : \A i \in DOMAIN node[a].log \cap DOMAIN node[b].log :
    node[a].log[i].term = node[b].log[i].term =>
      SubSeq(node[a].log, 1, i) = SubSeq(node[b].log, 1, i)

\* A vote given in a term is not given to another candidate in that term,
\* whatever the node hears before its term ends (raft.ts:199-203).
VoteIsFinal ==
  [][\A n \in Nodes :
       node'[n].term = node[n].term /\ node[n].votedFor # NoVote =>
         node'[n].votedFor = node[n].votedFor]_vars

\* A node cut off from a majority neither becomes a leader nor, if it still
\* is one, commits anything: the size of the whole cluster counts, not that
\* of the reachable part (raft.ts:156, raft.ts:352-360, README:395-402).
MinorityIsPowerless ==
  [][\A n \in Nodes :
       /\ node'[n].role = "leader"
       /\ \/ node[n].role # "leader"
          \/ node'[n].commitIndex > node[n].commitIndex
       => Cardinality(PeersOf(n)) + 1 >= Majority]_vars

\* A node takes back that an entry is committed only at the word of a node that
\* has lost what it had committed itself: a follower's new commitIndex is the
\* smaller of the leader's and the last index sent (raft.ts:267-274), and that is
\* where the leader's log ends.
CommitFallsOnlyWithLoss ==
  [][\A n \in Nodes :
       node'[n].commitIndex < node[n].commitIndex =>
         \E l \in Nodes : /\ Len(node[l].log) < node[n].commitIndex
                          /\ node[n].commitIndex < node[l].commitIndex]_vars

\* What a node has committed is in the logs of a majority: the commit rule
\* of README:210, and README:612.
CommittedOnMajority ==
  \A n \in Nodes : \A i \in 1 .. node[n].commitIndex :
    Cardinality({m \in Nodes : /\ i \in DOMAIN node[m].log
                               /\ node[m].log[i] = node[n].log[i]}) >= Majority
=============================================================================
