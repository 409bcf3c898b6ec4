------------------------------- MODULE MCRaftRecovery -------------------------------
(***************************************************************************)
(* Raft.tla made finite for TLC, with one history variable: `calm' counts  *)
(* the ticks that have ended since the last proposal, crash, restart,      *)
(* partition or heal, up to MaxCalm.                                       *)
(***************************************************************************)
EXTENDS MCRaft

CONSTANT MaxCalm   \* bound: how many calm ticks are counted

VARIABLE calm

MCInit == Init /\ calm = 0

MCNext ==
  \/ TickStep /\ calm' = IF EndTick /\ calm < MaxCalm THEN calm + 1 ELSE calm
  \/ Operate /\ calm' = 0
  \/ (\E n \in Nodes : Restart(n)) /\ calm' = 0

MCSpec == MCInit /\ [][MCNext]_<<vars, calm>>

Up == Nodes \ down

Healthy ==
  /\ Cardinality(Up) >= Majority
  /\ \A a, b \in Up : Connected(a, b)
  /\ \A n \in Up : node[n].term < MaxTerm

\* The longest a node waits before it calls an election.
LongestTimeout == BaseTimeout + BaseTimeout \div 2

OneLeader ==
  \E l \in Up :
    /\ node[l].role = "leader"
    /\ \A n \in Up \ {l} : node[n].role = "follower" /\ node[n].term = node[l].term

\* When a majority is up, connected and undisturbed for two of the longest
\* election timeouts, one node leads and all others follow it in its term
\* (raft.ts:531-551, README:385-402).  It takes two: a voter's higher term in
\* the answer to RequestVote is ignored (raft.ts:144-154), so a candidate that
\* is behind has to wait until its rival times out.
HealthyClusterHasOneLeader ==
  Idle /\ Healthy /\ calm > 2 * LongestTimeout => OneLeader

\* After one more tick for each entry that a follower may lack, every node
\* that is up has the leader's log: the retry of refused AppendEntries with a
\* smaller nextIndex ends (raft.ts:337-340).
HealthyClusterConverges ==
  Idle /\ Healthy /\ calm > 2 * LongestTimeout + MaxLog =>
    \A l, n \in Up : node[l].role = "leader" =>
      \A i \in DOMAIN node[l].log :
        i \in DOMAIN node[n].log /\ node[n].log[i] = node[l].log[i]

\* A cluster left in peace comes to one leader, and then to one log (raft.ts:337,
\* 531), whatever elections, crashes and partitions were before.
HealthyClusterRecovers == HealthyClusterHasOneLeader /\ HealthyClusterConverges
=============================================================================
