------------------------------ MODULE EventLog ------------------------------
(***************************************************************************)
(* One topic and one consumer group of 10-kafka/event-log.ts.  Groups      *)
(* share nothing but the log, and read it only.                            *)
(*                                                                         *)
(* Every method is synchronous and is a step.  A consumer polls, handles   *)
(* the batch, and commits (README:195): between these everything else may  *)
(* happen, a rebalance and its own crash included.  Records are numbered   *)
(* in the order they are produced.  The record at index i of a partition   *)
(* has offset i - 1; positions and committed offsets, which point to the   *)
(* next offset, are hence the number of records before it.                 *)
(***************************************************************************)
EXTENDS Naturals, FiniteSets, Sequences

CONSTANTS
  NumPartitions,
  Consumers,     \* the consumers that may be in the group
  Keys,          \* the keys of records
  Hash,          \* for each key the partition it hashes to
  MaxRecords,    \* bound: records produced
  MaxMoves,      \* bound: consumers joining
  MaxTrims       \* bound: rounds of retention

Partitions == 0 .. NumPartitions - 1

ASSUME LogAssumption ==
  /\ NumPartitions \in Nat \ {0}
  /\ Hash \in [Keys -> Partitions]
  /\ MaxRecords \in Nat /\ MaxMoves \in Nat /\ MaxTrims \in Nat

VARIABLES
  log,         \* for each partition, its records
  rrCounter,   \* Topic.rrCounter, modulo NumPartitions
  produced,    \* how many records have been produced
  committed,   \* for each partition, the next offset to read
  members,     \* ConsumerGroup.consumers
  position,    \* for each consumer and partition, the next offset to read
  stage,       \* what each consumer is doing
  batch,       \* the records it has polled
  handled,     \* the records some consumer has finished handling
  moves,       \* how many times a consumer has joined
  trims,       \* rounds of retention
  trimmed      \* the partitions that retention has taken records from

vars == <<log, rrCounter, produced, committed, members, position, stage,
          batch, handled, moves, trims, trimmed>>

logVars == <<log, rrCounter, produced, trims, trimmed>>
groupVars == <<committed, members, position, stage, batch, handled, moves>>

-----------------------------------------------------------------------------
(* Range assignment: the partitions that the i-th of the consumers ms owns. *)

\* MUTANT: the partitions that are left after an even split go to nobody.
RangeWithoutRemainder(ms, i) ==
  LET per == NumPartitions \div Len(ms)
  IN (i - 1) * per .. i * per - 1

\* The loop's cursor before the i-th consumer: per partitions for each
\* consumer before it, and one more for the first `remainder' of them.
RangeOf(ms, i) ==
  LET per       == NumPartitions \div Len(ms)
      remainder == NumPartitions % Len(ms)
      extra(n)  == IF n < remainder THEN n ELSE remainder
      cursor(n) == n * per + extra(n)
  IN cursor(i - 1) .. cursor(i) - 1

Assignment(ms, c) ==
  UNION {RangeOf(ms, i) : i \in {j \in DOMAIN ms : ms[j] = c}}

\* MUTANT: only the membership changes, positions stay as they are.
RebalancedWithoutReset(ms) == position

\* The positions after rebalance() for the consumers ms: whoever owns a
\* partition now starts at its committed offset, also who owned it before.
Rebalanced(ms) ==
  [c \in Consumers |-> [p \in Partitions |->
     IF p \in Assignment(ms, c) THEN committed[p] ELSE position[c][p]]]

-----------------------------------------------------------------------------
Init ==
  /\ log = [p \in Partitions |-> <<>>]
  /\ rrCounter = 0
  /\ produced = 0
  /\ committed = [p \in Partitions |-> 0]
  /\ members = <<>>
  /\ position = [c \in Consumers |-> [p \in Partitions |-> 0]]
  /\ stage = [c \in Consumers |-> "away"]
  /\ batch = [c \in Consumers |-> {}]
  /\ handled = {}
  /\ moves = 0
  /\ trims = 0
  /\ trimmed = {}

Appended(p) ==
  /\ produced < MaxRecords
  /\ log' = [log EXCEPT ![p] = Append(@, produced + 1)]
  /\ produced' = produced + 1
  /\ UNCHANGED <<trims, trimmed>>
  /\ UNCHANGED groupVars

Produce(key) == Appended(Hash[key]) /\ UNCHANGED rrCounter

\* produce with key null.
ProduceRoundRobin ==
  /\ Appended(rrCounter)
  /\ rrCounter' = (rrCounter + 1) % NumPartitions

\* trimOlderThan renumbers what it keeps: the offset is the index again.
\* Records are produced in the order of their timestamps, so that the age
\* limit lies somewhere between two of them, and old records come first.
ApplyRetention(last) ==
  LET old(p) == {i \in DOMAIN log[p] : log[p][i] <= last}
  IN /\ trims < MaxTrims
     /\ \E p \in Partitions : old(p) # {}
     /\ log' = [p \in Partitions |->
                  SubSeq(log[p], Cardinality(old(p)) + 1, Len(log[p]))]
     /\ trims' = trims + 1
     /\ trimmed' = trimmed \cup {p \in Partitions : old(p) # {}}
     /\ UNCHANGED <<rrCounter, produced>>
     /\ UNCHANGED groupVars

-----------------------------------------------------------------------------
(* The group and its consumers. *)

Running(c) == stage[c] # "away"

\* subscribe().
Join(c) ==
  /\ ~Running(c)
  /\ moves < MaxMoves
  /\ moves' = moves + 1
  /\ members' = Append(members, c)
  /\ position' = Rebalanced(Append(members, c))
  /\ stage' = [stage EXCEPT ![c] = "idle"]
  /\ UNCHANGED <<committed, batch, handled>>
  /\ UNCHANGED logVars

\* MUTANT: the consumer that leaves keeps its share of the partitions.
Kept(ms, c) == ms

\* A consumer is in the group once.
Without(ms, c) ==
  LET at == CHOOSE i \in DOMAIN ms : ms[i] = c
  IN [i \in 1 .. Len(ms) - 1 |-> ms[IF i < at THEN i ELSE i + 1]]

\* unsubscribe(), because the consumer has stopped or crashed: whatever it
\* was handling it does not finish.
Leave(c) ==
  /\ Running(c)
  /\ members' = Without(members, c)
  /\ position' = Rebalanced(Without(members, c))
  /\ stage' = [stage EXCEPT ![c] = "away"]
  /\ batch' = [batch EXCEPT ![c] = {}]
  /\ UNCHANGED <<committed, handled, moves>>
  /\ UNCHANGED logVars

Owns(c, p) == p \in Assignment(members, c)

Unread(c, p) == {i \in DOMAIN log[p] : i > position[c][p]}

\* poll(): everything from the position on, of every assigned partition.
Poll(c) ==
  LET owned == {p \in Partitions : Owns(c, p) /\ Unread(c, p) # {}}
  IN /\ stage[c] = "idle"
     /\ owned # {}
     /\ batch' = [batch EXCEPT ![c] =
                    UNION {{log[p][i] : i \in Unread(c, p)} : p \in owned}]
     /\ position' = [position EXCEPT ![c] =
                       [p \in Partitions |-> IF p \in owned THEN Len(log[p])
                                             ELSE @[p]]]
     /\ stage' = [stage EXCEPT ![c] = "handling"]
     /\ UNCHANGED <<committed, members, handled, moves>>
     /\ UNCHANGED logVars

\* The consumer has handled its batch.
Handle(c) ==
  /\ stage[c] = "handling"
  /\ handled' = handled \cup batch[c]
  /\ batch' = [batch EXCEPT ![c] = {}]
  /\ stage' = [stage EXCEPT ![c] = "idle"]
  /\ UNCHANGED <<committed, members, position, moves>>
  /\ UNCHANGED logVars

\* MUTANT: commitOffset is called with the position, not the offset before.
CommittedOneAhead(c) ==
  [p \in Partitions |-> IF Owns(c, p) THEN position[c][p] + 1
                        ELSE committed[p]]

Committed(c) ==
  [p \in Partitions |-> IF Owns(c, p) THEN position[c][p] ELSE committed[p]]

\* commit(), after a batch or at any other time but while one is handled.
Commit(c) ==
  /\ stage[c] = "idle"
  /\ committed' = Committed(c)
  /\ UNCHANGED <<members, position, stage, batch, handled, moves>>
  /\ UNCHANGED logVars

\* seek() back, to replay.
Seek(c, p) ==
  /\ stage[c] = "idle"
  /\ Owns(c, p)
  /\ \E offset \in 0 .. position[c][p] - 1 :
       position' = [position EXCEPT ![c][p] = offset]
  /\ UNCHANGED <<committed, members, stage, batch, handled, moves>>
  /\ UNCHANGED logVars

Next ==
  \/ \E k \in Keys : Produce(k)
  \/ ProduceRoundRobin
  \/ \E last \in 1 .. produced : ApplyRetention(last)
  \/ \E c \in Consumers : Join(c) \/ Leave(c) \/ Poll(c) \/ Handle(c) \/ Commit(c)
  \/ \E c \in Consumers, p \in Partitions : Seek(c, p)

Spec == Init /\ [][Next]_vars

\* Consumers that run poll in a loop, and finish what they have polled.
FairSpec ==
  Spec /\ \A c \in Consumers : WF_vars(Poll(c)) /\ WF_vars(Handle(c))

-----------------------------------------------------------------------------
(* Properties. *)

\* Every variable has its type.
TypeOK ==
  /\ log \in [Partitions -> Seq(1 .. MaxRecords)]
  /\ rrCounter \in Partitions
  /\ produced \in 0 .. MaxRecords
  /\ committed \in [Partitions -> 0 .. MaxRecords]
  /\ members \in Seq(Consumers)
  /\ position \in [Consumers -> [Partitions -> 0 .. MaxRecords]]
  /\ stage \in [Consumers -> {"away", "idle", "handling"}]
  /\ batch \in [Consumers -> SUBSET (1 .. MaxRecords)]
  /\ handled \subseteq 1 .. MaxRecords
  /\ moves \in 0 .. MaxMoves
  /\ trims \in 0 .. MaxTrims
  /\ trimmed \subseteq Partitions

\* After every join and leave each partition has one owner, and no consumer
\* has two partitions more than another (event-log.ts:295-335, README:80-87).
EveryPartitionOwned ==
  TypeOK /\ (members # <<>> =>
    /\ \A p \in Partitions : Cardinality({c \in Consumers : Owns(c, p)}) = 1
    /\ \A c, d \in {members[i] : i \in DOMAIN members} :
         Cardinality(Assignment(members, c))
           <= Cardinality(Assignment(members, d)) + 1)

SkippedIn(p) == {i \in DOMAIN log[p] : i <= committed[p] /\ log[p][i] \notin handled}

\* What is committed was handled, whatever rebalances, crashes and replays
\* come between poll and commit: nothing is skipped (README:191).  Retention
\* is left out here: see NothingSkipped.
AtLeastOnce == \A p \in Partitions \ trimmed : SkippedIn(p) = {}

\* The same for every partition, since offsets are said to stay valid when
\* retention removes records (event-log.ts:58-61, README:74).
NothingSkipped == \A p \in Partitions : SkippedIn(p) = {}

Behind(p) == \E c \in Consumers : Owns(c, p) /\ position[c][p] < committed[p]

\* Who gets a partition resumes at its committed offset: only a replay takes
\* its owner back behind it (event-log.ts:303-304, 324-326, README:178).
ResumesFromCommitted ==
  [][\A p \in Partitions :
       ~Behind(p) /\ Behind(p)' => \E c \in Consumers : Seek(c, p)]_vars

\* If the group is never empty again, every record of a partition that
\* retention has not touched is handled at last.
EveryRecordHandled ==
  <>[](members # <<>>) =>
    <>[](\A p \in Partitions \ trimmed : \A i \in DOMAIN log[p] : log[p][i] \in handled)
=============================================================================
