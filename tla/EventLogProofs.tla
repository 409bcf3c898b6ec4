----------------------------- MODULE EventLogProofs -----------------------------
(***************************************************************************)
(* Safety of the consumer group for every number of partitions, consumers  *)
(* and records: a rebalance gives each partition one owner and splits them *)
(* evenly, what is committed was handled, and who gets a partition resumes *)
(* at its committed offset.                                                *)
(*                                                                         *)
(* The first is arithmetic about the cursor of rebalance(), and that the   *)
(* group has each consumer once.  The second needs, for each owner, that   *)
(* what it has read is handled or in its hands: that is what a commit then *)
(* makes the partition's.  The third needs the first, since two owners of  *)
(* one partition could commit past each other.                             *)
(***************************************************************************)
EXTENDS EventLog, TLAPS, SequenceTheorems, FiniteSetTheorems

\* The group has the consumers that run, each of them once.
Membership ==
  /\ \A i, j \in DOMAIN members : members[i] = members[j] => i = j
  /\ \A c \in Consumers : Running(c) <=> \E i \in DOMAIN members : members[i] = c

\* A consumer that is not handling records has none in its hands.
BatchesInHand == \A c \in Consumers : stage[c] # "handling" => batch[c] = {}

\* The first n records of partition p are records of it, and in the set S.
Covered(p, n, S) ==
  n <= Len(log[p]) /\ \A i \in DOMAIN log[p] : i <= n => log[p][i] \in S

\* What is committed is handled, and what an owner has read is handled or in
\* its hands, as long as retention leaves the partition alone.
Progress ==
  \A p \in Partitions \ trimmed :
    /\ Covered(p, committed[p], handled)
    /\ \A c \in Consumers :
         Owns(c, p) => Covered(p, position[c][p], handled \cup batch[c])

IInv ==
  /\ TypeOK
  /\ \A p \in Partitions : Len(log[p]) <= produced
  /\ Membership
  /\ BatchesInHand
  /\ Progress

-----------------------------------------------------------------------------
(* The cursor of rebalance() (event-log.ts:316-330). *)

\* Where the partitions of the first n of m consumers end.
Cursor(m, n) ==
  n * (NumPartitions \div m)
    + IF n < NumPartitions % m THEN n ELSE NumPartitions % m

\* Quotient and remainder make up the number of partitions.
LEMMA Division ==
  ASSUME NEW m \in Nat \ {0}
  PROVE  /\ NumPartitions \div m \in Nat
         /\ NumPartitions % m \in 0 .. m - 1
         /\ NumPartitions = m * (NumPartitions \div m) + (NumPartitions % m)
BY LogAssumption

\* A product grows with its first factor.
LEMMA ProductsGrow ==
  ASSUME NEW a \in Nat, NEW d \in Nat, NEW k \in Nat
  PROVE  /\ a * k \in Nat /\ (a + d) * k \in Nat
         /\ a * k <= (a + d) * k
         /\ (a + 1) * k = a * k + k
<1>1. (a + d) * k = a * k + d * k
  OBVIOUS
<1>2. a * k \in Nat /\ d * k \in Nat
  OBVIOUS
<1>3. (a + 1) * k = a * k + k
  OBVIOUS
<1> QED
  BY <1>1, <1>2, <1>3

\* The cursor starts at no partition and ends after all of them, and each
\* consumer moves it by an even share or by one more.
LEMMA CursorMoves ==
  ASSUME NEW m \in Nat \ {0}
  PROVE  /\ Cursor(m, 0) = 0 /\ Cursor(m, m) = NumPartitions
         /\ \A n \in 0 .. m : Cursor(m, n) \in Nat
         /\ \A n \in 1 .. m :
              \/ Cursor(m, n) = Cursor(m, n - 1) + NumPartitions \div m
              \/ Cursor(m, n) = Cursor(m, n - 1) + (NumPartitions \div m) + 1
         /\ \A n, k \in 0 .. m : n <= k => Cursor(m, n) <= Cursor(m, k)
<1> DEFINE per == NumPartitions \div m
           rem == NumPartitions % m
<1>1. per \in Nat /\ rem \in 0 .. m - 1 /\ NumPartitions = m * per + rem
  BY Division
<1>2. \A n : Cursor(m, n) = n * per + IF n < rem THEN n ELSE rem
  BY DEF Cursor
<1> HIDE DEF per, rem
<1>3. 0 * per = 0
  BY <1>1
<1>4. Cursor(m, 0) = 0 /\ Cursor(m, m) = NumPartitions
  BY <1>1, <1>2, <1>3
<1>5. \A n \in 0 .. m : n * per \in Nat
  BY <1>1, ProductsGrow
<1>6. \A n \in 0 .. m : Cursor(m, n) \in Nat
  BY <1>1, <1>2, <1>5
<1>7. ASSUME NEW n \in 1 .. m
      PROVE  Cursor(m, n) = Cursor(m, n - 1) + per
             \/ Cursor(m, n) = Cursor(m, n - 1) + per + 1
  <2>1. n * per = (n - 1) * per + per /\ (n - 1) * per \in Nat
    <3>1. n - 1 \in Nat /\ (n - 1) + 1 = n
      OBVIOUS
    <3> QED
      BY <1>1, <3>1, ProductsGrow
  <2> QED
    BY <1>1, <1>2, <2>1
<1>8. ASSUME NEW n \in 0 .. m, NEW k \in 0 .. m, n <= k
      PROVE  Cursor(m, n) <= Cursor(m, k)
  <2>1. n * per \in Nat /\ k * per \in Nat /\ n * per <= k * per
    <3>1. k - n \in Nat /\ n + (k - n) = k
      BY <1>8
    <3> QED
      BY <1>1, <3>1, ProductsGrow
  <2>2. (IF n < rem THEN n ELSE rem) <= (IF k < rem THEN k ELSE rem)
    BY <1>1, <1>8
  <2> QED
    BY <1>1, <1>2, <2>1, <2>2
<1> QED
  BY <1>4, <1>6, <1>7, <1>8 DEF per

\* The ranges of the consumers hold each partition once.
LEMMA RangesPartition ==
  ASSUME NEW m \in Nat \ {0}, NEW p \in Partitions
  PROVE  /\ \E i \in 1 .. m : p \in Cursor(m, i - 1) .. Cursor(m, i) - 1
         /\ \A i, j \in 1 .. m :
              /\ p \in Cursor(m, i - 1) .. Cursor(m, i) - 1
              /\ p \in Cursor(m, j - 1) .. Cursor(m, j) - 1
              => i = j
<1>1. /\ Cursor(m, 0) = 0 /\ Cursor(m, m) = NumPartitions
      /\ \A n \in 0 .. m : Cursor(m, n) \in Nat
      /\ \A n, k \in 0 .. m : n <= k => Cursor(m, n) <= Cursor(m, k)
  BY CursorMoves
<1>2. p \in Nat /\ p < NumPartitions
  BY LogAssumption DEF Partitions
<1>3. \E i \in 1 .. m : p \in Cursor(m, i - 1) .. Cursor(m, i) - 1
  <2> DEFINE Past == {n \in 0 .. m : p < Cursor(m, n)}
  <2>1. m \in Past
    BY <1>1, <1>2
  <2>2. PICK i \in Past : \A n \in Past : ~ (<<n, i>> \in OpToRel(<, Nat))
    <3>1. Past \subseteq Nat /\ Past # {}
      BY <2>1
    <3> HIDE DEF Past
    <3> QED
      BY <3>1, NatLessThanWellFounded, WFMin
  <2>3. i \in 1 .. m /\ p < Cursor(m, i)
    BY <1>1, <1>2
  <2>4. i - 1 \notin Past
    <3>1. <<i - 1, i>> \in Nat \X Nat /\ i - 1 < i
      BY <2>3
    <3>2. <<i - 1, i>> \in OpToRel(<, Nat)
      BY <3>1 DEF OpToRel
    <3> QED
      BY <2>2, <3>2
  <2>5. Cursor(m, i - 1) <= p
    <3>1. i - 1 \in 0 .. m
      BY <2>3
    <3> QED
      BY <1>1, <1>2, <2>4, <3>1
  <2> QED
    BY <1>1, <1>2, <2>3, <2>5
<1>4. ASSUME NEW i \in 1 .. m, NEW j \in 1 .. m, i < j,
             p \in Cursor(m, i - 1) .. Cursor(m, i) - 1,
             p \in Cursor(m, j - 1) .. Cursor(m, j) - 1
      PROVE  FALSE
  <2>1. i <= j - 1 /\ i \in 0 .. m /\ j - 1 \in 0 .. m
    BY <1>4
  <2>2. Cursor(m, i) <= Cursor(m, j - 1)
    BY <1>1, <2>1
  <2> QED
    BY <1>1, <1>2, <1>4, <2>1, <2>2
<1>5. \A i, j \in 1 .. m : i = j \/ i < j \/ j < i
  OBVIOUS
<1> QED
  BY <1>3, <1>4, <1>5

-----------------------------------------------------------------------------
(* Owners. *)

\* A consumer that is in the group once owns the range of its place.
LEMMA Share ==
  ASSUME NEW ms \in Seq(Consumers),
         \A i, j \in DOMAIN ms : ms[i] = ms[j] => i = j
  PROVE  \A i \in DOMAIN ms : Assignment(ms, ms[i]) = RangeOf(ms, i)
BY DEF Assignment

\* Each partition has one owner, and it is in the group.
LEMMA OneOwner ==
  ASSUME NEW ms \in Seq(Consumers), ms # <<>>,
         \A i, j \in DOMAIN ms : ms[i] = ms[j] => i = j,
         NEW p \in Partitions
  PROVE  \E c \in Consumers :
           /\ p \in Assignment(ms, c)
           /\ \A d : p \in Assignment(ms, d) => d = c
<1> DEFINE m == Len(ms)
<1>1. /\ m \in Nat \ {0} /\ DOMAIN ms = 1 .. m
      /\ \A i \in 1 .. m : ms[i] \in Consumers
  BY EmptySeq, LenProperties
<1>2. \A i \in 1 .. m : RangeOf(ms, i) = Cursor(m, i - 1) .. Cursor(m, i) - 1
  BY DEF RangeOf, Cursor
<1> HIDE DEF m
<1>3. /\ \E i \in 1 .. m : p \in Cursor(m, i - 1) .. Cursor(m, i) - 1
      /\ \A i, j \in 1 .. m :
           /\ p \in Cursor(m, i - 1) .. Cursor(m, i) - 1
           /\ p \in Cursor(m, j - 1) .. Cursor(m, j) - 1
           => i = j
  BY <1>1, RangesPartition
<1>4. PICK i \in 1 .. m : p \in RangeOf(ms, i)
  BY <1>2, <1>3
<1>5. \A j \in 1 .. m : p \in RangeOf(ms, j) => j = i
  BY <1>2, <1>3, <1>4
<1>6. p \in Assignment(ms, ms[i])
  BY <1>1, <1>4, Share
<1>7. \A d : p \in Assignment(ms, d) => d = ms[i]
  BY <1>1, <1>5 DEF Assignment
<1> QED
  BY <1>1, <1>6, <1>7

\* No two consumers differ by more than one partition.
LEMMA EvenShares ==
  ASSUME NEW ms \in Seq(Consumers),
         \A i, j \in DOMAIN ms : ms[i] = ms[j] => i = j,
         NEW i \in DOMAIN ms, NEW j \in DOMAIN ms
  PROVE  Cardinality(Assignment(ms, ms[i])) <= Cardinality(Assignment(ms, ms[j])) + 1
<1> DEFINE m == Len(ms)
           per == NumPartitions \div m
<1>1. m \in Nat \ {0} /\ DOMAIN ms = 1 .. m
  BY LenProperties
<1>2. \A n \in 1 .. m : RangeOf(ms, n) = Cursor(m, n - 1) .. Cursor(m, n) - 1
  BY DEF RangeOf, Cursor
<1>3. per \in Nat
  BY <1>1, Division
<1> HIDE DEF m
<1>4. /\ \A n \in 0 .. m : Cursor(m, n) \in Nat
      /\ \A n \in 1 .. m : \/ Cursor(m, n) = Cursor(m, n - 1) + per
                           \/ Cursor(m, n) = Cursor(m, n - 1) + per + 1
  BY <1>1, CursorMoves
<1> HIDE DEF per
<1>5. ASSUME NEW n \in 1 .. m
      PROVE  Cardinality(RangeOf(ms, n)) \in {per, per + 1}
  <2> DEFINE a == Cursor(m, n - 1)
             b == Cursor(m, n)
  <2>1. a \in Nat /\ b \in Nat /\ (b = a + per \/ b = a + per + 1)
    <3>1. n - 1 \in 0 .. m /\ n \in 0 .. m
      BY <1>1
    <3> QED
      BY <1>4, <3>1
  <2> HIDE DEF a, b
  <2>2. Cardinality(a .. b - 1) = IF a <= b - 1 THEN (b - 1) - a + 1 ELSE 0
    <3>1. a \in Int /\ b - 1 \in Int
      BY <2>1
    <3> QED
      BY <3>1, FS_Interval
  <2>3. Cardinality(a .. b - 1) = b - a
    BY <1>3, <2>1, <2>2
  <2>4. Cardinality(RangeOf(ms, n)) = b - a
    BY <1>2, <2>3 DEF a, b
  <2> QED
    BY <1>3, <2>1, <2>4
<1>6. /\ Cardinality(Assignment(ms, ms[i])) = Cardinality(RangeOf(ms, i))
      /\ Cardinality(Assignment(ms, ms[j])) = Cardinality(RangeOf(ms, j))
  BY Share
<1>7. /\ Cardinality(RangeOf(ms, i)) \in {per, per + 1}
      /\ Cardinality(RangeOf(ms, j)) \in {per, per + 1}
  BY <1>1, <1>5
<1> QED
  BY <1>3, <1>6, <1>7

-----------------------------------------------------------------------------
(* The operations. *)

\* A rebalance leaves each owner at the committed offset, so that it has read
\* nothing that is not committed.
LEMMA RebalanceKeepsProgress ==
  ASSUME Progress, committed \in [Partitions -> 0 .. MaxRecords],
         position' = Rebalanced(members'),
         UNCHANGED logVars, UNCHANGED <<committed, handled>>
  PROVE  Progress'
<1>1. \A c \in Consumers, p \in Partitions :
         Owns(c, p)' => position'[c][p] = committed[p]
  BY DEF Rebalanced, Owns
<1>2. log' = log /\ trimmed' = trimmed
  BY DEF logVars
<1> QED
  BY <1>1, <1>2 DEF Progress, Covered

\* The positions keep their type in a rebalance.
LEMMA RebalancedType ==
  ASSUME TypeOK, NEW ms
  PROVE  Rebalanced(ms) \in [Consumers -> [Partitions -> 0 .. MaxRecords]]
BY DEF TypeOK, Rebalanced

\* A record is appended behind all that was read and committed.
LEMMA AppendedKeeps ==
  ASSUME IInv, NEW q \in Partitions, Appended(q), rrCounter' \in Partitions
  PROVE  IInv'
<1>1. /\ produced \in Nat /\ produced < MaxRecords /\ produced' = produced + 1
      /\ log' = [log EXCEPT ![q] = Append(@, produced + 1)]
      /\ UNCHANGED <<trims, trimmed, committed, members, position, stage, batch,
                     handled, moves>>
  BY DEF IInv, TypeOK, Appended, groupVars
<1>2. /\ log \in [Partitions -> Seq(1 .. MaxRecords)]
      /\ MaxRecords \in Nat /\ produced + 1 \in 1 .. MaxRecords
      /\ \A p \in Partitions : Len(log[p]) \in Nat /\ DOMAIN log[p] = 1 .. Len(log[p])
  BY <1>1, LogAssumption, LenProperties DEF IInv, TypeOK
<1>3. /\ log'[q] \in Seq(1 .. MaxRecords) /\ Len(log'[q]) = Len(log[q]) + 1
      /\ DOMAIN log'[q] = 1 .. Len(log[q]) + 1
      /\ \A i \in 1 .. Len(log[q]) : log'[q][i] = log[q][i]
  BY <1>1, <1>2, AppendProperties
<1>4. \A p \in Partitions : p # q => log'[p] = log[p]
  BY <1>1, <1>2
<1>5. log' \in [Partitions -> Seq(1 .. MaxRecords)]
  BY <1>1, <1>2, AppendProperties
<1>6. TypeOK'
  BY <1>1, <1>2, <1>5 DEF IInv, TypeOK
<1>7. \A p \in Partitions : Len(log'[p]) <= produced'
  BY <1>1, <1>2, <1>3, <1>4 DEF IInv
<1>8. ASSUME NEW p \in Partitions, NEW n \in Nat, NEW S, Covered(p, n, S)
      PROVE  Covered(p, n, S)'
  <2>1. CASE p = q
    <3>1. n <= Len(log[q]) /\ \A i \in DOMAIN log[q] : i <= n => log[q][i] \in S
      BY <1>8, <2>1 DEF Covered
    <3>2. n <= Len(log'[q])
      BY <1>2, <1>3, <3>1
    <3>3. \A i \in DOMAIN log'[q] : i <= n => i \in 1 .. Len(log[q])
      BY <1>2, <1>3, <3>1
    <3>4. \A i \in DOMAIN log'[q] : i <= n => log'[q][i] \in S
      BY <1>2, <1>3, <3>1, <3>3
    <3> QED
      BY <2>1, <3>2, <3>4 DEF Covered
  <2>2. CASE p # q
    BY <1>4, <1>8, <2>2 DEF Covered
  <2> QED
    BY <2>1, <2>2
<1>9. Progress'
  <2>1. \A p \in Partitions : committed[p] \in Nat
        /\ \A c \in Consumers : position[c][p] \in Nat
    BY LogAssumption DEF IInv, TypeOK
  <2>2. \A p \in Partitions, n \in Nat : \A S : Covered(p, n, S) =>
           n <= Len(log'[p]) /\ \A i \in DOMAIN log'[p] : i <= n => log'[p][i] \in S
    BY <1>8 DEF Covered
  <2> QED
    BY <1>1, <2>1, <2>2 DEF IInv, Progress, Covered, Owns
<1> QED
  BY <1>1, <1>6, <1>7, <1>9 DEF IInv, Membership, Running, BatchesInHand

\* Retention leaves alone, in a partition it takes nothing from, every record.
LEMMA RetentionKeeps ==
  ASSUME IInv, NEW last \in 1 .. produced, ApplyRetention(last)
  PROVE  IInv'
<1> DEFINE old(p) == {i \in DOMAIN log[p] : log[p][i] <= last}
           k(p) == Cardinality(old(p))
<1>1. /\ log' = [p \in Partitions |-> SubSeq(log[p], k(p) + 1, Len(log[p]))]
      /\ trims < MaxTrims /\ trims' = trims + 1
      /\ trimmed' = trimmed \cup {p \in Partitions : old(p) # {}}
      /\ UNCHANGED <<rrCounter, produced, committed, members, position, stage,
                     batch, handled, moves>>
  BY DEF ApplyRetention, groupVars
<1>2. \A p \in Partitions :
        /\ log[p] \in Seq(1 .. MaxRecords)
        /\ Len(log[p]) \in Nat /\ DOMAIN log[p] = 1 .. Len(log[p])
        /\ Len(log[p]) <= produced
        /\ \A i \in 1 .. Len(log[p]) : log[p][i] \in 1 .. MaxRecords
  BY LenProperties DEF IInv, TypeOK
<1>3. \A p \in Partitions : k(p) \in Nat /\ (old(p) = {} => k(p) = 0)
  <2> TAKE p \in Partitions
  <2>1. old(p) \subseteq 1 .. Len(log[p])
    BY <1>2
  <2>3. IsFiniteSet(1 .. Len(log[p]))
    <3>1. 1 \in Int /\ Len(log[p]) \in Int
      BY <1>2
    <3> QED
      BY <3>1, FS_Interval
  <2> HIDE DEF old
  <2>2. IsFiniteSet(old(p))
    BY <2>1, <2>3, FS_Subset
  <2> QED
    BY <2>2, FS_CardinalityType, FS_EmptySet
<1> HIDE DEF old, k
<1>4. ASSUME NEW p \in Partitions
      PROVE  /\ log'[p] \in Seq(1 .. MaxRecords) /\ Len(log'[p]) <= produced
             /\ old(p) = {} => log'[p] = log[p]
  <2> DEFINE l == log[p]
             m == k(p) + 1
             t == SubSeq(l, m, Len(l))
  <2>1. m \in 1 .. m /\ m \in Int /\ Len(l) \in Int /\ m >= 1
    BY <1>2, <1>3
  <2>2. log'[p] = t
    BY <1>1
  <2>3. l \in Seq(1 .. MaxRecords) /\ Len(l) \in Nat /\ Len(l) <= produced
        /\ DOMAIN l = 1 .. Len(l) /\ \A i \in 1 .. Len(l) : l[i] \in 1 .. MaxRecords
    BY <1>2
  <2>4. old(p) = {} => m = 1
    BY <1>3
  <2> HIDE DEF l, m
  <2>5. \A i \in m .. Len(l) : l[i] \in 1 .. MaxRecords
    BY <2>1, <2>3
  <2>6. /\ t \in Seq(1 .. MaxRecords)
        /\ Len(t) = IF m <= Len(l) THEN Len(l) - m + 1 ELSE 0
        /\ \A i \in 1 .. (Len(l) - m + 1) : t[i] = l[m + i - 1]
    BY <2>1, <2>5, SubSeqProperties
  <2> HIDE DEF t
  <2>7. Len(t) <= produced
    <3>1. produced \in Nat
      BY LogAssumption DEF IInv, TypeOK
    <3> QED
      BY <2>1, <2>3, <2>6, <3>1
  <2>8. m = 1 => t = l
    <3> SUFFICES ASSUME m = 1 PROVE t = l
      OBVIOUS
    <3>1. Len(t) = Len(l) /\ \A i \in 1 .. Len(l) : t[i] = l[i]
      BY <2>3, <2>6
    <3> QED
      BY <2>3, <2>6, <3>1, SeqEqual
  <2> QED
    BY <2>2, <2>4, <2>6, <2>7, <2>8 DEF l
<1>5. TypeOK'
  <2>1. log' \in [Partitions -> Seq(1 .. MaxRecords)]
    BY <1>1, <1>4
  <2>2. trims' \in 0 .. MaxTrims /\ trimmed' \subseteq Partitions
    BY <1>1, LogAssumption DEF IInv, TypeOK
  <2> QED
    BY <1>1, <2>1, <2>2 DEF IInv, TypeOK
<1>6. \A p \in Partitions : Len(log'[p]) <= produced'
  BY <1>1, <1>4
<1>7. Progress'
  <2>1. \A p \in Partitions \ trimmed' : p \in Partitions \ trimmed /\ log'[p] = log[p]
    BY <1>1, <1>4
  <2> QED
    BY <1>1, <2>1 DEF IInv, Progress, Covered, Owns
<1> QED
  BY <1>1, <1>5, <1>6, <1>7 DEF IInv, Membership, Running, BatchesInHand

\* A consumer that joins is new to the group.
LEMMA JoinKeeps ==
  ASSUME IInv, NEW c \in Consumers, Join(c)
  PROVE  IInv'
<1> DEFINE n == Len(members)
<1>1. /\ ~Running(c) /\ moves < MaxMoves /\ moves' = moves + 1
      /\ members' = Append(members, c)
      /\ position' = Rebalanced(members')
      /\ stage' = [stage EXCEPT ![c] = "idle"]
      /\ UNCHANGED <<committed, batch, handled>> /\ UNCHANGED logVars
  BY DEF Join
<1>2. /\ n \in Nat /\ DOMAIN members = 1 .. n
      /\ members' \in Seq(Consumers) /\ DOMAIN members' = 1 .. n + 1
      /\ members'[n + 1] = c /\ \A i \in 1 .. n : members'[i] = members[i]
  BY <1>1, AppendProperties, LenProperties DEF IInv, TypeOK
<1> HIDE DEF n
<1>3. TypeOK'
  <2>1. position' \in [Consumers -> [Partitions -> 0 .. MaxRecords]]
    BY <1>1, RebalancedType DEF IInv
  <2>2. moves' \in 0 .. MaxMoves
    BY <1>1, LogAssumption DEF IInv, TypeOK
  <2> QED
    BY <1>1, <1>2, <2>1, <2>2 DEF IInv, TypeOK, logVars
<1>4. Membership'
  <2>1. \A i \in 1 .. n : members[i] # c
    BY <1>1, <1>2 DEF IInv, Membership
  <2>2. \A i \in DOMAIN members' : i = n + 1 \/ i \in 1 .. n
    BY <1>2
  <2>3. \A i, j \in DOMAIN members' : members'[i] = members'[j] => i = j
    BY <1>2, <2>1, <2>2 DEF IInv, Membership
  <2>4. stage'[c] = "idle" /\ \A d \in Consumers : d # c => stage'[d] = stage[d]
    BY <1>1 DEF IInv, TypeOK
  <2>5. n + 1 \in DOMAIN members' /\ \A i \in 1 .. n : i \in DOMAIN members'
    BY <1>2
  <2>6. ASSUME NEW d \in Consumers
        PROVE  Running(d)' <=> \E i \in DOMAIN members' : members'[i] = d
    <3>1. CASE d = c
      BY <1>2, <2>4, <2>5, <3>1 DEF Running
    <3>2. CASE d # c
      <4>1. Running(d) <=> \E i \in 1 .. n : members[i] = d
        BY <1>2 DEF IInv, Membership
      <4>2. Running(d)' <=> Running(d)
        BY <2>4, <3>2 DEF Running
      <4> QED
        BY <1>2, <2>2, <2>5, <3>2, <4>1, <4>2
    <3> QED
      BY <3>1, <3>2
  <2> QED
    BY <2>3, <2>6 DEF Membership
<1>5. BatchesInHand'
  BY <1>1 DEF IInv, TypeOK, BatchesInHand, Running
<1>6. Progress'
  BY <1>1, RebalanceKeepsProgress DEF IInv, TypeOK
<1> QED
  BY <1>1, <1>3, <1>4, <1>5, <1>6 DEF IInv, logVars

\* A consumer that leaves is out of the group, and what it held is not handled.
LEMMA LeaveKeeps ==
  ASSUME IInv, NEW c \in Consumers, Leave(c)
  PROVE  IInv'
<1> DEFINE n == Len(members)
           at == CHOOSE i \in DOMAIN members : members[i] = c
<1>1. /\ Running(c)
      /\ members' = [i \in 1 .. n - 1 |-> members[IF i < at THEN i ELSE i + 1]]
      /\ position' = Rebalanced(members')
      /\ stage' = [stage EXCEPT ![c] = "away"]
      /\ batch' = [batch EXCEPT ![c] = {}]
      /\ UNCHANGED <<committed, handled, moves>> /\ UNCHANGED logVars
  BY DEF Leave, Without
<1>2. /\ n \in Nat /\ DOMAIN members = 1 .. n
      /\ \A i \in 1 .. n : members[i] \in Consumers
  BY LenProperties DEF IInv, TypeOK
<1>3. at \in 1 .. n /\ members[at] = c
  BY <1>1, <1>2 DEF IInv, Membership
<1> HIDE DEF n, at
<1>4. /\ DOMAIN members' = 1 .. n - 1
      /\ \A i \in 1 .. n - 1 :
           /\ i < at => i \in 1 .. n /\ i # at /\ members'[i] = members[i]
           /\ i >= at => i + 1 \in 1 .. n /\ i + 1 # at /\ members'[i] = members[i + 1]
  BY <1>1, <1>2, <1>3
<1>5. members' \in Seq(Consumers)
  <2>1. \A i \in 1 .. n - 1 : members'[i] \in Consumers
    BY <1>2, <1>3, <1>4
  <2>2. members' \in [1 .. n - 1 -> Consumers]
    BY <1>1, <1>4, <2>1
  <2>3. n - 1 \in Nat
    BY <1>2, <1>3
  <2> QED
    BY <2>2, <2>3, SeqDef
<1>6. TypeOK'
  <2>1. position' \in [Consumers -> [Partitions -> 0 .. MaxRecords]]
    BY <1>1, RebalancedType DEF IInv
  <2> QED
    BY <1>1, <1>5, <2>1 DEF IInv, TypeOK, logVars
<1>7. Membership'
  <2>1. \A i, j \in 1 .. n : members[i] = members[j] => i = j
    BY <1>2 DEF IInv, Membership
  <2>2. \A i, j \in DOMAIN members' : members'[i] = members'[j] => i = j
    <3> TAKE i, j \in DOMAIN members'
    <3>1. i \in Int /\ j \in Int /\ at \in Int
      BY <1>2, <1>3, <1>4
    <3>2. CASE i < at /\ j < at
      BY <1>4, <2>1, <3>2
    <3>3. CASE i >= at /\ j >= at
      BY <1>4, <2>1, <3>1, <3>3
    <3>4. CASE i < at /\ j >= at
      BY <1>4, <2>1, <3>1, <3>4
    <3>5. CASE i >= at /\ j < at
      BY <1>4, <2>1, <3>1, <3>5
    <3> QED
      BY <3>1, <3>2, <3>3, <3>4, <3>5
  <2>3. \A i \in DOMAIN members' : members'[i] # c
          /\ \E j \in 1 .. n : members'[i] = members[j]
    <3> TAKE i \in DOMAIN members'
    <3>1. i < at \/ i >= at
      BY <1>2, <1>3, <1>4
    <3> QED
      BY <1>3, <1>4, <2>1, <3>1
  <2>4. \A j \in 1 .. n : members[j] # c =>
           \E i \in DOMAIN members' : members'[i] = members[j]
    <3> TAKE j \in 1 .. n
    <3>1. CASE j < at
      <4>1. j \in 1 .. n - 1
        BY <1>2, <1>3, <3>1
      <4> QED
        BY <1>4, <3>1, <4>1
    <3>2. CASE j > at
      <4>1. j - 1 \in 1 .. n - 1 /\ j - 1 >= at /\ (j - 1) + 1 = j
        BY <1>2, <1>3, <3>2
      <4> QED
        BY <1>4, <4>1
    <3>3. CASE j = at
      BY <1>3, <3>3
    <3> QED
      BY <1>2, <1>3, <3>1, <3>2, <3>3
  <2>5. stage'[c] = "away" /\ \A d \in Consumers : d # c => stage'[d] = stage[d]
    BY <1>1 DEF IInv, TypeOK
  <2>6. ASSUME NEW d \in Consumers
        PROVE  Running(d)' <=> \E i \in DOMAIN members' : members'[i] = d
    <3>1. CASE d = c
      BY <2>3, <2>5, <3>1 DEF Running
    <3>2. CASE d # c
      <4>1. Running(d) <=> \E i \in 1 .. n : members[i] = d
        BY <1>2 DEF IInv, Membership
      <4>2. Running(d)' <=> Running(d)
        BY <2>5, <3>2 DEF Running
      <4> QED
        BY <2>3, <2>4, <3>2, <4>1, <4>2
    <3> QED
      BY <3>1, <3>2
  <2> QED
    BY <2>2, <2>6 DEF Membership
<1>8. BatchesInHand'
  BY <1>1 DEF IInv, TypeOK, BatchesInHand
<1>9. Progress'
  BY <1>1, RebalanceKeepsProgress DEF IInv, TypeOK
<1> QED
  BY <1>1, <1>6, <1>7, <1>8, <1>9 DEF IInv, logVars

\* What a consumer polls goes from behind its position into its hands.
LEMMA PollKeeps ==
  ASSUME IInv, NEW c \in Consumers, Poll(c)
  PROVE  IInv'
<1> DEFINE owned == {p \in Partitions : Owns(c, p) /\ Unread(c, p) # {}}
           polled == UNION {{log[p][i] : i \in Unread(c, p)} : p \in owned}
<1>1. /\ stage[c] = "idle"
      /\ batch' = [batch EXCEPT ![c] = polled]
      /\ position' = [position EXCEPT ![c] =
                        [p \in Partitions |-> IF p \in owned THEN Len(log[p])
                                              ELSE position[c][p]]]
      /\ stage' = [stage EXCEPT ![c] = "handling"]
      /\ UNCHANGED <<committed, members, handled, moves>> /\ UNCHANGED logVars
  BY DEF Poll, IInv, TypeOK
<1>2. /\ position \in [Consumers -> [Partitions -> 0 .. MaxRecords]]
      /\ batch \in [Consumers -> SUBSET (1 .. MaxRecords)]
      /\ stage \in [Consumers -> {"away", "idle", "handling"}]
      /\ batch[c] = {}
  BY <1>1 DEF IInv, TypeOK, BatchesInHand
<1>3. \A p \in Partitions :
         /\ Len(log[p]) \in 0 .. MaxRecords /\ DOMAIN log[p] = 1 .. Len(log[p])
         /\ \A i \in DOMAIN log[p] : log[p][i] \in 1 .. MaxRecords
  <2> TAKE p \in Partitions
  <2>1. /\ Len(log[p]) \in Nat /\ DOMAIN log[p] = 1 .. Len(log[p])
        /\ \A i \in DOMAIN log[p] : log[p][i] \in 1 .. MaxRecords
    <3>1. log[p] \in Seq(1 .. MaxRecords)
      BY DEF IInv, TypeOK
    <3> QED
      BY <3>1, LenProperties
  <2>2. Len(log[p]) <= produced /\ produced \in 0 .. MaxRecords /\ MaxRecords \in Nat
    BY LogAssumption DEF IInv, TypeOK
  <2> QED
    BY <2>1, <2>2
<1>4. polled \subseteq 1 .. MaxRecords
  BY <1>3 DEF Unread
<1>5. /\ position'[c] \in [Partitions -> 0 .. MaxRecords]
      /\ \A p \in Partitions :
           position'[c][p] = IF p \in owned THEN Len(log[p]) ELSE position[c][p]
      /\ \A d \in Consumers : d # c => position'[d] = position[d]
  BY <1>1, <1>2, <1>3
<1>6. /\ batch'[c] = polled
      /\ \A d \in Consumers : d # c => batch'[d] = batch[d]
      /\ \A d \in Consumers : d # c => stage'[d] = stage[d]
      /\ stage'[c] = "handling"
  BY <1>1, <1>2
<1>7. \A p \in owned : \A i \in Unread(c, p) : log[p][i] \in polled
  OBVIOUS
<1>8. \A p \in Partitions : p \notin owned /\ Owns(c, p) => Unread(c, p) = {}
  OBVIOUS
<1>9. owned \subseteq Partitions
  OBVIOUS
<1> HIDE DEF polled, owned
<1>10. TypeOK'
  BY <1>1, <1>2, <1>4, <1>5, <1>6 DEF IInv, TypeOK, logVars
<1>11. Progress'
  <2>1. UNCHANGED <<log, trimmed, committed, members, handled>>
    BY <1>1 DEF logVars
  <2>2. ASSUME NEW p \in Partitions \ trimmed, Owns(c, p)
        PROVE  Covered(p, position'[c][p], handled \cup polled)
    <3>1. Covered(p, position[c][p], handled)
      BY <1>2, <2>2 DEF IInv, Progress
    <3>2. CASE p \in owned
      <4>1. position'[c][p] = Len(log[p])
        BY <1>5, <3>2
      <4>2. \A i \in DOMAIN log[p] :
               i <= position[c][p] \/ i \in Unread(c, p)
        BY <1>2, <1>3 DEF Unread
      <4> QED
        BY <1>3, <1>7, <3>1, <3>2, <4>1, <4>2 DEF Covered
    <3>3. CASE p \notin owned
      BY <1>5, <3>1, <3>3 DEF Covered
    <3> QED
      BY <3>2, <3>3
  <2> QED
    BY <1>5, <1>6, <2>1, <2>2 DEF IInv, Progress, Covered, Owns
<1> QED
  BY <1>1, <1>6, <1>10, <1>11 DEF IInv, Membership, Running, BatchesInHand, logVars

\* What a consumer has handled goes from its hands to the handled records.
LEMMA HandleKeeps ==
  ASSUME IInv, NEW c \in Consumers, Handle(c)
  PROVE  IInv'
<1>1. /\ handled' = handled \cup batch[c]
      /\ batch' = [batch EXCEPT ![c] = {}]
      /\ stage' = [stage EXCEPT ![c] = "idle"]
      /\ stage[c] = "handling"
      /\ UNCHANGED <<log, rrCounter, produced, trims, trimmed, committed, members,
                     position, moves>>
  BY DEF Handle, logVars
<1>2. TypeOK'
  BY <1>1 DEF IInv, TypeOK
<1>3. /\ batch'[c] = {} /\ stage'[c] = "idle"
      /\ \A d \in Consumers : d # c => batch'[d] = batch[d] /\ stage'[d] = stage[d]
  BY <1>1 DEF IInv, TypeOK
<1>4. Membership' /\ BatchesInHand'
  BY <1>1, <1>3 DEF IInv, Membership, BatchesInHand, Running
<1>5. Progress'
  <2>1. \A d \in Consumers : handled \cup batch[d] \subseteq handled' \cup batch'[d]
    BY <1>1, <1>3
  <2> QED
    BY <1>1, <2>1 DEF IInv, Progress, Covered, Owns
<1> QED
  BY <1>1, <1>2, <1>4, <1>5 DEF IInv

\* A commit finds the consumer's hands empty: what it has read is handled.
LEMMA CommitKeeps ==
  ASSUME IInv, NEW c \in Consumers, Commit(c)
  PROVE  IInv'
<1>1. /\ stage[c] = "idle"
      /\ committed' = [p \in Partitions |-> IF Owns(c, p) THEN position[c][p]
                                            ELSE committed[p]]
      /\ UNCHANGED <<log, rrCounter, produced, trims, trimmed, members, position,
                     stage, batch, handled, moves>>
  BY DEF Commit, Committed, logVars
<1>2. committed' \in [Partitions -> 0 .. MaxRecords]
  BY <1>1 DEF IInv, TypeOK
<1>3. TypeOK'
  BY <1>1, <1>2 DEF IInv, TypeOK
<1>4. batch[c] = {}
  BY <1>1 DEF IInv, BatchesInHand
<1>5. ASSUME NEW p \in Partitions \ trimmed
      PROVE  Covered(p, committed'[p], handled)
  <2>1. CASE Owns(c, p)
    BY <1>1, <1>4, <2>1 DEF IInv, Progress
  <2>2. CASE ~Owns(c, p)
    BY <1>1, <2>2 DEF IInv, Progress
  <2> QED
    BY <2>1, <2>2
<1>6. Progress'
  BY <1>1, <1>5 DEF IInv, Progress, Covered, Owns
<1> QED
  BY <1>1, <1>3, <1>6 DEF IInv, Membership, Running, BatchesInHand

\* A replay takes back what the consumer claims to have read.
LEMMA SeekKeeps ==
  ASSUME IInv, NEW c \in Consumers, NEW q \in Partitions, Seek(c, q)
  PROVE  IInv'
<1>1. PICK offset \in 0 .. position[c][q] - 1 :
         position' = [position EXCEPT ![c][q] = offset]
  BY DEF Seek
<1>2. UNCHANGED <<log, rrCounter, produced, trims, trimmed, committed, members,
                  stage, batch, handled, moves>>
  BY DEF Seek, logVars
<1>3. /\ position \in [Consumers -> [Partitions -> 0 .. MaxRecords]]
      /\ position[c][q] \in 0 .. MaxRecords /\ MaxRecords \in Nat
  BY LogAssumption DEF IInv, TypeOK
<1>4. offset \in 0 .. MaxRecords /\ offset <= position[c][q]
  BY <1>1, <1>3
<1>5. position' \in [Consumers -> [Partitions -> 0 .. MaxRecords]]
  BY <1>1, <1>3, <1>4
<1>6. \A d \in Consumers, p \in Partitions : position'[d][p] <= position[d][p]
  BY <1>1, <1>3, <1>4
<1>7. TypeOK'
  BY <1>2, <1>5 DEF IInv, TypeOK
<1>8. ASSUME NEW p \in Partitions, NEW d \in Consumers, NEW S,
             Covered(p, position[d][p], S)
      PROVE  Covered(p, position'[d][p], S)
  <2>1. position[d][p] \in Nat /\ position'[d][p] \in Nat
        /\ position'[d][p] <= position[d][p]
    BY <1>3, <1>5, <1>6
  <2>2. Len(log[p]) \in Nat /\ DOMAIN log[p] = 1 .. Len(log[p])
    BY LenProperties DEF IInv, TypeOK
  <2> QED
    BY <1>8, <2>1, <2>2 DEF Covered
<1>9. Progress'
  BY <1>2, <1>8 DEF IInv, Progress, Covered, Owns
<1> QED
  BY <1>2, <1>7, <1>9 DEF IInv, Membership, Running, BatchesInHand

-----------------------------------------------------------------------------
(* The group as a whole. *)

\* The log and the group start empty.
LEMMA InitKeeps == Init => IInv
<1> SUFFICES ASSUME Init PROVE IInv
  OBVIOUS
<1>1. /\ \A p \in Partitions : log[p] = <<>> /\ Len(log[p]) = 0 /\ DOMAIN log[p] = {}
      /\ members = <<>> /\ DOMAIN members = {}
      /\ \A T : <<>> \in Seq(T)
  BY EmptySeq DEF Init
<1>2. TypeOK
  <2>1. 0 \in Partitions /\ 0 \in 0 .. MaxRecords /\ 0 \in 0 .. MaxMoves
        /\ 0 \in 0 .. MaxTrims
    BY LogAssumption DEF Partitions
  <2>2. log \in [Partitions -> Seq(1 .. MaxRecords)] /\ members \in Seq(Consumers)
    BY <1>1 DEF Init
  <2> QED
    BY <2>1, <2>2 DEF Init, TypeOK
<1>3. \A p \in Partitions : Len(log[p]) <= produced
  BY <1>1 DEF Init
<1>4. Membership
  BY <1>1 DEF Init, Membership, Running
<1>5. BatchesInHand
  BY DEF Init, BatchesInHand
<1>6. Progress
  BY <1>1 DEF Init, Progress, Covered
<1> QED
  BY <1>2, <1>3, <1>4, <1>5, <1>6 DEF IInv

\* Every step keeps the invariant.
LEMMA NextKeeps == IInv /\ [Next]_vars => IInv'
<1> SUFFICES ASSUME IInv, [Next]_vars PROVE IInv'
  OBVIOUS
<1>1. ASSUME NEW k \in Keys, Produce(k) PROVE IInv'
  <2>1. Hash[k] \in Partitions /\ Appended(Hash[k]) /\ rrCounter' \in Partitions
    BY <1>1, LogAssumption DEF Produce, IInv, TypeOK
  <2> QED
    BY <2>1, AppendedKeeps
<1>2. ASSUME ProduceRoundRobin PROVE IInv'
  <2>1. rrCounter \in Partitions /\ Appended(rrCounter)
        /\ rrCounter' = (rrCounter + 1) % NumPartitions
    BY <1>2 DEF ProduceRoundRobin, IInv, TypeOK
  <2>2. rrCounter' \in Partitions
    BY <2>1, LogAssumption DEF Partitions
  <2> QED
    BY <2>1, <2>2, AppendedKeeps
<1>3. ASSUME NEW last \in 1 .. produced, ApplyRetention(last) PROVE IInv'
  BY <1>3, RetentionKeeps
<1>4. ASSUME NEW c \in Consumers, Join(c) PROVE IInv'
  BY <1>4, JoinKeeps
<1>5. ASSUME NEW c \in Consumers, Leave(c) PROVE IInv'
  BY <1>5, LeaveKeeps
<1>6. ASSUME NEW c \in Consumers, Poll(c) PROVE IInv'
  BY <1>6, PollKeeps
<1>7. ASSUME NEW c \in Consumers, Handle(c) PROVE IInv'
  BY <1>7, HandleKeeps
<1>8. ASSUME NEW c \in Consumers, Commit(c) PROVE IInv'
  BY <1>8, CommitKeeps
<1>9. ASSUME NEW c \in Consumers, NEW p \in Partitions, Seek(c, p) PROVE IInv'
  BY <1>9, SeekKeeps
<1>10. ASSUME UNCHANGED vars PROVE IInv'
  BY <1>10 DEF vars, IInv, TypeOK, Membership, Running, BatchesInHand, Progress,
               Covered, Owns
<1> QED
  BY <1>1, <1>2, <1>3, <1>4, <1>5, <1>6, <1>7, <1>8, <1>9, <1>10 DEF Next

\* The invariant holds throughout.
LEMMA Invariant == Spec => []IInv
BY InitKeeps, NextKeeps, PTL DEF Spec

\* After every join and leave each partition has one owner, and no consumer
\* has two partitions more than another (event-log.ts:295-335, README:80-87).
THEOREM PartitionsHaveOneOwner == Spec => []EveryPartitionOwned
<1>1. ASSUME IInv PROVE EveryPartitionOwned
  <2> SUFFICES ASSUME members # <<>>
               PROVE  /\ \A p \in Partitions :
                           Cardinality({c \in Consumers : Owns(c, p)}) = 1
                      /\ \A c, d \in {members[i] : i \in DOMAIN members} :
                           Cardinality(Assignment(members, c))
                             <= Cardinality(Assignment(members, d)) + 1
    BY <1>1 DEF IInv, EveryPartitionOwned
  <2>1. members \in Seq(Consumers)
        /\ \A i, j \in DOMAIN members : members[i] = members[j] => i = j
    BY <1>1 DEF IInv, TypeOK, Membership
  <2>2. ASSUME NEW p \in Partitions
        PROVE  Cardinality({c \in Consumers : Owns(c, p)}) = 1
    <3>1. PICK c \in Consumers :
             p \in Assignment(members, c)
             /\ \A d : p \in Assignment(members, d) => d = c
      BY <2>1, <2>2, OneOwner
    <3>2. {d \in Consumers : Owns(d, p)} = {c}
      BY <3>1 DEF Owns
    <3> QED
      BY <3>2, FS_Singleton
  <2>3. ASSUME NEW i \in DOMAIN members, NEW j \in DOMAIN members
        PROVE  Cardinality(Assignment(members, members[i]))
                 <= Cardinality(Assignment(members, members[j])) + 1
    BY <2>1, EvenShares
  <2> QED
    BY <2>2, <2>3
<1> QED
  BY <1>1, Invariant, PTL

\* What is committed was handled, whatever rebalances, crashes and replays
\* come between poll and commit: nothing is skipped (README:191), but where
\* retention has renumbered the records.
THEOREM CommittedWasHandled == Spec => []AtLeastOnce
<1>1. ASSUME IInv PROVE AtLeastOnce
  BY <1>1 DEF IInv, Progress, Covered, AtLeastOnce, SkippedIn
<1> QED
  BY <1>1, Invariant, PTL

\* Only a replay takes a partition's owner behind its committed offset
\* (event-log.ts:303-304, 324-326, README:178): a rebalance does not, and nor
\* does a commit, since nobody else owns the partition.
THEOREM OwnersResume == Spec => ResumesFromCommitted
<1>1. ASSUME IInv, [Next]_vars
      PROVE  [\A p \in Partitions :
                ~Behind(p) /\ Behind(p)' => \E c \in Consumers : Seek(c, p)]_vars
  <2> SUFFICES ASSUME Next, NEW p \in Partitions, ~Behind(p), Behind(p)'
               PROVE  \E c \in Consumers : Seek(c, p)
    BY <1>1
  <2>1. PICK d \in Consumers : Owns(d, p)' /\ position'[d][p] < committed'[p]
    BY DEF Behind
  <2>2. /\ committed \in [Partitions -> 0 .. MaxRecords]
        /\ position \in [Consumers -> [Partitions -> 0 .. MaxRecords]]
        /\ committed[p] \in Nat /\ position[d][p] \in Nat
    BY <1>1, LogAssumption DEF IInv, TypeOK
  <2>3. Owns(d, p) => position[d][p] >= committed[p]
    BY <2>2 DEF Behind
  <2>4. ASSUME UNCHANGED groupVars PROVE FALSE
    BY <2>1, <2>4 DEF groupVars, Behind, Owns
  <2>5. ASSUME position' = Rebalanced(members'), UNCHANGED committed PROVE FALSE
    BY <2>1, <2>2, <2>5 DEF Rebalanced, Owns
  <2>6. ASSUME NEW c \in Consumers, Poll(c) PROVE FALSE
    <3>1. members' = members /\ committed' = committed
      BY <2>6 DEF Poll
    <3>2. Owns(d, p)
      BY <2>1, <3>1 DEF Owns
    <3>3. position'[d][p] >= position[d][p]
      <4>1. CASE d # c
        BY <2>2, <2>6, <4>1 DEF Poll
      <4>2. CASE d = c /\ Unread(c, p) = {}
        BY <2>2, <2>6, <4>2 DEF Poll
      <4>3. CASE d = c /\ Unread(c, p) # {}
        <5>1. position'[c][p] = Len(log[p])
          BY <2>2, <2>6, <3>2, <4>3 DEF Poll
        <5>2. Len(log[p]) \in Nat /\ DOMAIN log[p] = 1 .. Len(log[p])
          BY <1>1, LenProperties DEF IInv, TypeOK
        <5> QED
          BY <2>2, <4>3, <5>1, <5>2 DEF Unread
      <4> QED
        BY <4>1, <4>2, <4>3
    <3>4. position'[d][p] \in Nat
      <4>1. IInv'
        BY <1>1, <2>6, PollKeeps
      <4> QED
        BY <4>1, LogAssumption DEF IInv, TypeOK
    <3> QED
      BY <2>1, <2>2, <2>3, <3>1, <3>2, <3>3, <3>4
  <2>7. ASSUME NEW c \in Consumers, Handle(c) PROVE FALSE
    BY <2>1, <2>7 DEF Handle, Behind, Owns
  <2>8. ASSUME NEW c \in Consumers, Commit(c) PROVE FALSE
    <3>1. UNCHANGED <<members, position>> /\ Owns(d, p)
      BY <2>1, <2>8 DEF Commit, Owns
    <3>2. CASE Owns(c, p)
      <4>1. d = c
        <5>1. members \in Seq(Consumers)
              /\ \A i, j \in DOMAIN members : members[i] = members[j] => i = j
          BY <1>1 DEF IInv, TypeOK, Membership
        <5>2. members # <<>>
          BY <3>2, EmptySeq DEF Owns, Assignment
        <5> QED
          BY <3>1, <3>2, <5>1, <5>2, OneOwner DEF Owns
      <4>2. committed'[p] = position[c][p]
        BY <2>8, <3>2 DEF Commit, Committed
      <4> QED
        BY <2>1, <2>2, <3>1, <4>1, <4>2
    <3>3. CASE ~Owns(c, p)
      <4>1. committed'[p] = committed[p]
        BY <2>8, <3>3 DEF Commit, Committed
      <4> QED
        BY <2>1, <2>2, <2>3, <3>1, <4>1
    <3> QED
      BY <3>2, <3>3
  <2>9. ASSUME NEW c \in Consumers, NEW q \in Partitions, Seek(c, q)
        PROVE  \E b \in Consumers : Seek(b, p)
    <3>1. CASE q = p
      BY <2>9, <3>1
    <3>2. CASE q # p
      <4>1. UNCHANGED <<members, committed>> /\ position'[d][p] = position[d][p]
        BY <2>2, <2>9, <3>2 DEF Seek
      <4> QED
        BY <2>1, <4>1 DEF Behind, Owns
    <3> QED
      BY <3>1, <3>2
  <2>10. CASE \E k \in Keys : Produce(k)
    BY <2>4, <2>10 DEF Produce, Appended
  <2>11. CASE ProduceRoundRobin
    BY <2>4, <2>11 DEF ProduceRoundRobin, Appended
  <2>12. CASE \E last \in 1 .. produced : ApplyRetention(last)
    BY <2>4, <2>12 DEF ApplyRetention
  <2>13. CASE \E c \in Consumers : Join(c) \/ Leave(c)
    BY <2>5, <2>13 DEF Join, Leave
  <2> QED
    BY <2>6, <2>7, <2>8, <2>9, <2>10, <2>11, <2>12, <2>13 DEF Next
<1> QED
  BY <1>1, Invariant, PTL DEF Spec, ResumesFromCommitted
=============================================================================
