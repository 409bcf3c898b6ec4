-------------------------- MODULE ReplicationProofs --------------------------
(***************************************************************************)
(* Proofs about programs of chapters 13, 14 and 18 that replicate data:    *)
(* the modes of the CAP cluster, the registers, the causal store, the      *)
(* CRDTs, the vector clocks and the push loops of cr-sqlite keep their     *)
(* promises for any number of nodes.                                       *)
(***************************************************************************)
EXTENDS ConsistencyModes, CausalStore, Crdt, CausalClocks, ChangesetSync, FoldLemmas

(***************************************************************************)
(* The CAP cluster (13-distributed-systems/cap-theorem.ts).                *)
(***************************************************************************)

\* What a behaviour of the cluster keeps true: a partition is into two groups
\* that are not empty, no node has a version that was never written, and in AP
\* some node has the newest one - without it no read could tell it is stale.
TwoGroups ==
    \/ groups = {CapNodes}
    \/ \E g \in SUBSET CapNodes : g # {} /\ g # CapNodes /\ groups = {g, CapNodes \ g}

CapInv ==
    /\ CapPromises
    /\ TwoGroups
    /\ \A n \in CapNodes : stored[n] <= writeCounter
    /\ mode = "AP" /\ CapNodes # {} => \E n \in CapNodes : stored[n] = writeCounter

\* A pair of different things has two elements.
LEMMA TwoOfThem == \A x, y : x # y => Cardinality({x, y}) = 2
<1> SUFFICES ASSUME NEW x, NEW y, x # y PROVE Cardinality({x, y}) = 2
  OBVIOUS
<1>1. Cardinality({y}) = 1 /\ IsFiniteSet({y})
  BY FS_Singleton
<1>2. x \notin {y}
  OBVIOUS
<1>3. Cardinality({y} \cup {x}) = 2
  BY <1>1, <1>2, FS_AddElement
<1>4. {x, y} = {y} \cup {x}
  OBVIOUS
<1> QED
  BY <1>3, <1>4

\* Every node is in a group, and it is alone with all nodes only when nothing
\* partitions them (cap-theorem.ts:60).
LEMMA GroupsOfNodes ==
  ASSUME CapInv
  PROVE  /\ \A n \in CapNodes : n \in GroupOf(n) /\ GroupOf(n) \subseteq CapNodes
         /\ ~partitioned => groups = {CapNodes} /\ \A n \in CapNodes : GroupOf(n) = CapNodes
<1>1. \A n \in CapNodes : \E g \in groups : n \in g
  BY DEF CapInv, TwoGroups
<1>2. \A n \in CapNodes : n \in GroupOf(n) /\ GroupOf(n) \in groups
  BY <1>1 DEF GroupOf
<1>3. \A g \in groups : g \subseteq CapNodes
  BY DEF CapInv, TwoGroups
<1>4. groups = {CapNodes} => \A n \in CapNodes : GroupOf(n) = CapNodes
  BY <1>2
<1>5. ASSUME NEW g \in SUBSET CapNodes, g # {}, g # CapNodes, groups = {g, CapNodes \ g}
      PROVE  partitioned
  <2>1. g # CapNodes \ g
    BY <1>5
  <2>2. Cardinality({g, CapNodes \ g}) = 2
    BY <2>1, TwoOfThem
  <2> QED
    BY <1>5, <2>2 DEF partitioned
<1> QED
  BY <1>2, <1>3, <1>4, <1>5 DEF CapInv, TwoGroups

\* A write of the CP cluster goes to a majority (cap-theorem.ts:107).
LEMMA MajorityHolds ==
  ASSUME NEW S, S \subseteq CapNodes, NEW G, G \subseteq S, Cardinality(G) * 2 > Cardinality(CapNodes)
  PROVE  Cardinality(S) * 2 > Cardinality(CapNodes)
<1>1. IsFiniteSet(S) /\ IsFiniteSet(G) /\ IsFiniteSet(CapNodes)
  BY CapAssumption, FS_Subset
<1>2. Cardinality(G) <= Cardinality(S)
  BY <1>1, FS_Subset
<1>3. Cardinality(G) \in Nat /\ Cardinality(S) \in Nat /\ Cardinality(CapNodes) \in Nat
  BY <1>1, FS_CardinalityType
<1> QED
  BY <1>2, <1>3

\* The cluster starts with no value anywhere (cap-theorem.ts:42).
LEMMA CapStarts == CapInit => CapInv
<1> SUFFICES ASSUME CapInit PROVE CapInv
  OBVIOUS
<1>1. CapTypeOK
  BY CapAssumption DEF CapInit, CapTypeOK
<1>2. ~partitioned
  <2>1. Cardinality({CapNodes}) = 1 /\ groups = {CapNodes}
    BY FS_Singleton DEF CapInit
  <2> QED
    BY <2>1 DEF partitioned
<1>3. writeCounter = 0 /\ \A n \in CapNodes : stored[n] = 0
  BY DEF CapInit
<1> QED
  BY <1>1, <1>2, <1>3 DEF CapInit, CapInv, CapPromises, TwoGroups

\* Partitions, heals, crashes and recoveries move no value: what is promised
\* of the values holds however the network is cut (cap-theorem.ts:76-88, 261).
LEMMA NetworkKeeps ==
  ASSUME CapInv,
         \/ \E g \in SUBSET CapNodes : partitionInto(g)
         \/ heal
         \/ \E n \in CapNodes : crash(n) \/ recover(n)
  PROVE  CapInv'
<1>1. UNCHANGED <<mode, stored, writeCounter>>
  BY DEF partitionInto, heal, crash, recover
<1>2. agreed' => agreed
  BY DEF partitionInto, heal, crash, recover
<1>3. TwoGroups'
  <2>1. CASE \E g \in SUBSET CapNodes : partitionInto(g)
    BY <2>1 DEF partitionInto, TwoGroups
  <2>2. CASE heal
    BY <2>2 DEF heal, TwoGroups
  <2>3. CASE \E n \in CapNodes : crash(n) \/ recover(n)
    BY <2>3 DEF crash, recover, CapInv, TwoGroups
  <2> QED
    BY <2>1, <2>2, <2>3
<1>4. UNION groups' = CapNodes
  BY <1>3 DEF TwoGroups
<1>5. alive' \subseteq CapNodes
  BY DEF CapInv, CapPromises, CapTypeOK, partitionInto, heal, crash, recover
<1>6. CapTypeOK'
  BY <1>1, <1>4, <1>5 DEF CapInv, CapPromises, CapTypeOK
<1>7. mode' = "AP" /\ CapNodes # {} => \E n \in CapNodes : stored'[n] = writeCounter'
  BY <1>1 DEF CapInv
<1>8. \A n \in CapNodes : stored'[n] \in Nat /\ writeCounter' \in Nat /\ stored'[n] <= writeCounter'
  BY <1>1 DEF CapInv, CapPromises, CapTypeOK
<1>9. mode' = "AP" /\ partitioned' =>
        \A n \in CapNodes : readValue(n)' # 0 => (readIsStale(n)' <=> readValue(n)' # writeCounter')
  BY <1>7, <1>8 DEF readIsStale, readValue
<1> QED
  BY <1>1, <1>2, <1>3, <1>6, <1>7, <1>8, <1>9 DEF CapInv, CapPromises

\* What a step that changes values has to show: that it leaves the types, that
\* no node is ahead, and what each mode asks.
LEMMA ValuesKeep ==
  ASSUME CapInv, CapTypeOK', UNCHANGED <<mode, groups>>,
         \A n \in CapNodes : stored'[n] <= writeCounter',
         mode = "CP" => Cardinality({n \in CapNodes : stored'[n] = writeCounter'}) * 2 > Cardinality(CapNodes),
         mode = "CA" => \A n \in CapNodes : stored'[n] = writeCounter',
         mode = "AP" /\ CapNodes # {} => \E n \in CapNodes : stored'[n] = writeCounter',
         agreed' => \A n \in CapNodes : stored'[n] = writeCounter'
  PROVE  CapInv'
<1>1. \A n \in CapNodes : stored'[n] \in Nat /\ writeCounter' \in Nat
  BY DEF CapTypeOK
<1>2. mode' = "AP" /\ partitioned' =>
        \A n \in CapNodes : readValue(n)' # 0 => (readIsStale(n)' <=> readValue(n)' # writeCounter')
  BY <1>1 DEF readIsStale, readValue
<1>3. TwoGroups'
  BY DEF CapInv, TwoGroups
<1> QED
  BY <1>2, <1>3 DEF CapInv, CapPromises

\* A write reaches the whole group of its node: a majority in CP, all nodes in
\* CA and wherever nothing partitions them (cap-theorem.ts:102).
LEMMA CapWriteKeeps ==
  ASSUME CapInv, NEW n \in CapNodes, capWrite(n)
  PROVE  CapInv'
<1> DEFINE G == GroupOf(n)
<1>1. n \in G /\ G \subseteq CapNodes /\ (~partitioned => G = CapNodes)
  BY GroupsOfNodes
<1>2. /\ writeCounter' = writeCounter + 1 /\ UNCHANGED <<mode, groups, alive>>
      /\ writeCounter \in Nat /\ writeCounter < MaxCapWrites /\ agreed' = ~partitioned
  BY DEF capWrite, CapInv, CapPromises, CapTypeOK
<1>3. stored' = [m \in CapNodes |-> IF m \in G THEN writeCounter + 1 ELSE stored[m]]
  BY DEF capWrite
<1> HIDE DEF G
<1>4. \A m \in CapNodes : stored[m] \in 0 .. MaxCapWrites /\ stored[m] <= writeCounter
  BY DEF CapInv, CapPromises, CapTypeOK
<1>5. CapTypeOK'
  BY <1>2, <1>3, <1>4, CapAssumption DEF CapInv, CapPromises, CapTypeOK
<1>6. \A m \in CapNodes : stored'[m] <= writeCounter'
  BY <1>2, <1>3, <1>4
<1>7. G \subseteq {m \in CapNodes : stored'[m] = writeCounter'}
  BY <1>1, <1>2, <1>3
<1>8. mode = "CP" => Cardinality(G) * 2 > Cardinality(CapNodes)
  BY DEF capWrite, accepts, majorityGroup, G
<1>9. mode = "CP" => Cardinality({m \in CapNodes : stored'[m] = writeCounter'}) * 2 > Cardinality(CapNodes)
  BY <1>7, <1>8, MajorityHolds
<1>10. ~partitioned => \A m \in CapNodes : stored'[m] = writeCounter'
  BY <1>1, <1>2, <1>3
<1>11. mode = "CA" => ~partitioned
  BY DEF capWrite, accepts
<1>12. stored'[n] = writeCounter'
  BY <1>1, <1>2, <1>3
<1> QED
  BY <1>2, <1>5, <1>6, <1>9, <1>10, <1>11, <1>12, ValuesKeep

\* A message of a node that lies is a newer version on one node of the AP
\* cluster (cap-theorem.ts:215).
LEMMA InjectKeeps ==
  ASSUME CapInv, NEW to \in CapNodes, injectMessage(to)
  PROVE  CapInv'
<1>1. /\ mode = "AP" /\ writeCounter' = writeCounter + 1 /\ UNCHANGED <<mode, groups, alive>>
      /\ writeCounter \in Nat /\ writeCounter < MaxCapWrites /\ agreed' = FALSE
      /\ stored' = [stored EXCEPT ![to] = writeCounter + 1]
  BY DEF injectMessage, CapInv, CapPromises, CapTypeOK
<1>2. stored \in [CapNodes -> 0 .. MaxCapWrites] /\ \A m \in CapNodes : stored[m] <= writeCounter
  BY DEF CapInv, CapPromises, CapTypeOK
<1>3. CapTypeOK'
  BY <1>1, <1>2, CapAssumption DEF CapInv, CapPromises, CapTypeOK
<1>4. \A m \in CapNodes : stored'[m] <= writeCounter'
  BY <1>1, <1>2
<1>5. stored'[to] = writeCounter'
  BY <1>1, <1>2
<1> QED
  BY <1>1, <1>3, <1>4, <1>5, ValuesKeep

\* Reconciliation finds the newest version, since a node of the AP cluster has
\* it, and brings all nodes to it (cap-theorem.ts:233).
LEMMA ReconcileKeeps ==
  ASSUME CapInv, reconcile
  PROVE  CapInv'
<1> DEFINE winner == CHOOSE v \in {stored[n] : n \in CapNodes} : \A n \in CapNodes : stored[n] <= v
<1>1. mode = "AP" /\ UNCHANGED <<mode, groups, alive, writeCounter>>
  BY DEF reconcile
<1>2. stored' = [n \in CapNodes |-> winner]
  BY DEF reconcile
<1>3. writeCounter \in Nat /\ \A n \in CapNodes : stored[n] \in Nat /\ stored[n] <= writeCounter
  BY DEF CapInv, CapPromises, CapTypeOK
<1>4. CapNodes # {} => winner = writeCounter
  <2> SUFFICES ASSUME CapNodes # {} PROVE winner = writeCounter
    OBVIOUS
  <2>1. PICK n \in CapNodes : stored[n] = writeCounter
    BY <1>1 DEF CapInv
  <2>2. writeCounter \in {stored[m] : m \in CapNodes} /\ \A m \in CapNodes : stored[m] <= writeCounter
    BY <1>3, <2>1
  <2>3. winner \in {stored[m] : m \in CapNodes} /\ \A m \in CapNodes : stored[m] <= winner
    BY <2>2
  <2>4. winner <= writeCounter /\ writeCounter <= winner /\ winner \in Nat
    BY <1>3, <2>1, <2>3
  <2> HIDE DEF winner
  <2> QED
    BY <1>3, <2>4
<1> HIDE DEF winner
<1>5. stored' = [n \in CapNodes |-> writeCounter]
  BY <1>2, <1>4
<1>6. CapTypeOK'
  BY <1>1, <1>5 DEF CapInv, CapPromises, CapTypeOK
<1> QED
  BY <1>1, <1>3, <1>5, <1>6, ValuesKeep

\* THEOREM CapKeepsPromises.  For any number of nodes, through any sequence of
\* partitions, heals, crashes, recoveries, lies and reconciliations, each mode
\* of the cluster keeps what it promises.
THEOREM CapKeepsPromises == CapSpec => []CapPromises
<1>1. CapInit => CapInv
  BY CapStarts
<1>2. CapInv /\ [CapNext]_capVars => CapInv'
  <2> SUFFICES ASSUME CapInv, [CapNext]_capVars PROVE CapInv'
    OBVIOUS
  <2>1. CASE UNCHANGED capVars
    BY <2>1 DEF capVars, CapInv, CapPromises, CapTypeOK, TwoGroups, partitioned, readIsStale, readValue
  <2>2. CASE CapNext
    BY <2>2, NetworkKeeps, CapWriteKeeps, InjectKeeps, ReconcileKeeps DEF CapNext
  <2> QED
    BY <2>1, <2>2
<1>3. CapInv => CapPromises
  BY DEF CapInv
<1> QED
  BY <1>1, <1>2, <1>3, PTL DEF CapSpec

(***************************************************************************)
(* The registers (13-distributed-systems/consistency-models.ts).           *)
(***************************************************************************)

\* Among finitely many versions there is a highest one.
LEMMA HighestVersion ==
  ASSUME NEW K \in Nat, NEW S \in SUBSET (0 .. K), S # {}
  PROVE  Highest(S) \in S /\ \A w \in S : w <= Highest(S)
<1> DEFINE Above == {u \in Nat : \A w \in S : w <= u}
<1>1. K \in Above /\ Above \subseteq Nat
  OBVIOUS
<1>2. PICK u \in Above : \A y \in Above : ~ (<<y, u>> \in OpToRel(<, Nat))
  <2> HIDE DEF Above
  <2> QED
    BY <1>1, NatLessThanWellFounded, WFMin
<1>3. u \in S
  <2> SUFFICES ASSUME u \notin S PROVE FALSE
    OBVIOUS
  <2>1. u \in Nat /\ \A w \in S : w <= u
    BY <1>2
  <2>2. \A w \in S : w \in Nat /\ w # u
    OBVIOUS
  <2> HIDE DEF Above
  <2>3. PICK v \in S : v \in Nat /\ v < u
    <3>1. PICK v \in S : TRUE
      OBVIOUS
    <3>2. v \in Nat /\ v <= u /\ v # u
      BY <2>1, <2>2, <3>1
    <3>3. v < u
      BY <2>1, <3>2
    <3> QED
      BY <3>1, <3>2, <3>3
  <2>4. u > 0 /\ \A w \in S : w <= u - 1
    BY <2>1, <2>2, <2>3
  <2>5. u - 1 \in Above
    BY <2>1, <2>4 DEF Above
  <2>6. <<u - 1, u>> \in OpToRel(<, Nat)
    <3>1. <<u - 1, u>> \in Nat \X Nat /\ u - 1 < u
      BY <2>1, <2>4
    <3> QED
      BY <3>1 DEF OpToRel
  <2> QED
    BY <1>2, <2>5, <2>6
<1>4. \A w \in S : w <= u
  BY <1>2
<1> QED
  BY <1>3, <1>4 DEF Highest

\* What a behaviour of the registers keeps true: nothing has or brings a version
\* that was never written; the strong replicas are at the latest version; a
\* replica of the eventual register that is behind has the latest version coming;
\* and the session cache of a client holds its own last write.
Message == [target : Copies, version : 0 .. latestVersion]

RegisterShape ==
    /\ register \in {"strong", "eventual", "read-your-writes"}
    /\ latestVersion \in 0 .. MaxRegisterWrites
    /\ replicaVersion \in [Copies -> 0 .. latestVersion]
    /\ session \in [Clients -> 0 .. latestVersion]
    /\ lastWrite \in [Clients -> 0 .. latestVersion]
    /\ pending \in Seq(Message)

Behind(r) == replicaVersion[r] < latestVersion
Coming(r) == \E i \in DOMAIN pending : pending[i] = [target |-> r, version |-> latestVersion]

RegisterInv ==
    /\ RegisterShape
    /\ register = "strong" => \A r \in Copies : replicaVersion[r] = latestVersion
    /\ register = "eventual" => \A r \in Copies : Behind(r) => Coming(r)
    /\ register = "read-your-writes" => session = lastWrite

\* The registers start empty (consistency-models.ts:299).
LEMMA RegistersStart == RegisterInit => RegisterInv
<1> SUFFICES ASSUME RegisterInit PROVE RegisterInv
  OBVIOUS
<1>1. RegisterShape
  BY RegisterAssumption, EmptySeq DEF RegisterInit, RegisterShape
<1> QED
  BY <1>1 DEF RegisterInit, RegisterInv, Behind

\* What a write changes whatever the register is (consistency-models.ts:82).
LEMMA WriteTakesNext ==
  ASSUME RegisterInv, NEW c \in Clients, Written(c)
  PROVE  /\ latestVersion \in Nat /\ latestVersion' = latestVersion + 1
         /\ latestVersion' \in 0 .. MaxRegisterWrites
         /\ 0 .. latestVersion \subseteq 0 .. latestVersion' /\ latestVersion' \in 0 .. latestVersion'
         /\ lastWrite' = [lastWrite EXCEPT ![c] = latestVersion'] /\ UNCHANGED register
         /\ lastWrite' \in [Clients -> 0 .. latestVersion']
         /\ Message \subseteq Message'
<1>1. latestVersion \in Nat /\ latestVersion < MaxRegisterWrites /\ latestVersion' = latestVersion + 1
  BY RegisterAssumption DEF RegisterInv, RegisterShape, Written
<1>2. 0 .. latestVersion \subseteq 0 .. latestVersion' /\ latestVersion' \in 0 .. latestVersion'
  BY <1>1
<1>3. latestVersion' \in 0 .. MaxRegisterWrites
  BY <1>1, RegisterAssumption
<1>4. lastWrite' = [lastWrite EXCEPT ![c] = latestVersion'] /\ UNCHANGED register
  BY <1>1 DEF Written
<1>5. lastWrite' \in [Clients -> 0 .. latestVersion']
  BY <1>2, <1>4 DEF RegisterInv, RegisterShape
<1>6. Message \subseteq Message'
  BY <1>2 DEF Message
<1> QED
  BY <1>1, <1>2, <1>3, <1>4, <1>5, <1>6

\* A strong write is on all replicas at once (consistency-models.ts:81).
LEMMA StrongWriteKeeps ==
  ASSUME RegisterInv, NEW c \in Clients, strongWrite(c)
  PROVE  RegisterInv'
<1>1. /\ register = "strong" /\ Written(c) /\ UNCHANGED <<pending, session>>
      /\ replicaVersion' = [r \in Copies |-> latestVersion + 1]
  BY DEF strongWrite
<1>2. RegisterShape'
  <2>1. pending' \in Seq(Message')
    BY <1>1, WriteTakesNext DEF RegisterInv, RegisterShape
  <2>2. session' \in [Clients -> 0 .. latestVersion']
    BY <1>1, WriteTakesNext DEF RegisterInv, RegisterShape
  <2>3. replicaVersion' \in [Copies -> 0 .. latestVersion']
    BY <1>1, WriteTakesNext
  <2> QED
    BY <1>1, <2>1, <2>2, <2>3, WriteTakesNext DEF RegisterInv, RegisterShape
<1>3. \A r \in Copies : replicaVersion'[r] = latestVersion'
  BY <1>1, WriteTakesNext
<1> QED
  BY <1>1, <1>2, <1>3, WriteTakesNext DEF RegisterInv

\* An eventual write puts the new version on its way to all replicas, behind
\* what is there already (consistency-models.ts:121).
LEMMA EventualWriteKeeps ==
  ASSUME RegisterInv, NEW c \in Clients, eventualWrite(c)
  PROVE  RegisterInv'
<1> DEFINE added == toAll(latestVersion + 1)
<1>1. /\ register = "eventual" /\ Written(c) /\ UNCHANGED <<replicaVersion, session>>
      /\ pending' = pending \o added
  BY DEF eventualWrite
<1>2. /\ added \in Seq(Message') /\ Len(added) = NumCopies
      /\ \A r \in Copies : added[r] = [target |-> r, version |-> latestVersion']
  <2>1. \A r \in Copies : [target |-> r, version |-> latestVersion'] \in Message'
    BY <1>1, WriteTakesNext DEF Message
  <2>2. added = [r \in 1 .. NumCopies |-> [target |-> r, version |-> latestVersion']]
    BY <1>1, WriteTakesNext DEF toAll, Copies
  <2>3. added \in [1 .. NumCopies -> Message']
    BY <2>1, <2>2 DEF Copies
  <2> HIDE DEF added
  <2>4. added \in Seq(Message')
    BY <2>3, RegisterAssumption, SeqDef
  <2>5. DOMAIN added = 1 .. NumCopies
    BY <2>2
  <2>6. Len(added) = NumCopies
    BY <2>4, <2>5, RegisterAssumption, LenProperties
  <2> QED
    BY <2>2, <2>4, <2>6 DEF Copies
<1> HIDE DEF added
<1>3. pending \in Seq(Message')
  BY <1>1, WriteTakesNext DEF RegisterInv, RegisterShape
<1>4. /\ pending' \in Seq(Message') /\ Len(pending') = Len(pending) + NumCopies
      /\ \A i \in 1 .. NumCopies : pending'[Len(pending) + i] = added[i]
  <2>1. Len(pending) \in Nat /\ Len(added) = NumCopies /\ NumCopies \in Nat
    BY <1>2, <1>3, RegisterAssumption, LenProperties
  <2>2. /\ pending' \in Seq(Message') /\ Len(pending') = Len(pending) + Len(added)
        /\ \A i \in 1 .. Len(pending) + Len(added) :
             pending'[i] = IF i <= Len(pending) THEN pending[i] ELSE added[i - Len(pending)]
    BY <1>1, <1>2, <1>3, ConcatProperties
  <2>3. ASSUME NEW i \in 1 .. NumCopies PROVE pending'[Len(pending) + i] = added[i]
    <3>1. Len(pending) + i \in 1 .. Len(pending) + Len(added) /\ ~ (Len(pending) + i <= Len(pending))
          /\ Len(pending) + i - Len(pending) = i
      BY <2>1
    <3> QED
      BY <2>2, <3>1
  <2> QED
    BY <2>1, <2>2, <2>3
<1>5. RegisterShape'
  <2>1. session' \in [Clients -> 0 .. latestVersion'] /\ replicaVersion' \in [Copies -> 0 .. latestVersion']
    BY <1>1, WriteTakesNext DEF RegisterInv, RegisterShape
  <2> QED
    BY <1>1, <1>4, <2>1, WriteTakesNext DEF RegisterInv, RegisterShape
<1>6. ASSUME NEW r \in Copies PROVE Coming(r)'
  <2>1. Len(pending) \in Nat /\ NumCopies \in Nat /\ r \in 1 .. NumCopies
    BY <1>3, RegisterAssumption, LenProperties DEF Copies
  <2>2. Len(pending) + r \in 1 .. Len(pending')
    BY <1>4, <2>1
  <2>3. DOMAIN pending' = 1 .. Len(pending')
    BY <1>4, LenProperties
  <2>4. pending'[Len(pending) + r] = [target |-> r, version |-> latestVersion']
    BY <1>2, <1>4, <2>1
  <2> QED
    BY <2>2, <2>3, <2>4 DEF Coming
<1> QED
  BY <1>1, <1>5, <1>6, WriteTakesNext DEF RegisterInv

\* A write in a session is on one replica and in the session's cache
\* (consistency-models.ts:316).
LEMMA SessionWriteKeeps ==
  ASSUME RegisterInv, NEW c \in Clients, NEW r \in Copies, sessionWrite(c, r)
  PROVE  RegisterInv'
<1>1. /\ register = "read-your-writes" /\ Written(c) /\ UNCHANGED pending
      /\ replicaVersion' = [replicaVersion EXCEPT ![r] = latestVersion']
      /\ session' = [session EXCEPT ![c] = latestVersion']
  BY WriteTakesNext DEF sessionWrite
<1>2. pending' \in Seq(Message')
  BY <1>1, WriteTakesNext DEF RegisterInv, RegisterShape
<1>3. session' \in [Clients -> 0 .. latestVersion'] /\ replicaVersion' \in [Copies -> 0 .. latestVersion']
  BY <1>1, WriteTakesNext DEF RegisterInv, RegisterShape
<1> QED
  BY <1>1, <1>2, <1>3, WriteTakesNext DEF RegisterInv, RegisterShape

\* A tick takes the first messages out and leaves each replica with the highest
\* version it was offered: one that is still behind has not been sent the
\* latest version yet (consistency-models.ts:134).
LEMMA TickKeeps ==
  ASSUME RegisterInv, NEW count \in 1 .. Len(pending), tick(count)
  PROVE  RegisterInv'
<1>1. /\ register = "eventual" /\ UNCHANGED <<register, latestVersion, session, lastWrite>>
      /\ replicaVersion' = [r \in Copies |-> Highest(Offered(r, count))]
      /\ pending' = SubSeq(pending, count + 1, Len(pending))
  BY DEF tick
<1>2. /\ latestVersion \in Nat /\ Len(pending) \in Nat /\ count \in Nat /\ count <= Len(pending)
      /\ DOMAIN pending = 1 .. Len(pending)
      /\ \A i \in 1 .. Len(pending) : pending[i] \in Message
  <2>1. pending \in Seq(Message) /\ latestVersion \in Nat
    BY RegisterAssumption DEF RegisterInv, RegisterShape
  <2>2. Len(pending) \in Nat /\ DOMAIN pending = 1 .. Len(pending)
    BY <2>1, LenProperties
  <2>3. \A i \in 1 .. Len(pending) : pending[i] \in Message
    BY <2>1, LenProperties
  <2> QED
    BY <2>1, <2>2, <2>3
<1>3. ASSUME NEW r \in Copies
      PROVE  /\ Highest(Offered(r, count)) \in 0 .. latestVersion
             /\ \A w \in Offered(r, count) : w \in Nat /\ w <= Highest(Offered(r, count))
  <2>1. Offered(r, count) \in SUBSET (0 .. latestVersion)
    <3>1. replicaVersion[r] \in 0 .. latestVersion
      BY DEF RegisterInv, RegisterShape
    <3>2. \A i \in 1 .. count : pending[i].version \in 0 .. latestVersion
      BY <1>2 DEF Message
    <3> QED
      BY <3>1, <3>2 DEF Offered
  <2>2. Offered(r, count) # {}
    BY DEF Offered
  <2>3. /\ Highest(Offered(r, count)) \in Offered(r, count)
        /\ \A w \in Offered(r, count) : w <= Highest(Offered(r, count))
    BY <1>2, <2>1, <2>2, HighestVersion
  <2> QED
    BY <2>1, <2>3
<1>4. replicaVersion' \in [Copies -> 0 .. latestVersion]
  BY <1>1, <1>3
<1>5. /\ pending' \in Seq(Message) /\ Len(pending') = Len(pending) - count
      /\ \A i \in 1 .. Len(pending) - count : pending'[i] = pending[count + i]
  <2>1. pending \in Seq(Message) /\ count + 1 \in 1 .. Len(pending) + 1 /\ Len(pending) \in count .. Len(pending)
    BY <1>2 DEF RegisterInv, RegisterShape
  <2>2. CASE count = Len(pending)
    <3>1. pending' = << >>
      BY <1>1, <1>2, <2>1, <2>2, SubSeqProperties
    <3> QED
      BY <1>2, <2>2, <3>1, EmptySeq
  <2>3. CASE count # Len(pending)
    <3>1. count + 1 \in 1 .. Len(pending) /\ Len(pending) \in count + 1 .. Len(pending)
      <4>1. Len(pending) \in Nat /\ count \in Nat /\ count <= Len(pending)
        BY <1>2
      <4>2. count < Len(pending)
        BY <2>3, <4>1
      <4> QED
        BY <4>1, <4>2
    <3>2. /\ pending' \in Seq(Message) /\ Len(pending') = Len(pending) - (count + 1) + 1
          /\ \A i \in 1 .. Len(pending) - (count + 1) + 1 : pending'[i] = pending[(count + 1) + i - 1]
      BY <1>1, <2>1, <3>1, SubSeqProperties
    <3>3. Len(pending) - (count + 1) + 1 = Len(pending) - count
          /\ \A i \in 1 .. Len(pending) - count : (count + 1) + i - 1 = count + i
      BY <1>2
    <3> QED
      BY <3>2, <3>3
  <2> QED
    BY <2>2, <2>3
<1>6. RegisterShape'
  BY <1>1, <1>4, <1>5 DEF RegisterInv, RegisterShape, Message
<1>7. ASSUME NEW r \in Copies, Behind(r)' PROVE Coming(r)'
  <2>1. replicaVersion'[r] = Highest(Offered(r, count)) /\ replicaVersion'[r] < latestVersion
    BY <1>1, <1>7 DEF Behind
  <2>2. replicaVersion[r] \in Offered(r, count)
    BY DEF Offered
  <2>3. Behind(r)
    BY <1>2, <1>3, <2>1, <2>2 DEF Behind
  <2>4. PICK i \in DOMAIN pending : pending[i] = [target |-> r, version |-> latestVersion]
    BY <1>1, <2>3 DEF RegisterInv, Coming
  <2>5. i > count
    <3> SUFFICES ASSUME i \in 1 .. count PROVE FALSE
      BY <1>2
    <3>1. latestVersion \in Offered(r, count)
      BY <2>4 DEF Offered
    <3> QED
      BY <1>2, <1>3, <2>1, <3>1
  <2>6. i - count \in 1 .. Len(pending) - count /\ count + (i - count) = i
    BY <1>2, <2>5
  <2>7. pending'[i - count] = [target |-> r, version |-> latestVersion']
    BY <1>1, <1>5, <2>4, <2>6
  <2>8. DOMAIN pending' = 1 .. Len(pending) - count
    BY <1>5, LenProperties
  <2> QED
    BY <2>6, <2>7, <2>8 DEF Coming
<1> QED
  BY <1>1, <1>6, <1>7 DEF RegisterInv

\* A propagation brings one replica to the latest version, and no session's
\* cache is touched (consistency-models.ts:346).
LEMMA PropagateKeeps ==
  ASSUME RegisterInv, NEW r \in Copies, propagateTo(r)
  PROVE  RegisterInv'
<1>1. latestVersion \in 0 .. latestVersion
  BY RegisterAssumption DEF RegisterInv, RegisterShape
<1> QED
  BY <1>1 DEF RegisterInv, RegisterShape, propagateTo, Message

\* The invariant gives what the registers promise: in particular a client reads
\* its own cache, where its last write is, before it reads any replica.
LEMMA RegisterInvPromises == RegisterInv => RegistersKeepPromises
<1> SUFFICES ASSUME RegisterInv PROVE RegistersKeepPromises
  OBVIOUS
<1>1. /\ latestVersion \in Nat /\ 0 .. latestVersion \subseteq 0 .. MaxRegisterWrites
      /\ replicaVersion \in [Copies -> 0 .. latestVersion] /\ session \in [Clients -> 0 .. latestVersion]
      /\ lastWrite \in [Clients -> 0 .. latestVersion]
  BY RegisterAssumption DEF RegisterInv, RegisterShape
<1>2. \A i \in DOMAIN pending : pending[i] \in Message
  <2>1. pending \in Seq(Message)
    BY DEF RegisterInv, RegisterShape
  <2> QED
    BY <2>1, LenProperties
<1>3. \A i \in DOMAIN pending : pending[i].target \in Copies /\ pending[i].version <= latestVersion
  BY <1>1, <1>2 DEF Message
<1>4. RegisterTypeOK
  BY <1>1, <1>3 DEF RegisterTypeOK
<1>5. ASSUME register = "eventual", NEW r \in Copies, replicaVersion[r] < latestVersion
      PROVE  \E i \in DOMAIN pending :
               /\ pending[i] = [target |-> r, version |-> latestVersion]
               /\ \A j \in DOMAIN pending : j < i => pending[j].version <= pending[i].version
  <2>1. PICK i \in DOMAIN pending : pending[i] = [target |-> r, version |-> latestVersion]
    BY <1>5 DEF RegisterInv, Behind, Coming
  <2> QED
    BY <1>3, <2>1
<1>6. ASSUME register = "strong", NEW c \in Clients, NEW r \in Copies
      PROVE  registerRead(c, r) >= lastWrite[c]
  <2>1. registerRead(c, r) = latestVersion
    BY <1>6 DEF registerRead
  <2> QED
    BY <1>1, <2>1
<1>7. ASSUME register = "read-your-writes", NEW c \in Clients, NEW r \in Copies
      PROVE  registerRead(c, r) >= lastWrite[c]
  <2>1. session[c] = lastWrite[c] /\ session[c] \in Nat /\ replicaVersion[r] \in Nat
    BY <1>1, <1>7 DEF RegisterInv
  <2>2. registerRead(c, r) = IF session[c] > 0 THEN session[c] ELSE replicaVersion[r]
    BY <1>7 DEF registerRead
  <2> QED
    BY <2>1, <2>2
<1> QED
  BY <1>4, <1>5, <1>6, <1>7 DEF RegisterInv, RegistersKeepPromises

\* THEOREM RegistersKeep.  For any number of replicas, clients and writes the
\* strong, the eventual and the read-your-writes register keep their promises.
THEOREM RegistersKeep == RegisterSpec => []RegistersKeepPromises
<1>1. RegisterInit => RegisterInv
  BY RegistersStart
<1>2. RegisterInv /\ [RegisterNext]_registerVars => RegisterInv'
  <2> SUFFICES ASSUME RegisterInv, [RegisterNext]_registerVars PROVE RegisterInv'
    OBVIOUS
  <2>1. CASE UNCHANGED registerVars
    BY <2>1 DEF registerVars, RegisterInv, RegisterShape, Message, Behind, Coming
  <2>2. CASE RegisterNext
    BY <2>2, StrongWriteKeeps, EventualWriteKeeps, SessionWriteKeeps, TickKeeps, PropagateKeeps
    DEF RegisterNext
  <2> QED
    BY <2>1, <2>2
<1>3. RegisterInv => RegistersKeepPromises
  BY RegisterInvPromises
<1> QED
  BY <1>1, <1>2, <1>3, PTL DEF RegisterSpec

\* THEOREM PromisesAreKept.  The two programs of chapter 13 that trade
\* consistency keep in each of their modes exactly what the mode promises.
THEOREM PromisesAreKept == CapSpec /\ RegisterSpec => []ModesKeepPromises
<1>1. CapPromises /\ RegistersKeepPromises => ModesKeepPromises
  BY DEF ModesKeepPromises
<1> QED
  BY <1>1, CapKeepsPromises, RegistersKeep, PTL

(***************************************************************************)
(* The causal store (13-distributed-systems/consistency-models.ts).        *)
(***************************************************************************)

\* A write as a log holds it.
CausalEntry == [value : CausalValues, vc : VClock, id : Nat, seen : SUBSET Nat]

AtMost(a, b) == \A k \in CausalNodes : a[k] <= b[k]

Ids(entries) == {entries[h].id : h \in DOMAIN entries}

IdsBefore(entries, i) == {entries[h].id : h \in 1 .. (i - 1)}

CausalTypes ==
    /\ vc \in [CausalNodes -> VClock]
    /\ causalLog \in [CausalNodes -> Seq(CausalEntry)]
    /\ opCounter \in 0 .. MaxCausalWrites

\* No node knows of more writes of a node than that node has done.
OwnersLead == \A m, k \in CausalNodes : vc[m][k] <= vc[k][k]

\* A clock covers the writes in the log, and so does the counter.
ClocksCover ==
    \A n \in CausalNodes : \A e \in Range(causalLog[n]) :
       AtMost(e.vc, vc[n]) /\ e.id <= opCounter

\* A write has one number and one clock; one that another's author had seen has
\* an earlier clock.
Apart(e, f) ==
    /\ e.id = f.id => e = f
    /\ e.vc = f.vc => e.id = f.id
    /\ e.id \in f.seen => AtMost(e.vc, f.vc) /\ e.vc # f.vc

\* Whatever the logs that they stand in.
WritesDiffer ==
    \A m, n \in CausalNodes : \A e \in Range(causalLog[m]), f \in Range(causalLog[n]) : Apart(e, f)

\* A log: each write once, after those its author had seen.
InCausalOrder(entries) ==
    \A i \in DOMAIN entries :
       /\ entries[i].seen \subseteq IdsBefore(entries, i)
       /\ entries[i].id \notin IdsBefore(entries, i)

CausalInv ==
    /\ CausalTypes /\ OwnersLead /\ ClocksCover /\ WritesDiffer
    /\ \A n \in CausalNodes : InCausalOrder(causalLog[n])

-----------------------------------------------------------------------------
(* The two loops over a log, as functions: propagate() takes a node and an *)
(* entry to a node, read() the best entry so far and the next to the best. *)

NodeState == [log : Seq(CausalEntry), vc : VClock]

accepting(from) == [p \in NodeState \X CausalEntry |-> Accept(from, p[1], p[2])]

Later(best, e) ==
    CASE vclockCompare(best.vc, e.vc) = "before" -> e
      [] vclockCompare(best.vc, e.vc) = "concurrent" /\ e.value > best.value -> e
      [] OTHER -> best

reading == [p \in CausalEntry \X CausalEntry |-> Later(p[1], p[2])]

\* Merged clocks are clocks.
LEMMA MergeIsTyped ==
    ASSUME NEW a \in VClock, NEW b \in VClock
    PROVE  /\ vclockMerge(a, b) \in VClock
           /\ \A k \in CausalNodes : vclockMerge(a, b)[k] = IF a[k] >= b[k] THEN a[k] ELSE b[k]
  BY DEF vclockMerge, VClock

\* A node that accepts an entry, or does not, is a node.
LEMMA AcceptingIsTyped == \A from : accepting(from) \in Operations(NodeState, CausalEntry)
<1>1. ASSUME NEW from, NEW node \in NodeState, NEW e \in CausalEntry
      PROVE  Accept(from, node, e) \in NodeState
  <2>1. Append(node.log, e) \in Seq(CausalEntry)
    BY AppendProperties DEF NodeState
  <2>2. vclockMerge(node.vc, e.vc) \in VClock
    BY MergeIsTyped DEF NodeState, CausalEntry
  <2>3. QED
    BY <2>1, <2>2 DEF Accept, NodeState
<1>2. QED
  BY <1>1 DEF accepting, Operations

\* The later of two entries is an entry.
LEMMA ReadingIsTyped == reading \in Operations(CausalEntry, CausalEntry)
<1>1. ASSUME NEW best \in CausalEntry, NEW e \in CausalEntry PROVE Later(best, e) \in CausalEntry
  BY DEF Later
<1>2. QED
  BY <1>1 DEF reading, Operations

\* What propagate() folds.
LEMMA AcceptIsResult ==
    ASSUME NEW from, NEW base \in NodeState, NEW entries \in Seq(CausalEntry)
    PROVE  FoldLeft(LAMBDA node, entry : Accept(from, node, entry), base, entries) = Result(accepting(from), base, entries)
<1>1. PICK h \in [SUBSET DOMAIN entries -> NodeState] :
         \A s \in SUBSET DOMAIN entries : h[s] = Turned(accepting(from), base, entries, h, s)
  <2>1. HasTable(NodeState, accepting(from), base, entries)
    BY AcceptingIsTyped, FoldExists
  <2>2. QED
    BY <2>1 DEF HasTable
<1>2. \A s \in SUBSET DOMAIN entries :
         s # {} => entries[Max(s)] \in CausalEntry /\ s \ {Max(s)} \in SUBSET DOMAIN entries
  BY TurnsAreTyped
<1>3. \A x \in NodeState, e \in CausalEntry : accepting(from)[<<x, e>>] = Accept(from, x, e)
  BY DEF accepting
<1>4. h = [s \in SUBSET DOMAIN entries |->
             IF s = {} THEN base ELSE Accept(from, h[s \ {Max(s)}], entries[Max(s)])]
  <2>1. ASSUME NEW s \in SUBSET DOMAIN entries
        PROVE  h[s] = IF s = {} THEN base ELSE Accept(from, h[s \ {Max(s)}], entries[Max(s)])
    <3>1. CASE s = {}
      BY <1>1, <3>1 DEF Turned
    <3>2. CASE s # {}
      <4>1. PICK x \in NodeState, e \in CausalEntry : x = h[s \ {Max(s)}] /\ e = entries[Max(s)]
        BY <1>1, <1>2, <3>2
      <4>2. h[s] = accepting(from)[<<x, e>>]
        BY <1>1, <3>2, <4>1 DEF Turned
      <4>3. QED
        BY <1>3, <3>2, <4>1, <4>2
    <3>3. QED
      BY <3>1, <3>2
  <2>2. QED
    BY <1>1, <2>1
<1>5. PICK g : /\ g = [s \in SUBSET DOMAIN entries |->
                         IF s = {} THEN base ELSE Accept(from, g[s \ {Max(s)}], entries[Max(s)])]
               /\ FoldLeft(LAMBDA node, entry : Accept(from, node, entry), base, entries) = g[DOMAIN entries]
  BY <1>4 DEF FoldLeft, MapThenFoldSet
<1>6. Tabulates(NodeState, accepting(from), base, entries, g)
  <2>1. g[{}] = base
    BY <1>5
  <2>2. ASSUME NEW s \in SUBSET DOMAIN entries, s # {}, g[s \ {Max(s)}] \in NodeState
        PROVE  g[s] = accepting(from)[<<g[s \ {Max(s)}], entries[Max(s)]>>]
    <3>1. PICK x \in NodeState, e \in CausalEntry : x = g[s \ {Max(s)}] /\ e = entries[Max(s)]
      BY <1>2, <2>2
    <3>2. g[s] = Accept(from, x, e)
      BY <1>5, <2>2, <3>1
    <3>3. QED
      BY <1>3, <3>1, <3>2
  <2>3. QED
    BY <2>1, <2>2 DEF Tabulates
<1>7. g[DOMAIN entries] = Result(accepting(from), base, entries)
  BY <1>6, AcceptingIsTyped, FoldIsResult
<1>8. QED
  BY <1>5, <1>7

\* What read() folds.
LEMMA ReadIsResult ==
    ASSUME NEW base \in CausalEntry, NEW entries \in Seq(CausalEntry)
    PROVE  FoldLeft(LAMBDA best, e :
                CASE vclockCompare(best.vc, e.vc) = "before" -> e
                  [] vclockCompare(best.vc, e.vc) = "concurrent" /\ e.value > best.value -> e
                  [] OTHER -> best, base, entries) = Result(reading, base, entries)
<1>1. PICK h \in [SUBSET DOMAIN entries -> CausalEntry] :
         \A s \in SUBSET DOMAIN entries : h[s] = Turned(reading, base, entries, h, s)
  <2>1. HasTable(CausalEntry, reading, base, entries)
    BY ReadingIsTyped, FoldExists
  <2>2. QED
    BY <2>1 DEF HasTable
<1>2. \A s \in SUBSET DOMAIN entries :
         s # {} => entries[Max(s)] \in CausalEntry /\ s \ {Max(s)} \in SUBSET DOMAIN entries
  BY TurnsAreTyped
<1>3. \A x \in CausalEntry, e \in CausalEntry : reading[<<x, e>>] = Later(x, e)
  BY DEF reading
<1>4. h = [s \in SUBSET DOMAIN entries |->
             IF s = {} THEN base ELSE Later(h[s \ {Max(s)}], entries[Max(s)])]
  <2>1. ASSUME NEW s \in SUBSET DOMAIN entries
        PROVE  h[s] = IF s = {} THEN base ELSE Later(h[s \ {Max(s)}], entries[Max(s)])
    <3>1. CASE s = {}
      BY <1>1, <3>1 DEF Turned
    <3>2. CASE s # {}
      <4>1. PICK x \in CausalEntry, e \in CausalEntry : x = h[s \ {Max(s)}] /\ e = entries[Max(s)]
        BY <1>1, <1>2, <3>2
      <4>2. h[s] = reading[<<x, e>>]
        BY <1>1, <3>2, <4>1 DEF Turned
      <4>3. QED
        BY <1>3, <3>2, <4>1, <4>2
    <3>3. QED
      BY <3>1, <3>2
  <2>2. QED
    BY <1>1, <2>1
<1>5. PICK g : /\ g = [s \in SUBSET DOMAIN entries |->
                         IF s = {} THEN base ELSE Later(g[s \ {Max(s)}], entries[Max(s)])]
               /\ FoldLeft(LAMBDA best, e :
                CASE vclockCompare(best.vc, e.vc) = "before" -> e
                  [] vclockCompare(best.vc, e.vc) = "concurrent" /\ e.value > best.value -> e
                  [] OTHER -> best, base, entries) = g[DOMAIN entries]
  BY <1>4 DEF FoldLeft, MapThenFoldSet, Later
<1>6. Tabulates(CausalEntry, reading, base, entries, g)
  <2>1. g[{}] = base
    BY <1>5
  <2>2. ASSUME NEW s \in SUBSET DOMAIN entries, s # {}, g[s \ {Max(s)}] \in CausalEntry
        PROVE  g[s] = reading[<<g[s \ {Max(s)}], entries[Max(s)]>>]
    <3>1. PICK x \in CausalEntry, e \in CausalEntry : x = g[s \ {Max(s)}] /\ e = entries[Max(s)]
      BY <1>2, <2>2
    <3>2. g[s] = Later(x, e)
      BY <1>5, <2>2, <3>1
    <3>3. QED
      BY <1>3, <3>1, <3>2
  <2>3. QED
    BY <2>1, <2>2 DEF Tabulates
<1>7. g[DOMAIN entries] = Result(reading, base, entries)
  BY <1>6, ReadingIsTyped, FoldIsResult
<1>8. QED
  BY <1>5, <1>7

-----------------------------------------------------------------------------

\* The entries of a log are entries.
LEMMA EntriesAreTyped ==
    ASSUME NEW entries \in Seq(CausalEntry)
    PROVE  /\ Range(entries) \subseteq CausalEntry /\ DOMAIN entries = 1 .. Len(entries) /\ Len(entries) \in Nat
           /\ Ids(entries) \subseteq Nat
<1>1. /\ DOMAIN entries = 1 .. Len(entries) /\ Len(entries) \in Nat
      /\ \A i \in DOMAIN entries : entries[i] \in CausalEntry
  BY LenProperties
<1>2. QED
  BY <1>1 DEF Range, Ids, CausalEntry

\* A write appended to a log is one more entry.
LEMMA EntriesOfAppend ==
    ASSUME NEW entries \in Seq(CausalEntry), NEW e \in CausalEntry
    PROVE  /\ Append(entries, e) \in Seq(CausalEntry)
           /\ Range(Append(entries, e)) = Range(entries) \cup {e}
           /\ Ids(Append(entries, e)) = Ids(entries) \cup {e.id}
<1>1. /\ Append(entries, e) \in Seq(CausalEntry) /\ Len(Append(entries, e)) = Len(entries) + 1
      /\ \A i \in 1 .. Len(entries) : Append(entries, e)[i] = entries[i]
      /\ Append(entries, e)[Len(entries) + 1] = e
  BY AppendProperties
<1>2. DOMAIN entries = 1 .. Len(entries) /\ Len(entries) \in Nat
  BY EntriesAreTyped
<1>3. DOMAIN Append(entries, e) = 1 .. Len(entries) + 1
  BY <1>1, LenProperties
<1>4. PICK longer \in Seq(CausalEntry) : longer = Append(entries, e)
  BY <1>1
<1>5. Range(longer) = Range(entries) \cup {e}
  BY <1>1, <1>2, <1>3, <1>4 DEF Range
<1>6. Ids(longer) = Ids(entries) \cup {e.id}
  BY <1>1, <1>2, <1>3, <1>4 DEF Ids
<1>7. QED
  BY <1>1, <1>4, <1>5, <1>6

\* A new write after all that its author had seen leaves a log in order.
LEMMA OrderOfAppend ==
    ASSUME NEW entries \in Seq(CausalEntry), NEW e \in CausalEntry, InCausalOrder(entries),
           e.seen \subseteq Ids(entries), e.id \notin Ids(entries)
    PROVE  InCausalOrder(Append(entries, e))
<1>1. /\ Append(entries, e) \in Seq(CausalEntry) /\ Len(Append(entries, e)) = Len(entries) + 1
      /\ \A i \in 1 .. Len(entries) : Append(entries, e)[i] = entries[i]
      /\ Append(entries, e)[Len(entries) + 1] = e
  BY AppendProperties
<1>2. DOMAIN entries = 1 .. Len(entries) /\ Len(entries) \in Nat
  BY EntriesAreTyped
<1>3. PICK longer \in Seq(CausalEntry) : longer = Append(entries, e)
  BY <1>1
<1>4. DOMAIN longer = 1 .. Len(entries) + 1
  BY <1>1, <1>3, LenProperties
<1>5. \A i \in 1 .. Len(entries) + 1 : IdsBefore(longer, i) = IdsBefore(entries, i)
  BY <1>1, <1>2, <1>3 DEF IdsBefore
<1>6. IdsBefore(entries, Len(entries) + 1) = Ids(entries)
  BY <1>2 DEF IdsBefore, Ids
<1>7. ASSUME NEW i \in 1 .. Len(entries) + 1
      PROVE  longer[i].seen \subseteq IdsBefore(longer, i) /\ longer[i].id \notin IdsBefore(longer, i)
  <2>1. CASE i \in 1 .. Len(entries)
    BY <1>1, <1>2, <1>3, <1>5, <2>1 DEF InCausalOrder
  <2>2. CASE i = Len(entries) + 1
    BY <1>1, <1>3, <1>5, <1>6, <2>2
  <2>3. QED
    BY <1>2, <2>1, <2>2
<1>8. QED
  BY <1>3, <1>4, <1>7 DEF InCausalOrder

\* A clock that another covers, and is not, is before it.
LEMMA CompareBefore ==
    ASSUME NEW a \in VClock, NEW b \in VClock, AtMost(a, b), a # b
    PROVE  vclockCompare(a, b) = "before"
<1>1. \E k \in CausalNodes : a[k] < b[k]
  BY DEF VClock, AtMost
<1>2. ~\E k \in CausalNodes : a[k] > b[k]
  BY DEF VClock, AtMost
<1>3. QED
  BY <1>1, <1>2 DEF vclockCompare

-----------------------------------------------------------------------------
(* One entry of a sender's log arrives at a node.                          *)

\* What has become of the receiver's log and clock once i entries of the sender's
\* log have been looked at: the clock differs only in what the sender wrote, the
\* log is in causal order, and an entry it still lacks waits for a write that
\* the receiver did not know when the propagation began.
ReceiverKeepsOrder(node, i, from, to) ==
    /\ Range(node.log) \subseteq Range(causalLog[from]) \cup Range(causalLog[to])
    /\ \A k \in CausalNodes \ {from} : node.vc[k] = vc[to][k]
    /\ node.vc[from] <= vc[from][from]
    /\ \A e \in Range(node.log) : AtMost(e.vc, node.vc)
    /\ InCausalOrder(node.log)
    /\ \A h \in 1 .. i :
          \/ causalLog[from][h].id \in Ids(node.log)
          \/ \E k \in CausalNodes \ {from} : causalLog[from][h].vc[k] > vc[to][k]

LEMMA AcceptKeepsOrder ==
    ASSUME CausalInv, NEW from \in CausalNodes, NEW to \in CausalNodes \ {from},
           NEW i \in 1 .. Len(causalLog[from]), NEW node \in NodeState,
           ReceiverKeepsOrder(node, i - 1, from, to)
    PROVE  ReceiverKeepsOrder(Accept(from, node, causalLog[from][i]), i, from, to)
<1> DEFINE sent == causalLog[from]
<1> DEFINE e == causalLog[from][i]
<1>1. /\ sent \in Seq(CausalEntry) /\ causalLog[to] \in Seq(CausalEntry)
      /\ vc[from] \in VClock /\ vc[to] \in VClock /\ i \in Nat
  BY DEF CausalInv, CausalTypes
<1>2. /\ DOMAIN sent = 1 .. Len(sent) /\ Len(sent) \in Nat /\ \A h \in 1 .. Len(sent) : sent[h] \in CausalEntry
      /\ e \in Range(sent) /\ e \in CausalEntry
  BY <1>1, LenProperties DEF Range
<1>3. /\ Range(sent) \subseteq CausalEntry /\ Range(causalLog[to]) \subseteq CausalEntry
      /\ node.log \in Seq(CausalEntry) /\ node.vc \in VClock /\ Range(node.log) \subseteq CausalEntry
  BY <1>1, EntriesAreTyped DEF NodeState
<1>4. \A f, g \in Range(sent) \cup Range(causalLog[to]) : Apart(f, g)
  BY DEF CausalInv, WritesDiffer
<1>5. AtMost(e.vc, vc[from])
  BY <1>2 DEF CausalInv, ClocksCover
<1>6. CASE Seen(node.log, e)
  <2>1. PICK h \in DOMAIN node.log : node.log[h].vc = e.vc
    BY <1>6 DEF Seen
  <2>2. node.log[h] \in Range(node.log) /\ node.log[h].id \in Ids(node.log)
    BY DEF Range, Ids
  <2>3. e.id \in Ids(node.log)
    BY <1>2, <1>4, <2>1, <2>2 DEF ReceiverKeepsOrder, Apart
  <2>4. Accept(from, node, e) = node
    BY <1>6 DEF Accept
  <2>5. QED
    BY <1>1, <2>3, <2>4 DEF ReceiverKeepsOrder
<1>7. CASE ~ready(from, node.vc, e)
  <2>1. PICK k \in CausalNodes \ {from} : ~(e.vc[k] <= node.vc[k])
    BY <1>7 DEF ready
  <2>2. e.vc[k] > vc[to][k]
    <3>1. e.vc \in VClock
      BY <1>2 DEF CausalEntry
    <3>2. e.vc[k] \in Nat /\ vc[to][k] \in Nat
      BY <1>1, <3>1 DEF VClock
    <3>3. node.vc[k] = vc[to][k]
      BY DEF ReceiverKeepsOrder
    <3>4. QED
      BY <2>1, <3>2, <3>3
  <2>3. Accept(from, node, e) = node
    BY <1>7 DEF Accept
  <2>4. QED
    BY <1>1, <2>2, <2>3 DEF ReceiverKeepsOrder
<1>8. CASE ~Seen(node.log, e) /\ ready(from, node.vc, e)
  <2> DEFINE stamp == vclockMerge(node.vc, e.vc)
  <2>1. Accept(from, node, e) = [log |-> Append(node.log, e), vc |-> stamp]
    BY <1>8 DEF Accept
  <2>2. e.vc \in VClock
    BY <1>2 DEF CausalEntry
  <2>3. stamp \in VClock /\ \A k \in CausalNodes : stamp[k] = IF node.vc[k] >= e.vc[k] THEN node.vc[k] ELSE e.vc[k]
    BY <1>3, <2>2, MergeIsTyped
  <2> HIDE DEF stamp
  <2>4. \A k \in CausalNodes \ {from} : stamp[k] = vc[to][k]
    BY <1>3, <1>8, <2>2, <2>3 DEF ready, VClock, ReceiverKeepsOrder
  <2>5. stamp[from] <= vc[from][from]
    BY <1>1, <1>3, <1>5, <2>2, <2>3 DEF AtMost, VClock, ReceiverKeepsOrder
  <2>6. AtMost(e.vc, stamp) /\ \A f \in Range(node.log) : AtMost(f.vc, stamp)
    <3>1. AtMost(node.vc, stamp) /\ AtMost(e.vc, stamp)
      <4>1. \A k \in CausalNodes : node.vc[k] \in Nat /\ e.vc[k] \in Nat
        BY <1>3, <2>2 DEF VClock
      <4>2. \A k \in CausalNodes : node.vc[k] <= stamp[k] /\ e.vc[k] <= stamp[k]
        BY <2>3, <4>1
      <4>3. QED
        BY <4>2 DEF AtMost
    <3>2. \A f \in Range(node.log) : AtMost(f.vc, node.vc) /\ f.vc \in VClock
      BY <1>3 DEF ReceiverKeepsOrder, CausalEntry
    <3>3. QED
      BY <1>3, <2>3, <3>1, <3>2 DEF AtMost, VClock
  <2>7. e.id \notin Ids(node.log)
    <3>1. SUFFICES ASSUME NEW h \in DOMAIN node.log, node.log[h].id = e.id PROVE FALSE
      BY DEF Ids
    <3>2. node.log[h] \in Range(node.log)
      BY DEF Range
    <3>3. node.log[h] = e
      BY <1>2, <1>4, <3>1, <3>2 DEF ReceiverKeepsOrder, Apart
    <3>4. QED
      BY <1>8, <3>3 DEF Seen
  <2>8. e.seen \subseteq Ids(node.log)
    <3>1. SUFFICES ASSUME NEW id \in e.seen PROVE id \in Ids(node.log)
      OBVIOUS
    <3>2. id \in IdsBefore(sent, i)
      BY <1>2 DEF CausalInv, InCausalOrder
    <3>3. PICK h \in 1 .. (i - 1) : id = sent[h].id
      BY <3>2 DEF IdsBefore
    <3>4. sent[h] \in Range(sent) /\ sent[h].vc \in VClock
      BY <1>2 DEF Range, CausalEntry
    <3>5. AtMost(sent[h].vc, e.vc)
      BY <1>2, <1>4, <3>1, <3>3, <3>4 DEF Apart
    <3>6. ASSUME NEW k \in CausalNodes \ {from}, sent[h].vc[k] > vc[to][k] PROVE FALSE
      <4>1. sent[h].vc[k] <= e.vc[k] /\ e.vc[k] <= node.vc[k] /\ node.vc[k] = vc[to][k]
        BY <1>8, <3>5 DEF AtMost, ready, ReceiverKeepsOrder
      <4>2. sent[h].vc[k] \in Nat /\ e.vc[k] \in Nat /\ vc[to][k] \in Nat
        BY <1>1, <2>2, <3>4 DEF VClock
      <4>3. QED
        BY <3>6, <4>1, <4>2
    <3>7. QED
      BY <3>3, <3>6 DEF ReceiverKeepsOrder
  <2>9. /\ Range(Append(node.log, e)) = Range(node.log) \cup {e}
        /\ Ids(Append(node.log, e)) = Ids(node.log) \cup {e.id}
    BY <1>2, <1>3, EntriesOfAppend
  <2>10. InCausalOrder(Append(node.log, e))
    BY <1>2, <1>3, <2>7, <2>8, OrderOfAppend DEF ReceiverKeepsOrder
  <2>11. ASSUME NEW h \in 1 .. i
         PROVE  \/ sent[h].id \in Ids(Append(node.log, e))
                \/ \E k \in CausalNodes \ {from} : sent[h].vc[k] > vc[to][k]
    <3>1. CASE h = i
      BY <2>9, <3>1
    <3>2. CASE h \in 1 .. (i - 1)
      BY <2>9, <3>2 DEF ReceiverKeepsOrder
    <3>3. QED
      BY <1>1, <3>1, <3>2
  <2>12. QED
    <3>1. PICK after : after = [log |-> Append(node.log, e), vc |-> stamp]
      OBVIOUS
    <3>2. after.log = Append(node.log, e) /\ after.vc = stamp
      BY <3>1
    <3>3. ReceiverKeepsOrder(after, i, from, to)
      BY <1>2, <2>4, <2>5, <2>6, <2>9, <2>10, <2>11, <3>2 DEF ReceiverKeepsOrder
    <3>4. QED
      BY <2>1, <3>1, <3>3
<1>9. QED
  BY <1>6, <1>7, <1>8

\* propagate(): the receiver's log and clock after the whole log of the sender.
LEMMA PropagationKeepsOrder ==
    ASSUME CausalInv, NEW from \in CausalNodes, NEW to \in CausalNodes \ {from}, propagate(from, to)
    PROVE  \E node \in NodeState :
              /\ ReceiverKeepsOrder(node, Len(causalLog[from]), from, to)
              /\ causalLog' = [causalLog EXCEPT ![to] = node.log]
              /\ vc' = [vc EXCEPT ![to] = node.vc]
              /\ opCounter' = opCounter
<1> DEFINE sent == causalLog[from]
<1>1. /\ sent \in Seq(CausalEntry) /\ causalLog[to] \in Seq(CausalEntry)
      /\ vc[from] \in VClock /\ vc[to] \in VClock
  BY DEF CausalInv, CausalTypes
<1>2. Len(sent) \in Nat /\ \A h \in 1 .. Len(sent) : sent[h] \in CausalEntry
  BY <1>1, LenProperties
<1>3. PICK base \in NodeState : base = [log |-> causalLog[to], vc |-> vc[to]]
  BY <1>1 DEF NodeState
<1>4. PICK result \in NodeState : result = Result(accepting(from), base, sent)
  BY <1>1, AcceptingIsTyped, ResultIsTyped
<1>5. FoldLeft(LAMBDA node, entry : Accept(from, node, entry), base, sent) = result
  BY <1>1, <1>4, AcceptIsResult
<1>6. PICK r \in [0 .. Len(sent) -> NodeState] :
         /\ r[0] = base /\ \A i \in 1 .. Len(sent) : r[i] = accepting(from)[<<r[i - 1], sent[i]>>]
         /\ r[Len(sent)] = result
  <2>1. PICK op \in Operations(NodeState, CausalEntry) : op = accepting(from)
    BY AcceptingIsTyped
  <2>2. PICK seq \in Seq(CausalEntry) : seq = sent
    BY <1>1
  <2>3. \E r \in [0 .. Len(seq) -> NodeState] :
           /\ r[0] = base /\ \A i \in 1 .. Len(seq) : r[i] = op[<<r[i - 1], seq[i]>>]
           /\ r[Len(seq)] = Result(op, base, seq)
    BY ResultInSteps
  <2>4. QED
    BY <1>4, <2>1, <2>2, <2>3
<1>7. ReceiverKeepsOrder(base, 0, from, to)
  <2>1. base.log = causalLog[to] /\ base.vc = vc[to]
    BY <1>3
  <2>2. InCausalOrder(base.log) /\ \A e \in Range(base.log) : AtMost(e.vc, base.vc)
    BY <2>1 DEF CausalInv, ClocksCover
  <2>3. base.vc[from] <= vc[from][from]
    BY <2>1 DEF CausalInv, OwnersLead
  <2>4. QED
    BY <2>1, <2>2, <2>3 DEF ReceiverKeepsOrder
<1>8. \A i \in 1 .. Len(sent) :
         ReceiverKeepsOrder(r[i - 1], i - 1, from, to) => ReceiverKeepsOrder(r[i], i, from, to)
  <2>1. SUFFICES ASSUME NEW i \in 1 .. Len(sent), ReceiverKeepsOrder(r[i - 1], i - 1, from, to)
                 PROVE  ReceiverKeepsOrder(r[i], i, from, to)
    OBVIOUS
  <2>2. PICK before \in NodeState : before = r[i - 1]
    <3>1. i - 1 \in 0 .. Len(sent)
      BY <1>2
    <3>2. QED
      BY <3>1
  <2>3. r[i] = accepting(from)[<<before, sent[i]>>] /\ sent[i] \in CausalEntry
    BY <1>2, <1>6, <2>2
  <2>4. r[i] = Accept(from, before, sent[i])
    BY <2>3 DEF accepting
  <2>5. QED
    BY <2>1, <2>2, <2>4, AcceptKeepsOrder
<1>9. ReceiverKeepsOrder(r[Len(sent)], Len(sent), from, to)
  <2> DEFINE G == {i \in Nat : i <= Len(sent) => ReceiverKeepsOrder(r[i], i, from, to)}
  <2>1. 0 \in G
    BY <1>6, <1>7
  <2>2. ASSUME NEW i \in Nat, i \in G PROVE i + 1 \in G
    <3>1. SUFFICES ASSUME i + 1 <= Len(sent) PROVE ReceiverKeepsOrder(r[i + 1], i + 1, from, to)
      OBVIOUS
    <3>2. PICK k \in 1 .. Len(sent) : k = i + 1 /\ k - 1 = i
      BY <1>2, <3>1
    <3>3. ReceiverKeepsOrder(r[k - 1], k - 1, from, to)
      BY <1>2, <2>2, <3>1, <3>2
    <3>4. QED
      BY <1>8, <3>2, <3>3
  <2> HIDE DEF G
  <2>3. Nat \subseteq G
    BY <2>1, <2>2, CountingUp
  <2>4. QED
    BY <1>2, <2>3 DEF G
<1>10. /\ causalLog' = [causalLog EXCEPT ![to] = result.log]
       /\ vc' = [vc EXCEPT ![to] = result.vc]
       /\ opCounter' = opCounter
  BY <1>3, <1>5 DEF propagate
<1>11. QED
  BY <1>6, <1>9, <1>10

\* What one node takes over from another is in causal order.
LEMMA PropagationKeeps ==
    ASSUME CausalInv, NEW from \in CausalNodes, NEW to \in CausalNodes \ {from}, propagate(from, to)
    PROVE  CausalInv'
<1>1. PICK node \in NodeState :
         /\ ReceiverKeepsOrder(node, Len(causalLog[from]), from, to)
         /\ causalLog' = [causalLog EXCEPT ![to] = node.log]
         /\ vc' = [vc EXCEPT ![to] = node.vc]
         /\ opCounter' = opCounter
  BY PropagationKeepsOrder
<1>2. node.log \in Seq(CausalEntry) /\ node.vc \in VClock
  BY DEF NodeState
<1>3. CausalTypes'
  BY <1>1, <1>2 DEF CausalInv, CausalTypes
<1>4. /\ causalLog'[to] = node.log /\ vc'[to] = node.vc
      /\ \A n \in CausalNodes \ {to} : causalLog'[n] = causalLog[n] /\ vc'[n] = vc[n]
  BY <1>1 DEF CausalInv, CausalTypes
<1>5. OwnersLead'
  <2>1. SUFFICES ASSUME NEW m \in CausalNodes, NEW k \in CausalNodes PROVE vc'[m][k] <= vc'[k][k]
    BY DEF OwnersLead
  <2>2. vc'[k][k] = vc[k][k]
    BY <1>1, <1>4 DEF ReceiverKeepsOrder
  <2>3. vc'[m][k] <= vc[k][k]
    <3>1. CASE m # to
      BY <1>4, <3>1 DEF CausalInv, OwnersLead
    <3>2. CASE m = to /\ k # from
      BY <1>1, <1>4, <3>2 DEF CausalInv, OwnersLead, ReceiverKeepsOrder
    <3>3. CASE m = to /\ k = from
      BY <1>1, <1>4, <3>3 DEF ReceiverKeepsOrder
    <3>4. QED
      BY <3>1, <3>2, <3>3
  <2>4. QED
    BY <2>2, <2>3
<1>6. \A n \in CausalNodes : \A e \in Range(causalLog'[n]) : \E m \in CausalNodes : e \in Range(causalLog[m])
  BY <1>1, <1>4 DEF ReceiverKeepsOrder
<1>7. ClocksCover'
  <2>1. SUFFICES ASSUME NEW n \in CausalNodes, NEW e \in Range(causalLog'[n])
                 PROVE  AtMost(e.vc, vc'[n]) /\ e.id <= opCounter'
    BY DEF ClocksCover, AtMost
  <2>2. e.id <= opCounter'
    BY <1>1, <1>6 DEF CausalInv, ClocksCover
  <2>3. AtMost(e.vc, vc'[n])
    <3>1. CASE n = to
      BY <1>1, <1>4, <3>1 DEF ReceiverKeepsOrder
    <3>2. CASE n # to
      BY <1>4, <3>2 DEF CausalInv, ClocksCover
    <3>3. QED
      BY <3>1, <3>2
  <2>4. QED
    BY <2>2, <2>3
<1>8. WritesDiffer'
  <2>1. SUFFICES ASSUME NEW m \in CausalNodes, NEW n \in CausalNodes,
                        NEW e \in Range(causalLog'[m]), NEW f \in Range(causalLog'[n])
                 PROVE  Apart(e, f)
    BY DEF WritesDiffer, Apart, AtMost
  <2>2. QED
    BY <1>6 DEF CausalInv, WritesDiffer
<1>9. \A n \in CausalNodes : InCausalOrder(causalLog'[n])
  BY <1>1, <1>4 DEF CausalInv, ReceiverKeepsOrder
<1>10. QED
  BY <1>3, <1>5, <1>7, <1>8, <1>9 DEF CausalInv, InCausalOrder, IdsBefore

\* A write follows all that its node has seen.
LEMMA CausalWriteKeeps ==
    ASSUME CausalInv, CausalAssumption, NEW n \in CausalNodes, NEW val \in CausalValues, causalWrite(n, val)
    PROVE  CausalInv'
<1> DEFINE log == causalLog[n]
<1>1. /\ log \in Seq(CausalEntry) /\ vc[n] \in VClock /\ opCounter \in Nat
      /\ \A m \in CausalNodes : causalLog[m] \in Seq(CausalEntry) /\ vc[m] \in VClock
  BY DEF CausalInv, CausalTypes, CausalAssumption
<1>2. PICK stamp \in VClock : stamp = [vc[n] EXCEPT ![n] = @ + 1]
  <2>1. vc[n][n] + 1 \in Nat
    BY <1>1 DEF VClock
  <2>2. [vc[n] EXCEPT ![n] = vc[n][n] + 1] \in VClock
    BY <1>1, <2>1 DEF VClock
  <2>3. QED
    BY <2>2
<1>3. stamp[n] = vc[n][n] + 1 /\ (\A k \in CausalNodes \ {n} : stamp[k] = vc[n][k]) /\ vc[n][n] \in Nat
  BY <1>1, <1>2 DEF VClock
<1>4. vc' = [vc EXCEPT ![n] = stamp]
  BY <1>1, <1>2 DEF causalWrite, CausalInv, CausalTypes
<1>5. PICK e : e = [value |-> val, vc |-> stamp, id |-> opCounter + 1, seen |-> Ids(log)]
  OBVIOUS
<1>6. e.vc = stamp /\ e.id = opCounter + 1 /\ e.seen = Ids(log) /\ e \in CausalEntry
  <2>1. Ids(log) \in SUBSET Nat /\ opCounter + 1 \in Nat
    BY <1>1, EntriesAreTyped
  <2>2. QED
    BY <1>5, <2>1 DEF CausalEntry
<1>7. causalLog' = [causalLog EXCEPT ![n] = Append(log, e)]
  <2>1. vc'[n] = stamp
    BY <1>4 DEF CausalInv, CausalTypes
  <2>2. QED
    BY <1>5, <2>1 DEF causalWrite, CausalInv, CausalTypes, Ids
<1>8. opCounter' = opCounter + 1 /\ opCounter' \in 0 .. MaxCausalWrites
  BY DEF causalWrite, CausalInv, CausalTypes, CausalAssumption
<1>9. /\ Append(log, e) \in Seq(CausalEntry) /\ Range(Append(log, e)) = Range(log) \cup {e}
  BY <1>1, <1>6, EntriesOfAppend
<1>10. CausalTypes'
  BY <1>4, <1>7, <1>8, <1>9 DEF CausalInv, CausalTypes
<1>11. /\ causalLog'[n] = Append(log, e) /\ vc'[n] = stamp
       /\ \A m \in CausalNodes \ {n} : causalLog'[m] = causalLog[m] /\ vc'[m] = vc[m]
  BY <1>4, <1>7 DEF CausalInv, CausalTypes
<1>12. OwnersLead'
  <2>1. SUFFICES ASSUME NEW m \in CausalNodes, NEW k \in CausalNodes PROVE vc'[m][k] <= vc'[k][k]
    BY DEF OwnersLead
  <2>2. vc[m][k] <= vc[k][k] /\ vc[m][k] \in Nat /\ vc[k][k] \in Nat
    BY <1>1 DEF CausalInv, OwnersLead, VClock
  <2>3. CASE m # n /\ k # n
    BY <1>11, <2>2, <2>3
  <2>4. CASE m = n /\ k # n
    BY <1>3, <1>11, <2>2, <2>4
  <2>5. CASE m # n /\ k = n
    BY <1>3, <1>11, <2>2, <2>5
  <2>6. CASE m = n /\ k = n
    BY <1>3, <1>11, <2>2, <2>6
  <2>7. QED
    BY <2>3, <2>4, <2>5, <2>6
<1>13. ASSUME NEW m \in CausalNodes, NEW f \in Range(causalLog[m])
       PROVE  /\ f \in CausalEntry /\ f.vc \in VClock /\ f.id \in Nat
              /\ AtMost(f.vc, vc[m]) /\ f.id <= opCounter /\ f.id \notin f.seen /\ (opCounter + 1) \notin f.seen
  <2>1. f \in CausalEntry /\ f.vc \in VClock /\ f.id \in Nat
    BY <1>1, EntriesAreTyped DEF CausalEntry
  <2>2. AtMost(f.vc, vc[m]) /\ f.id <= opCounter
    BY DEF CausalInv, ClocksCover
  <2>3. PICK i \in DOMAIN causalLog[m] : f = causalLog[m][i]
    BY DEF Range
  <2>4. f.seen \subseteq IdsBefore(causalLog[m], i) /\ f.id \notin IdsBefore(causalLog[m], i)
    BY <2>3 DEF CausalInv, InCausalOrder
  <2>5. ASSUME NEW id \in f.seen PROVE id <= opCounter
    <3>1. PICK h \in 1 .. (i - 1) : id = causalLog[m][h].id
      BY <2>4 DEF IdsBefore
    <3>2. causalLog[m][h] \in Range(causalLog[m])
      <4>1. DOMAIN causalLog[m] = 1 .. Len(causalLog[m]) /\ Len(causalLog[m]) \in Nat
        BY <1>1, EntriesAreTyped
      <4>2. h \in DOMAIN causalLog[m]
        BY <4>1
      <4>3. QED
        BY <4>2 DEF Range
    <3>3. QED
      BY <3>1, <3>2 DEF CausalInv, ClocksCover
  <2>6. (opCounter + 1) \notin f.seen
    BY <1>1, <2>5
  <2>7. QED
    BY <2>1, <2>2, <2>4, <2>6
<1>14. AtMost(vc[n], stamp)
  <2>1. \A k \in CausalNodes : vc[n][k] \in Nat
    BY <1>1 DEF VClock
  <2>2. QED
    BY <1>3, <2>1 DEF AtMost
<1>15. ASSUME NEW m \in CausalNodes, NEW f \in Range(causalLog[m])
       PROVE  /\ f.id # e.id /\ f.vc # e.vc /\ e.id \notin f.seen
              /\ f.id \in e.seen => AtMost(f.vc, e.vc)
  <2>1. f.id # e.id /\ e.id \notin f.seen
    BY <1>1, <1>6, <1>13
  <2>2. f.vc[n] <= vc[m][n] /\ vc[m][n] <= vc[n][n] /\ f.vc[n] \in Nat /\ vc[m][n] \in Nat
    BY <1>1, <1>13 DEF AtMost, CausalInv, OwnersLead, VClock
  <2>3. f.vc # e.vc
    BY <1>3, <1>6, <2>2
  <2>4. ASSUME f.id \in e.seen PROVE AtMost(f.vc, e.vc)
    <3>1. PICK i \in DOMAIN log : f.id = log[i].id
      BY <1>6, <2>4 DEF Ids
    <3>2. log[i] \in Range(log)
      BY DEF Range
    <3>3. f = log[i]
      BY <3>1, <3>2 DEF CausalInv, WritesDiffer, Apart
    <3>4. AtMost(f.vc, vc[n]) /\ f.vc \in VClock
      BY <1>13, <3>2, <3>3
    <3>5. QED
      <4>1. \A k \in CausalNodes : f.vc[k] <= vc[n][k] /\ vc[n][k] <= stamp[k]
        BY <1>14, <3>4 DEF AtMost
      <4>2. \A k \in CausalNodes : f.vc[k] \in Nat /\ vc[n][k] \in Nat /\ stamp[k] \in Nat
        BY <1>1, <3>4 DEF VClock
      <4>3. QED
        BY <1>6, <4>1, <4>2 DEF AtMost
  <2>5. QED
    BY <2>1, <2>3, <2>4
<1>16. \A m \in CausalNodes : \A f \in Range(causalLog'[m]) :
          f = e \/ \E k \in CausalNodes : f \in Range(causalLog[k])
  BY <1>9, <1>11
<1>17. WritesDiffer'
  <2>1. SUFFICES ASSUME NEW k \in CausalNodes, NEW m \in CausalNodes,
                        NEW f \in Range(causalLog'[k]), NEW g \in Range(causalLog'[m])
                 PROVE  Apart(f, g)
    BY DEF WritesDiffer, Apart, AtMost
  <2>2. CASE f = e /\ g = e
    <3>1. e.id \notin e.seen
      BY <1>6, <1>15 DEF Ids, Range
    <3>2. QED
      BY <2>2, <3>1 DEF Apart
  <2>3. CASE f = e /\ g # e
    BY <1>15, <1>16, <2>3 DEF Apart
  <2>4. CASE f # e /\ g = e
    BY <1>15, <1>16, <2>4 DEF Apart
  <2>5. CASE f # e /\ g # e
    BY <1>16, <2>5 DEF CausalInv, WritesDiffer
  <2>6. QED
    BY <2>2, <2>3, <2>4, <2>5
<1>18. ClocksCover'
  <2>1. SUFFICES ASSUME NEW m \in CausalNodes, NEW f \in Range(causalLog'[m])
                 PROVE  AtMost(f.vc, vc'[m]) /\ f.id <= opCounter'
    BY DEF ClocksCover, AtMost
  <2>2. CASE m # n
    BY <1>1, <1>8, <1>11, <1>13, <2>2
  <2>3. CASE m = n /\ f = e
    <3>1. AtMost(stamp, stamp)
      BY DEF AtMost, VClock
    <3>2. QED
      BY <1>1, <1>6, <1>8, <1>11, <2>3, <3>1
  <2>4. CASE m = n /\ f # e
    <3>1. f \in Range(log)
      BY <1>9, <1>11, <2>4
    <3>2. f.vc \in VClock /\ AtMost(f.vc, vc[n]) /\ f.id <= opCounter /\ f.id \in Nat
      BY <1>13, <3>1
    <3>3. AtMost(f.vc, stamp)
      <4>1. \A k \in CausalNodes : f.vc[k] <= vc[n][k] /\ vc[n][k] <= stamp[k]
        BY <1>14, <3>2 DEF AtMost
      <4>2. \A k \in CausalNodes : f.vc[k] \in Nat /\ vc[n][k] \in Nat /\ stamp[k] \in Nat
        BY <1>1, <3>2 DEF VClock
      <4>3. QED
        BY <4>1, <4>2 DEF AtMost
    <3>4. QED
      BY <1>1, <1>8, <1>11, <2>4, <3>2, <3>3
  <2>5. QED
    BY <2>2, <2>3, <2>4
<1>19. \A m \in CausalNodes : InCausalOrder(causalLog'[m])
  <2>1. e.id \notin Ids(log)
    BY <1>15 DEF Ids, Range
  <2>2. InCausalOrder(Append(log, e))
    BY <1>1, <1>6, <2>1, OrderOfAppend DEF CausalInv
  <2>3. QED
    BY <1>11, <2>2 DEF CausalInv
<1>20. QED
  BY <1>10, <1>12, <1>17, <1>18, <1>19 DEF CausalInv, InCausalOrder, IdsBefore

-----------------------------------------------------------------------------

\* read(): among the first entries of a log the best one has been seen by no author.
LEMMA ReadIsNotOverwritten ==
    ASSUME CausalInv, NEW n \in CausalNodes, causalLog[n] # <<>>
    PROVE  \A i \in DOMAIN causalLog[n] : causalRead(causalLog[n]).id \notin causalLog[n][i].seen
<1>1. PICK log \in Seq(CausalEntry) : log = causalLog[n] /\ log # <<>>
  BY DEF CausalInv, CausalTypes
<1>2. /\ DOMAIN log = 1 .. Len(log) /\ Len(log) \in Nat /\ Len(log) >= 1
      /\ \A i \in 1 .. Len(log) : log[i] \in CausalEntry /\ log[i] \in Range(log)
  BY <1>1, EntriesAreTyped, LenProperties, EmptySeq DEF Range
<1>3. PICK base \in CausalEntry : base = Head(log) /\ base = log[1]
  BY <1>1, <1>2, HeadTailProperties
<1>4. PICK rest \in Seq(CausalEntry) :
         rest = Tail(log) /\ Len(rest) = Len(log) - 1 /\ \A i \in 1 .. Len(rest) : rest[i] = log[i + 1]
  BY <1>1, HeadTailProperties
<1>5. PICK op \in Operations(CausalEntry, CausalEntry) : op = reading
  BY ReadingIsTyped
<1>6. PICK r \in [0 .. Len(rest) -> CausalEntry] :
         /\ r[0] = base /\ \A i \in 1 .. Len(rest) : r[i] = op[<<r[i - 1], rest[i]>>]
         /\ r[Len(rest)] = Result(op, base, rest)
  BY ResultInSteps
<1>7. causalRead(log) = r[Len(rest)]
  BY <1>3, <1>4, <1>5, <1>6, ReadIsResult DEF causalRead
<1> DEFINE
      Unseen(best, j) == /\ best \in Range(log)
                         /\ \A i \in 1 .. j : best.id \notin log[i].seen
<1>8. \A i \in 1 .. Len(log) : log[i].seen \subseteq IdsBefore(log, i) /\ log[i].id \notin IdsBefore(log, i)
  BY <1>1, <1>2 DEF CausalInv, InCausalOrder
<1>9. Unseen(r[0], 1)
  <2>1. IdsBefore(log, 1) = {}
    BY DEF IdsBefore
  <2>2. QED
    BY <1>2, <1>3, <1>6, <1>8, <2>1
<1>10. ASSUME NEW j \in 1 .. Len(rest), Unseen(r[j - 1], j) PROVE Unseen(r[j], j + 1)
  <2>1. PICK best \in CausalEntry : best = r[j - 1] /\ best \in Range(log)
    <3>1. j - 1 \in 0 .. Len(rest)
      BY <1>2, <1>4
    <3>2. QED
      BY <1>10, <3>1
  <2>2. PICK e \in CausalEntry : e = rest[j] /\ e = log[j + 1] /\ e \in Range(log) /\ j + 1 \in 1 .. Len(log)
    BY <1>2, <1>4
  <2>3. r[j] = Later(best, e)
    BY <1>5, <1>6, <2>1, <2>2 DEF reading
  <2>4. Later(best, e) \in {best, e}
    BY DEF Later
  <2>5. CASE Later(best, e) = e
    <3>1. \A i \in 1 .. j + 1 : IdsBefore(log, i) \subseteq IdsBefore(log, j + 1)
      BY <1>2, <1>4 DEF IdsBefore
    <3>2. \A i \in 1 .. j + 1 : i \in 1 .. Len(log)
      BY <1>2, <1>4
    <3>3. QED
      BY <1>8, <2>2, <2>3, <2>5, <3>1, <3>2
  <2>6. CASE Later(best, e) = best /\ best # e
    <3>1. best.id \notin e.seen
      <4>1. SUFFICES ASSUME best.id \in e.seen PROVE FALSE
        OBVIOUS
      <4>2. AtMost(best.vc, e.vc) /\ best.vc # e.vc
        BY <1>1, <2>1, <2>2, <4>1 DEF CausalInv, WritesDiffer, Apart
      <4>3. vclockCompare(best.vc, e.vc) = "before"
        BY <4>2, CompareBefore DEF CausalEntry
      <4>4. QED
        BY <2>6, <4>3 DEF Later
    <3>2. QED
      BY <1>2, <1>4, <1>10, <2>1, <2>2, <2>3, <2>6, <3>1
  <2>7. QED
    BY <2>4, <2>5, <2>6
<1>11. Unseen(r[Len(rest)], Len(log))
  <2> DEFINE G == {j \in Nat : j <= Len(rest) => Unseen(r[j], j + 1)}
  <2>1. 0 \in G
    BY <1>9
  <2>2. ASSUME NEW j \in Nat, j \in G PROVE j + 1 \in G
    <3>1. SUFFICES ASSUME j + 1 <= Len(rest) PROVE Unseen(r[j + 1], (j + 1) + 1)
      OBVIOUS
    <3>2. PICK k \in 1 .. Len(rest) : k = j + 1 /\ k - 1 = j
      BY <1>2, <1>4, <3>1
    <3>3. Unseen(r[k - 1], k)
      BY <1>2, <1>4, <2>2, <3>1, <3>2
    <3>4. QED
      BY <1>10, <3>2, <3>3
  <2> HIDE DEF G
  <2>3. Nat \subseteq G
    BY <2>1, <2>2, CountingUp
  <2>4. Len(rest) \in G /\ Len(rest) + 1 = Len(log)
    BY <1>2, <1>4, <2>3
  <2>5. QED
    BY <1>2, <1>4, <2>4 DEF G
<1>12. QED
  BY <1>1, <1>2, <1>7, <1>11

\* At first every log is empty and every clock zero.
LEMMA CausalInitKeeps == CausalInit /\ CausalAssumption => CausalInv
<1>1. SUFFICES ASSUME CausalInit, CausalAssumption PROVE CausalInv
  OBVIOUS
<1>2. \A n \in CausalNodes : causalLog[n] = <<>> /\ Range(causalLog[n]) = {} /\ DOMAIN causalLog[n] = {}
  BY <1>1 DEF CausalInit, Range
<1>3. CausalTypes
  <2>1. <<>> \in Seq(CausalEntry)
    BY EmptySeq
  <2>2. QED
    BY <1>1, <2>1 DEF CausalInit, CausalTypes, CausalAssumption, VClock
<1>4. OwnersLead
  BY <1>1 DEF CausalInit, OwnersLead
<1>5. QED
  BY <1>2, <1>3, <1>4 DEF CausalInv, ClocksCover, WritesDiffer, InCausalOrder

\* The inductive invariant of the causal store: clocks count the writes of their
\* owners and cover the logs, writes are told apart, and every log is in causal order.
LEMMA CausalInvHolds == CausalSpec => []CausalInv
<1>1. CausalInit => CausalInv
  BY CausalInitKeeps, CausalAssumption
<1>2. CausalInv /\ [CausalNext]_causalVars => CausalInv'
  <2>1. SUFFICES ASSUME CausalInv, [CausalNext]_causalVars PROVE CausalInv'
    OBVIOUS
  <2>2. CASE UNCHANGED causalVars
    BY <2>1, <2>2 DEF causalVars, CausalInv, CausalTypes, OwnersLead, ClocksCover, WritesDiffer, InCausalOrder, IdsBefore
  <2>3. ASSUME NEW n \in CausalNodes, NEW val \in CausalValues, causalWrite(n, val) PROVE CausalInv'
    BY <2>1, <2>3, CausalWriteKeeps, CausalAssumption
  <2>4. ASSUME NEW n \in CausalNodes, NEW to \in CausalNodes \ {n}, propagate(n, to) PROVE CausalInv'
    BY <2>1, <2>4, PropagationKeeps
  <2>5. QED
    BY <2>1, <2>2, <2>3, <2>4 DEF CausalNext
<1>3. QED
  BY <1>1, <1>2, PTL DEF CausalSpec

\* Whoever has seen the reply has seen the post, before it, and a read never
\* returns a write that a later write in the log was made in knowledge of: for
\* any nodes, values and number of writes, whatever is propagated when.
THEOREM CausalOrderHolds == CausalSpec => []CausalOrder
<1>1. CausalInv => CausalOrder
  <2>1. SUFFICES ASSUME CausalInv PROVE CausalOrder
    OBVIOUS
  <2>2. CausalTypeOK
    <3>1. \A n \in CausalNodes : \A i \in DOMAIN causalLog[n] : causalLog[n][i] \in CausalEntry
      BY <2>1, EntriesAreTyped DEF CausalInv, CausalTypes, Range
    <3>2. QED
      BY <2>1, <3>1 DEF CausalInv, CausalTypes, CausalTypeOK, CausalEntry
  <2>3. \A n \in CausalNodes : \A i \in DOMAIN causalLog[n] :
           causalLog[n][i].seen \subseteq {causalLog[n][h].id : h \in 1 .. (i - 1)}
    BY <2>1 DEF CausalInv, InCausalOrder, IdsBefore
  <2>4. QED
    BY <2>1, <2>2, <2>3, ReadIsNotOverwritten DEF CausalOrder
<1>2. QED
  BY <1>1, CausalInvHolds, PTL

(***************************************************************************)
(* The CRDTs (14-eventual-consistency/crdt.ts).                            *)
(*                                                                         *)
(* A replica and a copy of one are views: a state and the operations heard *)
(* of.  Views differ in how much of each node's operations they know, and  *)
(* of any two one knows all that the other does; so the larger of two      *)
(* counts of a node is the count of both together.                         *)
(***************************************************************************)

\* Operations as `known' records them; those of one node; the numbers they carry.
Ops == [kind : {"inc", "dec", "add", "remove"}, node : Nodes, tag : Nat, by : Nat,
        el : SUBSET Elements, seen : SUBSET Nat]
OpsOf(k, ops) == {op \in ops : op.node = k}
By == [op \in Ops |-> op.by]

CrdtState == [p : Counter, n : Counter, adds : SUBSET Elements, removes : SUBSET Elements,
              elements : SUBSET (Elements \X (1 .. MaxOps)), tombstones : SUBSET (1 .. MaxOps)]

\* What a state includes: the elements added or removed, the tags of removals, and
\* the tagged elements that no removal has seen.
Gathered(kind, ops) == UNION {op.el : op \in Kind(kind, ops)}
SeenBy(ops) == UNION {op.seen : op \in Kind("remove", ops)}
Alive(ops) ==
    {q \in Elements \X (1 .. MaxOps) :
        /\ \E a \in Kind("add", ops) : q[1] \in a.el /\ q[2] = a.tag
        /\ q[2] \notin SeenBy(ops)}

CountsTell(s, ops) ==
    \A k \in Nodes : /\ s.p[k] = SumOf(By, Kind("inc", OpsOf(k, ops)))
                     /\ s.n[k] = SumOf(By, Kind("dec", OpsOf(k, ops)))
SetsTell(s, ops) == s.adds = Gathered("add", ops) /\ s.removes = Gathered("remove", ops)
TagsTell(s, ops) == s.elements = Alive(ops) /\ s.tombstones = SeenBy(ops)
Includes(t, s, ops) ==
    /\ CountsTell(s, ops)
    /\ t \in {"GSet", "TwoPSet"} => SetsTell(s, ops)
    /\ t = "ORSet" => TagsTell(s, ops)

\* A replica or a copy: a state and the operations it has heard of.
CrdtView == [state : CrdtState, known : SUBSET Ops]
CrdtViews == {[state |-> state[r], known |-> known[r]] : r \in Nodes} \cup copies

CrdtTyped ==
    /\ crdtType \in CrdtTypes /\ copies \in SUBSET CrdtView
    /\ state \in [Nodes -> CrdtState] /\ known \in [Nodes -> SUBSET Ops]

\* Operations are numbered one by one, and a removal has seen earlier ones.
OpsNumbered ==
    /\ IsFiniteSet(Issued) /\ Cardinality(Issued) <= MaxOps
    /\ \A op \in Issued : op.tag \in 1 .. Cardinality(Issued) /\ op.seen \subseteq 1 .. Cardinality(Issued)
    /\ \A a, b \in Issued : a.tag = b.tag => a = b

\* The class in use offers the operation.
Fits(t, op) ==
    /\ op.kind = "dec" => t = "PNCounter"
    /\ op.kind = "remove" => t # "GSet"
    /\ \A e, f \in op.el : e = f
OpsFit == \A op \in Issued : Fits(crdtType, op)

\* Of the operations of a node each view knows the first ones, and the node all.
Nested(ops, others) == \A k \in Nodes : OpsOf(k, ops) \subseteq others \/ OpsOf(k, others) \subseteq ops
ViewsNested == \A v, w \in CrdtViews : Nested(v.known, w.known)
AuthorsLead == \A v \in CrdtViews : \A k \in Nodes : OpsOf(k, v.known) \subseteq known[k]

StatesTell == \A v \in CrdtViews : Includes(crdtType, v.state, v.known)

CrdtInv == CrdtTyped /\ OpsNumbered /\ OpsFit /\ ViewsNested /\ AuthorsLead /\ StatesTell

\* What a view has heard of has been issued.
LEMMA ViewsKnowIssued ==
    ASSUME CrdtTyped, AuthorsLead
    PROVE  /\ Issued \in SUBSET Ops
           /\ \A v \in CrdtViews : v.state \in CrdtState /\ v.known \in SUBSET Ops /\ v.known \subseteq Issued
<1>1. Issued \in SUBSET Ops
  BY DEF CrdtTyped, Issued
<1>2. ASSUME NEW v \in CrdtViews PROVE v.state \in CrdtState /\ v.known \in SUBSET Ops
  BY DEF CrdtTyped, CrdtViews, CrdtView
<1>3. ASSUME NEW v \in CrdtViews, NEW op \in v.known PROVE op \in Issued
  <2>1. op \in Ops
    BY <1>2
  <2>2. op.node \in Nodes
    BY <2>1 DEF Ops
  <2>3. op \in OpsOf(op.node, v.known)
    BY DEF OpsOf
  <2>4. op \in known[op.node]
    BY <2>2, <2>3 DEF AuthorsLead
  <2>5. QED
    BY <2>2, <2>4 DEF Issued
<1>4. QED
  BY <1>1, <1>2, <1>3

\* The operations of finite views can be summed.
LEMMA OpsCarryNumbers == By \in [Ops -> Nat]
  BY DEF By, Ops

-----------------------------------------------------------------------------
(* A replica takes a new state.                                            *)

LEMMA ViewsAfter ==
    ASSUME CrdtTyped, NEW r \in Nodes, NEW s \in CrdtState, NEW ops \in SUBSET Ops,
           state' = [state EXCEPT ![r] = s], known' = [known EXCEPT ![r] = ops], copies' = copies
    PROVE  CrdtViews' \subseteq CrdtViews \cup {[state |-> s, known |-> ops]}
<1>1. CrdtViews' = {[state |-> state'[k], known |-> known'[k]] : k \in Nodes} \cup copies
  BY DEF CrdtViews
<1>2. ASSUME NEW k \in Nodes
      PROVE  [state |-> state'[k], known |-> known'[k]] \in CrdtViews \cup {[state |-> s, known |-> ops]}
  <2>1. CASE k = r
    BY <2>1 DEF CrdtTyped
  <2>2. CASE k # r
    BY <2>2 DEF CrdtTyped, CrdtViews
  <2>3. QED
    BY <2>1, <2>2
<1>3. QED
  BY <1>1, <1>2 DEF CrdtViews

LEMMA StateTaken ==
    ASSUME CrdtInv, NEW r \in Nodes, NEW s \in CrdtState, NEW ops \in SUBSET Ops,
           state' = [state EXCEPT ![r] = s], known' = [known EXCEPT ![r] = ops],
           copies' = copies, crdtType' = crdtType,
           known[r] \subseteq ops, Includes(crdtType, s, ops),
           \A v \in CrdtViews : Nested(ops, v.known),
           \A k \in Nodes : k # r => OpsOf(k, ops) \subseteq known[k],
           OpsNumbered', OpsFit'
    PROVE  CrdtInv'
<1> DEFINE new == [state |-> s, known |-> ops]
<1>1. CrdtTyped'
  BY DEF CrdtInv, CrdtTyped
<1>2. CrdtViews' \subseteq CrdtViews \cup {new}
  BY ViewsAfter DEF CrdtInv
<1>3. \A k \in Nodes : known[k] \subseteq known'[k]
  BY DEF CrdtInv, CrdtTyped
<1>4. StatesTell'
  BY <1>2 DEF CrdtInv, StatesTell
<1>5. AuthorsLead'
  <2>1. ASSUME NEW v \in CrdtViews', NEW k \in Nodes PROVE OpsOf(k, v.known) \subseteq known'[k]
    <3>1. CASE v \in CrdtViews
      BY <1>3, <3>1 DEF CrdtInv, AuthorsLead
    <3>2. CASE v = new /\ k = r
      BY <3>2 DEF CrdtInv, CrdtTyped, OpsOf
    <3>3. CASE v = new /\ k # r
      BY <1>3, <3>3
    <3>4. QED
      BY <1>2, <3>1, <3>2, <3>3
  <2>2. QED
    BY <2>1 DEF AuthorsLead
<1>6. ViewsNested'
  <2>1. Nested(ops, ops)
    BY DEF Nested, OpsOf
  <2>2. \A v \in CrdtViews : Nested(v.known, ops)
    BY DEF Nested
  <2>3. ASSUME NEW v \in CrdtViews', NEW w \in CrdtViews' PROVE Nested(v.known, w.known)
    BY <1>2, <2>1, <2>2 DEF CrdtInv, ViewsNested
  <2>4. QED
    BY <2>3 DEF ViewsNested
<1>7. QED
  BY <1>1, <1>4, <1>5, <1>6 DEF CrdtInv

\* An operation of r, which nobody has heard of: what is left to show is that the
\* new state includes it.
LEMMA OperationApplied ==
    ASSUME CrdtInv, NEW r \in Nodes, NEW op \in Ops, NEW s \in CrdtState,
           op.node = r, op.tag = NextTag, op.seen \subseteq 1 .. Cardinality(Issued),
           Fits(crdtType, op), Apply(r, op, s),
           Includes(crdtType, s, known[r] \cup {op})
    PROVE  CrdtInv'
<1> DEFINE ops == known[r] \cup {op}
<1> USE DEF NextTag
<1>1. known[r] \in SUBSET Ops /\ known \in [Nodes -> SUBSET Ops]
  BY DEF CrdtInv, CrdtTyped
<1>2. /\ state' = [state EXCEPT ![r] = s] /\ known' = [known EXCEPT ![r] = ops]
      /\ copies' = copies /\ crdtType' = crdtType
  BY DEF Apply
<1>3. Issued' = Issued \cup {op}
  <2>1. Issued' = UNION {known'[k] : k \in Nodes}
    BY DEF Issued
  <2>2. \A k \in Nodes : known'[k] = IF k = r THEN known[k] \cup {op} ELSE known[k]
    BY <1>1, <1>2
  <2>3. ASSUME NEW x \in Issued' PROVE x \in Issued \cup {op}
    <3>1. PICK k \in Nodes : x \in known'[k]
      BY <2>1
    <3>2. x \in known[k] \cup {op}
      BY <2>2, <3>1
    <3>3. QED
      BY <3>2 DEF Issued
  <2>4. known'[r] \subseteq Issued' /\ \A k \in Nodes : known[k] \subseteq Issued'
    BY <2>1, <2>2
  <2>5. Issued \subseteq Issued' /\ op \in Issued'
    BY <2>2, <2>4 DEF Issued
  <2>6. QED
    BY <2>3, <2>5
<1>4. IsFiniteSet(Issued) /\ Cardinality(Issued) \in Nat
  BY FS_CardinalityType DEF CrdtInv, OpsNumbered
<1>5. op \notin Issued
  BY <1>4 DEF CrdtInv, OpsNumbered
<1>6. IsFiniteSet(Issued') /\ Cardinality(Issued') = Cardinality(Issued) + 1
  BY <1>3, <1>4, <1>5, FS_AddElement
<1>7. OpsNumbered'
  <2>1. Cardinality(Issued') <= MaxOps
    BY <1>6 DEF Apply
  <2>2. ASSUME NEW a \in Issued'
        PROVE  a.tag \in 1 .. Cardinality(Issued') /\ a.seen \subseteq 1 .. Cardinality(Issued')
    <3>1. 1 .. Cardinality(Issued) \subseteq 1 .. Cardinality(Issued') /\ NextTag \in 1 .. Cardinality(Issued')
      BY <1>4, <1>6
    <3>2. CASE a \in Issued
      BY <3>1, <3>2 DEF CrdtInv, OpsNumbered
    <3>3. CASE a = op
      BY <3>1, <3>3
    <3>4. QED
      BY <1>3, <3>2, <3>3
  <2>3. ASSUME NEW a \in Issued', NEW b \in Issued', a.tag = b.tag PROVE a = b
    <3>1. \A c \in Issued : c.tag # op.tag
      BY <1>4 DEF CrdtInv, OpsNumbered
    <3>2. QED
      BY <1>3, <2>3, <3>1 DEF CrdtInv, OpsNumbered
  <2>4. QED
    BY <1>6, <2>1, <2>2, <2>3 DEF OpsNumbered
<1>8. OpsFit'
  BY <1>2, <1>3 DEF CrdtInv, OpsFit
<1>9. [state |-> state[r], known |-> known[r]] \in CrdtViews
  BY DEF CrdtViews
<1>10. \A v \in CrdtViews : Nested(ops, v.known)
  <2>1. ASSUME NEW v \in CrdtViews, NEW k \in Nodes
        PROVE  OpsOf(k, ops) \subseteq v.known \/ OpsOf(k, v.known) \subseteq ops
    <3>1. CASE k = r
      BY <3>1 DEF CrdtInv, AuthorsLead
    <3>2. CASE k # r
      <4>1. OpsOf(k, ops) = OpsOf(k, known[r])
        BY <3>2 DEF OpsOf
      <4>2. Nested(known[r], v.known)
        BY <1>9 DEF CrdtInv, ViewsNested
      <4>3. QED
        BY <4>1, <4>2 DEF Nested
    <3>3. QED
      BY <3>1, <3>2
  <2>2. QED
    BY <2>1 DEF Nested
<1>11. ASSUME NEW k \in Nodes, k # r PROVE OpsOf(k, ops) \subseteq known[k]
  <2>1. OpsOf(k, ops) = OpsOf(k, known[r])
    BY <1>11 DEF OpsOf
  <2>2. QED
    BY <1>9, <2>1 DEF CrdtInv, AuthorsLead
<1>12. ops \in SUBSET Ops /\ known[r] \subseteq ops /\ Includes(crdtType, s, ops)
  BY <1>1
<1> HIDE DEF ops
<1>13. QED
  BY <1>2, <1>7, <1>8, <1>10, <1>11, <1>12, StateTaken

-----------------------------------------------------------------------------
(* What one operation more adds.                                           *)

LEMMA CountsAfter ==
    ASSUME NEW ops \in SUBSET Ops, IsFiniteSet(ops), NEW op \in Ops, op \notin ops, NEW k, NEW kind
    PROVE  SumOf(By, Kind(kind, OpsOf(k, ops \cup {op}))) =
             IF op.kind = kind /\ op.node = k THEN op.by + SumOf(By, Kind(kind, OpsOf(k, ops)))
             ELSE SumOf(By, Kind(kind, OpsOf(k, ops)))
<1> DEFINE before == Kind(kind, OpsOf(k, ops))
           after == Kind(kind, OpsOf(k, ops \cup {op}))
<1>1. CASE op.kind = kind /\ op.node = k
  <2>1. after \in SUBSET Ops /\ op \in after /\ after \ {op} = before /\ after \subseteq ops \cup {op}
    BY <1>1 DEF Kind, OpsOf
  <2> HIDE DEF after, before
  <2>2. IsFiniteSet(ops \cup {op})
    BY FS_AddElement
  <2>3. IsFiniteSet(after)
    BY <2>1, <2>2, FS_Subset
  <2>4. SumOf(By, after) = By[op] + SumOf(By, after \ {op})
    BY <2>1, <2>3, OpsCarryNumbers, SumOfMore
  <2>5. By[op] = op.by
    BY DEF By
  <2>6. QED
    BY <1>1, <2>1, <2>4, <2>5 DEF after, before
<1>2. CASE ~ (op.kind = kind /\ op.node = k)
  <2>1. after = before
    BY <1>2 DEF Kind, OpsOf
  <2>2. QED
    BY <1>2, <2>1
<1>3. QED
  BY <1>1, <1>2

LEMMA GatheredAfter ==
    ASSUME NEW ops, NEW op, NEW kind
    PROVE  Gathered(kind, ops \cup {op}) = Gathered(kind, ops) \cup (IF op.kind = kind THEN op.el ELSE {})
<1>1. Kind(kind, ops \cup {op}) = Kind(kind, ops) \cup (IF op.kind = kind THEN {op} ELSE {})
  BY DEF Kind
<1>2. QED
  BY <1>1 DEF Gathered

LEMMA SeenAfter ==
    ASSUME NEW ops, NEW op
    PROVE  SeenBy(ops \cup {op}) = SeenBy(ops) \cup (IF op.kind = "remove" THEN op.seen ELSE {})
<1>1. Kind("remove", ops \cup {op}) = Kind("remove", ops) \cup (IF op.kind = "remove" THEN {op} ELSE {})
  BY DEF Kind
<1>2. QED
  BY <1>1 DEF SeenBy

\* An operation with the next tag is new to everybody.
LEMMA OperationIsNew ==
    ASSUME CrdtInv, NEW r \in Nodes
    PROVE  /\ known[r] \in SUBSET Ops /\ IsFiniteSet(known[r]) /\ known[r] \subseteq Issued
           /\ NextTag \in Nat /\ \A op \in known[r] : op.tag # NextTag
           /\ NextTag \notin 1 .. Cardinality(Issued)
<1>1. known[r] \in SUBSET Ops /\ known[r] \subseteq Issued
  BY DEF CrdtInv, CrdtTyped, Issued
<1>2. IsFiniteSet(Issued)
  BY DEF CrdtInv, OpsNumbered
<1>3. IsFiniteSet(known[r]) /\ Cardinality(Issued) \in Nat
  BY <1>1, <1>2, FS_Subset, FS_CardinalityType
<1>4. NextTag \in Nat /\ NextTag \notin 1 .. Cardinality(Issued)
  BY <1>3 DEF NextTag
<1>5. \A op \in known[r] : op.tag # NextTag
  BY <1>1, <1>4 DEF CrdtInv, OpsNumbered
<1>6. QED
  BY <1>1, <1>3, <1>4, <1>5

\* The counts of a state that an operation does not count in.
LEMMA CountsKept ==
    ASSUME CrdtInv, NEW r \in Nodes, NEW op \in Ops, op.tag = NextTag, op.kind \notin {"inc", "dec"},
           NEW s \in CrdtState, s.p = state[r].p, s.n = state[r].n
    PROVE  CountsTell(s, known[r] \cup {op})
<1>1. [state |-> state[r], known |-> known[r]] \in CrdtViews
  BY DEF CrdtViews
<1>2. CountsTell(state[r], known[r])
  BY <1>1 DEF CrdtInv, StatesTell, Includes
<1>3. known[r] \in SUBSET Ops /\ IsFiniteSet(known[r]) /\ op \notin known[r]
  BY OperationIsNew
<1>4. ASSUME NEW k \in Nodes, NEW kind \in {"inc", "dec"}
      PROVE  SumOf(By, Kind(kind, OpsOf(k, known[r] \cup {op}))) = SumOf(By, Kind(kind, OpsOf(k, known[r])))
  BY <1>3, CountsAfter
<1>5. QED
  BY <1>2, <1>4 DEF CountsTell

LEMMA IncKeeps ==
    ASSUME CrdtInv, NEW r \in Nodes, NEW by \in Amounts, Inc(r, by)
    PROVE  CrdtInv'
<1> DEFINE op == [Operation("inc", r) EXCEPT !.by = by]
           s == [state[r] EXCEPT !.p[r] = @ + by]
           ops == known[r] \cup {op}
<1>1. by \in Nat /\ state[r] \in CrdtState
  BY CrdtAssumption DEF CrdtInv, CrdtTyped
<1>2. NextTag \in Nat /\ known[r] \in SUBSET Ops /\ IsFiniteSet(known[r]) /\ \A o \in known[r] : o.tag # NextTag
  BY OperationIsNew
<1>3. op = [kind |-> "inc", node |-> r, tag |-> NextTag, by |-> by, el |-> {}, seen |-> {}]
  BY DEF Operation
<1>4. op \in Ops
  BY <1>1, <1>2, <1>3 DEF Ops
<1>5. op \notin known[r]
  BY <1>2, <1>3
<1>6. s = [state[r] EXCEPT !.p = [state[r].p EXCEPT ![r] = state[r].p[r] + by]]
  OBVIOUS
<1>7. state[r].p \in [Nodes -> Nat]
  BY <1>1 DEF CrdtState, Counter
<1>8. [state[r].p EXCEPT ![r] = state[r].p[r] + by] \in Counter
  BY <1>1, <1>7 DEF Counter
<1>9. s \in CrdtState
  BY <1>1, <1>6, <1>8 DEF CrdtState
<1>10. CountsTell(s, ops)
  <2>1. [state |-> state[r], known |-> known[r]] \in CrdtViews
    BY DEF CrdtViews
  <2>2. CountsTell(state[r], known[r])
    BY <2>1 DEF CrdtInv, StatesTell, Includes
  <2>3. s.n = state[r].n /\ \A k \in Nodes : s.p[k] = IF k = r THEN state[r].p[k] + by ELSE state[r].p[k]
    BY <1>1, <1>6, <1>7 DEF CrdtState
  <2>4. op.kind = "inc" /\ op.node = r /\ op.by = by
    BY <1>3
  <2> HIDE DEF op, s
  <2>5. ASSUME NEW k \in Nodes PROVE s.p[k] = SumOf(By, Kind("inc", OpsOf(k, ops)))
    <3>1. SumOf(By, Kind("inc", OpsOf(k, known[r]))) = state[r].p[k] /\ state[r].p[k] \in Nat
      BY <1>7, <2>2 DEF CountsTell
    <3>2. SumOf(By, Kind("inc", OpsOf(k, ops))) =
            IF r = k THEN by + SumOf(By, Kind("inc", OpsOf(k, known[r])))
            ELSE SumOf(By, Kind("inc", OpsOf(k, known[r])))
      BY <1>2, <1>4, <1>5, <2>4, CountsAfter
    <3>3. QED
      BY <1>1, <2>3, <3>1, <3>2
  <2>6. ASSUME NEW k \in Nodes PROVE s.n[k] = SumOf(By, Kind("dec", OpsOf(k, ops)))
    <3>1. SumOf(By, Kind("dec", OpsOf(k, ops))) = SumOf(By, Kind("dec", OpsOf(k, known[r])))
      BY <1>2, <1>4, <1>5, <2>4, CountsAfter
    <3>2. QED
      BY <2>2, <2>3, <3>1 DEF CountsTell
  <2>7. QED
    BY <2>5, <2>6 DEF CountsTell
<1>11. Includes(crdtType, s, ops) /\ Fits(crdtType, op) /\ Apply(r, op, s)
  BY <1>3, <1>10 DEF Inc, Includes, Fits
<1>12. op.node = r /\ op.tag = NextTag /\ op.seen = {}
  BY <1>3
<1> HIDE DEF op, s
<1>13. QED
  BY <1>4, <1>9, <1>11, <1>12, OperationApplied

LEMMA DecKeeps ==
    ASSUME CrdtInv, NEW r \in Nodes, NEW by \in Amounts, Dec(r, by)
    PROVE  CrdtInv'
<1> DEFINE op == [Operation("dec", r) EXCEPT !.by = by]
           s == [state[r] EXCEPT !.n[r] = @ + by]
           ops == known[r] \cup {op}
<1>1. by \in Nat /\ state[r] \in CrdtState
  BY CrdtAssumption DEF CrdtInv, CrdtTyped
<1>2. NextTag \in Nat /\ known[r] \in SUBSET Ops /\ IsFiniteSet(known[r]) /\ \A o \in known[r] : o.tag # NextTag
  BY OperationIsNew
<1>3. op = [kind |-> "dec", node |-> r, tag |-> NextTag, by |-> by, el |-> {}, seen |-> {}]
  BY DEF Operation
<1>4. op \in Ops
  BY <1>1, <1>2, <1>3 DEF Ops
<1>5. op \notin known[r]
  BY <1>2, <1>3
<1>6. s = [state[r] EXCEPT !.n = [state[r].n EXCEPT ![r] = state[r].n[r] + by]]
  OBVIOUS
<1>7. state[r].n \in [Nodes -> Nat]
  BY <1>1 DEF CrdtState, Counter
<1>8. [state[r].n EXCEPT ![r] = state[r].n[r] + by] \in Counter
  BY <1>1, <1>7 DEF Counter
<1>9. s \in CrdtState
  BY <1>1, <1>6, <1>8 DEF CrdtState
<1>10. CountsTell(s, ops)
  <2>1. [state |-> state[r], known |-> known[r]] \in CrdtViews
    BY DEF CrdtViews
  <2>2. CountsTell(state[r], known[r])
    BY <2>1 DEF CrdtInv, StatesTell, Includes
  <2>3. s.p = state[r].p /\ \A k \in Nodes : s.n[k] = IF k = r THEN state[r].n[k] + by ELSE state[r].n[k]
    BY <1>1, <1>6, <1>7 DEF CrdtState
  <2>4. op.kind = "dec" /\ op.node = r /\ op.by = by
    BY <1>3
  <2> HIDE DEF op, s
  <2>5. ASSUME NEW k \in Nodes PROVE s.n[k] = SumOf(By, Kind("dec", OpsOf(k, ops)))
    <3>1. SumOf(By, Kind("dec", OpsOf(k, known[r]))) = state[r].n[k] /\ state[r].n[k] \in Nat
      BY <1>7, <2>2 DEF CountsTell
    <3>2. SumOf(By, Kind("dec", OpsOf(k, ops))) =
            IF r = k THEN by + SumOf(By, Kind("dec", OpsOf(k, known[r])))
            ELSE SumOf(By, Kind("dec", OpsOf(k, known[r])))
      BY <1>2, <1>4, <1>5, <2>4, CountsAfter
    <3>3. QED
      BY <1>1, <2>3, <3>1, <3>2
  <2>6. ASSUME NEW k \in Nodes PROVE s.p[k] = SumOf(By, Kind("inc", OpsOf(k, ops)))
    <3>1. SumOf(By, Kind("inc", OpsOf(k, ops))) = SumOf(By, Kind("inc", OpsOf(k, known[r])))
      BY <1>2, <1>4, <1>5, <2>4, CountsAfter
    <3>2. QED
      BY <2>2, <2>3, <3>1 DEF CountsTell
  <2>7. QED
    BY <2>5, <2>6 DEF CountsTell
<1>11. Includes(crdtType, s, ops) /\ Fits(crdtType, op) /\ Apply(r, op, s)
  BY <1>3, <1>10 DEF Dec, Includes, Fits
<1>12. op.node = r /\ op.tag = NextTag /\ op.seen = {}
  BY <1>3
<1> HIDE DEF op, s
<1>13. QED
  BY <1>4, <1>9, <1>11, <1>12, OperationApplied


LEMMA AddKeeps ==
    ASSUME CrdtInv, NEW r \in Nodes, NEW el \in Elements, Add(r, el)
    PROVE  CrdtInv'
<1> DEFINE op == [Operation("add", r) EXCEPT !.el = {el}]
           s == [state[r] EXCEPT !.adds = @ \cup {el}]
           ops == known[r] \cup {op}
<1>1. state[r] \in CrdtState /\ crdtType \in {"GSet", "TwoPSet"}
  BY DEF CrdtInv, CrdtTyped, Add
<1>2. NextTag \in Nat
  BY OperationIsNew
<1>3. op = [kind |-> "add", node |-> r, tag |-> NextTag, by |-> 0, el |-> {el}, seen |-> {}]
  BY DEF Operation
<1>4. op \in Ops
  BY <1>2, <1>3 DEF Ops
<1>5. /\ s \in CrdtState /\ s.p = state[r].p /\ s.n = state[r].n
      /\ s.adds = state[r].adds \cup {el} /\ s.removes = state[r].removes
  BY <1>1 DEF CrdtState
<1>6. /\ op.kind = "add" /\ op.node = r /\ op.tag = NextTag /\ op.el = {el} /\ op.seen = {}
      /\ Apply(r, op, s)
  BY <1>3 DEF Add
<1>7. [state |-> state[r], known |-> known[r]] \in CrdtViews
  BY DEF CrdtViews
<1> HIDE DEF op, s
<1>8. SetsTell(state[r], known[r])
  BY <1>1, <1>7 DEF CrdtInv, StatesTell, Includes
<1>9. SetsTell(s, ops)
  <2>1. Gathered("add", ops) = Gathered("add", known[r]) \cup (IF op.kind = "add" THEN op.el ELSE {})
    BY GatheredAfter
  <2>2. Gathered("remove", ops) = Gathered("remove", known[r]) \cup (IF op.kind = "remove" THEN op.el ELSE {})
    BY GatheredAfter
  <2>3. QED
    BY <1>5, <1>6, <1>8, <2>1, <2>2 DEF SetsTell
<1>10. CountsTell(s, ops)
  BY <1>4, <1>5, <1>6, CountsKept
<1>11. Includes(crdtType, s, ops) /\ Fits(crdtType, op)
  BY <1>1, <1>6, <1>9, <1>10 DEF Includes, Fits
<1>12. QED
  BY <1>4, <1>5, <1>6, <1>11, OperationApplied

LEMMA RemoveKeeps ==
    ASSUME CrdtInv, NEW r \in Nodes, NEW el \in Elements, RemoveElement(r, el)
    PROVE  CrdtInv'
<1> DEFINE op == [Operation("remove", r) EXCEPT !.el = {el}]
           s == [state[r] EXCEPT !.removes = @ \cup {el}]
           ops == known[r] \cup {op}
<1>1. state[r] \in CrdtState /\ crdtType = "TwoPSet"
  BY DEF CrdtInv, CrdtTyped, RemoveElement
<1>2. NextTag \in Nat
  BY OperationIsNew
<1>3. op = [kind |-> "remove", node |-> r, tag |-> NextTag, by |-> 0, el |-> {el}, seen |-> {}]
  BY DEF Operation
<1>4. op \in Ops
  BY <1>2, <1>3 DEF Ops
<1>5. /\ s \in CrdtState /\ s.p = state[r].p /\ s.n = state[r].n
      /\ s.adds = state[r].adds /\ s.removes = state[r].removes \cup {el}
  BY <1>1 DEF CrdtState
<1>6. /\ op.kind = "remove" /\ op.node = r /\ op.tag = NextTag /\ op.el = {el} /\ op.seen = {}
      /\ Apply(r, op, s)
  BY <1>3 DEF RemoveElement
<1>7. [state |-> state[r], known |-> known[r]] \in CrdtViews
  BY DEF CrdtViews
<1> HIDE DEF op, s
<1>8. SetsTell(state[r], known[r])
  BY <1>1, <1>7 DEF CrdtInv, StatesTell, Includes
<1>9. SetsTell(s, ops)
  <2>1. Gathered("add", ops) = Gathered("add", known[r]) \cup (IF op.kind = "add" THEN op.el ELSE {})
    BY GatheredAfter
  <2>2. Gathered("remove", ops) = Gathered("remove", known[r]) \cup (IF op.kind = "remove" THEN op.el ELSE {})
    BY GatheredAfter
  <2>3. QED
    BY <1>5, <1>6, <1>8, <2>1, <2>2 DEF SetsTell
<1>10. CountsTell(s, ops)
  BY <1>4, <1>5, <1>6, CountsKept
<1>11. Includes(crdtType, s, ops) /\ Fits(crdtType, op)
  BY <1>1, <1>6, <1>9, <1>10 DEF Includes, Fits
<1>12. QED
  BY <1>4, <1>5, <1>6, <1>11, OperationApplied

\* The observed-remove set: an element is added under the next tag.
LEMMA AddTagKeeps ==
    ASSUME CrdtInv, NEW r \in Nodes, NEW el \in Elements, AddTag(r, el)
    PROVE  CrdtInv'
<1> DEFINE op == [Operation("add", r) EXCEPT !.el = {el}]
           s == [state[r] EXCEPT !.elements = @ \cup {<<el, NextTag>>}]
           ops == known[r] \cup {op}
<1>1. state[r] \in CrdtState /\ crdtType = "ORSet"
  BY DEF CrdtInv, CrdtTyped, AddTag
<1>2. /\ NextTag \in 1 .. MaxOps /\ known[r] \subseteq Issued
      /\ NextTag \notin 1 .. Cardinality(Issued)
  <2>1. Cardinality(Issued) \in Nat
    BY FS_CardinalityType DEF CrdtInv, OpsNumbered
  <2>2. NextTag <= MaxOps
    BY DEF AddTag, Apply
  <2>3. QED
    BY <2>1, <2>2, CrdtAssumption, OperationIsNew DEF NextTag
<1>3. op = [kind |-> "add", node |-> r, tag |-> NextTag, by |-> 0, el |-> {el}, seen |-> {}]
  BY DEF Operation
<1>4. op \in Ops
  BY <1>2, <1>3 DEF Ops
<1>5. /\ s \in CrdtState /\ s.p = state[r].p /\ s.n = state[r].n
      /\ s.elements = state[r].elements \cup {<<el, NextTag>>} /\ s.tombstones = state[r].tombstones
  BY <1>1, <1>2 DEF CrdtState
<1>6. /\ op.kind = "add" /\ op.node = r /\ op.tag = NextTag /\ op.el = {el} /\ op.seen = {}
      /\ Apply(r, op, s)
  BY <1>3 DEF AddTag
<1>7. [state |-> state[r], known |-> known[r]] \in CrdtViews
  BY DEF CrdtViews
<1> HIDE DEF op, s
<1>8. TagsTell(state[r], known[r])
  BY <1>1, <1>7 DEF CrdtInv, StatesTell, Includes
<1>9. SeenBy(ops) = SeenBy(known[r]) /\ NextTag \notin SeenBy(known[r])
  <2>1. SeenBy(ops) = SeenBy(known[r])
    BY <1>6, SeenAfter
  <2>2. \A o \in known[r] : o.seen \subseteq 1 .. Cardinality(Issued)
    BY <1>2 DEF CrdtInv, OpsNumbered
  <2>3. QED
    BY <1>2, <2>1, <2>2 DEF SeenBy, Kind
<1>10. Alive(ops) = Alive(known[r]) \cup {<<el, NextTag>>}
  <2>1. Kind("add", ops) = Kind("add", known[r]) \cup {op}
    BY <1>6 DEF Kind
  <2>2. ASSUME NEW q \in Elements \X (1 .. MaxOps)
        PROVE  q \in Alive(ops) <=> q \in Alive(known[r]) \/ q = <<el, NextTag>>
    <3>1. q[1] \in op.el /\ q[2] = op.tag <=> q = <<el, NextTag>>
      BY <1>6
    <3>2. q = <<el, NextTag>> => q[2] \notin SeenBy(ops)
      BY <1>9
    <3>3. QED
      BY <1>9, <2>1, <3>1, <3>2 DEF Alive
  <2>3. <<el, NextTag>> \in Elements \X (1 .. MaxOps)
    BY <1>2
  <2>4. Alive(ops) \subseteq Elements \X (1 .. MaxOps) /\ Alive(known[r]) \subseteq Elements \X (1 .. MaxOps)
    BY DEF Alive
  <2>5. QED
    BY <2>2, <2>3, <2>4
<1>11. TagsTell(s, ops)
  BY <1>5, <1>8, <1>9, <1>10 DEF TagsTell
<1>12. CountsTell(s, ops)
  BY <1>4, <1>5, <1>6, CountsKept
<1>13. Includes(crdtType, s, ops) /\ Fits(crdtType, op)
  BY <1>1, <1>6, <1>11, <1>12 DEF Includes, Fits
<1>14. QED
  BY <1>4, <1>5, <1>6, <1>13, OperationApplied

\* All tags of an element that are seen here are removed, and no others: an alive
\* tag stands for one element.
LEMMA RemoveObservedKeeps ==
    ASSUME CrdtInv, NEW r \in Nodes, NEW el \in Elements, RemoveObserved(r, el)
    PROVE  CrdtInv'
<1>1. PICK tags : tags = {pair[2] : pair \in {q \in state[r].elements : q[1] = el}}
  OBVIOUS
<1> DEFINE op == [Operation("remove", r) EXCEPT !.el = {el}, !.seen = tags]
           s == [state[r] EXCEPT !.elements = {q \in @ : q[1] # el},
                                 !.tombstones = @ \cup tags]
           ops == known[r] \cup {op}
<1>2. state[r] \in CrdtState /\ crdtType = "ORSet"
  BY DEF CrdtInv, CrdtTyped, RemoveObserved
<1>3. NextTag \in Nat /\ known[r] \subseteq Issued
  BY OperationIsNew
<1>4. [state |-> state[r], known |-> known[r]] \in CrdtViews
  BY DEF CrdtViews
<1>5. TagsTell(state[r], known[r])
  BY <1>2, <1>4 DEF CrdtInv, StatesTell, Includes
<1>6. tags \subseteq 1 .. MaxOps /\ tags \subseteq 1 .. Cardinality(Issued)
  <2>1. ASSUME NEW q \in state[r].elements PROVE q[2] \in 1 .. MaxOps /\ q[2] \in 1 .. Cardinality(Issued)
    <3>1. q \in Alive(known[r])
      BY <1>5 DEF TagsTell
    <3>2. PICK a \in known[r] : q[2] = a.tag
      BY <3>1 DEF Alive, Kind
    <3>3. QED
      BY <1>3, <3>1, <3>2 DEF CrdtInv, OpsNumbered, Alive
  <2>2. QED
    BY <1>1, <2>1
<1>7. op = [kind |-> "remove", node |-> r, tag |-> NextTag, by |-> 0, el |-> {el}, seen |-> tags]
  <2>1. [Operation("remove", r) EXCEPT !.el = {el}] =
          [kind |-> "remove", node |-> r, tag |-> NextTag, by |-> 0, el |-> {el}, seen |-> {}]
    BY DEF Operation
  <2>2. op = [[Operation("remove", r) EXCEPT !.el = {el}] EXCEPT !.seen = tags]
    OBVIOUS
  <2>3. [[kind |-> "remove", node |-> r, tag |-> NextTag, by |-> 0, el |-> {el}, seen |-> {}] EXCEPT !.seen = tags] =
          [kind |-> "remove", node |-> r, tag |-> NextTag, by |-> 0, el |-> {el}, seen |-> tags]
    OBVIOUS
  <2> HIDE DEF op
  <2>4. QED
    BY <2>1, <2>2, <2>3
<1>8. op \in Ops
  <2>1. [kind |-> "remove", node |-> r, tag |-> NextTag, by |-> 0, el |-> {el}, seen |-> tags] \in Ops
    BY <1>3, <1>6 DEF Ops
  <2> HIDE DEF op
  <2>2. QED
    BY <1>7, <2>1
<1>9. /\ s \in CrdtState /\ s.p = state[r].p /\ s.n = state[r].n
      /\ s.elements = {q \in state[r].elements : q[1] # el} /\ s.tombstones = state[r].tombstones \cup tags
  BY <1>2, <1>6 DEF CrdtState
<1>10. /\ op.kind = "remove" /\ op.node = r /\ op.tag = NextTag /\ op.el = {el} /\ op.seen = tags
      /\ Apply(r, op, s)
  BY <1>1, <1>7 DEF RemoveObserved
<1>11. \A q \in state[r].elements : q[2] \in tags <=> q[1] = el
  <2>1. ASSUME NEW q \in state[r].elements, NEW w \in state[r].elements, q[2] = w[2] PROVE q[1] = w[1]
    <3>1. q \in Alive(known[r]) /\ w \in Alive(known[r])
      BY <1>5 DEF TagsTell
    <3>2. PICK a \in known[r] : q[1] \in a.el /\ q[2] = a.tag
      BY <3>1 DEF Alive, Kind
    <3>3. PICK b \in known[r] : w[1] \in b.el /\ w[2] = b.tag
      BY <3>1 DEF Alive, Kind
    <3>4. a = b
      BY <1>3, <2>1, <3>2, <3>3 DEF CrdtInv, OpsNumbered
    <3>5. QED
      BY <1>3, <3>2, <3>3, <3>4 DEF CrdtInv, OpsFit, Fits
  <2>2. QED
    BY <1>1, <2>1
<1> HIDE DEF op, s
<1>12. SeenBy(ops) = SeenBy(known[r]) \cup tags
  BY <1>10, SeenAfter
<1>13. Alive(ops) = {q \in Alive(known[r]) : q[2] \notin tags}
  <2>1. Kind("add", ops) = Kind("add", known[r])
    BY <1>10 DEF Kind
  <2>2. QED
    BY <1>12, <2>1 DEF Alive
<1>14. TagsTell(s, ops)
  BY <1>5, <1>9, <1>11, <1>12, <1>13 DEF TagsTell
<1>15. CountsTell(s, ops)
  BY <1>8, <1>9, <1>10, CountsKept
<1>16. Includes(crdtType, s, ops) /\ Fits(crdtType, op)
  BY <1>2, <1>10, <1>14, <1>15 DEF Includes, Fits
<1>17. QED
  BY <1>6, <1>8, <1>9, <1>10, <1>16, OperationApplied

-----------------------------------------------------------------------------
(* Merges.                                                                 *)

\* Of the operations of a node one side has heard of all that the other has.
LEMMA NestedUnion ==
    ASSUME NEW a, NEW b, NEW k \in Nodes, Nested(a, b)
    PROVE  \/ OpsOf(k, a \cup b) = OpsOf(k, b) /\ OpsOf(k, a) \subseteq OpsOf(k, b)
           \/ OpsOf(k, a \cup b) = OpsOf(k, a) /\ OpsOf(k, b) \subseteq OpsOf(k, a)
  BY DEF Nested, OpsOf

\* So the larger of the two counts is the count of both together.
LEMMA LargerCounts ==
    ASSUME NEW a \in SUBSET Ops, NEW b \in SUBSET Ops, IsFiniteSet(a), IsFiniteSet(b), Nested(a, b),
           NEW k \in Nodes, NEW kind
    PROVE  LET x == SumOf(By, Kind(kind, OpsOf(k, a)))
               y == SumOf(By, Kind(kind, OpsOf(k, b)))
           IN  SumOf(By, Kind(kind, OpsOf(k, a \cup b))) = IF x >= y THEN x ELSE y
<1> DEFINE fromA == Kind(kind, OpsOf(k, a))
           fromB == Kind(kind, OpsOf(k, b))
           both == Kind(kind, OpsOf(k, a \cup b))
<1>1. fromA \in SUBSET a /\ fromB \in SUBSET b /\ fromA \in SUBSET Ops /\ fromB \in SUBSET Ops
  BY DEF Kind, OpsOf
<1>2. \/ both = fromB /\ fromA \subseteq fromB
      \/ both = fromA /\ fromB \subseteq fromA
  <2>1. CASE OpsOf(k, a \cup b) = OpsOf(k, b) /\ OpsOf(k, a) \subseteq OpsOf(k, b)
    BY <2>1 DEF Kind
  <2>2. CASE OpsOf(k, a \cup b) = OpsOf(k, a) /\ OpsOf(k, b) \subseteq OpsOf(k, a)
    BY <2>2 DEF Kind
  <2>3. QED
    BY <2>1, <2>2, NestedUnion
<1> HIDE DEF fromA, fromB, both
<1>3. IsFiniteSet(fromA) /\ IsFiniteSet(fromB)
  BY <1>1, FS_Subset
<1>4. SumOf(By, fromA) \in Nat /\ SumOf(By, fromB) \in Nat
  BY <1>1, <1>3, OpsCarryNumbers, UnitsAreFinite
<1>5. CASE both = fromB /\ fromA \subseteq fromB
  <2>1. SumOf(By, fromA) <= SumOf(By, fromB)
    BY <1>1, <1>3, <1>5, OpsCarryNumbers, SumOfPart
  <2>2. SumOf(By, both) = IF SumOf(By, fromA) >= SumOf(By, fromB) THEN SumOf(By, fromA) ELSE SumOf(By, fromB)
    BY <1>4, <1>5, <2>1
  <2>3. QED
    BY <2>2 DEF fromA, fromB, both
<1>6. CASE both = fromA /\ fromB \subseteq fromA
  <2>1. SumOf(By, fromB) <= SumOf(By, fromA)
    BY <1>1, <1>3, <1>6, OpsCarryNumbers, SumOfPart
  <2>2. SumOf(By, both) = IF SumOf(By, fromA) >= SumOf(By, fromB) THEN SumOf(By, fromA) ELSE SumOf(By, fromB)
    BY <1>4, <1>6, <2>1
  <2>3. QED
    BY <2>2 DEF fromA, fromB, both
<1>7. QED
  BY <1>2, <1>5, <1>6

LEMMA GatheredUnion ==
    ASSUME NEW a, NEW b, NEW kind
    PROVE  Gathered(kind, a \cup b) = Gathered(kind, a) \cup Gathered(kind, b)
<1>1. Kind(kind, a \cup b) = Kind(kind, a) \cup Kind(kind, b)
  BY DEF Kind
<1>2. QED
  BY <1>1 DEF Gathered

LEMMA SeenUnion ==
    ASSUME NEW a, NEW b
    PROVE  SeenBy(a \cup b) = SeenBy(a) \cup SeenBy(b)
<1>1. Kind("remove", a \cup b) = Kind("remove", a) \cup Kind("remove", b)
  BY DEF Kind
<1>2. QED
  BY <1>1 DEF SeenBy

\* A tag that one side has removed is dead on both; the others live on.
LEMMA AliveUnion ==
    ASSUME NEW a, NEW b
    PROVE  Alive(a \cup b) = {q \in Alive(a) \cup Alive(b) : q[2] \notin SeenBy(a) \cup SeenBy(b)}
<1>1. Kind("add", a \cup b) = Kind("add", a) \cup Kind("add", b)
  BY DEF Kind
<1>2. SeenBy(a \cup b) = SeenBy(a) \cup SeenBy(b)
  BY SeenUnion
<1>3. QED
  BY <1>1, <1>2 DEF Alive

\* A merged state includes what either side has heard of.
LEMMA MergedIncludes ==
    ASSUME NEW t, NEW x \in CrdtState, NEW y \in CrdtState, NEW a \in SUBSET Ops, NEW b \in SUBSET Ops,
           IsFiniteSet(a), IsFiniteSet(b), Nested(a, b), Includes(t, x, a), Includes(t, y, b)
    PROVE  merge(x, y) \in CrdtState /\ Includes(t, merge(x, y), a \cup b)
<1>1. /\ x.p \in [Nodes -> Nat] /\ x.n \in [Nodes -> Nat] /\ y.p \in [Nodes -> Nat] /\ y.n \in [Nodes -> Nat]
      /\ x.adds \subseteq Elements /\ x.removes \subseteq Elements
      /\ y.adds \subseteq Elements /\ y.removes \subseteq Elements
      /\ x.elements \subseteq Elements \X (1 .. MaxOps) /\ y.elements \subseteq Elements \X (1 .. MaxOps)
      /\ x.tombstones \subseteq 1 .. MaxOps /\ y.tombstones \subseteq 1 .. MaxOps
  BY DEF CrdtState, Counter
<1> DEFINE m == merge(x, y)
<1>2. /\ m.p = MergeCounter(x.p, y.p) /\ m.n = MergeCounter(x.n, y.n)
      /\ m.adds = x.adds \cup y.adds /\ m.removes = x.removes \cup y.removes
      /\ m.elements = MergeTags(x, y) /\ m.tombstones = x.tombstones \cup y.tombstones
  BY DEF merge
<1>3. MergeCounter(x.p, y.p) \in [Nodes -> Nat] /\ MergeCounter(x.n, y.n) \in [Nodes -> Nat]
  BY <1>1 DEF MergeCounter
<1>4. MergeTags(x, y) = {q \in x.elements \cup y.elements : q[2] \notin x.tombstones \cup y.tombstones}
  BY DEF MergeTags
<1>5. m \in CrdtState
  <2>1. MergeTags(x, y) \subseteq Elements \X (1 .. MaxOps)
    BY <1>1, <1>4
  <2>2. QED
    BY <1>1, <1>3, <2>1 DEF merge, CrdtState, Counter
<1> HIDE DEF m
<1>6. CountsTell(m, a \cup b)
  <2>1. ASSUME NEW k \in Nodes
        PROVE  m.p[k] = SumOf(By, Kind("inc", OpsOf(k, a \cup b))) /\ m.n[k] = SumOf(By, Kind("dec", OpsOf(k, a \cup b)))
    <3>1. /\ x.p[k] = SumOf(By, Kind("inc", OpsOf(k, a))) /\ y.p[k] = SumOf(By, Kind("inc", OpsOf(k, b)))
          /\ x.n[k] = SumOf(By, Kind("dec", OpsOf(k, a))) /\ y.n[k] = SumOf(By, Kind("dec", OpsOf(k, b)))
      BY DEF Includes, CountsTell
    <3>2. /\ m.p[k] = IF x.p[k] >= y.p[k] THEN x.p[k] ELSE y.p[k]
          /\ m.n[k] = IF x.n[k] >= y.n[k] THEN x.n[k] ELSE y.n[k]
      BY <1>2 DEF MergeCounter
    <3>3. SumOf(By, Kind("inc", OpsOf(k, a \cup b))) = IF x.p[k] >= y.p[k] THEN x.p[k] ELSE y.p[k]
      BY <3>1, LargerCounts
    <3>4. SumOf(By, Kind("dec", OpsOf(k, a \cup b))) = IF x.n[k] >= y.n[k] THEN x.n[k] ELSE y.n[k]
      BY <3>1, LargerCounts
    <3>5. QED
      BY <3>2, <3>3, <3>4
  <2>2. QED
    BY <2>1 DEF CountsTell
<1>7. ASSUME t \in {"GSet", "TwoPSet"} PROVE SetsTell(m, a \cup b)
  <2>1. SetsTell(x, a) /\ SetsTell(y, b)
    BY <1>7 DEF Includes
  <2>2. QED
    BY <1>2, <2>1, GatheredUnion DEF SetsTell
<1>8. ASSUME t = "ORSet" PROVE TagsTell(m, a \cup b)
  <2>1. TagsTell(x, a) /\ TagsTell(y, b)
    BY <1>8 DEF Includes
  <2>2. m.tombstones = SeenBy(a \cup b)
    BY <1>2, <2>1, SeenUnion DEF TagsTell
  <2>3. m.elements = Alive(a \cup b)
    BY <1>2, <1>4, <2>1, AliveUnion DEF TagsTell
  <2>4. QED
    BY <2>2, <2>3 DEF TagsTell
<1>9. Includes(t, m, a \cup b)
  BY <1>6, <1>7, <1>8 DEF Includes
<1>10. QED
  BY <1>5, <1>9 DEF m

LEMMA MergeKeeps ==
    ASSUME CrdtInv, NEW r \in Nodes, Merge(r)
    PROVE  CrdtInv'
<1>1. PICK c \in copies : /\ state' = [state EXCEPT ![r] = merge(state[r], c.state)]
                          /\ known' = [known EXCEPT ![r] = known[r] \cup c.known]
                          /\ crdtType' = crdtType /\ copies' = copies
  BY DEF Merge
<1> DEFINE own == [state |-> state[r], known |-> known[r]]
           s == merge(state[r], c.state)
           ops == known[r] \cup c.known
<1>2. own \in CrdtViews /\ c \in CrdtViews
  BY DEF CrdtViews
<1>3. /\ Issued \in SUBSET Ops /\ IsFiniteSet(Issued)
      /\ state[r] \in CrdtState /\ known[r] \in SUBSET Ops /\ known[r] \subseteq Issued
      /\ c.state \in CrdtState /\ c.known \in SUBSET Ops /\ c.known \subseteq Issued
  <2>1. own.state = state[r] /\ own.known = known[r]
    OBVIOUS
  <2>2. QED
    BY <1>2, <2>1, ViewsKnowIssued DEF CrdtInv, OpsNumbered
<1>4. IsFiniteSet(known[r]) /\ IsFiniteSet(c.known)
  BY <1>3, FS_Subset
<1>5. Nested(known[r], c.known)
  BY <1>2 DEF CrdtInv, ViewsNested
<1>6. Includes(crdtType, state[r], known[r]) /\ Includes(crdtType, c.state, c.known)
  BY <1>2 DEF CrdtInv, StatesTell
<1>7. s \in CrdtState /\ Includes(crdtType, s, ops)
  BY <1>3, <1>4, <1>5, <1>6, MergedIncludes
<1>8. Issued' = Issued
  <2>1. Issued' = UNION {known'[k] : k \in Nodes}
    BY DEF Issued
  <2>2. \A k \in Nodes : known'[k] = IF k = r THEN ops ELSE known[k]
    BY <1>1 DEF CrdtInv, CrdtTyped
  <2>3. ASSUME NEW x \in Issued' PROVE x \in Issued
    <3>1. PICK k \in Nodes : x \in known'[k]
      BY <2>1
    <3>2. QED
      BY <1>3, <2>2, <3>1 DEF Issued
  <2>4. ASSUME NEW x \in Issued PROVE x \in Issued'
    <3>1. PICK k \in Nodes : x \in known[k]
      BY DEF Issued
    <3>2. x \in known'[k]
      BY <2>2, <3>1
    <3>3. QED
      BY <2>1, <3>2
  <2>5. QED
    BY <2>3, <2>4
<1>9. OpsNumbered' /\ OpsFit'
  BY <1>1, <1>8 DEF CrdtInv, OpsNumbered, OpsFit
<1>10. ASSUME NEW v \in CrdtViews PROVE Nested(ops, v.known)
  <2>1. Nested(known[r], v.known) /\ Nested(c.known, v.known)
    BY <1>2 DEF CrdtInv, ViewsNested
  <2>2. ASSUME NEW k \in Nodes PROVE OpsOf(k, ops) \subseteq v.known \/ OpsOf(k, v.known) \subseteq ops
    <3>1. OpsOf(k, ops) = OpsOf(k, c.known) \/ OpsOf(k, ops) = OpsOf(k, known[r])
      BY <1>5, NestedUnion
    <3>2. QED
      BY <2>1, <3>1 DEF Nested
  <2>3. QED
    BY <2>2 DEF Nested
<1>11. ASSUME NEW k \in Nodes PROVE OpsOf(k, ops) \subseteq known[k]
  <2>1. OpsOf(k, known[r]) \subseteq known[k] /\ OpsOf(k, c.known) \subseteq known[k]
    BY <1>2 DEF CrdtInv, AuthorsLead
  <2>2. QED
    BY <2>1 DEF OpsOf
<1>12. ops \in SUBSET Ops /\ known[r] \subseteq ops
  BY <1>3
<1>13. state' = [state EXCEPT ![r] = s] /\ known' = [known EXCEPT ![r] = ops]
  BY <1>1
<1> HIDE DEF s, ops
<1>14. QED
  BY <1>1, <1>7, <1>9, <1>10, <1>11, <1>12, <1>13, StateTaken

\* A copy is what its replica is when it is taken.
LEMMA CopyKeeps ==
    ASSUME CrdtInv, NEW r \in Nodes, Copy(r)
    PROVE  CrdtInv'
<1>1. CrdtViews' = CrdtViews
  BY DEF Copy, CrdtViews
<1>2. Issued' = Issued /\ crdtType' = crdtType /\ known' = known /\ state' = state
  BY DEF Copy, Issued
<1>3. CrdtTyped'
  BY DEF CrdtInv, CrdtTyped, CrdtView, Copy
<1>4. QED
  BY <1>1, <1>2, <1>3 DEF CrdtInv, OpsNumbered, OpsFit, ViewsNested, AuthorsLead, StatesTell

LEMMA CrdtInitKeeps == CrdtInit => CrdtInv
<1> SUFFICES ASSUME CrdtInit PROVE CrdtInv
  OBVIOUS
<1>1. emptyState \in CrdtState
  BY DEF emptyState, zeroCounter, Counter, CrdtState
<1>2. CrdtTyped
  BY <1>1 DEF CrdtInit, CrdtTyped
<1>3. Issued = {}
  BY DEF Issued, CrdtInit
<1>4. OpsNumbered /\ OpsFit
  BY <1>3, FS_EmptySet, CrdtAssumption DEF OpsNumbered, OpsFit
<1>5. \A v \in CrdtViews : v.known = {} /\ v.state = emptyState
  BY DEF CrdtViews, CrdtInit
<1>6. ViewsNested /\ AuthorsLead
  BY <1>5 DEF ViewsNested, AuthorsLead, Nested, OpsOf
<1>7. Includes(crdtType, emptyState, {})
  <2>1. \A kind : Kind(kind, {}) = {}
    BY DEF Kind
  <2>2. \A k : OpsOf(k, {}) = {}
    BY DEF OpsOf
  <2>3. CountsTell(emptyState, {})
    BY <2>1, <2>2, SumOfNone DEF CountsTell, emptyState, zeroCounter
  <2>4. SetsTell(emptyState, {}) /\ TagsTell(emptyState, {})
    BY <2>1 DEF SetsTell, TagsTell, emptyState, Gathered, Alive, SeenBy
  <2>5. QED
    BY <2>3, <2>4 DEF Includes
<1>8. StatesTell
  BY <1>5, <1>7 DEF StatesTell
<1>9. QED
  BY <1>2, <1>4, <1>6, <1>8 DEF CrdtInv

LEMMA CrdtNextKeeps == CrdtInv /\ [CrdtNext]_crdtVars => CrdtInv'
<1> SUFFICES ASSUME CrdtInv, [CrdtNext]_crdtVars PROVE CrdtInv'
  OBVIOUS
<1>1. ASSUME NEW r \in Nodes, NEW by \in Amounts, Inc(r, by) \/ Dec(r, by) PROVE CrdtInv'
  BY <1>1, IncKeeps, DecKeeps
<1>2. ASSUME NEW r \in Nodes, NEW el \in Elements, Add(r, el) \/ RemoveElement(r, el) PROVE CrdtInv'
  BY <1>2, AddKeeps, RemoveKeeps
<1>3. ASSUME NEW r \in Nodes, NEW el \in Elements, AddTag(r, el) \/ RemoveObserved(r, el) PROVE CrdtInv'
  BY <1>3, AddTagKeeps, RemoveObservedKeeps
<1>4. ASSUME NEW r \in Nodes, Copy(r) \/ Merge(r) PROVE CrdtInv'
  BY <1>4, CopyKeeps, MergeKeeps
<1>5. CASE UNCHANGED crdtVars
  <2>1. crdtType' = crdtType /\ state' = state /\ known' = known /\ copies' = copies
    BY <1>5 DEF crdtVars
  <2>2. Issued' = Issued /\ CrdtViews' = CrdtViews
    BY <2>1 DEF Issued, CrdtViews
  <2>3. QED
    BY <2>1, <2>2 DEF CrdtInv, CrdtTyped, OpsNumbered, OpsFit, ViewsNested, AuthorsLead, StatesTell
<1>6. QED
  BY <1>1, <1>2, <1>3, <1>4, <1>5 DEF CrdtNext

-----------------------------------------------------------------------------
(* Values.                                                                 *)

\* The value of a counter is the sum over the nodes.
LEMMA CounterIsSum ==
    ASSUME NEW c \in Counter
    PROVE  CounterValue(c) = SumOf(c, Nodes)
<1> DEFINE Rec(g) == g = [s \in SUBSET Nodes |-> IF s = {} THEN 0
                              ELSE c[CHOOSE x \in s : TRUE] + g[s \ {CHOOSE x \in s : TRUE}]]
<1>1. CounterValue(c) = (CHOOSE g : Rec(g))[Nodes]
  BY DEF CounterValue, FoldSet, MapThenFoldSet
<1>2. (CHOOSE g : Rec(g)) = CHOOSE g : AddsUp(c, Nodes, g)
  BY DEF AddsUp
<1>3. c \in [Nodes -> Nat] /\ IsFiniteSet(Nodes)
  BY CrdtAssumption DEF Counter
<1> HIDE DEF Rec
<1>4. QED
  BY <1>1, <1>2, <1>3, FoldIsSum

\* The total of a set of operations is the sum of what they carry.
LEMMA TotalIsSum ==
    ASSUME NEW ops \in SUBSET Ops, IsFiniteSet(ops)
    PROVE  Total(ops) = SumOf(By, ops)
<1> DEFINE Rec(g) == g = [s \in SUBSET ops |-> IF s = {} THEN 0
                              ELSE (CHOOSE x \in s : TRUE).by + g[s \ {CHOOSE x \in s : TRUE}]]
           f == [op \in ops |-> op.by]
<1>1. Total(ops) = (CHOOSE g : Rec(g))[ops]
  BY DEF Total, FoldSet, MapThenFoldSet
<1>2. f \in [ops -> Nat]
  BY DEF Ops
<1>3. ASSUME NEW g PROVE Rec(g) <=> AddsUp(f, ops, g)
  <2>1. ASSUME NEW s \in SUBSET ops, s # {} PROVE f[CHOOSE x \in s : TRUE] = (CHOOSE x \in s : TRUE).by
    <3>1. (CHOOSE x \in s : TRUE) \in ops
      BY <2>1
    <3>2. QED
      BY <3>1
  <2> HIDE DEF f
  <2>2. [s \in SUBSET ops |-> IF s = {} THEN 0
             ELSE (CHOOSE x \in s : TRUE).by + g[s \ {CHOOSE x \in s : TRUE}]] =
        [s \in SUBSET ops |-> IF s = {} THEN 0
             ELSE f[CHOOSE x \in s : TRUE] + g[s \ {CHOOSE x \in s : TRUE}]]
    BY <2>1
  <2>3. QED
    BY <2>2 DEF AddsUp
<1> HIDE DEF Rec, f
<1>4. \E g : Rec(g)
  BY <1>2, <1>3, SumsAddUp
<1>5. PICK g : g = CHOOSE h : Rec(h)
  OBVIOUS
<1>6. AddsUp(f, ops, g)
  <2>1. Rec(CHOOSE h : Rec(h))
    BY <1>4
  <2>2. QED
    BY <1>3, <1>5, <2>1
<1>7. g[ops] = SumOf(f, ops)
  BY <1>2, <1>6, SumIsUnique
<1>8. SumOf(f, ops) = SumOf(By, ops)
  <2>1. UnitsIn(f, ops) = UnitsIn(By, ops)
    BY DEF UnitsIn, f, By
  <2>2. QED
    BY <2>1 DEF SumOf
<1>9. QED
  BY <1>1, <1>5, <1>7, <1>8

\* Operations of two parts carry what each part does.
LEMMA OpsSumTogether ==
    ASSUME NEW a \in SUBSET Ops, NEW b \in SUBSET Ops, IsFiniteSet(a), IsFiniteSet(b), a \cap b = {}
    PROVE  SumOf(By, a \cup b) = SumOf(By, a) + SumOf(By, b)
  BY OpsCarryNumbers, SumOfUnion

\* What the counts of all nodes come to is what all operations carry.
LEMMA SumsByNode ==
    ASSUME NEW ops \in SUBSET Ops, IsFiniteSet(ops), NEW c \in [Nodes -> Nat], NEW kind,
           \A k \in Nodes : c[k] = SumOf(By, Kind(kind, OpsOf(k, ops)))
    PROVE  SumOf(c, Nodes) = SumOf(By, Kind(kind, ops))
<1> DEFINE Part(s) == {op \in Kind(kind, ops) : op.node \in s}
           G == {s \in SUBSET Nodes : SumOf(c, s) = SumOf(By, Part(s))}
<1>1. \A s : Part(s) \in SUBSET Ops /\ IsFiniteSet(Part(s))
  <2>1. \A s : Part(s) \in SUBSET ops
    BY DEF Kind
  <2>2. QED
    BY <2>1, FS_Subset
<1>2. {} \in G
  <2>1. Part({}) = {}
    OBVIOUS
  <2>2. QED
    BY <2>1, SumOfNone
<1>3. ASSUME NEW s \in SUBSET Nodes, NEW x \in s, s \ {x} \in G PROVE s \in G
  <2>1. Part(s) = Kind(kind, OpsOf(x, ops)) \cup Part(s \ {x})
    BY DEF Kind, OpsOf
  <2>2. Kind(kind, OpsOf(x, ops)) \cap Part(s \ {x}) = {}
    BY DEF Kind, OpsOf
  <2>3. Kind(kind, OpsOf(x, ops)) \in SUBSET Ops /\ IsFiniteSet(Kind(kind, OpsOf(x, ops)))
    <3>1. Kind(kind, OpsOf(x, ops)) \in SUBSET ops
      BY DEF Kind, OpsOf
    <3>2. QED
      BY <3>1, FS_Subset
  <2>4. IsFiniteSet(s)
    BY CrdtAssumption, FS_Subset
  <2>5. SumOf(c, s) = c[x] + SumOf(c, s \ {x})
    BY <2>4, SumOfMore
  <2>6. SumOf(c, s \ {x}) = SumOf(By, Part(s \ {x}))
    BY <1>3
  <2>7. c[x] = SumOf(By, Kind(kind, OpsOf(x, ops)))
    OBVIOUS
  <2> HIDE DEF Part
  <2>8. SumOf(By, Part(s)) = SumOf(By, Kind(kind, OpsOf(x, ops))) + SumOf(By, Part(s \ {x}))
    <3>1. PICK one \in SUBSET Ops : one = Kind(kind, OpsOf(x, ops)) /\ IsFiniteSet(one)
      BY <2>3
    <3>2. PICK rest \in SUBSET Ops : rest = Part(s \ {x}) /\ IsFiniteSet(rest)
      BY <1>1
    <3>3. one \cap rest = {} /\ Part(s) = one \cup rest
      BY <2>1, <2>2, <3>1, <3>2
    <3>4. SumOf(By, one \cup rest) = SumOf(By, one) + SumOf(By, rest)
      BY <3>1, <3>2, <3>3, OpsSumTogether
    <3>5. QED
      BY <3>1, <3>2, <3>3, <3>4
  <2>9. QED
    BY <2>5, <2>6, <2>7, <2>8
<1>4. Part(Nodes) = Kind(kind, ops)
  BY DEF Kind, Ops
<1> HIDE DEF G
<1>5. SUBSET Nodes \subseteq G
  BY <1>2, <1>3, CrdtAssumption, GrowingSubsets
<1>6. QED
  BY <1>4, <1>5 DEF G

\* A counter shows what the operations it has heard of carry.
LEMMA CounterShows ==
    ASSUME NEW ops \in SUBSET Ops, IsFiniteSet(ops), NEW c \in Counter, NEW kind,
           \A k \in Nodes : c[k] = SumOf(By, Kind(kind, OpsOf(k, ops)))
    PROVE  CounterValue(c) = Total(Kind(kind, ops)) /\ CounterValue(c) \in Nat
<1>1. c \in [Nodes -> Nat]
  BY DEF Counter
<1>2. Kind(kind, ops) \in SUBSET Ops /\ IsFiniteSet(Kind(kind, ops))
  <2>1. Kind(kind, ops) \in SUBSET ops
    BY DEF Kind
  <2>2. QED
    BY <2>1, FS_Subset
<1>3. Total(Kind(kind, ops)) = SumOf(By, Kind(kind, ops))
  BY <1>2, TotalIsSum
<1>4. CounterValue(c) = SumOf(c, Nodes)
  BY CounterIsSum
<1>5. SumOf(c, Nodes) = SumOf(By, Kind(kind, ops))
  BY <1>1, SumsByNode
<1>6. SumOf(c, Nodes) \in Nat
  BY <1>1, CrdtAssumption, UnitsAreFinite
<1>7. QED
  BY <1>3, <1>4, <1>5, <1>6

\* The value of a replica is a function of the operations it has heard of.
LEMMA ValuesFollow ==
    ASSUME CrdtInv, NEW r \in Nodes
    PROVE  value(state[r]) = Expected(known[r])
<1> DEFINE ops == known[r]
           s == state[r]
<1>1. [state |-> state[r], known |-> known[r]] \in CrdtViews
  BY DEF CrdtViews
<1>2. Includes(crdtType, s, ops)
  BY <1>1 DEF CrdtInv, StatesTell
<1>3. ops \in SUBSET Ops /\ IsFiniteSet(ops) /\ ops \subseteq Issued
  BY OperationIsNew
<1>4. crdtType \in CrdtTypes /\ s \in CrdtState
  BY DEF CrdtInv, CrdtTyped
<1> HIDE DEF ops, s
<1>5. CounterValue(s.p) = Total(Kind("inc", ops)) /\ CounterValue(s.p) \in Nat
  BY <1>2, <1>3, <1>4, CounterShows DEF Includes, CountsTell, CrdtState
<1>6. CounterValue(s.n) = Total(Kind("dec", ops)) /\ CounterValue(s.n) \in Nat
  BY <1>2, <1>3, <1>4, CounterShows DEF Includes, CountsTell, CrdtState
<1>7. CASE crdtType = "PNCounter"
  <2>1. value(s) = CounterValue(s.p) - CounterValue(s.n)
    BY <1>7 DEF value
  <2>2. Expected(ops) = Total(Kind("inc", ops)) - Total(Kind("dec", ops))
    BY <1>7 DEF Expected
  <2>3. QED
    BY <1>5, <1>6, <2>1, <2>2 DEF ops, s
<1>8. CASE crdtType = "GCounter"
  <2>1. Kind("dec", ops) = {}
    BY <1>3, <1>8 DEF CrdtInv, OpsFit, Fits, Kind
  <2>2. Total(Kind("dec", ops)) = 0
    BY <2>1, TotalIsSum, SumOfNone, FS_EmptySet
  <2>3. value(s) = CounterValue(s.p)
    BY <1>8 DEF value
  <2>4. Expected(ops) = Total(Kind("inc", ops)) - Total(Kind("dec", ops))
    BY <1>8 DEF Expected
  <2>5. QED
    BY <1>5, <2>2, <2>3, <2>4 DEF ops, s
<1>9. CASE crdtType \in {"GSet", "TwoPSet"}
  <2>1. s.adds = Gathered("add", ops) /\ s.removes = Gathered("remove", ops)
    BY <1>2, <1>9 DEF Includes, SetsTell
  <2>2. Expected(ops) = Gathered("add", ops) \ Gathered("remove", ops)
    BY <1>9 DEF Expected, Gathered
  <2>3. CASE crdtType = "TwoPSet"
    <3>1. value(s) = s.adds \ s.removes
      BY <2>3 DEF value
    <3>2. QED
      BY <2>1, <2>2, <3>1 DEF ops, s
  <2>4. CASE crdtType = "GSet"
    <3>1. value(s) = s.adds
      BY <2>4 DEF value
    <3>2. Kind("remove", ops) = {}
      BY <1>3, <2>4 DEF CrdtInv, OpsFit, Fits, Kind
    <3>3. Gathered("remove", ops) = {}
      BY <3>2 DEF Gathered
    <3>4. QED
      BY <2>1, <2>2, <3>1, <3>3 DEF ops, s
  <2>5. QED
    BY <1>9, <2>3, <2>4
<1>10. CASE crdtType = "ORSet"
  <2>1. s.elements = Alive(ops)
    BY <1>2, <1>10 DEF Includes, TagsTell
  <2>2. value(s) = TagValue(s.elements)
    BY <1>10 DEF value
  <2> DEFINE living == {a \in Kind("add", ops) : \A d \in Kind("remove", ops) : a.tag \notin d.seen}
  <2>3. Expected(ops) = UNION {op.el : op \in living}
    BY <1>10 DEF Expected
  <2>4. ASSUME NEW e \in TagValue(Alive(ops)) PROVE e \in UNION {op.el : op \in living}
    <3>1. PICK q \in Alive(ops) : e = q[1]
      BY DEF TagValue
    <3>2. PICK a \in Kind("add", ops) : q[1] \in a.el /\ q[2] = a.tag
      BY <3>1 DEF Alive
    <3>3. a \in living
      BY <3>1, <3>2 DEF Alive, SeenBy
    <3>4. QED
      BY <3>1, <3>2, <3>3
  <2>5. ASSUME NEW a \in living, NEW e \in a.el PROVE e \in TagValue(Alive(ops))
    <3>1. a \in Ops /\ a \in Issued
      BY <1>3 DEF Kind
    <3>2. e \in Elements /\ a.tag \in 1 .. MaxOps
      <4>1. a.tag \in 1 .. Cardinality(Issued) /\ Cardinality(Issued) <= MaxOps /\ IsFiniteSet(Issued)
        BY <3>1 DEF CrdtInv, OpsNumbered
      <4>2. Cardinality(Issued) \in Nat
        BY <4>1, FS_CardinalityType
      <4>3. QED
        BY <3>1, <4>1, <4>2, CrdtAssumption DEF Ops
    <3>3. <<e, a.tag>> \in Alive(ops)
      BY <3>2 DEF Alive, SeenBy
    <3>4. <<e, a.tag>>[1] = e
      OBVIOUS
    <3>5. QED
      BY <3>3, <3>4 DEF TagValue
  <2>6. TagValue(Alive(ops)) = UNION {op.el : op \in living}
    BY <2>4, <2>5
  <2>7. QED
    BY <2>1, <2>2, <2>3, <2>6 DEF ops, s
<1>11. QED
  BY <1>4, <1>7, <1>8, <1>9, <1>10 DEF CrdtTypes

\* ValueIsOfKnownOps (merge and value of the five classes): with any number of replicas,
\* operations and copies, merged in any order, late and repeatedly, the value of a
\* replica is that of the set of operations it has heard of.
THEOREM ReplicasConverge == CrdtSpec => []ValueIsOfKnownOps
<1>1. CrdtInit => CrdtInv
  BY CrdtInitKeeps
<1>2. CrdtInv /\ [CrdtNext]_crdtVars => CrdtInv'
  BY CrdtNextKeeps
<1>3. CrdtInv => ValueIsOfKnownOps
  <2> SUFFICES ASSUME CrdtInv PROVE ValueIsOfKnownOps
    OBVIOUS
  <2>1. CrdtTypeOK
    BY DEF CrdtInv, CrdtTyped, CrdtTypeOK, CrdtState
  <2>2. QED
    BY <2>1, ValuesFollow DEF ValueIsOfKnownOps
<1>4. QED
  BY <1>1, <1>2, <1>3, PTL DEF CrdtSpec

(***************************************************************************)
(* Vector clocks (14-eventual-consistency/vector-clocks.ts).               *)
(***************************************************************************)

\* Everything that pairs a clock with what its owner knows of: a node, a
\* snapshot wherever it travels, an event.
Views ==
    {[clock |-> clock[n], past |-> history[n]] : n \in ClockNodes}
        \cup snapshots
        \cup {[clock |-> e.clock, past |-> e.past \cup {e.id}] : e \in stamped}

Count == Cardinality(stamped)
View == [clock : Clock, past : SUBSET (1 .. Count)]
Event == [id : 1 .. Count, node : ClockNodes, clock : Clock, past : SUBSET (1 .. Count)]

\* The clock of a view tells which events are known to it: an event is, exactly
\* when the view has heard of that tick of the event's node, and then the view's
\* clock has all that the event's has.  No clock is ahead of a node's own.
Tells(v) ==
    /\ \A k \in ClockNodes : v.clock[k] <= clock[k][k]
    /\ \A e \in stamped :
         /\ e.id \in v.past <=> e.clock[e.node] <= v.clock[e.node]
         /\ e.id \in v.past => \A k \in ClockNodes : e.clock[k] <= v.clock[k]

ClockShape ==
    /\ clock \in [ClockNodes -> Clock]
    /\ IsFiniteSet(stamped) /\ Count <= MaxStamps
    /\ stamped \subseteq Event
    /\ snapshots \subseteq View
    /\ history \in [ClockNodes -> SUBSET (1 .. Count)]

ClockInv ==
    /\ ClockShape
    /\ \A e, f \in stamped : e.id = f.id => e = f
    /\ \A e \in stamped : \A i \in e.past : i < e.id
    /\ \A v \in Views : Tells(v)

\* No event is stamped and nobody knows of any (vector-clocks.ts:66).
LEMMA ClocksStart == ClockInit => ClockInv
<1> SUFFICES ASSUME ClockInit PROVE ClockInv
  OBVIOUS
<1>1. IsFiniteSet(stamped) /\ Count = 0
  BY FS_EmptySet DEF ClockInit, Count
<1>2. ClockShape
  BY <1>1, ClockAssumption DEF ClockInit, ClockShape, Clock, zeroClock
<1>3. \A v \in Views : Tells(v)
  BY DEF ClockInit, Views, Tells, zeroClock
<1> QED
  BY <1>2, <1>3 DEF ClockInit, ClockInv

\* Every view is a clock and a set of events that exist.
LEMMA ViewsAreViews ==
  ASSUME ClockInv, NEW v \in Views
  PROVE  v \in View /\ v.clock \in Clock /\ v.past \in SUBSET (1 .. Count)
<1>1. CASE \E n \in ClockNodes : v = [clock |-> clock[n], past |-> history[n]]
  BY <1>1 DEF ClockInv, ClockShape, View
<1>2. CASE v \in snapshots
  BY <1>2 DEF ClockInv, ClockShape, View
<1>3. CASE \E e \in stamped : v = [clock |-> e.clock, past |-> e.past \cup {e.id}]
  BY <1>3 DEF ClockInv, ClockShape, View, Event
<1> QED
  BY <1>1, <1>2, <1>3 DEF Views, View

\* A snapshot adds no view: it is the node's own, kept (vector-clocks.ts:86).
LEMMA SnapshotKeeps ==
  ASSUME ClockInv, NEW n \in ClockNodes, snapshot(n)
  PROVE  ClockInv'
<1> DEFINE v == [clock |-> clock[n], past |-> history[n]]
<1>1. snapshots' = snapshots \cup {v} /\ UNCHANGED <<clock, stamped, history>>
  BY DEF snapshot
<1>2. v \in Views /\ v \in View
  BY ViewsAreViews DEF Views
<1> HIDE DEF v
<1>3. Views' = Views
  BY <1>1, <1>2 DEF Views
<1>4. ClockShape'
  BY <1>1, <1>2 DEF ClockInv, ClockShape, Count, Event, View
<1>5. \A w \in Views' : Tells(w)'
  BY <1>1, <1>3 DEF ClockInv, Tells
<1> QED
  BY <1>1, <1>4, <1>5 DEF ClockInv

\* What a new event of node n needs to keep the clocks telling: its clock moves
\* n's own component by one tick, takes no other from ahead of its node, and the
\* events it knows of are those its clock covers (vector-clocks.ts:91).
LEMMA StampKeeps ==
  ASSUME ClockInv, NEW n \in ClockNodes, NEW c \in Clock, NEW before \in SUBSET (1 .. Count),
         Stamp(n, c, before), UNCHANGED snapshots,
         c[n] = clock[n][n] + 1,
         \A k \in ClockNodes \ {n} : c[k] <= clock[k][k],
         \A e \in stamped :
            /\ e.id \in before <=> e.clock[e.node] <= c[e.node]
            /\ e.id \in before => \A k \in ClockNodes : e.clock[k] <= c[k]
  PROVE  ClockInv'
<1> DEFINE x == [id |-> Count + 1, node |-> n, clock |-> c, past |-> before]
<1>0. PICK own : own = [clock |-> c, past |-> before \cup {Count + 1}]
  OBVIOUS
<1>1. /\ Count + 1 <= MaxStamps /\ clock' = [clock EXCEPT ![n] = c]
      /\ stamped' = stamped \cup {x} /\ history' = [history EXCEPT ![n] = before \cup {Count + 1}]
  BY DEF Stamp, Count
<1>2. /\ Count \in Nat /\ IsFiniteSet(stamped) /\ clock \in [ClockNodes -> Clock]
      /\ stamped \subseteq Event /\ snapshots \subseteq View /\ history \in [ClockNodes -> SUBSET (1 .. Count)]
  BY FS_CardinalityType DEF ClockInv, ClockShape, Count
<1>3. x.id = Count + 1 /\ x.node = n /\ x.clock = c /\ x.past = before
  OBVIOUS
<1>4. \A e \in stamped : e.id \in 1 .. Count /\ e.node \in ClockNodes /\ e.clock \in Clock /\ e.past \in SUBSET (1 .. Count)
  BY <1>2 DEF Event
<1>5. x \notin stamped
  BY <1>2, <1>3, <1>4
<1>6. IsFiniteSet(stamped') /\ Count' = Count + 1
  <2> HIDE DEF x
  <2> QED
    BY <1>1, <1>2, <1>5, FS_AddElement DEF Count
<1>7. 1 .. Count \subseteq 1 .. Count' /\ Count + 1 \in 1 .. Count'
  BY <1>2, <1>6
<1>8. ClockShape'
  <2>1. x \in Event'
    BY <1>7 DEF Event
  <2>2. stamped' \subseteq Event'
    BY <1>1, <1>2, <1>7, <2>1 DEF Event
  <2>3. snapshots' \subseteq View'
    BY <1>2, <1>7 DEF View
  <2>4. clock' \in [ClockNodes -> Clock] /\ Clock' = Clock
    BY <1>1, <1>2 DEF Clock
  <2>5. history' \in [ClockNodes -> SUBSET (1 .. Count')]
    BY <1>1, <1>2, <1>7
  <2> QED
    BY <1>1, <1>6, <2>2, <2>3, <2>4, <2>5 DEF ClockShape
<1>9. \A e, f \in stamped' : e.id = f.id => e = f
  BY <1>1, <1>2, <1>3, <1>4 DEF ClockInv
<1>10. \A e \in stamped' : \A i \in e.past : i < e.id
  <2>1. \A e \in stamped : \A i \in e.past : i < e.id
    BY DEF ClockInv
  <2>2. \A i \in x.past : i < x.id
    BY <1>2, <1>3
  <2> HIDE DEF x
  <2> QED
    BY <1>1, <2>1, <2>2
<1>11. \A k \in ClockNodes : /\ clock[k][k] \in Nat /\ clock'[k][k] = IF k = n THEN clock[n][n] + 1 ELSE clock[k][k]
                             /\ c[k] \in Nat
  BY <1>1, <1>2 DEF Clock
<1>12. \A k \in ClockNodes : clock[k][k] <= clock'[k][k] /\ c[k] <= clock'[k][k]
  BY <1>11
<1>13. Views' \subseteq Views \cup {own}
  <2>1. \A k \in ClockNodes : [clock |-> clock'[k], past |-> history'[k]] \in Views \cup {own}
    <3> SUFFICES ASSUME NEW k \in ClockNodes
                 PROVE  [clock |-> clock'[k], past |-> history'[k]] \in Views \cup {own}
      OBVIOUS
    <3>1. CASE k = n
      BY <1>0, <1>1, <1>2, <3>1
    <3>2. CASE k # n
      <4>1. clock'[k] = clock[k] /\ history'[k] = history[k]
        BY <1>1, <1>2, <3>2
      <4> QED
        BY <4>1 DEF Views
    <3> QED
      BY <3>1, <3>2
  <2>2. \A e \in stamped' : [clock |-> e.clock, past |-> e.past \cup {e.id}] \in Views \cup {own}
    BY <1>0, <1>1, <1>3 DEF Views
  <2>3. snapshots' \subseteq Views
    BY DEF Views
  <2> QED
    BY <2>1, <2>2, <2>3 DEF Views
<1>14. ASSUME NEW v \in Views PROVE Tells(v)'
  <2>1. v.clock \in Clock /\ v.past \in SUBSET (1 .. Count) /\ Tells(v)
    BY ViewsAreViews DEF ClockInv
  <2>2. \A k \in ClockNodes : v.clock[k] \in Nat /\ v.clock[k] <= clock[k][k]
    BY <2>1 DEF Tells, Clock
  <2>3. x.id \notin v.past /\ ~ (x.clock[x.node] <= v.clock[x.node])
    BY <1>2, <1>3, <1>11, <2>1, <2>2
  <2>4. \A k \in ClockNodes : v.clock[k] <= clock'[k][k]
    BY <1>11, <2>2
  <2>5. \A e \in stamped :
          /\ e.id \in v.past <=> e.clock[e.node] <= v.clock[e.node]
          /\ e.id \in v.past => \A k \in ClockNodes : e.clock[k] <= v.clock[k]
    BY <2>1 DEF Tells
  <2> HIDE DEF x
  <2>6. \A e \in stamped' :
          /\ e.id \in v.past <=> e.clock[e.node] <= v.clock[e.node]
          /\ e.id \in v.past => \A k \in ClockNodes : e.clock[k] <= v.clock[k]
    BY <1>1, <2>3, <2>5
  <2> QED
    BY <2>4, <2>6 DEF Tells
<1>15. Tells(own)'
  <2>1. own.clock = c /\ own.past = before \cup {Count + 1}
    BY <1>0
  <2>2. ASSUME NEW e \in stamped
        PROVE  /\ e.id \in own.past <=> e.clock[e.node] <= own.clock[e.node]
               /\ e.id \in own.past => \A k \in ClockNodes : e.clock[k] <= own.clock[k]
    <3>1. e.id # Count + 1
      BY <1>2, <1>4
    <3>2. e.id \in own.past <=> e.id \in before
      BY <2>1, <3>1
    <3> HIDE DEF x
    <3> QED
      BY <2>1, <3>2
  <2>3. /\ x.id \in own.past <=> x.clock[x.node] <= own.clock[x.node]
        /\ x.id \in own.past => \A k \in ClockNodes : x.clock[k] <= own.clock[k]
    BY <1>3, <1>11, <2>1
  <2> HIDE DEF x
  <2>4. \A e \in stamped' :
          /\ e.id \in own.past <=> e.clock[e.node] <= own.clock[e.node]
          /\ e.id \in own.past => \A k \in ClockNodes : e.clock[k] <= own.clock[k]
    BY <1>1, <2>2, <2>3
  <2>5. \A k \in ClockNodes : own.clock[k] <= clock'[k][k]
    BY <1>12, <2>1
  <2> QED
    BY <2>4, <2>5 DEF Tells
<1>16. \A v \in Views' : Tells(v)'
  <2> HIDE DEF x
  <2> QED
    BY <1>13, <1>14, <1>15
<1> QED
  BY <1>8, <1>9, <1>10, <1>16 DEF ClockInv

\* A local event knows what its node knows (vector-clocks.ts:73).
LEMMA LocalKeeps ==
  ASSUME ClockInv, NEW n \in ClockNodes, local(n)
  PROVE  ClockInv'
<1> DEFINE v == [clock |-> clock[n], past |-> history[n]]
           c == Tick(n)
<1>1. v \in Views /\ v.clock = clock[n] /\ v.past = history[n]
  BY DEF Views
<1>2. Tells(v) /\ history[n] \in SUBSET (1 .. Count) /\ clock \in [ClockNodes -> Clock]
  BY <1>1 DEF ClockInv, ClockShape
<1>3. /\ c \in Clock /\ c[n] = clock[n][n] + 1 /\ clock[n][n] \in Nat
      /\ \A k \in ClockNodes \ {n} : c[k] = clock[n][k]
      /\ \A k \in ClockNodes : clock[n][k] \in Nat /\ clock[n][k] <= c[k]
  BY <1>2 DEF Tick, Clock
<1>4. Stamp(n, c, history[n]) /\ UNCHANGED snapshots
  BY DEF local
<1> HIDE DEF c, v
<1>5. \A k \in ClockNodes \ {n} : c[k] <= clock[k][k]
  BY <1>1, <1>2, <1>3 DEF Tells
<1>6. ASSUME NEW e \in stamped
      PROVE  /\ e.id \in history[n] <=> e.clock[e.node] <= c[e.node]
             /\ e.id \in history[n] => \A k \in ClockNodes : e.clock[k] <= c[k]
  <2>1. e.node \in ClockNodes /\ \A k \in ClockNodes : e.clock[k] \in Nat
    BY DEF ClockInv, ClockShape, Event, Clock
  <2>2. /\ e.id \in history[n] <=> e.clock[e.node] <= clock[n][e.node]
        /\ e.id \in history[n] => \A k \in ClockNodes : e.clock[k] <= clock[n][k]
    BY <1>1, <1>2 DEF Tells
  <2>3. e.node = n => e.clock[n] <= clock[n][n]
    <3> DEFINE w == [clock |-> e.clock, past |-> e.past \cup {e.id}]
    <3>1. w \in Views /\ w.clock = e.clock
      BY DEF Views
    <3> HIDE DEF w
    <3> QED
      BY <3>1 DEF ClockInv, Tells
  <2>4. e.clock[e.node] <= c[e.node] <=> e.clock[e.node] <= clock[n][e.node]
    <3>1. CASE e.node = n
      BY <1>3, <2>1, <2>3, <3>1
    <3>2. CASE e.node # n
      BY <1>3, <2>1, <3>2
    <3> QED
      BY <3>1, <3>2
  <2>5. e.id \in history[n] => \A k \in ClockNodes : e.clock[k] <= c[k]
    BY <1>3, <2>1, <2>2
  <2> QED
    BY <2>2, <2>4, <2>5
<1> QED
  BY <1>2, <1>3, <1>4, <1>5, <1>6, StampKeeps

\* An event that receives a snapshot knows what its node and the snapshot know,
\* however old the snapshot is and however often it has arrived before
\* (vector-clocks.ts:91).
LEMMA ReceiveKeeps ==
  ASSUME ClockInv, NEW n \in ClockNodes, receive(n)
  PROVE  ClockInv'
<1> DEFINE v == [clock |-> clock[n], past |-> history[n]]
<1>1. PICK m \in snapshots : /\ Stamp(n, maxClock(Tick(n), m.clock), history[n] \cup m.past)
                             /\ UNCHANGED snapshots
  BY DEF receive
<1> DEFINE c == maxClock(Tick(n), m.clock)
           heard == history[n] \cup m.past
<1>2. v \in Views /\ v.clock = clock[n] /\ v.past = history[n] /\ m \in Views
  BY DEF Views
<1>3. Tells(v) /\ Tells(m) /\ clock \in [ClockNodes -> Clock]
  BY <1>2 DEF ClockInv, ClockShape
<1>4. heard \in SUBSET (1 .. Count) /\ m.clock \in Clock
  BY <1>2, ViewsAreViews DEF ClockInv, ClockShape
<1> HIDE DEF v
<1>5. \A k \in ClockNodes : /\ clock[n][k] \in Nat /\ m.clock[k] \in Nat /\ clock[k][k] \in Nat
                            /\ clock[n][k] <= clock[k][k] /\ m.clock[k] <= clock[k][k]
  BY <1>2, <1>3, <1>4 DEF Tells, Clock
<1>6. \A k \in ClockNodes :
        /\ c[k] = IF k = n THEN clock[n][n] + 1
                  ELSE IF clock[n][k] >= m.clock[k] THEN clock[n][k] ELSE m.clock[k]
        /\ c[k] \in Nat /\ clock[n][k] <= c[k] /\ m.clock[k] <= c[k]
  <2> SUFFICES ASSUME NEW k \in ClockNodes
               PROVE  /\ c[k] = IF k = n THEN clock[n][n] + 1
                                ELSE IF clock[n][k] >= m.clock[k] THEN clock[n][k] ELSE m.clock[k]
                      /\ c[k] \in Nat /\ clock[n][k] <= c[k] /\ m.clock[k] <= c[k]
    OBVIOUS
  <2>1. Tick(n)[k] = IF k = n THEN clock[n][n] + 1 ELSE clock[n][k]
    BY <1>3 DEF Tick, Clock
  <2>2. c[k] = IF Tick(n)[k] >= m.clock[k] THEN Tick(n)[k] ELSE m.clock[k]
    BY DEF maxClock
  <2> HIDE DEF c
  <2> QED
    BY <1>5, <2>1, <2>2
<1>7. c \in Clock
  <2>1. c = [k \in ClockNodes |-> c[k]]
    BY DEF maxClock
  <2> HIDE DEF c
  <2> QED
    BY <1>6, <2>1 DEF Clock
<1>8. Stamp(n, c, heard)
  BY <1>1
<1> HIDE DEF c
<1>9. c[n] = clock[n][n] + 1 /\ \A k \in ClockNodes \ {n} : c[k] <= clock[k][k]
  BY <1>5, <1>6
<1>10. ASSUME NEW e \in stamped
       PROVE  /\ e.id \in heard <=> e.clock[e.node] <= c[e.node]
              /\ e.id \in heard => \A k \in ClockNodes : e.clock[k] <= c[k]
  <2>1. e.node \in ClockNodes /\ \A k \in ClockNodes : e.clock[k] \in Nat
    BY DEF ClockInv, ClockShape, Event, Clock
  <2>2. /\ e.id \in history[n] <=> e.clock[e.node] <= clock[n][e.node]
        /\ e.id \in history[n] => \A k \in ClockNodes : e.clock[k] <= clock[n][k]
    BY <1>2, <1>3 DEF Tells
  <2>3. /\ e.id \in m.past <=> e.clock[e.node] <= m.clock[e.node]
        /\ e.id \in m.past => \A k \in ClockNodes : e.clock[k] <= m.clock[k]
    BY <1>3 DEF Tells
  <2>4. e.node = n => e.clock[n] <= clock[n][n]
    <3> DEFINE w == [clock |-> e.clock, past |-> e.past \cup {e.id}]
    <3>1. w \in Views /\ w.clock = e.clock
      BY DEF Views
    <3> HIDE DEF w
    <3> QED
      BY <3>1 DEF ClockInv, Tells
  <2>5. e.clock[e.node] <= c[e.node] <=>
          e.clock[e.node] <= clock[n][e.node] \/ e.clock[e.node] <= m.clock[e.node]
    <3>1. CASE e.node = n
      BY <1>5, <1>6, <2>1, <2>4, <3>1
    <3>2. CASE e.node # n
      BY <1>5, <1>6, <2>1, <3>2
    <3> QED
      BY <3>1, <3>2
  <2>6. e.id \in heard <=> e.id \in history[n] \/ e.id \in m.past
    OBVIOUS
  <2> HIDE DEF heard
  <2>7. e.id \in heard => \A k \in ClockNodes : e.clock[k] <= c[k]
    BY <1>5, <1>6, <2>1, <2>2, <2>3, <2>6
  <2> QED
    BY <2>2, <2>3, <2>5, <2>6, <2>7
<1> HIDE DEF heard
<1> QED
  BY <1>1, <1>4, <1>7, <1>8, <1>9, <1>10, StampKeeps

\* What the clock of one event tells of another.
LEMMA EventsTell ==
  ASSUME ClockInv, NEW e \in stamped, NEW f \in stamped
  PROVE  /\ happenedBefore(e.clock, f.clock) <=> e.id \in f.past
         /\ e.clock = f.clock => e = f
<1>1. \A g, h \in stamped :
        /\ g.id \in h.past \cup {h.id} <=> g.clock[g.node] <= h.clock[g.node]
        /\ g.id \in h.past \cup {h.id} => \A k \in ClockNodes : g.clock[k] <= h.clock[k]
  <2> SUFFICES ASSUME NEW g \in stamped, NEW h \in stamped
               PROVE  /\ g.id \in h.past \cup {h.id} <=> g.clock[g.node] <= h.clock[g.node]
                      /\ g.id \in h.past \cup {h.id} => \A k \in ClockNodes : g.clock[k] <= h.clock[k]
    OBVIOUS
  <2> DEFINE w == [clock |-> h.clock, past |-> h.past \cup {h.id}]
  <2>1. w \in Views /\ w.clock = h.clock /\ w.past = h.past \cup {h.id}
    BY DEF Views
  <2> HIDE DEF w
  <2> QED
    BY <2>1 DEF ClockInv, Tells
<1>2. \A g \in stamped : /\ g.node \in ClockNodes /\ g.id \in Nat /\ \A k \in ClockNodes : g.clock[k] \in Nat
                         /\ \A i \in g.past : i \in Nat /\ i < g.id
  BY DEF ClockInv, ClockShape, Event, Clock
<1>3. e.id = f.id => e = f
  BY DEF ClockInv
<1>4. e.clock = f.clock => e = f
  <2> SUFFICES ASSUME e.clock = f.clock, e # f PROVE FALSE
    OBVIOUS
  <2>1. e.id \in f.past \cup {f.id} /\ f.id \in e.past \cup {e.id}
    BY <1>1, <1>2
  <2>2. e.id < f.id /\ f.id < e.id
    BY <1>2, <1>3, <2>1
  <2> QED
    BY <1>2, <2>2
<1>5. happenedBefore(e.clock, f.clock) => e.id \in f.past
  BY <1>1, <1>2, <1>3 DEF happenedBefore
<1>6. e.id \in f.past => happenedBefore(e.clock, f.clock)
  <2> SUFFICES ASSUME e.id \in f.past PROVE happenedBefore(e.clock, f.clock)
    OBVIOUS
  <2>1. e # f
    BY <1>2
  <2> QED
    BY <1>1, <1>4, <2>1 DEF happenedBefore
<1> QED
  BY <1>4, <1>5, <1>6

\* THEOREM ClocksTell.  For any number of nodes, events and snapshots - late,
\* repeated or lost - the vector clocks characterise causality: happened before,
\* concurrent and equal mean what they say.
THEOREM ClocksTell == ClockSpec => []ClocksTellCausality
<1>1. ClockInit => ClockInv
  BY ClocksStart
<1>2. ClockInv /\ [ClockNext]_clockVars => ClockInv'
  <2> SUFFICES ASSUME ClockInv, [ClockNext]_clockVars PROVE ClockInv'
    OBVIOUS
  <2>1. CASE UNCHANGED clockVars
    BY <2>1 DEF clockVars, ClockInv, ClockShape, Views, Tells, Count, View, Event
  <2>2. CASE ClockNext
    BY <2>2, LocalKeeps, SnapshotKeeps, ReceiveKeeps DEF ClockNext
  <2> QED
    BY <2>1, <2>2
<1>3. ClockInv => ClocksTellCausality
  <2> SUFFICES ASSUME ClockInv PROVE ClocksTellCausality
    OBVIOUS
  <2>1. ClockTypeOK
    <3>1. Count \in Nat /\ Count <= MaxStamps
      BY FS_CardinalityType DEF ClockInv, ClockShape, Count
    <3> QED
      BY <3>1, ClockAssumption DEF ClockInv, ClockShape, ClockTypeOK, Event
  <2>2. ASSUME NEW e \in stamped, NEW f \in stamped
        PROVE  /\ happenedBefore(e.clock, f.clock) <=> e.id \in f.past
               /\ relate(e.clock, f.clock) = "equal" <=> e = f
               /\ relate(e.clock, f.clock) = "concurrent" <=> isConcurrent(e.clock, f.clock)
               /\ isConcurrent(e.clock, f.clock) <=> (e # f /\ e.id \notin f.past /\ f.id \notin e.past)
    <3>1. /\ happenedBefore(e.clock, f.clock) <=> e.id \in f.past
          /\ happenedBefore(f.clock, e.clock) <=> f.id \in e.past
          /\ e.clock = f.clock <=> e = f
      BY EventsTell
    <3>2. relate(e.clock, f.clock) = "equal" <=> e.clock = f.clock
      <4>1. CASE e.clock = f.clock
        <5>1. ~ happenedBefore(e.clock, f.clock) /\ ~ happenedBefore(f.clock, e.clock)
          BY <4>1 DEF happenedBefore
        <5>2. relate(e.clock, f.clock) = "equal"
          BY <4>1, <5>1 DEF relate
        <5> QED
          BY <4>1, <5>2
      <4>2. CASE e.clock # f.clock /\ (happenedBefore(e.clock, f.clock) \/ happenedBefore(f.clock, e.clock))
        <5>1. relate(e.clock, f.clock) = "happened-before"
          BY <4>2 DEF relate
        <5> QED
          BY <4>2, <5>1
      <4>3. CASE e.clock # f.clock /\ ~ (happenedBefore(e.clock, f.clock) \/ happenedBefore(f.clock, e.clock))
        <5>1. relate(e.clock, f.clock) = "concurrent"
          BY <4>3 DEF relate
        <5> QED
          BY <4>3, <5>1
      <4> QED
        BY <4>1, <4>2, <4>3
    <3>3. relate(e.clock, f.clock) = "concurrent" <=> isConcurrent(e.clock, f.clock)
      BY DEF relate, isConcurrent
    <3> QED
      BY <3>1, <3>2, <3>3 DEF isConcurrent
  <2> QED
    BY <2>1, <2>2 DEF ClocksTellCausality
<1> QED
  BY <1>1, <1>2, <1>3, PTL DEF ClockSpec

(***************************************************************************)
(* The push loops of cr-sqlite (18-cr-sqlite, tmp).                        *)
(***************************************************************************)

\* A row's content as a node stores and sends it, and a round of a push loop.
Content == [version : 0 .. writes, val : Data \cup {0}]
Round ==
    [from : Sites, changes : UNION {[D -> Content] : D \in SUBSET Rows}, left : Seq(Sites) \ {<<>>}]

SyncShape ==
    /\ writes \in 0 .. MaxWrites
    /\ table \in [Sites -> [Rows -> Content]]
    /\ unsent \in [Sites -> SUBSET Rows]
    /\ pushes \subseteq Round
    /\ missed \subseteq Sites \X Sites

\* The round p still has row k, as n has it, to send to m.
Carries(p, n, m, k) ==
    /\ p.from = n /\ m \in ToSet(p.left)
    /\ k \in DOMAIN p.changes /\ p.changes[k] = table[n][k]

Remembered(n, m, k) ==
    \/ k \in unsent[n]
    \/ \E p \in pushes : Carries(p, n, m, k)
    \/ <<n, m>> \in missed

SyncInv ==
    /\ SyncShape
    /\ \A n, m \in Sites, k \in Rows : wins(table[n][k], table[m][k]) => Remembered(n, m, k)

\* Which of two changes wins is a strict order, the merge of the extension (last
\* writer wins, and then the larger value), and the missing row loses.
LEMMA WinsIsAnOrder ==
  ASSUME NEW a \in [version : Nat, val : Nat], NEW b \in [version : Nat, val : Nat],
         NEW c \in [version : Nat, val : Nat]
  PROVE  /\ ~ wins(a, a)
         /\ wins(a, b) /\ wins(b, c) => wins(a, c)
         /\ ~ wins(noRow, a)
  BY DEF wins, noRow

\* A content is a pair of numbers.
LEMMA ContentIsNumbers == SyncInv => Content \subseteq [version : Nat, val : Nat]
<1> SUFFICES ASSUME SyncInv PROVE Content \subseteq [version : Nat, val : Nat]
  OBVIOUS
<1>1. writes \in Nat
  BY SyncAssumption DEF SyncInv, SyncShape
<1>2. 0 .. writes \subseteq Nat /\ Data \cup {0} \subseteq Nat
  BY <1>1, SyncAssumption
<1> QED
  BY <1>2 DEF Content

\* The peers of a node are all other nodes (node.ts:20).
LEMMA PeersAreOthers ==
  ASSUME NEW n \in Sites
  PROVE  Peers(n) \in Seq(Sites) /\ ToSet(Peers(n)) = Sites \ {n}
<1> DEFINE S == Sites \ {n}
           N == Cardinality(S)
<1>1. IsFiniteSet(S) /\ N \in Nat /\ ExistsBijection(1 .. N, S)
  BY SyncAssumption, FS_Subset, FS_CardinalityType
<1>2. \E f \in [1 .. N -> S] : IsInjective(f)
  BY <1>1 DEF ExistsBijection, Bijection, Injection
<1>3. Peers(n) \in [1 .. N -> S] /\ IsInjective(Peers(n))
  BY <1>2 DEF Peers, SetToSeq
<1>4. Peers(n) \in Injection(1 .. N, S)
  BY <1>3 DEF Injection
<1>5. IsFiniteSet(1 .. N) /\ Cardinality(1 .. N) = N
  <2>1. 1 \in Int /\ N \in Int
    BY <1>1
  <2>2. Cardinality(1 .. N) = IF 1 > N THEN 0 ELSE N - 1 + 1
    BY <2>1, FS_Interval
  <2> HIDE DEF N
  <2> QED
    BY <1>1, <2>1, <2>2, FS_Interval
<1>6. Peers(n) \in Surjection(1 .. N, S)
  BY <1>1, <1>4, <1>5, FS_Injection
<1> HIDE DEF N
<1>7. ToSet(Peers(n)) = S
  BY <1>3, <1>6 DEF ToSet, Surjection
<1>8. Peers(n) \in Seq(Sites)
  <2>1. Peers(n) \in [1 .. N -> Sites]
    BY <1>3
  <2> QED
    BY <1>1, <2>1, SeqDef
<1> QED
  BY <1>7, <1>8

\* What the round p has left to serve is its head, and what its successor has.
LEMMA NextRound ==
  ASSUME NEW p \in Round, NEW m \in ToSet(p.left)
  PROVE  /\ p.from \in Sites /\ Head(p.left) \in Sites
         /\ [p EXCEPT !.left = Tail(p.left)].from = p.from
         /\ [p EXCEPT !.left = Tail(p.left)].changes = p.changes
         /\ Len(p.left) > 1 => [p EXCEPT !.left = Tail(p.left)] \in Round
         /\ m = Head(p.left) \/ (Len(p.left) > 1 /\ m \in ToSet([p EXCEPT !.left = Tail(p.left)].left))
<1> DEFINE q == [p EXCEPT !.left = Tail(p.left)]
<1>1. p.left \in Seq(Sites) /\ p.left # <<>> /\ p.from \in Sites
  BY DEF Round
<1>2. q.from = p.from /\ q.changes = p.changes /\ q.left = Tail(p.left)
  BY DEF Round
<1>3. /\ Tail(p.left) \in Seq(Sites) /\ Len(Tail(p.left)) = Len(p.left) - 1 /\ Head(p.left) \in Sites
      /\ \A i \in 1 .. Len(Tail(p.left)) : Tail(p.left)[i] = p.left[i + 1]
  BY <1>1, HeadTailProperties
<1>4. Len(p.left) \in Nat /\ DOMAIN p.left = 1 .. Len(p.left)
  BY <1>1, LenProperties
<1>5. Len(p.left) > 1 => q \in Round
  <2> SUFFICES ASSUME Len(p.left) > 1 PROVE q \in Round
    OBVIOUS
  <2>1. Len(Tail(p.left)) # 0
    BY <1>3, <1>4
  <2>2. Tail(p.left) # <<>>
    BY <1>3, <2>1, EmptySeq
  <2>3. Tail(p.left) \in Seq(Sites) \ {<<>>}
    BY <1>3, <2>2
  <2> QED
    BY <2>3 DEF Round
<1>6. m = Head(p.left) \/ (Len(p.left) > 1 /\ m \in ToSet(Tail(p.left)))
  <2>1. PICK i \in 1 .. Len(p.left) : m = p.left[i]
    BY <1>4 DEF ToSet
  <2>2. CASE i = 1
    BY <2>1, <2>2 DEF Head
  <2>3. CASE i # 1
    <3>1. Len(p.left) > 1 /\ i - 1 \in 1 .. Len(Tail(p.left)) /\ (i - 1) + 1 = i
      BY <1>3, <1>4, <2>3
    <3>2. DOMAIN Tail(p.left) = 1 .. Len(Tail(p.left))
      BY <1>3, LenProperties
    <3> QED
      BY <1>3, <2>1, <3>1, <3>2 DEF ToSet
  <2> QED
    BY <2>2, <2>3
<1> QED
  BY <1>1, <1>2, <1>3, <1>5, <1>6

\* All databases start equal, with nothing to send (db.ts:30).
LEMMA SyncStarts == SyncInit => SyncInv
<1> SUFFICES ASSUME SyncInit PROVE SyncInv
  OBVIOUS
<1>1. SyncShape
  BY SyncAssumption DEF SyncInit, SyncShape, Content, noRow
<1>2. \A n, m \in Sites, k \in Rows : ~ wins(table[n][k], table[m][k])
  BY DEF SyncInit, wins, noRow
<1> QED
  BY <1>1, <1>2 DEF SyncInv

\* Of what the nodes store, two contents of a row are comparable by wins.
LEMMA StoredContents ==
  ASSUME SyncInv
  PROVE  /\ \A n \in Sites, k \in Rows : table[n][k] \in Content /\ table[n][k] \in [version : Nat, val : Nat]
         /\ \A p \in pushes : /\ DOMAIN p.changes \subseteq Rows
                              /\ \A k \in DOMAIN p.changes : p.changes[k] \in Content
                                                             /\ p.changes[k] \in [version : Nat, val : Nat]
<1>1. \A n \in Sites, k \in Rows : table[n][k] \in Content
  BY DEF SyncInv, SyncShape
<1>2. \A p \in pushes : DOMAIN p.changes \subseteq Rows /\ \A k \in DOMAIN p.changes : p.changes[k] \in Content
  BY DEF SyncInv, SyncShape, Round
<1> QED
  BY <1>1, <1>2, ContentIsNumbers

\* A write is a newer version of its row, and it is to be sent (node.ts:64).
LEMMA SyncWriteKeeps ==
  ASSUME SyncInv, NEW s \in Sites, NEW j \in Rows, NEW v \in Data, Write(s, j, v)
  PROVE  SyncInv'
<1> DEFINE new == [version |-> table[s][j].version + 1, val |-> v]
<1>1. /\ writes \in Nat /\ writes < MaxWrites /\ writes' = writes + 1
      /\ table' = [table EXCEPT ![s] = [table[s] EXCEPT ![j] = new]]
      /\ unsent' = [unsent EXCEPT ![s] = @ \cup {j}]
      /\ UNCHANGED <<pushes, missed>>
  BY SyncAssumption DEF Write, SyncInv, SyncShape
<1>2. /\ table \in [Sites -> [Rows -> Content]] /\ unsent \in [Sites -> SUBSET Rows]
      /\ pushes \subseteq Round /\ missed \subseteq Sites \X Sites
  BY DEF SyncInv, SyncShape
<1>3. table[s][j] \in Content /\ table[s][j].version \in 0 .. writes
  BY <1>2 DEF Content
<1>4. Content \subseteq Content' /\ new \in Content'
  BY <1>1, <1>3 DEF Content
<1>5. new.version = table[s][j].version + 1 /\ new \in [version : Nat, val : Nat]
  BY <1>1, <1>3, SyncAssumption
<1> HIDE DEF new
<1>6. SyncShape'
  <2>1. table' \in [Sites -> [Rows -> Content']]
    BY <1>1, <1>2, <1>4
  <2>2. \A D \in SUBSET Rows : [D -> Content] \subseteq [D -> Content']
    BY <1>4
  <2>3. pushes' \subseteq Round'
    BY <1>1, <1>2, <2>2 DEF Round
  <2>4. writes' \in 0 .. MaxWrites
    BY <1>1, SyncAssumption
  <2> QED
    BY <1>1, <1>2, <2>1, <2>3, <2>4 DEF SyncShape
<1>7. ASSUME NEW n \in Sites, NEW k \in Rows
      PROVE  table'[n][k] = IF n = s /\ k = j THEN new ELSE table[n][k]
  BY <1>1, <1>2
<1>8. ASSUME NEW n \in Sites, NEW m \in Sites, NEW k \in Rows, wins(table'[n][k], table'[m][k])
      PROVE  Remembered(n, m, k)'
  <2>1. CASE n = s /\ k = j
    BY <1>1, <1>2, <2>1 DEF Remembered
  <2>2. CASE ~ (n = s /\ k = j)
    <3>1. table'[n][k] = table[n][k]
      BY <1>7, <2>2
    <3>2. wins(table[n][k], table[m][k])
      <4>1. CASE m = s /\ k = j
        <5>1. wins(table[n][k], new)
          BY <1>7, <1>8, <3>1, <4>1
        <5> QED
          BY <1>5, <4>1, <5>1, StoredContents DEF wins
      <4>2. CASE ~ (m = s /\ k = j)
        BY <1>7, <1>8, <3>1, <4>2
      <4> QED
        BY <4>1, <4>2
    <3>3. Remembered(n, m, k)
      BY <3>2 DEF SyncInv
    <3>4. k \in unsent[n] => k \in unsent'[n]
      BY <1>1, <1>2
    <3> QED
      BY <1>1, <3>1, <3>3, <3>4 DEF Remembered, Carries
  <2> QED
    BY <2>1, <2>2
<1> QED
  BY <1>6, <1>8 DEF SyncInv

\* A tick hands all that was to be sent to a round over all peers, although
\* rounds before it may not have ended (sync.ts:124).
LEMMA PushTickKeeps ==
  ASSUME SyncInv, NEW s \in Sites, PushTick(s)
  PROVE  SyncInv'
<1> DEFINE round == [from |-> s, changes |-> [k \in unsent[s] |-> table[s][k]], left |-> Peers(s)]
<1>1. /\ pushes' = pushes \cup IF Peers(s) = <<>> THEN {} ELSE {round}
      /\ unsent' = [unsent EXCEPT ![s] = {}]
      /\ UNCHANGED <<table, missed, writes>>
  BY DEF PushTick
<1>2. /\ table \in [Sites -> [Rows -> Content]] /\ unsent \in [Sites -> SUBSET Rows]
      /\ pushes \subseteq Round
  BY DEF SyncInv, SyncShape
<1>3. Peers(s) \in Seq(Sites) /\ ToSet(Peers(s)) = Sites \ {s}
  BY PeersAreOthers
<1>4. Peers(s) # <<>> => round \in Round
  <2>1. unsent[s] \in SUBSET Rows /\ [k \in unsent[s] |-> table[s][k]] \in [unsent[s] -> Content]
    BY <1>2
  <2> HIDE DEF round
  <2>2. [k \in unsent[s] |-> table[s][k]] \in UNION {[D -> Content] : D \in SUBSET Rows}
    BY <2>1
  <2> QED
    BY <1>3, <2>2 DEF Round, round
<1>5. /\ round.from = s /\ round.left = Peers(s)
      /\ \A k \in unsent[s] : k \in DOMAIN round.changes /\ round.changes[k] = table[s][k]
  OBVIOUS
<1> HIDE DEF round
<1>6. SyncShape'
  <2>1. pushes' \subseteq Round
    BY <1>1, <1>2, <1>4
  <2>2. Round' = Round /\ Content' = Content
    BY <1>1 DEF Round, Content
  <2>3. unsent' \in [Sites -> SUBSET Rows]
    BY <1>1, <1>2
  <2> QED
    BY <1>1, <2>1, <2>2, <2>3 DEF SyncInv, SyncShape
<1>7. ASSUME NEW n \in Sites, NEW m \in Sites, NEW k \in Rows, wins(table'[n][k], table'[m][k])
      PROVE  Remembered(n, m, k)'
  <2>1. Remembered(n, m, k)
    BY <1>1, <1>7 DEF SyncInv
  <2>2. CASE n = s /\ k \in unsent[s]
    <3>1. m # s
      BY <1>1, <1>7, <2>2, StoredContents, WinsIsAnOrder
    <3>2. m \in ToSet(Peers(s))
      BY <1>3, <3>1
    <3>3. Peers(s) # <<>>
      BY <3>2 DEF ToSet
    <3> QED
      BY <1>1, <1>5, <2>2, <3>2, <3>3 DEF Remembered, Carries
  <2>3. CASE ~ (n = s /\ k \in unsent[s])
    <3>1. k \in unsent[n] => k \in unsent'[n]
      BY <1>1, <1>2, <2>3
    <3> QED
      BY <1>1, <2>1, <3>1 DEF Remembered, Carries
  <2> QED
    BY <2>2, <2>3
<1> QED
  BY <1>6, <1>7 DEF SyncInv

\* The rounds after one of them has served its head.
LEMMA NextPeerShape ==
  ASSUME SyncInv, NEW p \in pushes, NextPeer(p)
  PROVE  pushes' \subseteq Round
<1>1. p \in Round /\ pushes \subseteq Round
  BY DEF SyncInv, SyncShape
<1>2. Head(p.left) \in ToSet(p.left)
  <2>1. p.left \in Seq(Sites) /\ p.left # <<>>
    BY <1>1 DEF Round
  <2>2. 1 \in DOMAIN p.left
    BY <2>1, LenProperties, EmptySeq
  <2> QED
    BY <2>2 DEF ToSet, Head
<1>3. Len(p.left) > 1 => [p EXCEPT !.left = Tail(p.left)] \in Round
  BY <1>1, <1>2, NextRound
<1>4. pushes' = (pushes \ {p}) \cup
                   IF Len(p.left) > 1 THEN {[p EXCEPT !.left = Tail(p.left)]} ELSE {}
  BY DEF NextPeer
<1> QED
  BY <1>1, <1>3, <1>4

\* A step of the round p leaves what other rounds carry, and what p carries to
\* peers after its head.
LEMMA NextPeerCarries ==
  ASSUME SyncInv, NEW p \in pushes, NextPeer(p), NEW n \in Sites, NEW m \in Sites, NEW k \in Rows,
         table'[n][k] = table[n][k],
         NEW r \in pushes, Carries(r, n, m, k)
  PROVE  (\E q \in pushes' : Carries(q, n, m, k)') \/ (r = p /\ m = Head(p.left))
<1>1. pushes' = (pushes \ {p}) \cup
                   IF Len(p.left) > 1 THEN {[p EXCEPT !.left = Tail(p.left)]} ELSE {}
  BY DEF NextPeer
<1>2. CASE r # p
  BY <1>1, <1>2 DEF Carries
<1>3. CASE r = p /\ m # Head(p.left)
  <2> DEFINE q == [p EXCEPT !.left = Tail(p.left)]
  <2>1. p \in Round /\ m \in ToSet(p.left)
    BY <1>3 DEF SyncInv, SyncShape, Carries
  <2>2. q.from = p.from /\ q.changes = p.changes /\ Len(p.left) > 1 /\ m \in ToSet(q.left)
    BY <1>3, <2>1, NextRound
  <2> HIDE DEF q
  <2>3. q \in pushes'
    BY <1>1, <2>2 DEF q
  <2>4. q.from = n /\ k \in DOMAIN q.changes /\ q.changes[k] = table'[n][k]
    BY <1>3, <2>2 DEF Carries
  <2> QED
    BY <2>2, <2>3, <2>4 DEF Carries
<1> QED
  BY <1>2, <1>3

\* A node that receives changes keeps those that win and passes them on; the
\* sender no longer wins over it with any of them (sync.ts:84).
LEMMA DeliveredKeeps ==
  ASSUME SyncInv, NEW p \in pushes, Delivered(p)
  PROVE  SyncInv'
<1> DEFINE h == Head(p.left)
           won == {k \in DOMAIN p.changes : wins(p.changes[k], table[h][k])}
<1>1. /\ table' = [table EXCEPT ![h] = [k \in Rows |-> IF k \in won THEN p.changes[k] ELSE table[h][k]]]
      /\ unsent' = [unsent EXCEPT ![h] = @ \cup won]
      /\ NextPeer(p) /\ UNCHANGED <<missed, writes>>
  BY DEF Delivered, Accepted
<1>2. /\ table \in [Sites -> [Rows -> Content]] /\ unsent \in [Sites -> SUBSET Rows] /\ p \in Round
  BY DEF SyncInv, SyncShape
<1>3. h \in Sites
  <2>1. p.left \in Seq(Sites) /\ p.left # <<>>
    BY <1>2 DEF Round
  <2> QED
    BY <2>1, HeadTailProperties
<1>4. \A k \in won : /\ k \in Rows /\ k \in DOMAIN p.changes /\ p.changes[k] \in Content
                     /\ wins(p.changes[k], table[h][k])
  BY StoredContents
<1>5. \A k \in Rows : k \in DOMAIN p.changes /\ wins(p.changes[k], table[h][k]) => k \in won
  OBVIOUS
<1> HIDE DEF won, h
<1>6. /\ \A n \in Sites, k \in Rows : table'[n][k] = IF n = h /\ k \in won THEN p.changes[k] ELSE table[n][k]
      /\ \A n \in Sites : unsent'[n] = IF n = h THEN unsent[n] \cup won ELSE unsent[n]
  BY <1>1, <1>2, <1>3
<1>7. SyncShape'
  <2>1. Round' = Round /\ Content' = Content
    BY <1>1 DEF Round, Content
  <2>2. table' \in [Sites -> [Rows -> Content]]
    <3>1. [k \in Rows |-> IF k \in won THEN p.changes[k] ELSE table[h][k]] \in [Rows -> Content]
      BY <1>2, <1>3, <1>4
    <3> QED
      BY <1>1, <1>2, <3>1
  <2>3. unsent' \in [Sites -> SUBSET Rows]
    BY <1>1, <1>2, <1>4
  <2>4. pushes' \subseteq Round
    BY <1>1, NextPeerShape
  <2> QED
    BY <1>1, <2>1, <2>2, <2>3, <2>4 DEF SyncInv, SyncShape
<1>8. ASSUME NEW n \in Sites, NEW m \in Sites, NEW k \in Rows, wins(table'[n][k], table'[m][k])
      PROVE  Remembered(n, m, k)'
  <2>1. CASE n = h /\ k \in won
    BY <1>6, <2>1 DEF Remembered
  <2>2. CASE ~ (n = h /\ k \in won)
    <3>1. table'[n][k] = table[n][k]
      BY <1>6, <2>2
    <3>2. wins(table[n][k], table[m][k])
      <4>1. CASE m = h /\ k \in won
        <5>1. wins(table[n][k], p.changes[k]) /\ wins(p.changes[k], table[m][k])
          BY <1>4, <1>6, <1>8, <3>1, <4>1
        <5>2. p.changes[k] \in [version : Nat, val : Nat]
          BY <1>4, <4>1, StoredContents
        <5> QED
          BY <5>1, <5>2, StoredContents, WinsIsAnOrder
      <4>2. CASE ~ (m = h /\ k \in won)
        BY <1>6, <1>8, <3>1, <4>2
      <4> QED
        BY <4>1, <4>2
    <3>3. Remembered(n, m, k)
      BY <3>2 DEF SyncInv
    <3>4. CASE k \in unsent[n]
      BY <1>6, <3>4 DEF Remembered
    <3>5. CASE <<n, m>> \in missed
      BY <1>1, <3>5 DEF Remembered
    <3>6. ASSUME NEW r \in pushes, Carries(r, n, m, k)
          PROVE  Remembered(n, m, k)'
      <4>1. (\E q \in pushes' : Carries(q, n, m, k)') \/ (r = p /\ m = h)
        BY <1>1, <3>1, <3>6, NextPeerCarries DEF h
      <4>2. CASE r = p /\ m = h
        <5>1. k \in DOMAIN p.changes /\ p.changes[k] = table[n][k]
          BY <3>6, <4>2 DEF Carries
        <5>2. k \in won
          BY <1>5, <3>2, <4>2, <5>1
        <5>3. table'[m][k] = table'[n][k]
          BY <1>6, <3>1, <4>2, <5>1, <5>2
        <5> QED
          BY <1>8, <3>1, <5>3, StoredContents, WinsIsAnOrder
      <4> QED
        BY <4>1, <4>2 DEF Remembered
    <3> QED
      BY <3>3, <3>4, <3>5, <3>6 DEF Remembered
  <2> QED
    BY <2>1, <2>2
<1> QED
  BY <1>7, <1>8 DEF SyncInv

\* A post that fails is noted as missed, and the loop goes on
\* (crsql-replicate.ts:147).
LEMMA UnreachableKeeps ==
  ASSUME SyncInv, NEW p \in pushes, Unreachable(p)
  PROVE  SyncInv'
<1> DEFINE h == Head(p.left)
<1>1. /\ missed' = missed \cup {<<p.from, h>>} /\ NextPeer(p) /\ UNCHANGED <<table, unsent, writes>>
  BY DEF Unreachable
<1>2. p \in Round /\ p.from \in Sites /\ h \in Sites
  <2>1. p \in Round
    BY DEF SyncInv, SyncShape
  <2>2. p.left \in Seq(Sites) /\ p.left # <<>> /\ p.from \in Sites
    BY <2>1 DEF Round
  <2> QED
    BY <2>1, <2>2, HeadTailProperties
<1>3. SyncShape'
  <2>1. Round' = Round /\ Content' = Content /\ pushes' \subseteq Round
    BY <1>1, NextPeerShape DEF Round, Content
  <2>2. missed' \subseteq Sites \X Sites
    BY <1>1, <1>2 DEF SyncInv, SyncShape
  <2> QED
    BY <1>1, <2>1, <2>2 DEF SyncInv, SyncShape
<1>4. ASSUME NEW n \in Sites, NEW m \in Sites, NEW k \in Rows, wins(table'[n][k], table'[m][k])
      PROVE  Remembered(n, m, k)'
  <2>1. Remembered(n, m, k)
    BY <1>1, <1>4 DEF SyncInv
  <2>2. ASSUME NEW r \in pushes, Carries(r, n, m, k)
        PROVE  Remembered(n, m, k)'
    <3>1. (\E q \in pushes' : Carries(q, n, m, k)') \/ (r = p /\ m = h)
      BY <1>1, <2>2, NextPeerCarries
    <3>2. CASE r = p /\ m = h
      BY <1>1, <2>2, <3>2 DEF Remembered, Carries
    <3> QED
      BY <3>1, <3>2 DEF Remembered
  <2> QED
    BY <1>1, <2>1, <2>2 DEF Remembered
<1> QED
  BY <1>3, <1>4 DEF SyncInv

\* A node that starts again has all its rows to send (node.ts:82).
LEMMA RestartKeeps ==
  ASSUME SyncInv, NEW s \in Sites, Restart(s)
  PROVE  SyncInv'
<1>1. /\ pushes' = {p \in pushes : p.from # s} /\ missed' = {pair \in missed : pair[1] # s}
      /\ unsent' = [unsent EXCEPT ![s] = present(s)] /\ UNCHANGED <<table, writes>>
  BY DEF Restart
<1>2. unsent \in [Sites -> SUBSET Rows]
  BY DEF SyncInv, SyncShape
<1>3. SyncShape'
  <2>1. Round' = Round /\ Content' = Content
    BY <1>1 DEF Round, Content
  <2>2. unsent' \in [Sites -> SUBSET Rows]
    BY <1>1, <1>2 DEF present
  <2> QED
    BY <1>1, <2>1, <2>2 DEF SyncInv, SyncShape
<1>4. ASSUME NEW n \in Sites, NEW m \in Sites, NEW k \in Rows, wins(table'[n][k], table'[m][k])
      PROVE  Remembered(n, m, k)'
  <2>1. Remembered(n, m, k) /\ wins(table[n][k], table[m][k])
    BY <1>1, <1>4 DEF SyncInv
  <2>2. CASE n = s
    <3>1. table[n][k] # noRow
      BY <2>1, StoredContents, WinsIsAnOrder
    <3> QED
      BY <1>1, <1>2, <2>2, <3>1 DEF Remembered, present
  <2>3. CASE n # s
    <3>1. unsent'[n] = unsent[n]
      BY <1>1, <1>2, <2>3
    <3>2. \A r \in pushes : Carries(r, n, m, k) => r \in pushes' /\ Carries(r, n, m, k)'
      BY <1>1, <2>3 DEF Carries
    <3>3. <<n, m>> \in missed => <<n, m>> \in missed'
      BY <1>1, <2>3
    <3> QED
      BY <2>1, <3>1, <3>2, <3>3 DEF Remembered
  <2> QED
    BY <2>2, <2>3
<1> QED
  BY <1>3, <1>4 DEF SyncInv

\* THEOREM NothingIsForgotten.  In a mesh of any size, with rounds of the push
\* loops that overlap, posts that fail and nodes that restart, what one node has
\* and another lacks is still to be sent, unless a post between them has failed.
THEOREM NothingIsForgotten == SyncSpec => []NothingForgotten
<1>1. SyncInit => SyncInv
  BY SyncStarts
<1>2. SyncInv /\ [SyncNext]_syncVars => SyncInv'
  <2> SUFFICES ASSUME SyncInv, [SyncNext]_syncVars PROVE SyncInv'
    OBVIOUS
  <2>1. CASE UNCHANGED syncVars
    BY <2>1 DEF syncVars, SyncInv, SyncShape, Round, Content, Remembered, Carries
  <2>2. CASE SyncNext
    BY <2>2, SyncWriteKeeps, PushTickKeeps, DeliveredKeeps, UnreachableKeeps, RestartKeeps
    DEF SyncNext, Push
  <2> QED
    BY <2>1, <2>2
<1>3. SyncInv => NothingForgotten
  <2> SUFFICES ASSUME SyncInv PROVE NothingForgotten
    OBVIOUS
  <2>1. SyncTypeOK
    <3>1. Content \subseteq [version : 0 .. MaxWrites, val : Data \cup {0}]
      BY SyncAssumption DEF SyncInv, SyncShape, Content
    <3>2. table \in [Sites -> [Rows -> [version : 0 .. MaxWrites, val : Data \cup {0}]]]
      BY <3>1 DEF SyncInv, SyncShape
    <3>3. \A p \in pushes : p.from \in Sites /\ DOMAIN p.changes \subseteq Rows /\ p.left # <<>>
      BY DEF SyncInv, SyncShape, Round
    <3> QED
      BY <3>2, <3>3 DEF SyncInv, SyncShape, SyncTypeOK
  <2> QED
    BY <2>1 DEF SyncInv, NothingForgotten, Remembered, Carries
<1> QED
  BY <1>1, <1>2, <1>3, PTL DEF SyncSpec
=============================================================================
