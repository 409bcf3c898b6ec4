----------------------------- MODULE CapCluster -----------------------------
(***************************************************************************)
(* 13-distributed-systems/cap-theorem.ts, for one key: a replicated store  *)
(* in the CP, AP or CA mode, network partitions into two groups, crashes   *)
(* that stop a node from serving, and a node that lies.  The version of a  *)
(* write, which the cluster counts, stands for its value; 0 is no value.   *)
(***************************************************************************)
EXTENDS Naturals, FiniteSets

CONSTANTS
    CapNodes,
    MaxCapWrites  \* bound: writes and lies

ASSUME CapAssumption == IsFiniteSet(CapNodes) /\ MaxCapWrites \in Nat

VARIABLES
    mode,     \* "CP", "AP" or "CA"
    groups,   \* the two groups of a partition, or all nodes as one
    stored,   \* node -> version of the value it stores
    alive,    \* nodes that serve requests
    writeCounter,
    agreed    \* the last change left all nodes equal (history)

capVars == <<mode, groups, stored, alive, writeCounter, agreed>>

partitioned == Cardinality(groups) > 1
GroupOf(n) == CHOOSE g \in groups : n \in g

\* MUTANT: as majorityGroup, but half of the nodes are enough.
halfGroup(n) == Cardinality(GroupOf(n)) * 2 >= Cardinality(CapNodes)

majorityGroup(n) == Cardinality(GroupOf(n)) * 2 > Cardinality(CapNodes)

-----------------------------------------------------------------------------

partitionInto(g) ==
    /\ g # {} /\ g # CapNodes
    /\ groups' = {g, CapNodes \ g}
    /\ agreed' = FALSE
    /\ UNCHANGED <<mode, stored, alive, writeCounter>>

heal ==
    /\ partitioned
    /\ groups' = {CapNodes}
    /\ UNCHANGED <<mode, stored, alive, writeCounter, agreed>>

accepts(n) ==
    /\ n \in alive
    /\ mode = "CP" => majorityGroup(n)
    /\ mode = "CA" => ~partitioned

\* The write reaches every node of the group at once, also those that are
\* down: only their own requests fail.
capWrite(n) ==
    /\ accepts(n)
    /\ writeCounter < MaxCapWrites
    /\ writeCounter' = writeCounter + 1
    /\ stored' = [m \in CapNodes |-> IF m \in GroupOf(n) THEN writeCounter + 1 ELSE stored[m]]
    /\ agreed' = ~partitioned
    /\ UNCHANGED <<mode, groups, alive>>

injectMessage(to) ==
    /\ mode = "AP"
    /\ writeCounter < MaxCapWrites
    /\ writeCounter' = writeCounter + 1
    /\ stored' = [stored EXCEPT ![to] = writeCounter + 1]
    /\ agreed' = FALSE
    /\ UNCHANGED <<mode, groups, alive>>

\* The newest version goes to every node, partitioned or not.
reconcile ==
    /\ mode = "AP"
    /\ LET winner == CHOOSE v \in {stored[n] : n \in CapNodes} : \A n \in CapNodes : stored[n] <= v
       IN  stored' = [n \in CapNodes |-> winner]
    /\ agreed' = TRUE
    /\ UNCHANGED <<mode, groups, alive, writeCounter>>

crash(n) ==
    /\ n \in alive
    /\ alive' = alive \ {n}
    /\ UNCHANGED <<mode, groups, stored, writeCounter, agreed>>

recover(n) ==
    /\ n \notin alive
    /\ alive' = alive \cup {n}
    /\ UNCHANGED <<mode, groups, stored, writeCounter, agreed>>

\* The two fields of read()'s answer.  A node that is down answers like one that
\* has no value, and neither answer is called stale, whatever others have.
readValue(n) == IF n \in alive THEN stored[n] ELSE 0

readIsStale(n) ==
    /\ readValue(n) # 0
    /\ mode = "AP" /\ partitioned /\ \E m \in CapNodes : stored[m] > stored[n]

CapInit ==
    /\ mode \in {"CP", "AP", "CA"}
    /\ groups = {CapNodes}
    /\ stored = [n \in CapNodes |-> 0]
    /\ alive = CapNodes
    /\ writeCounter = 0
    /\ agreed = TRUE

CapNext ==
    \/ \E g \in SUBSET CapNodes : partitionInto(g)
    \/ heal \/ reconcile
    \/ \E n \in CapNodes : capWrite(n) \/ injectMessage(n) \/ crash(n) \/ recover(n)

CapSpec == CapInit /\ [][CapNext]_capVars

-----------------------------------------------------------------------------

CapTypeOK ==
    /\ mode \in {"CP", "AP", "CA"}
    /\ UNION groups = CapNodes
    /\ stored \in [CapNodes -> 0..MaxCapWrites]
    /\ alive \subseteq CapNodes
    /\ writeCounter \in 0..MaxCapWrites

\* What each mode gives in return for what it gives up, over any sequence of
\* partitions, repartitions, crashes and heals.  CP: the newest accepted
\* write is on a majority, though the majorities change; a healed minority
\* is behind until the next write, and its old value is not marked stale, so
\* this does not say that reads return the latest (cap-theorem.ts:8).  The
\* majority counts nodes that are down (:91).  CA: no two nodes ever differ.
\* AP: under a partition an answer with a value is marked stale exactly when
\* a newer write exists (:199-209); "no value" is never marked (:192-196).
\* In all modes a write without a partition, and in AP a reconciliation,
\* brings every node to the newest version.
CapPromises ==
    /\ CapTypeOK
    /\ mode = "CP" /\ writeCounter > 0 =>
         Cardinality({n \in CapNodes : stored[n] = writeCounter}) * 2 > Cardinality(CapNodes)
    /\ mode = "CA" => \A n \in CapNodes : stored[n] = writeCounter
    /\ mode = "AP" /\ partitioned =>
         \A n \in CapNodes : readValue(n) # 0 => (readIsStale(n) <=> readValue(n) # writeCounter)
    /\ agreed => \A n \in CapNodes : stored[n] = writeCounter
=============================================================================
