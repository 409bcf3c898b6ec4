----------------------------- MODULE AntiEntropy -----------------------------
(***************************************************************************)
(* 14-eventual-consistency/anti-entropy.ts: two replicas of a key-value    *)
(* map that drift apart and are compared by their Merkle trees.  A hash is *)
(* the tree it was computed from: hashes do not collide.  A stored value   *)
(* is never the sentinel of a missing key, as in the demo.                 *)
(***************************************************************************)
EXTENDS Naturals, SequencesExt

CONSTANTS
    Keys,       \* numbers, so that they sort
    Values,
    Missing,    \* the sentinel of a key a replica does not have
    MaxUpdates  \* bound: writes to one replica alone

ASSUME AntiEntropyAssumption == Keys \subseteq Nat /\ Missing \notin Values /\ MaxUpdates \in Nat

VARIABLES
    replicaA, replicaB,  \* partial functions Keys -> Values
    updates,             \* writes so far
    round                \* the last step was a round of anti-entropy

entropyVars == <<replicaA, replicaB, updates, round>>

Universe == DOMAIN replicaA \cup DOMAIN replicaB

-----------------------------------------------------------------------------
(* The tree over the sorted universe, level by level.  A node is a leaf    *)
(* [key, value] or [left, right].                                          *)

Leaves(data, universe) ==
    LET keys == SetToSortSeq(universe, <)
    IN  [i \in DOMAIN keys |->
            [key |-> keys[i], value |-> IF keys[i] \in DOMAIN data THEN data[keys[i]] ELSE Missing]]

\* MUTANT: as NextLevel, but a node without a neighbour is dropped.
NextLevelDropsOdd(level) ==
    [i \in 1..(Len(level) \div 2) |-> [left |-> level[2 * i - 1], right |-> level[2 * i]]]

\* A node without a right neighbour rises as it is.
NextLevel(level) ==
    [i \in 1..((Len(level) + 1) \div 2) |->
        IF 2 * i <= Len(level) THEN [left |-> level[2 * i - 1], right |-> level[2 * i]] ELSE level[2 * i - 1]]

RECURSIVE Root(_)
Root(level) == IF Len(level) = 1 THEN level[1] ELSE Root(NextLevel(level))

buildMerkleTree(data, universe) == Root(Leaves(data, universe))

IsLeaf(node) == "key" \in DOMAIN node

\* The leaves at which two trees of one shape differ; equal subtrees are not
\* entered.
RECURSIVE Walk(_, _)
Walk(a, b) ==
    IF a = b THEN {}
    ELSE IF IsLeaf(a) THEN {[key |-> a.key, inA |-> a.value # Missing, inB |-> b.value # Missing]}
    ELSE Walk(a.left, b.left) \cup Walk(a.right, b.right)

compareMerkle(a, b, universe) ==
    LET leaves == Walk(buildMerkleTree(a, universe), buildMerkleTree(b, universe))
    IN  [onlyInA |-> {d.key : d \in {e \in leaves : ~e.inB}},
         onlyInB |-> {d.key : d \in {e \in leaves : ~e.inA}},
         different |-> {d.key : d \in {e \in leaves : e.inA /\ e.inB}}]

-----------------------------------------------------------------------------

\* syncBidirectional: A wins where the values differ.
Sync(diff) ==
    /\ replicaA' = [k \in diff.onlyInB |-> replicaB[k]] @@ replicaA
    /\ replicaB' = [k \in diff.onlyInA \cup diff.different |-> replicaA[k]] @@ replicaB

\* Trees, comparison and synchronisation follow each other without a pause.
AntiEntropyRound ==
    /\ Universe # {}
    /\ ~round
    /\ Sync(compareMerkle(replicaA, replicaB, Universe))
    /\ round' = TRUE
    /\ UNCHANGED updates

WriteA(k, v) ==
    /\ updates < MaxUpdates
    /\ replicaA' = (k :> v) @@ replicaA
    /\ updates' = updates + 1
    /\ round' = FALSE
    /\ UNCHANGED replicaB

WriteB(k, v) ==
    /\ updates < MaxUpdates
    /\ replicaB' = (k :> v) @@ replicaB
    /\ updates' = updates + 1
    /\ round' = FALSE
    /\ UNCHANGED replicaA

\* Two replicas that agree, on any keys; updates make them drift apart.
EntropyInit ==
    /\ \E keys \in SUBSET Keys, v \in Values : replicaA = [k \in keys |-> v]
    /\ replicaB = replicaA
    /\ updates = 0
    /\ round = FALSE

EntropyNext ==
    \/ \E k \in Keys, v \in Values : WriteA(k, v) \/ WriteB(k, v)
    \/ AntiEntropyRound

EntropySpec == EntropyInit /\ [][EntropyNext]_entropyVars

-----------------------------------------------------------------------------

EntropyTypeOK ==
    /\ DOMAIN replicaA \cup DOMAIN replicaB \subseteq Keys
    /\ \A k \in DOMAIN replicaA : replicaA[k] \in Values
    /\ \A k \in DOMAIN replicaB : replicaB[k] \in Values

\* Pruning equal subtrees loses no difference, whatever number of keys the
\* tree is built over: a round leaves the replicas equal.  It loses no key
\* and changes nothing that A has.
RoundMakesEqual ==
    [][AntiEntropyRound =>
         /\ replicaA' = replicaB'
         /\ DOMAIN replicaA' = Universe
         /\ \A k \in DOMAIN replicaA : replicaA'[k] = replicaA[k]
         /\ EntropyTypeOK']_entropyVars
=============================================================================
