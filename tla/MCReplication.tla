---------------------------- MODULE MCReplication ----------------------------
(***************************************************************************)
(* The programs of chapters 13, 14 and 18, which replicate data, in one    *)
(* run.  They share no state: `program' picks, in the initial state, the   *)
(* one a behaviour follows, and the others keep their initial states.      *)
(* Fairness is of read repair and of the push loops: in a behaviour of     *)
(* another program nothing they could do is enabled.                       *)
(***************************************************************************)
EXTENDS ConsistencyModes, CausalStore, Crdt, CausalClocks, ReadRepair, AntiEntropy,
        ChangesetSync

VARIABLE program

Programs == {"cap", "registers", "causal", "crdt", "vector-clocks", "read-repair",
             "anti-entropy", "cr-sqlite"}

replicationVars ==
    <<program, capVars, registerVars, causalVars, crdtVars, clockVars, readVars, entropyVars, syncVars>>

ReplicationInit ==
    /\ program \in Programs
    /\ CapInit /\ RegisterInit /\ CausalInit
    /\ CrdtInit /\ ClockInit /\ ReadInit /\ EntropyInit /\ SyncInit
    /\ program # "cap" => mode = "CP"
    /\ program # "registers" => register = "strong"
    /\ program # "crdt" => crdtType = "GSet"
    /\ program # "anti-entropy" => Universe = {}

\* A step of program p, which leaves the variables of the others alone.
Step(p) ==
    /\ IF p = "cap" THEN CapNext ELSE UNCHANGED capVars
    /\ IF p = "registers" THEN RegisterNext ELSE UNCHANGED registerVars
    /\ IF p = "causal" THEN CausalNext ELSE UNCHANGED causalVars
    /\ IF p = "crdt" THEN CrdtNext ELSE UNCHANGED crdtVars
    /\ IF p = "vector-clocks" THEN ClockNext ELSE UNCHANGED clockVars
    /\ IF p = "read-repair" THEN ReadNext ELSE UNCHANGED readVars
    /\ IF p = "anti-entropy" THEN EntropyNext ELSE UNCHANGED entropyVars
    /\ IF p = "cr-sqlite" THEN SyncNext ELSE UNCHANGED syncVars

ReplicationNext == UNCHANGED program /\ Step(program)

ReplicationSpec ==
    ReplicationInit /\ [][ReplicationNext]_replicationVars /\ ReadFairness /\ SyncFairness

\* Both ways of chapter 14 to reconcile replicas do: readers that repair what they
\* find stale, and rounds over Merkle trees.
ReplicasReconcile == RepairSpreadsWrites /\ RoundMakesEqual
=============================================================================
