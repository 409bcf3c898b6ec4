----------------------------- MODULE ReadRepair -----------------------------
(***************************************************************************)
(* 14-eventual-consistency/read-repair.ts, for one key: writes that reach  *)
(* some of the replicas, reads of all of them, and repairs.  readFromAll   *)
(* and readRepair are separate calls, so what a read returned may be out   *)
(* of date when it is written back.                                        *)
(*                                                                         *)
(* The caller numbers the writes (read-repair.ts:15, "monotonic version    *)
(* per key"): each write has a version of its own, which is its value.     *)
(***************************************************************************)
EXTENDS Naturals, FiniteSets, FiniteSetsExt

CONSTANTS
    Replicas,
    Readers,
    MaxVersion  \* bound: writes

ASSUME ReadRepairAssumption == MaxVersion \in Nat

\* Version 0 stands for a missing value, which every version is newer than.
VARIABLES
    version,    \* replica -> version of the value it stores
    written,    \* the last version written
    latest      \* reader -> what its readFromAll returned; 0 is null

readVars == <<version, written, latest>>

ReadInit ==
    /\ version = [r \in Replicas |-> 0]
    /\ written = 0
    /\ latest = [c \in Readers |-> 0]

\* A write that only the replicas of `reached' receive.
WriteTo(reached) ==
    /\ written < MaxVersion
    /\ reached # {}
    /\ written' = written + 1
    /\ version' = [r \in Replicas |-> IF r \in reached THEN written + 1 ELSE version[r]]
    /\ UNCHANGED latest

Newest == Max({version[r] : r \in Replicas})

readFromAll(c) ==
    /\ latest[c] = 0
    /\ Newest > 0
    /\ latest' = [latest EXCEPT ![c] = Newest]
    /\ UNCHANGED <<version, written>>

isStale(r, seen) == version[r] < seen

readRepair(c) ==
    /\ latest[c] # 0
    /\ version' = [r \in Replicas |-> IF isStale(r, latest[c]) THEN latest[c] ELSE version[r]]
    /\ latest' = [latest EXCEPT ![c] = 0]
    /\ UNCHANGED written

ReadNext ==
    \/ \E reached \in SUBSET Replicas : WriteTo(reached)
    \/ \E c \in Readers : readFromAll(c) \/ readRepair(c)

\* Readers keep reading, and repair what they have read.
ReadFairness == \A c \in Readers : WF_readVars(readFromAll(c)) /\ WF_readVars(readRepair(c))

ReadSpec == ReadInit /\ [][ReadNext]_readVars /\ ReadFairness

-----------------------------------------------------------------------------

ReadTypeOK ==
    /\ version \in [Replicas -> 0..MaxVersion]
    /\ written \in 0..MaxVersion
    /\ latest \in [Readers -> 0..MaxVersion]

\* A write that reached one replica reaches them all, however many repairs
\* with older values are under way: once version v is written, every replica
\* has v or a newer one in the end, and keeps it.
RepairSpreadsWrites ==
    []ReadTypeOK /\ \A v \in 1..MaxVersion : (written >= v) ~> [](\A r \in Replicas : version[r] >= v)
=============================================================================
