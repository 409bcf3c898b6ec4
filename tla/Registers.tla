------------------------------ MODULE Registers ------------------------------
(***************************************************************************)
(* The strong, the eventual and the read-your-writes register of           *)
(* 13-distributed-systems/consistency-models.ts.  `register' is the class  *)
(* a behaviour uses.  Each write has a value of its own, its version.      *)
(***************************************************************************)
EXTENDS Naturals, Sequences

CONSTANTS
    NumCopies,
    Clients,
    MaxRegisterWrites   \* bound: writes

ASSUME RegisterAssumption == NumCopies \in Nat /\ MaxRegisterWrites \in Nat

Copies == 1 .. NumCopies  \* replica ids, in the order of the constructor

VARIABLES
    register,   \* "strong", "eventual" or "read-your-writes"
    latestVersion,
    replicaVersion,
    pending,    \* propagations not delivered: [target, version]
    session,    \* client -> version in its session cache; 0 is none
    lastWrite   \* client -> version of its last write (history)

registerVars == <<register, latestVersion, replicaVersion, pending, session, lastWrite>>

\* Propagations to all replicas, in order.
toAll(v) == [r \in Copies |-> [target |-> r, version |-> v]]

Written(c) ==
    /\ latestVersion < MaxRegisterWrites
    /\ latestVersion' = latestVersion + 1
    /\ lastWrite' = [lastWrite EXCEPT ![c] = latestVersion + 1]
    /\ UNCHANGED register

\* Replication is synchronous.
strongWrite(c) ==
    /\ register = "strong"
    /\ Written(c)
    /\ replicaVersion' = [r \in Copies |-> latestVersion + 1]
    /\ UNCHANGED <<pending, session>>

eventualWrite(c) ==
    /\ register = "eventual"
    /\ Written(c)
    /\ pending' = pending \o toAll(latestVersion + 1)
    /\ UNCHANGED <<replicaVersion, session>>

\* Only the replica the client has called is written, and its session.
sessionWrite(c, r) ==
    /\ register = "read-your-writes"
    /\ Written(c)
    /\ replicaVersion' = [replicaVersion EXCEPT ![r] = latestVersion + 1]
    /\ session' = [session EXCEPT ![c] = latestVersion + 1]
    /\ UNCHANGED pending

\* The versions that the first messages bring to r, and the one it has: a
\* message that is not newer than the replica is dropped.
Offered(r, count) ==
    {replicaVersion[r]} \cup {pending[i].version : i \in {j \in 1 .. count : pending[j].target = r}}

Highest(versions) == CHOOSE v \in versions : \A w \in versions : w <= v

\* The first messages arrive; converge() is the tick that delivers them all.
tick(count) ==
    /\ register = "eventual"
    /\ replicaVersion' = [r \in Copies |-> Highest(Offered(r, count))]
    /\ pending' = SubSeq(pending, count + 1, Len(pending))
    /\ UNCHANGED <<register, latestVersion, session, lastWrite>>

propagateTo(r) ==
    /\ register = "read-your-writes"
    /\ replicaVersion' = [replicaVersion EXCEPT ![r] = latestVersion]
    /\ UNCHANGED <<register, latestVersion, pending, session, lastWrite>>

\* The version that client c reads at replica r.
registerRead(c, r) ==
    CASE register = "strong" -> latestVersion
      [] register = "read-your-writes" /\ session[c] > 0 -> session[c]
      [] OTHER -> replicaVersion[r]

RegisterInit ==
    /\ register \in {"strong", "eventual", "read-your-writes"}
    /\ latestVersion = 0
    /\ replicaVersion = [r \in Copies |-> 0]
    /\ pending = <<>>
    /\ session = [c \in Clients |-> 0]
    /\ lastWrite = [c \in Clients |-> 0]

RegisterNext ==
    \/ \E c \in Clients : \/ strongWrite(c) \/ eventualWrite(c)
                          \/ \E r \in Copies : sessionWrite(c, r)
    \/ \E count \in 1..Len(pending) : tick(count)
    \/ \E r \in Copies : propagateTo(r)

RegisterSpec == RegisterInit /\ [][RegisterNext]_registerVars

-----------------------------------------------------------------------------

RegisterTypeOK ==
    /\ replicaVersion \in [Copies -> 0..MaxRegisterWrites]
    /\ session \in [Clients -> 0..MaxRegisterWrites]
    /\ \A i \in DOMAIN pending : pending[i].target \in Copies

\* Strong: every replica is at the latest write.  Eventual: a replica behind
\* the latest write has it coming, and nothing newer can be overtaken by what
\* else is on the way.  Read-your-writes: no replica shows a client anything
\* older than its own last write, wherever it wrote and reads.
RegistersKeepPromises ==
    /\ RegisterTypeOK
    /\ register = "strong" => \A r \in Copies : replicaVersion[r] = latestVersion
    /\ register = "eventual" =>
         \A r \in Copies : replicaVersion[r] < latestVersion =>
            \E i \in DOMAIN pending :
               /\ pending[i] = [target |-> r, version |-> latestVersion]
               /\ \A j \in DOMAIN pending : j < i => pending[j].version <= pending[i].version
    /\ register \in {"strong", "read-your-writes"} =>
         \A c \in Clients, r \in Copies : registerRead(c, r) >= lastWrite[c]
=============================================================================
