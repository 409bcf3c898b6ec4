---------------------------- MODULE ChangesetSync ----------------------------
(***************************************************************************)
(* 18-cr-sqlite: nodes of a cr-sqlite mesh write their own database, push  *)
(* their changes to their peers in a background loop, and apply what they  *)
(* receive (tmp/crsql-replicate.ts is the same program for one peer).      *)
(*                                                                         *)
(* The extension is external: a write gives the row a higher version, of   *)
(* two changes of a row the higher version wins and then the larger value, *)
(* and a change that wins gets a db_version of this database, above all    *)
(* those before it.  A push selects db_version > lastSentVersion and sets  *)
(* lastSentVersion to the largest selected, so what a node has still to    *)
(* push is a set of rows: `unsent'.                                        *)
(***************************************************************************)
EXTENDS Naturals, FiniteSets, SequencesExt

CONSTANTS
    Sites,       \* the nodes; each is a peer of all others
    Rows,        \* primary keys
    Data,        \* values written, numbers
    MaxWrites,   \* bound: local writes
    MaxFailures, \* bound: posts that do not reach the peer
    MaxRestarts  \* bound: restarts of nodes

ASSUME SyncAssumption ==
    /\ IsFiniteSet(Sites) /\ Data \subseteq Nat
    /\ MaxWrites \in Nat /\ MaxFailures \in Nat /\ MaxRestarts \in Nat

VARIABLES
    table,    \* node -> row -> [version, val]; version 0 is no row
    unsent,   \* node -> rows whose db_version is above lastSentVersion
    pushes,   \* rounds of push loops under way: [from, changes, peers left]
    missed,   \* <<n, m>>: a post of n to m has failed since n started (history)
    writes, failures, restarts

syncVars == <<table, unsent, pushes, missed, writes, failures, restarts>>

noRow == [version |-> 0, val |-> 0]
present(n) == {k \in Rows : table[n][k] # noRow}

Peers(n) == SetToSeq(Sites \ {n})

wins(a, b) == a.version > b.version \/ (a.version = b.version /\ a.val > b.val)

-----------------------------------------------------------------------------

\* POST /write, or any statement of the application.
Write(n, k, v) ==
    /\ writes < MaxWrites
    /\ writes' = writes + 1
    /\ table' = [table EXCEPT ![n][k] = [version |-> @.version + 1, val |-> v]]
    /\ unsent' = [unsent EXCEPT ![n] = @ \cup {k}]
    /\ UNCHANGED <<pushes, missed, failures, restarts>>

\* A tick of the push loop.  Ticks do not wait for the round before them, and
\* lastSentVersion is set before anything is sent, and when there is no peer.
PushTick(n) ==
    /\ unsent[n] # {}
    /\ LET round == [from |-> n, changes |-> [k \in unsent[n] |-> table[n][k]], left |-> Peers(n)]
       IN  pushes' = pushes \cup IF Peers(n) = <<>> THEN {} ELSE {round}
    /\ unsent' = [unsent EXCEPT ![n] = {}]
    /\ UNCHANGED <<table, missed, writes, failures, restarts>>

\* The loop over the peers goes on after the first one left.
NextPeer(p) ==
    pushes' = (pushes \ {p}) \cup
              IF Len(p.left) > 1 THEN {[p EXCEPT !.left = Tail(@)]} ELSE {}

\* MUTANT: as Accepted, but the changes a node receives are not passed on.
AcceptedSilently(m, changes) ==
    LET won == {k \in DOMAIN changes : wins(changes[k], table[m][k])}
    IN  /\ table' = [table EXCEPT ![m] = [k \in Rows |-> IF k \in won THEN changes[k] ELSE @[k]]]
        /\ UNCHANGED unsent

\* POST /sync at node m: changes that lose, or are not new, change nothing.
Accepted(m, changes) ==
    LET won == {k \in DOMAIN changes : wins(changes[k], table[m][k])}
    IN  /\ table' = [table EXCEPT ![m] = [k \in Rows |-> IF k \in won THEN changes[k] ELSE @[k]]]
        /\ unsent' = [unsent EXCEPT ![m] = @ \cup won]

Delivered(p) ==
    /\ Accepted(Head(p.left), p.changes)
    /\ NextPeer(p)
    /\ UNCHANGED <<missed, writes, failures, restarts>>

\* The peer cannot be reached: the error is caught, and the loop goes on.
Unreachable(p) ==
    /\ failures < MaxFailures
    /\ failures' = failures + 1
    /\ missed' = missed \cup {<<p.from, Head(p.left)>>}
    /\ NextPeer(p)
    /\ UNCHANGED <<table, unsent, writes, restarts>>

\* MUTANT: as Restart, but lastSentVersion survives.
RestartFromLastSent(n) ==
    /\ restarts < MaxRestarts
    /\ restarts' = restarts + 1
    /\ pushes' = {p \in pushes : p.from # n}
    /\ missed' = {pair \in missed : pair[1] # n}
    /\ UNCHANGED <<table, unsent, writes, failures>>

\* The process ends and starts again on the same database: lastSentVersion
\* is 0, and rounds under way are gone.  While it is down, posts to it fail.
Restart(n) ==
    /\ restarts < MaxRestarts
    /\ restarts' = restarts + 1
    /\ pushes' = {p \in pushes : p.from # n}
    /\ missed' = {pair \in missed : pair[1] # n}
    /\ unsent' = [unsent EXCEPT ![n] = present(n)]
    /\ UNCHANGED <<table, writes, failures>>

SyncInit ==
    /\ table = [n \in Sites |-> [k \in Rows |-> noRow]]
    /\ unsent = [n \in Sites |-> {}]
    /\ pushes = {} /\ missed = {}
    /\ writes = 0 /\ failures = 0 /\ restarts = 0

Push == \E p \in pushes : Delivered(p) \/ Unreachable(p)

SyncNext ==
    \/ \E n \in Sites : \/ \E k \in Rows, v \in Data : Write(n, k, v)
                        \/ PushTick(n) \/ Restart(n)
    \/ Push

\* The timer of each node fires, and every fetch comes to an end.
SyncFairness == (\A n \in Sites : WF_syncVars(PushTick(n))) /\ WF_syncVars(Push)

SyncSpec == SyncInit /\ [][SyncNext]_syncVars /\ SyncFairness

-----------------------------------------------------------------------------

SyncTypeOK ==
    /\ table \in [Sites -> [Rows -> [version : 0..MaxWrites, val : Data \cup {0}]]]
    /\ unsent \in [Sites -> SUBSET Rows]
    /\ \A p \in pushes : p.from \in Sites /\ DOMAIN p.changes \subseteq Rows /\ p.left # <<>>
    /\ missed \subseteq Sites \X Sites

\* While n has a row that m lacks or has an older version of, n has that
\* row still to send to m, in a round under way or in a later one - unless a
\* post of n to m has failed since n started, which nothing makes good.
NothingForgotten ==
    /\ SyncTypeOK
    /\ \A n, m \in Sites, k \in Rows : wins(table[n][k], table[m][k]) =>
         \/ k \in unsent[n]
         \/ \E p \in pushes : /\ p.from = n /\ m \in ToSet(p.left)
                              /\ k \in DOMAIN p.changes /\ p.changes[k] = table[n][k]
         \/ <<n, m>> \in missed

Converged == \A n, m \in Sites : table[n] = table[m]

\* The databases converge if every node whose post failed is restarted; the
\* retry at the next interval of which sync.ts:158 and crsql-replicate.ts:159
\* speak does not take place.
ConvergesOnceAllReached == <>[](missed = {}) => <>[]Converged
=============================================================================
