---------------------------- MODULE CausalClocks ----------------------------
(***************************************************************************)
(* 14-eventual-consistency/vector-clocks.ts: nodes stamp their events,     *)
(* snapshots travel and may arrive late, twice or never.  `past' is what   *)
(* really happened before an event; the clocks should tell exactly that.   *)
(***************************************************************************)
EXTENDS Naturals, FiniteSets

CONSTANTS
    ClockNodes,
    MaxStamps,   \* bound: events stamped
    MaxSnapshots \* bound: snapshots taken

ASSUME ClockAssumption == MaxStamps \in Nat /\ MaxSnapshots \in Nat

VARIABLES
    clock,      \* VectorClockNode.clock
    stamped,    \* events of all nodes: [id, node, clock, past]
    snapshots,  \* snapshots taken: [clock, past]
    history     \* node -> ids of the events it knows of (history)

clockVars == <<clock, stamped, snapshots, history>>

Clock == [ClockNodes -> Nat]
zeroClock == [n \in ClockNodes |-> 0]
maxClock(a, b) == [n \in ClockNodes |-> IF a[n] >= b[n] THEN a[n] ELSE b[n]]

happenedBefore(a, b) == (\A n \in ClockNodes : a[n] <= b[n]) /\ a # b

isConcurrent(a, b) == ~happenedBefore(a, b) /\ ~happenedBefore(b, a) /\ a # b

relate(a, b) ==
    CASE a = b -> "equal"
      [] happenedBefore(a, b) \/ happenedBefore(b, a) -> "happened-before"
      [] OTHER -> "concurrent"

Tick(n) == [clock[n] EXCEPT ![n] = @ + 1]

\* An event of node n, after which its clock is c and it knows of `before'.
Stamp(n, c, before) ==
    LET id == Cardinality(stamped) + 1
    IN  /\ id <= MaxStamps
        /\ clock' = [clock EXCEPT ![n] = c]
        /\ stamped' = stamped \cup {[id |-> id, node |-> n, clock |-> c, past |-> before]}
        /\ history' = [history EXCEPT ![n] = before \cup {id}]

local(n) == Stamp(n, Tick(n), history[n]) /\ UNCHANGED snapshots

snapshot(n) ==
    /\ Cardinality(snapshots) < MaxSnapshots
    /\ snapshots' = snapshots \cup {[clock |-> clock[n], past |-> history[n]]}
    /\ UNCHANGED <<clock, stamped, history>>

\* MUTANT: as receive, but the node's own component does not move.
receiveWithoutTick(n) ==
    \E m \in snapshots :
        /\ Stamp(n, maxClock(clock[n], m.clock), history[n] \cup m.past)
        /\ UNCHANGED snapshots

receive(n) ==
    \E m \in snapshots :
        /\ Stamp(n, maxClock(Tick(n), m.clock), history[n] \cup m.past)
        /\ UNCHANGED snapshots

ClockInit ==
    /\ clock = [n \in ClockNodes |-> zeroClock]
    /\ stamped = {}
    /\ snapshots = {}
    /\ history = [n \in ClockNodes |-> {}]

ClockNext == \E n \in ClockNodes : local(n) \/ snapshot(n) \/ receive(n)

ClockSpec == ClockInit /\ [][ClockNext]_clockVars

-----------------------------------------------------------------------------

ClockTypeOK ==
    /\ clock \in [ClockNodes -> Clock]
    /\ \A e \in stamped : e.clock \in Clock /\ e.past \subseteq 1..MaxStamps

\* The clocks characterise causality: one event happened before another
\* exactly when its clock is smaller, two events conflict exactly when neither
\* could know of the other, and no two events share a clock.
ClocksTellCausality ==
    /\ ClockTypeOK
    /\ \A e, f \in stamped :
         /\ happenedBefore(e.clock, f.clock) <=> e.id \in f.past
         /\ relate(e.clock, f.clock) = "equal" <=> e = f
         /\ relate(e.clock, f.clock) = "concurrent" <=> isConcurrent(e.clock, f.clock)
         /\ isConcurrent(e.clock, f.clock) <=>
              e # f /\ e.id \notin f.past /\ f.id \notin e.past
=============================================================================
