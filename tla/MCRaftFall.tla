----------------------------- MODULE MCRaftFall -----------------------------
(***************************************************************************)
(* Raft.tla along one course of events in which a commit index falls, too  *)
(* long to be met by chance: five nodes, four terms, logs of four entries. *)
(* The operator's moves are given; the ticks between them are Raft's, with *)
(* every jitter under which the node that is to lead times out first.      *)
(*                                                                         *)
(* Node 1 leads and writes four entries that only 2 receives.  Node 3 is   *)
(* elected, has an entry of its own committed and adds three that 1 and 5  *)
(* alone hear of: the old entries of 1 count for these, and 5 commits      *)
(* three.  Node 4, which lacks them, is elected, and its next entry        *)
(* overwrites those of 3, but not of 5, which is cut off.  4 crashes; 3    *)
(* leads again with a commit index beyond its log and sends its two        *)
(* entries to 5.                                                           *)
(***************************************************************************)
EXTENDS MCRaft

VARIABLES
  at,       \* the move that comes next
  fallen    \* a commit index has fallen

Apart(side) == {side, Nodes \ side}
Splits == {Apart({1, 2}), Apart({1, 3, 5}), Apart({3}), Apart({5})}

Lead(n) == [do |-> "lead", who |-> n]
Prop(n) == [do |-> "propose", who |-> n]
Part(side) == [do |-> "partition", groups |-> Apart(side)]
Stop(n) == [do |-> "crash", who |-> n]
Heal == [do |-> "heal"]
Wait == [do |-> "tick"]

Moves == <<
  Lead(1), Part({1, 2}), Prop(1), Prop(1), Prop(1), Prop(1),
  Lead(3), Heal, Wait, Prop(3), Part({1, 3, 5}), Prop(3), Prop(3), Prop(3),
  Part({3}), Lead(4), Part({5}), Prop(4), Stop(4),
  Heal, Lead(3), Wait, Wait>>

Move == Moves[at]

\* A tick in which at most the node that is to lead calls an election.
QuietTick ==
  /\ Move.do \in {"lead", "tick"}
  /\ TickStep
  /\ phase = "elections" /\ Due # {} => Move.do = "lead" /\ Least(Due) = Move.who
  /\ at' = IF EndTick /\ (Move.do = "lead" => node[Move.who].role = "leader") THEN at + 1 ELSE at

Operator ==
  /\ CASE Move.do = "propose" -> \E c \in Commands : Propose(Move.who, c)
       [] Move.do = "crash" -> Crash(Move.who)
       [] Move.do = "partition" -> SetPartition /\ groups' = Move.groups
       [] Move.do = "heal" -> HealPartition
       [] OTHER -> FALSE
  /\ at' = at + 1

\* The course is over; that this step is ever taken shows that an index has fallen.
Over == at > Len(Moves) /\ fallen /\ at' = 0 /\ UNCHANGED <<vars, fallen>>

FallInit == Init /\ at = 1 /\ fallen = FALSE

FallNext ==
  \/ /\ at \in DOMAIN Moves
     /\ QuietTick \/ Operator
     /\ fallen' = (fallen \/ \E n \in Nodes : node'[n].commitIndex < node[n].commitIndex)
  \/ Over

FallSpec == FallInit /\ [][FallNext]_<<vars, at, fallen>>
=============================================================================
