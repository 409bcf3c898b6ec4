------------------------------- MODULE MCRaft -------------------------------
(* Values for the constants of Raft.tla in the TLC runs. *)
EXTENDS Raft

NoNode == {}

\* Every way to cut one node off from the others.
AllSplits == {{{n}, Nodes \ {n}} : n \in Nodes}

\* The first node, with the lead in the order of visits, or the last, cut off.
EdgeSplits == {{{n}, Nodes \ {n}} : n \in {1, NumNodes}}
=============================================================================
