---------------------------- MODULE AtomicCommit ----------------------------
(***************************************************************************)
(* What a distributed transaction promises its participants, without a     *)
(* coordinator: all of them commit, or none does (README:5 and :26 of      *)
(* 16-distributed-transactions).  TwoPhaseCommit.tla implements it.        *)
(***************************************************************************)
CONSTANT Participants

VARIABLE outcome   \* what has become of each participant's part

Init == outcome = [p \in Participants |-> "open"]

\* p promises to commit if asked to.
Promise(p) ==
  /\ outcome[p] = "open"
  /\ outcome' = [outcome EXCEPT ![p] = "promised"]

\* p commits: every participant has promised, or has committed already.
Commit(p) ==
  /\ outcome[p] = "promised"
  /\ \A q \in Participants : outcome[q] \in {"promised", "committed"}
  /\ outcome' = [outcome EXCEPT ![p] = "committed"]

\* p aborts: nobody has committed.
Abort(p) ==
  /\ outcome[p] \in {"open", "promised"}
  /\ \A q \in Participants : outcome[q] # "committed"
  /\ outcome' = [outcome EXCEPT ![p] = "aborted"]

Next == \E p \in Participants : Promise(p) \/ Commit(p) \/ Abort(p)

Spec == Init /\ [][Next]_outcome
=============================================================================
