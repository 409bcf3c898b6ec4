--------------------------- MODULE TwoPhaseCommit ---------------------------
(***************************************************************************)
(* Two-phase commit as 16-distributed-transactions/two-phase-commit.ts     *)
(* runs it: Participant and Coordinator.  Coordinator.run calls one        *)
(* participant after the other and returns a result; `phase' and `turn'    *)
(* are its program counter.  Recoveries and the decisions that the caller  *)
(* hands on come after run has returned, as in demo.ts.                    *)
(*                                                                         *)
(* Crashes are injected by the behavior a participant or the coordinator   *)
(* is built with, which stays as it is.                                    *)
(***************************************************************************)
EXTENDS Naturals, FiniteSets

CONSTANT N   \* the number of participants, called in the order 1, 2, ...

ASSUME NumberAssumption == N \in Nat \ {0}

Participants == 1..N
Undecided == "undecided"

VARIABLES
  votes,        \* the vote behavior.vote returns for each participant
  crashes,      \* when the behavior lets each one crash: never, before, after
  crashAllYes,  \* the coordinator's behavior.crashAfterAllYes
  state,        \* Participant.state
  lockHeld,     \* Participant.lockHeld
  logged,       \* Participant.log.preparedLogged
  known,        \* Participant.log.decision
  alive,        \* Participant.alive
  coordinator,  \* Coordinator.state
  up,           \* Coordinator.alive
  decision,     \* Coordinator.decision
  phase,        \* where run is: prepare, decide, commit, abort, or returned
  turn,         \* the participant its loop calls next
  result        \* the outcome run has returned, or none

behavior == <<votes, crashes, crashAllYes>>
participant == <<state, lockHeld, logged, known, alive>>
control == <<phase, turn, result>>
vars == <<behavior, participant, coordinator, up, decision, control>>

Init ==
  /\ votes \in [Participants -> {"YES", "NO"}]
  /\ crashes \in [Participants -> {"never", "before", "after"}]
  /\ crashAllYes \in BOOLEAN
  /\ state = [p \in Participants |-> "IDLE"]
  /\ lockHeld = [p \in Participants |-> FALSE]
  /\ logged = [p \in Participants |-> FALSE]
  /\ known = [p \in Participants |-> Undecided]
  /\ alive = [p \in Participants |-> TRUE]
  /\ coordinator = "PREPARING"
  /\ up = TRUE
  /\ decision = Undecided
  /\ phase = "prepare"
  /\ turn = 1
  /\ result = "none"

-----------------------------------------------------------------------------
(* The participant. *)

\* prepare() of a participant that does not crash before it votes.
Vote(p) ==
  /\ state' = [state EXCEPT ![p] = IF votes[p] = "YES" THEN "PREPARED"
                                   ELSE "ABORTED"]
  /\ lockHeld' = [lockHeld EXCEPT ![p] = @ \/ votes[p] = "YES"]
  /\ logged' = [logged EXCEPT ![p] = @ \/ votes[p] = "YES"]
  /\ known' = [known EXCEPT ![p] = IF votes[p] = "NO" THEN "ABORT" ELSE @]
  /\ alive' = [alive EXCEPT ![p] = crashes[p] # "after"]

\* MUTANT: the participant keeps its lock when it aborts.
FinishKeepingLock(p, d) ==
  /\ state' = [state EXCEPT ![p] = IF d = "COMMIT" THEN "COMMITTED"
                                   ELSE "ABORTED"]
  /\ lockHeld' = [lockHeld EXCEPT ![p] = @ /\ d = "ABORT"]
  /\ known' = [known EXCEPT ![p] = d]
  /\ UNCHANGED <<logged, alive>>

\* commit() or abort() of a participant that is alive.
Finish(p, d) ==
  /\ state' = [state EXCEPT ![p] = IF d = "COMMIT" THEN "COMMITTED"
                                   ELSE "ABORTED"]
  /\ lockHeld' = [lockHeld EXCEPT ![p] = FALSE]
  /\ known' = [known EXCEPT ![p] = d]
  /\ UNCHANGED <<logged, alive>>

-----------------------------------------------------------------------------
(* Coordinator.run. *)

Return(outcome) == phase' = "returned" /\ result' = outcome

\* Phase 1 goes on with the next participant after p, or to the decision.
NextVote(p) ==
  /\ turn' = IF p = N THEN 1 ELSE p + 1
  /\ phase' = IF p = N THEN "decide" ELSE "prepare"
  /\ UNCHANGED result

\* prepare() of the participant whose turn it is: it votes, or throws.
Prepare ==
  /\ phase = "prepare"
  /\ \/ /\ crashes[turn] = "before"
        /\ alive' = [alive EXCEPT ![turn] = FALSE]
        /\ Return("BLOCKED")
        /\ UNCHANGED <<state, lockHeld, logged, known, turn>>
     \/ /\ crashes[turn] # "before"
        /\ Vote(turn)
        /\ NextVote(turn)
  /\ UNCHANGED <<behavior, coordinator, up, decision>>

\* MUTANT: one YES is enough.
AnyYes == \E p \in Participants : votes[p] = "YES"

AllYes == \A p \in Participants : votes[p] = "YES"

\* Between the phases: the coordinator crashes, or decides.
Decide ==
  /\ phase = "decide"
  /\ \/ /\ AllYes /\ crashAllYes
        /\ up' = FALSE
        /\ coordinator' = "CRASHED"
        /\ Return("BLOCKED")
        /\ UNCHANGED decision
     \/ /\ AllYes /\ ~crashAllYes
        /\ decision' = "COMMIT"
        /\ coordinator' = "COMMITTING"
        /\ phase' = "commit"
        /\ UNCHANGED <<up, result>>
     \/ /\ ~AllYes
        /\ decision' = "ABORT"
        /\ coordinator' = "ABORTING"
        /\ phase' = "abort"
        /\ UNCHANGED <<up, result>>
  /\ UNCHANGED <<behavior, participant, turn>>

\* Phase 2 goes on with the next participant after p, or run returns.
NextCall(p, outcome) ==
  /\ turn' = IF p = N THEN 1 ELSE p + 1
  /\ coordinator' = IF p = N THEN "DONE" ELSE coordinator
  /\ IF p = N THEN Return(outcome) ELSE UNCHANGED <<phase, result>>

\* commit() of the participant whose turn it is; the first that throws ends
\* the loop.
SendCommit ==
  /\ phase = "commit"
  /\ \/ /\ alive[turn]
        /\ Finish(turn, "COMMIT")
        /\ NextCall(turn, "COMMITTED")
     \/ /\ ~alive[turn]
        /\ Return("BLOCKED")
        /\ UNCHANGED <<participant, coordinator, turn>>
  /\ UNCHANGED <<behavior, up, decision>>

\* abort() of the participant whose turn it is, unless it has aborted by
\* itself; one that throws is passed over.
SendAbort ==
  /\ phase = "abort"
  /\ IF state[turn] \in {"PREPARED", "IDLE"} /\ alive[turn]
     THEN Finish(turn, "ABORT") ELSE UNCHANGED participant
  /\ NextCall(turn, "ABORTED")
  /\ UNCHANGED <<behavior, up, decision>>

-----------------------------------------------------------------------------
(* After run has returned. *)

\* MUTANT: a participant recovers without reading its log.
RecoverParticipantWithoutLog(p) ==
  /\ phase = "returned"
  /\ ~alive[p]
  /\ alive' = [alive EXCEPT ![p] = TRUE]
  /\ state' = [state EXCEPT ![p] = "ABORTED"]
  /\ lockHeld' = [lockHeld EXCEPT ![p] = FALSE]
  /\ UNCHANGED <<behavior, logged, known, coordinator, up, decision, control>>

\* Participant.recover: in doubt, it takes its lock again.
RecoverParticipant(p) ==
  LET inDoubt == logged[p] /\ known[p] = Undecided
  IN /\ phase = "returned"
     /\ ~alive[p]
     /\ alive' = [alive EXCEPT ![p] = TRUE]
     /\ state' = [state EXCEPT ![p] = IF inDoubt THEN "PREPARED" ELSE @]
     /\ lockHeld' = [lockHeld EXCEPT ![p] = @ \/ inDoubt]
     /\ UNCHANGED <<behavior, logged, known, coordinator, up, decision, control>>

\* MUTANT: the coordinator forgets its decision in the crash.
RecoverCoordinatorAmnesiac ==
  /\ phase = "returned"
  /\ coordinator # "DONE"
  /\ up' = TRUE
  /\ coordinator' = "IDLE"
  /\ decision' = Undecided
  /\ UNCHANGED <<behavior, participant, control>>

\* Coordinator.recover.
RecoverCoordinator ==
  /\ phase = "returned"
  /\ coordinator # "DONE"
  /\ up' = TRUE
  /\ coordinator' = IF decision = Undecided THEN "IDLE" ELSE "DONE"
  /\ UNCHANGED <<behavior, participant, decision, control>>

\* applyDecision: the caller hands the coordinator's decision to p.
ApplyDecision(p) ==
  /\ phase = "returned"
  /\ coordinator = "DONE"
  /\ decision # Undecided
  /\ alive[p]
  /\ Finish(p, decision)
  /\ UNCHANGED <<behavior, coordinator, up, decision, control>>

Run == Prepare \/ Decide \/ SendCommit \/ SendAbort

Next ==
  \/ Run
  \/ \E p \in Participants : RecoverParticipant(p) \/ ApplyDecision(p)
  \/ RecoverCoordinator

\* run does not stop half-way; whatever has crashed is recovered, and the
\* caller of a transaction that has a decision hands it on.
Fairness ==
  /\ WF_vars(Run)
  /\ WF_vars(RecoverCoordinator)
  /\ \A p \in Participants :
       WF_vars(RecoverParticipant(p)) /\ WF_vars(ApplyDecision(p))

Spec == Init /\ [][Next]_vars /\ Fairness

-----------------------------------------------------------------------------
(* Properties. *)

\* Every variable has its type, and only a participant in doubt holds a lock.
TypeOK ==
  /\ votes \in [Participants -> {"YES", "NO"}]
  /\ crashes \in [Participants -> {"never", "before", "after"}]
  /\ crashAllYes \in BOOLEAN
  /\ state \in [Participants -> {"IDLE", "PREPARED", "COMMITTED", "ABORTED"}]
  /\ lockHeld = [p \in Participants |-> state[p] = "PREPARED"]
  /\ logged \in [Participants -> BOOLEAN]
  /\ known \in [Participants -> {Undecided, "COMMIT", "ABORT"}]
  /\ alive \in [Participants -> BOOLEAN]
  /\ coordinator \in {"IDLE", "PREPARING", "COMMITTING", "ABORTING", "DONE",
                      "CRASHED"}
  /\ up \in BOOLEAN
  /\ decision \in {Undecided, "COMMIT", "ABORT"}
  /\ phase \in {"prepare", "decide", "commit", "abort", "returned"}
  /\ turn \in Participants
  /\ result \in {"none", "COMMITTED", "ABORTED", "BLOCKED"}

\* All participants commit or none does: no crash, in the middle of a phase or
\* between the phases, and no recovery splits them (two-phase-commit.ts:156-268).
Agreement ==
  \A p, q \in Participants : ~(state[p] = "COMMITTED" /\ state[q] = "ABORTED")

\* Two-phase commit implements atomic commitment.
AtomicState(s) ==
  CASE s = "IDLE" -> "open"
    [] s = "PREPARED" -> "promised"
    [] s = "COMMITTED" -> "committed"
    [] s = "ABORTED" -> "aborted"

outcomes == [p \in Participants |-> AtomicState(state[p])]

Atomic == INSTANCE AtomicCommit WITH outcome <- outcomes

ImplementsAtomicCommit == Atomic!Spec

\* A participant in doubt never settles the transaction by itself: it leaves
\* PREPARED only for a decision that the coordinator has taken, and in the
\* direction of that decision (README:86-90).
InDoubtWaits ==
  [][\A p \in Participants :
       state[p] = "PREPARED" /\ state'[p] # "PREPARED"
         => decision # Undecided /\ known'[p] = decision]_vars

\* Once the coordinator has decided, every participant ends in that decision
\* and gives its lock back, though it was down when its turn came: the log it
\* reads when it recovers keeps it in doubt until then (README:71).
DecisionReachesAll ==
  \A d \in {"COMMIT", "ABORT"} :
    decision = d ~> \A p \in Participants : known[p] = d /\ ~lockHeld[p]
=============================================================================
