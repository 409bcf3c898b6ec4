------------------------- MODULE TransactionProofs --------------------------
(***************************************************************************)
(* Proofs about the distributed transactions of chapter 16: two-phase      *)
(* commit for every number of participants, and those that do without a    *)
(* coordinator, the sagas and the transactional outbox.                    *)
(***************************************************************************)
EXTENDS TwoPhaseCommit, Transactions, FoldLemmas

-----------------------------------------------------------------------------
(* Two-phase commit: the types, the agreement of the participants, and the *)
(* refinement of AtomicCommit.                                             *)
(*                                                                         *)
(* Agreement is not inductive.  Sound adds to it what the program counter  *)
(* of Coordinator.run and a participant's log tell about the states: a     *)
(* COMMIT is decided only when everybody is PREPARED, and a participant in *)
(* doubt is still PREPARED, so that its recovery changes nothing.          *)

\* The state that prepare() leaves p in.
Voted(p) == IF votes[p] = "YES" THEN "PREPARED" ELSE "ABORTED"

\* What run knows about the votes while it collects them.
Collecting ==
  /\ phase = "prepare" =>
       \A p \in Participants :
         /\ p < turn => state[p] = Voted(p)
         /\ p >= turn => state[p] = "IDLE"
  /\ phase = "decide" => \A p \in Participants : state[p] = Voted(p)

\* The decision that goes with each place of run.
Deciding ==
  /\ phase \in {"prepare", "decide"} => decision = Undecided
  /\ phase = "commit" => decision = "COMMIT"
  /\ phase = "abort" => decision = "ABORT"

\* The states that go with each decision.
Deciders ==
  /\ decision = "COMMIT" =>
       \A p \in Participants : state[p] \in {"PREPARED", "COMMITTED"}
  /\ decision # "COMMIT" => \A p \in Participants : state[p] # "COMMITTED"

\* A participant that has promised and heard nothing keeps its promise.
InDoubtPrepared ==
  \A p \in Participants :
    logged[p] /\ known[p] = Undecided => state[p] = "PREPARED"

Sound == TypeOK /\ Collecting /\ Deciding /\ Deciders /\ InDoubtPrepared

-----------------------------------------------------------------------------
\* A fresh transaction is sound.
LEMMA InitSound == Init => Sound
<1> SUFFICES ASSUME Init PROVE Sound
  OBVIOUS
<1>1. 1 \in Participants
  BY NumberAssumption DEF Participants
<1>2. TypeOK
  BY <1>1 DEF Init, TypeOK, Undecided
<1>3. Collecting /\ Deciding /\ Deciders /\ InDoubtPrepared
  BY DEF Init, Collecting, Deciding, Deciders, InDoubtPrepared, Undecided,
         Participants
<1> QED
  BY <1>2, <1>3 DEF Sound

\* The loops of run stay within the participants.
LEMMA NextTurn ==
  ASSUME TypeOK
  PROVE  (IF turn = N THEN 1 ELSE turn + 1) \in Participants
BY NumberAssumption DEF TypeOK, Participants

\* Collecting a vote, with the crash of its participant, keeps Sound.
LEMMA PrepareSound == Sound /\ Prepare => Sound'
<1> SUFFICES ASSUME Sound, Prepare PROVE Sound'
  OBVIOUS
<1> USE DEF Sound, Prepare
<1>t. turn \in Participants /\ TypeOK
  BY DEF TypeOK
<1>1. CASE crashes[turn] = "before"
  <2>1. /\ alive' = [alive EXCEPT ![turn] = FALSE]
        /\ phase' = "returned" /\ result' = "BLOCKED"
        /\ UNCHANGED <<votes, crashes, crashAllYes, state, lockHeld, logged,
                       known, turn, coordinator, up, decision>>
    BY <1>1 DEF Return, behavior
  <2>2. TypeOK'
    BY <2>1, <1>t DEF TypeOK
  <2>3. (Collecting /\ Deciding /\ Deciders /\ InDoubtPrepared)'
    BY <2>1 DEF Collecting, Deciding, Deciders, InDoubtPrepared
  <2> QED
    BY <2>2, <2>3
<1>2. CASE crashes[turn] # "before"
  <2>1. /\ Vote(turn) /\ NextVote(turn) /\ phase = "prepare"
        /\ UNCHANGED <<votes, crashes, crashAllYes, coordinator, up, decision>>
    BY <1>2 DEF behavior
  <2>2. state' = [state EXCEPT ![turn] = Voted(turn)]
    BY <2>1 DEF Vote, Voted
  <2>3. decision = Undecided /\ decision' = Undecided
    BY <2>1 DEF Deciding
  <2>4. Voted(turn) \in {"PREPARED", "ABORTED"} /\ state[turn] = "IDLE"
    BY <2>1, <1>t DEF Voted, Collecting, Participants
  <2>5. TypeOK'
    <3>1. turn' \in Participants /\ phase' \in {"prepare", "decide"}
          /\ result' = result
      BY <2>1, <1>t, NextTurn DEF NextVote
    <3>2. lockHeld' = [p \in Participants |-> state'[p] = "PREPARED"]
      BY <2>1, <1>t, <2>4 DEF Vote, TypeOK
    <3>3. /\ state' \in [Participants -> {"IDLE", "PREPARED", "COMMITTED", "ABORTED"}]
          /\ logged' \in [Participants -> BOOLEAN]
          /\ known' \in [Participants -> {Undecided, "COMMIT", "ABORT"}]
          /\ alive' \in [Participants -> BOOLEAN]
      BY <2>1, <1>t DEF Vote, TypeOK
    <3> QED
      BY <2>1, <1>t, <3>1, <3>2, <3>3 DEF TypeOK
  <2>6. Collecting'
    <3>1. \A p \in Participants : Voted(p)' = Voted(p)
      BY <2>1 DEF Voted
    <3>2. CASE turn = N
      <4>1. phase' = "decide"
        BY <3>2, <2>1 DEF NextVote
      <4>2. \A p \in Participants : p # turn => p < turn
        BY <3>2, NumberAssumption DEF Participants
      <4> QED
        BY <4>1, <4>2, <3>1, <2>1, <2>2, <1>t DEF Collecting, TypeOK
    <3>3. CASE turn # N
      <4>1. phase' = "prepare" /\ turn' = turn + 1
        BY <3>3, <2>1 DEF NextVote
      <4>2. \A p \in Participants :
              /\ p < turn + 1 => p = turn \/ p < turn
              /\ p >= turn + 1 => p # turn /\ p >= turn
        BY <1>t, NumberAssumption DEF Participants
      <4> QED
        BY <4>1, <4>2, <3>1, <2>1, <2>2, <1>t DEF Collecting, TypeOK
    <3> QED
      BY <3>2, <3>3
  <2>7. Deciding' /\ Deciders'
    <3>1. phase' \in {"prepare", "decide"}
      BY <2>1 DEF NextVote
    <3>2. \A p \in Participants : state'[p] # "COMMITTED"
      BY <2>2, <2>3, <2>4, <1>t DEF Deciders, TypeOK, Undecided
    <3> QED
      BY <3>1, <3>2, <2>3 DEF Deciding, Deciders, Undecided
  <2>8. InDoubtPrepared'
    BY <2>1, <1>t DEF InDoubtPrepared, Vote, TypeOK, Undecided
  <2> QED
    BY <2>5, <2>6, <2>7, <2>8
<1> QED
  BY <1>1, <1>2

\* The decision keeps Sound: all have voted, and COMMIT needs every YES.
LEMMA DecideSound == Sound /\ Decide => Sound'
<1> SUFFICES ASSUME Sound, Decide PROVE Sound'
  OBVIOUS
<1> USE DEF Sound, Decide
<1>1. UNCHANGED <<votes, crashes, crashAllYes, state, lockHeld, logged, known,
                  alive, turn>>
  BY DEF behavior, participant
<1>2. \A p \in Participants : state[p] = Voted(p)
  BY DEF Collecting
<1>3. decision = Undecided
  BY DEF Deciding
<1>4. TypeOK'
  BY <1>1, <1>3 DEF TypeOK, Return
<1>5. phase' \in {"returned", "commit", "abort"}
  BY DEF Return
<1>6. Collecting'
  BY <1>5 DEF Collecting
<1>7. Deciding'
  BY <1>3 DEF Deciding, Return
<1>8. Deciders'
  <2>1. \A p \in Participants : state'[p] # "COMMITTED"
    BY <1>1, <1>2 DEF Voted
  <2>2. CASE decision' = "COMMIT"
    <3>1. AllYes
      BY <2>2, <1>3 DEF Undecided
    <3> QED
      BY <3>1, <1>1, <1>2, <2>2 DEF AllYes, Voted, Deciders
  <2>3. CASE decision' # "COMMIT"
    BY <2>1, <2>3 DEF Deciders
  <2> QED
    BY <2>2, <2>3
<1>9. InDoubtPrepared'
  BY <1>1 DEF InDoubtPrepared
<1> QED
  BY <1>4, <1>6, <1>7, <1>8, <1>9

\* A participant that learns the coordinator's decision d keeps the parts of
\* Sound that speak of the participants, for any place run may be at by then.
LEMMA FinishSound ==
  ASSUME Sound, NEW p \in Participants, NEW d \in {"COMMIT", "ABORT"},
         decision = d, Finish(p, d),
         UNCHANGED <<votes, crashes, crashAllYes, up, decision>>,
         phase' \in {"commit", "abort", "returned"},
         phase' = "commit" => d = "COMMIT",
         phase' = "abort" => d = "ABORT",
         turn' \in Participants,
         coordinator' \in {"IDLE", "PREPARING", "COMMITTING", "ABORTING",
                           "DONE", "CRASHED"},
         result' \in {"none", "COMMITTED", "ABORTED", "BLOCKED"}
  PROVE  Sound'
<1> USE DEF Sound
<1>1. /\ state' = [state EXCEPT ![p] = IF d = "COMMIT" THEN "COMMITTED" ELSE "ABORTED"]
      /\ lockHeld' = [lockHeld EXCEPT ![p] = FALSE]
      /\ known' = [known EXCEPT ![p] = d]
      /\ logged' = logged /\ alive' = alive
  BY DEF Finish
<1>2. TypeOK'
  BY <1>1 DEF TypeOK
<1>3. Collecting' /\ Deciding'
  BY DEF Collecting, Deciding
<1>4. Deciders'
  BY <1>1 DEF Deciders, TypeOK
<1>5. InDoubtPrepared'
  BY <1>1 DEF InDoubtPrepared, TypeOK, Undecided
<1> QED
  BY <1>2, <1>3, <1>4, <1>5

\* Telling the next participant to commit keeps Sound, whether it hears it.
LEMMA SendCommitSound == Sound /\ SendCommit => Sound'
<1> SUFFICES ASSUME Sound, SendCommit PROVE Sound'
  OBVIOUS
<1> USE DEF SendCommit
<1>t. TypeOK /\ turn \in Participants /\ decision = "COMMIT" /\ phase = "commit"
  BY DEF Sound, TypeOK, Deciding
<1>1. CASE alive[turn]
  <2>1. /\ Finish(turn, "COMMIT") /\ NextCall(turn, "COMMITTED")
        /\ UNCHANGED <<votes, crashes, crashAllYes, up, decision>>
    BY <1>1 DEF behavior
  <2>2. /\ phase' \in {"commit", "returned"} /\ turn' \in Participants
        /\ coordinator' \in {coordinator, "DONE"}
        /\ result' \in {result, "COMMITTED"}
    BY <2>1, <1>t, NextTurn DEF NextCall, Return
  <2> QED
    BY <2>1, <2>2, <1>t, FinishSound DEF TypeOK
<1>2. CASE ~alive[turn]
  <2>1. /\ phase' = "returned" /\ result' = "BLOCKED"
        /\ UNCHANGED <<votes, crashes, crashAllYes, state, lockHeld, logged,
                       known, alive, coordinator, turn, up, decision>>
    BY <1>2 DEF Return, participant, behavior
  <2>2. TypeOK'
    BY <2>1, <1>t DEF TypeOK
  <2> QED
    BY <2>1, <2>2 DEF Sound, Collecting, Deciding, Deciders, InDoubtPrepared
<1> QED
  BY <1>1, <1>2

\* Telling the next participant to abort keeps Sound, whether it hears it.
LEMMA SendAbortSound == Sound /\ SendAbort => Sound'
<1> SUFFICES ASSUME Sound, SendAbort PROVE Sound'
  OBVIOUS
<1> USE DEF SendAbort
<1>t. TypeOK /\ turn \in Participants /\ decision = "ABORT" /\ phase = "abort"
  BY DEF Sound, TypeOK, Deciding
<1>u. UNCHANGED <<votes, crashes, crashAllYes, up, decision>>
  BY DEF behavior
<1>2. /\ phase' \in {"abort", "returned"} /\ turn' \in Participants
      /\ coordinator' \in {coordinator, "DONE"}
      /\ result' \in {result, "ABORTED"}
  BY <1>t, NextTurn DEF NextCall, Return
<1>3. CASE state[turn] \in {"PREPARED", "IDLE"} /\ alive[turn]
  BY <1>3, <1>2, <1>u, <1>t, FinishSound DEF TypeOK
<1>4. CASE ~(state[turn] \in {"PREPARED", "IDLE"} /\ alive[turn])
  <2>1. UNCHANGED <<state, lockHeld, logged, known, alive>>
    BY <1>4 DEF participant
  <2>2. TypeOK'
    BY <2>1, <1>2, <1>u, <1>t DEF TypeOK
  <2> QED
    BY <2>1, <2>2, <1>2, <1>u, <1>t
       DEF Sound, Collecting, Deciding, Deciders, InDoubtPrepared
<1> QED
  BY <1>3, <1>4

\* A participant in doubt is PREPARED, so recovery changes no state and keeps
\* Sound.
LEMMA RecoverKeepsState ==
  ASSUME Sound, NEW p \in Participants, RecoverParticipant(p)
  PROVE  /\ UNCHANGED <<state, lockHeld, logged, known, votes, crashes, crashAllYes,
                        coordinator, up, decision, phase, turn, result>>
         /\ alive' = [alive EXCEPT ![p] = TRUE]
<1> USE DEF RecoverParticipant
<1>1. logged[p] /\ known[p] = Undecided => state[p] = "PREPARED"
  BY DEF Sound, InDoubtPrepared
<1>2. state' = state
  BY <1>1 DEF Sound, TypeOK
<1>3. lockHeld' = lockHeld
  BY <1>1 DEF Sound, TypeOK
<1> QED
  BY <1>2, <1>3 DEF behavior, control

\* Every step keeps Sound.
LEMMA NextSound == Sound /\ [Next]_vars => Sound'
<1> SUFFICES ASSUME Sound, [Next]_vars PROVE Sound'
  OBVIOUS
<1>1. CASE Run
  BY <1>1, PrepareSound, DecideSound, SendCommitSound, SendAbortSound DEF Run
<1>2. ASSUME NEW p \in Participants, RecoverParticipant(p) PROVE Sound'
  <2>1. /\ UNCHANGED <<state, lockHeld, logged, known, votes, crashes, crashAllYes,
                       coordinator, up, decision, phase, turn, result>>
        /\ alive' = [alive EXCEPT ![p] = TRUE]
    BY <1>2, RecoverKeepsState
  <2>2. TypeOK'
    BY <2>1 DEF Sound, TypeOK
  <2> QED
    BY <2>1, <2>2
       DEF Sound, Collecting, Voted, Deciding, Deciders, InDoubtPrepared
<1>3. ASSUME NEW p \in Participants, ApplyDecision(p) PROVE Sound'
  <2>1. /\ Finish(p, decision) /\ phase = "returned" /\ decision # Undecided
        /\ UNCHANGED <<votes, crashes, crashAllYes, up, decision, coordinator,
                       phase, turn, result>>
    BY <1>3 DEF ApplyDecision, behavior, control
  <2>2. TypeOK /\ decision \in {"COMMIT", "ABORT"}
    BY <2>1 DEF Sound, TypeOK
  <2> QED
    BY <2>1, <2>2, FinishSound DEF TypeOK
<1>4. CASE RecoverCoordinator
  <2>1. /\ phase = "returned" /\ up' = TRUE /\ coordinator' \in {"IDLE", "DONE"}
        /\ UNCHANGED <<votes, crashes, crashAllYes, state, lockHeld, logged,
                       known, alive, decision, phase, turn, result>>
    BY <1>4 DEF RecoverCoordinator, behavior, participant, control
  <2>2. TypeOK'
    BY <2>1 DEF Sound, TypeOK
  <2> QED
    BY <2>1, <2>2
       DEF Sound, Collecting, Voted, Deciding, Deciders, InDoubtPrepared
<1>5. CASE UNCHANGED vars
  BY <1>5 DEF vars, behavior, participant, control, Sound, TypeOK, Collecting,
              Voted, Deciding, Deciders, InDoubtPrepared
<1> QED
  BY <1>1, <1>2, <1>3, <1>4, <1>5 DEF Next

\* Sound is an invariant of two-phase commit.
LEMMA AlwaysSound == Spec => []Sound
BY InitSound, NextSound, PTL DEF Spec

\* For every number of participants, every vote and every crash, the variables
\* keep their types, and exactly the PREPARED participants hold their locks.
THEOREM TypeCorrect == Spec => []TypeOK
<1>1. Sound => TypeOK
  BY DEF Sound
<1> QED
  BY <1>1, AlwaysSound, PTL

\* For every number of participants, every vote and every crash, no participant
\* commits a transaction that another one aborts.
THEOREM ParticipantsAgree == Spec => []Agreement
<1>1. Sound => Agreement
  <2> SUFFICES ASSUME Sound, NEW p \in Participants, NEW q \in Participants,
                      state[p] = "COMMITTED", state[q] = "ABORTED"
               PROVE  FALSE
    BY DEF Agreement
  <2> QED
    BY DEF Sound, Deciders
<1> QED
  BY <1>1, AlwaysSound, PTL

-----------------------------------------------------------------------------
(* Two-phase commit implements atomic commitment. *)

\* The outcomes follow the states.
LEMMA OutcomesFollow ==
  ASSUME TypeOK, NEW p \in Participants,
         NEW s \in {"IDLE", "PREPARED", "COMMITTED", "ABORTED"},
         state' = [state EXCEPT ![p] = s]
  PROVE  outcomes' = [outcomes EXCEPT ![p] = AtomicState(s)]
BY DEF TypeOK, outcomes

\* A participant that learns a decision commits its part or aborts it.
LEMMA FinishIsAtomic ==
  ASSUME Sound, NEW p \in Participants, NEW d \in {"COMMIT", "ABORT"},
         decision = d, Finish(p, d)
  PROVE  [Atomic!Next]_outcomes
<1> DEFINE s == IF d = "COMMIT" THEN "COMMITTED" ELSE "ABORTED"
<1>1. state' = [state EXCEPT ![p] = s]
  BY DEF Finish
<1>2. outcomes' = [outcomes EXCEPT ![p] = AtomicState(s)]
  BY <1>1, OutcomesFollow DEF Sound
<1>3. \A q \in Participants :
        /\ outcomes[q] = AtomicState(state[q])
        /\ state[q] \in {"IDLE", "PREPARED", "COMMITTED", "ABORTED"}
  BY DEF outcomes, Sound, TypeOK
<1>4. CASE state[p] = s
  <2>1. state' = state
    BY <1>1, <1>4 DEF Sound, TypeOK
  <2> QED
    BY <2>1 DEF outcomes
<1>5. CASE state[p] # s /\ d = "COMMIT"
  <2>1. \A q \in Participants : state[q] \in {"PREPARED", "COMMITTED"}
    BY <1>5 DEF Sound, Deciders
  <2>2. state[p] = "PREPARED" /\ outcomes[p] = "promised"
    BY <2>1, <1>3, <1>5 DEF AtomicState
  <2>3. \A q \in Participants : outcomes[q] \in {"promised", "committed"}
    BY <2>1, <1>3 DEF AtomicState
  <2>4. Atomic!Commit(p)
    BY <2>2, <2>3, <1>2, <1>5 DEF Atomic!Commit, AtomicState
  <2> QED
    BY <2>4 DEF Atomic!Next
<1>6. CASE state[p] # s /\ d = "ABORT"
  <2>1. \A q \in Participants : state[q] # "COMMITTED"
    BY <1>6 DEF Sound, Deciders
  <2>2. outcomes[p] \in {"open", "promised"}
    BY <2>1, <1>3, <1>6 DEF AtomicState
  <2>3. \A q \in Participants : outcomes[q] # "committed"
    BY <2>1, <1>3 DEF AtomicState
  <2>4. Atomic!Abort(p)
    BY <2>2, <2>3, <1>2, <1>6 DEF Atomic!Abort, AtomicState
  <2> QED
    BY <2>4 DEF Atomic!Next
<1> QED
  BY <1>4, <1>5, <1>6

\* A participant that votes promises its part or aborts it.
LEMMA PrepareIsAtomic == Sound /\ Prepare => [Atomic!Next]_outcomes
<1> SUFFICES ASSUME Sound, Prepare PROVE [Atomic!Next]_outcomes
  OBVIOUS
<1>t. TypeOK /\ turn \in Participants
  BY DEF Sound, TypeOK
<1>1. CASE crashes[turn] = "before"
  BY <1>1 DEF Prepare, outcomes
<1>2. CASE crashes[turn] # "before"
  <2>1. state' = [state EXCEPT ![turn] = Voted(turn)] /\ phase = "prepare"
    BY <1>2 DEF Prepare, Vote, Voted
  <2>2. state[turn] = "IDLE" /\ decision = Undecided
    BY <2>1, <1>t DEF Sound, Collecting, Deciding, Participants
  <2>3. \A q \in Participants : state[q] # "COMMITTED"
    BY <2>2 DEF Sound, Deciders, Undecided
  <2>4. outcomes' = [outcomes EXCEPT ![turn] = AtomicState(Voted(turn))]
    BY <2>1, <1>t, OutcomesFollow DEF Voted
  <2>5. outcomes[turn] = "open"
    BY <2>2, <1>t DEF outcomes, AtomicState
  <2>6. \A q \in Participants : outcomes[q] # "committed"
    BY <2>3, <1>t DEF outcomes, AtomicState, TypeOK
  <2>7. Atomic!Promise(turn) \/ Atomic!Abort(turn)
    BY <2>4, <2>5, <2>6 DEF Atomic!Promise, Atomic!Abort, AtomicState, Voted
  <2> QED
    BY <2>7, <1>t DEF Atomic!Next
<1> QED
  BY <1>1, <1>2

\* Every step of two-phase commit is a step of atomic commitment or changes no
\* outcome.
LEMMA NextIsAtomic == Sound /\ [Next]_vars => [Atomic!Next]_outcomes
<1> SUFFICES ASSUME Sound, [Next]_vars PROVE [Atomic!Next]_outcomes
  OBVIOUS
<1>t. TypeOK /\ turn \in Participants
  BY DEF Sound, TypeOK
<1>1. CASE Prepare
  BY <1>1, PrepareIsAtomic
<1>2. CASE Decide
  BY <1>2 DEF Decide, participant, outcomes
<1>3. CASE SendCommit
  <2>1. decision = "COMMIT"
    BY <1>3 DEF SendCommit, Sound, Deciding
  <2>2. CASE Finish(turn, "COMMIT")
    BY <2>1, <2>2, <1>t, FinishIsAtomic
  <2>3. CASE UNCHANGED participant
    BY <2>3 DEF participant, outcomes
  <2> QED
    BY <2>2, <2>3, <1>3 DEF SendCommit
<1>4. CASE SendAbort
  <2>1. decision = "ABORT"
    BY <1>4 DEF SendAbort, Sound, Deciding
  <2>2. CASE Finish(turn, "ABORT")
    BY <2>1, <2>2, <1>t, FinishIsAtomic
  <2>3. CASE UNCHANGED participant
    BY <2>3 DEF participant, outcomes
  <2> QED
    BY <2>2, <2>3, <1>4 DEF SendAbort
<1>5. ASSUME NEW p \in Participants, RecoverParticipant(p)
      PROVE  [Atomic!Next]_outcomes
  BY <1>5, RecoverKeepsState DEF outcomes
<1>6. ASSUME NEW p \in Participants, ApplyDecision(p)
      PROVE  [Atomic!Next]_outcomes
  <2>1. Finish(p, decision) /\ decision \in {"COMMIT", "ABORT"}
    BY <1>6, <1>t DEF ApplyDecision, TypeOK
  <2> QED
    BY <2>1, FinishIsAtomic
<1>7. CASE RecoverCoordinator
  BY <1>7 DEF RecoverCoordinator, participant, outcomes
<1>8. CASE UNCHANGED vars
  BY <1>8 DEF vars, participant, outcomes
<1> QED
  BY <1>1, <1>2, <1>3, <1>4, <1>5, <1>6, <1>7, <1>8 DEF Next, Run

\* For every number of participants two-phase commit implements AtomicCommit.
THEOREM Refinement == Spec => ImplementsAtomicCommit
<1>1. Init => Atomic!Init
  BY DEF Init, Atomic!Init, outcomes, AtomicState
<1>2. Sound /\ [Next]_vars => [Atomic!Next]_outcomes
  BY NextIsAtomic
<1> QED
  BY <1>1, <1>2, AlwaysSound, PTL DEF Spec, ImplementsAtomicCommit, Atomic!Spec

\* For every number of participants, one in doubt leaves PREPARED only for the
\* decision that the coordinator has taken.
THEOREM InDoubtParticipantsWait == Spec => InDoubtWaits
<1> DEFINE Waits == \A p \in Participants :
                      state[p] = "PREPARED" /\ state'[p] # "PREPARED"
                        => decision # Undecided /\ known'[p] = decision
<1>1. Sound /\ [Next]_vars => [Waits]_vars
  <2> SUFFICES ASSUME Sound, [Next]_vars, NEW p \in Participants,
                      state[p] = "PREPARED", state'[p] # "PREPARED"
               PROVE  decision # Undecided /\ known'[p] = decision
    OBVIOUS
  <2>t. TypeOK /\ turn \in Participants
    BY DEF Sound, TypeOK
  <2>f. ASSUME NEW q \in Participants, NEW d \in {"COMMIT", "ABORT"},
               Finish(q, d), decision = d
        PROVE  decision # Undecided /\ known'[p] = decision
    BY <2>f, <2>t DEF Finish, TypeOK, Undecided
  <2>1. CASE Prepare
    <3>1. state[turn] = "IDLE"
      BY <2>1, <2>t DEF Prepare, Sound, Collecting, Participants
    <3>2. state'[p] = state[p]
      BY <2>1, <2>t, <3>1 DEF Prepare, Vote, TypeOK
    <3> QED
      BY <3>2
  <2>2. CASE Decide \/ RecoverCoordinator \/ UNCHANGED vars
    BY <2>2 DEF Decide, RecoverCoordinator, participant, vars
  <2>3. CASE SendCommit
    BY <2>3, <2>t, <2>f DEF SendCommit, Sound, Deciding, participant
  <2>4. CASE SendAbort
    BY <2>4, <2>t, <2>f DEF SendAbort, Sound, Deciding, participant
  <2>5. ASSUME NEW q \in Participants, RecoverParticipant(q)
        PROVE  FALSE
    BY <2>5, RecoverKeepsState
  <2>6. ASSUME NEW q \in Participants, ApplyDecision(q)
        PROVE  decision # Undecided /\ known'[p] = decision
    <3>1. Finish(q, decision) /\ decision \in {"COMMIT", "ABORT"}
      BY <2>6, <2>t DEF ApplyDecision, TypeOK
    <3> QED
      BY <3>1, <2>f
  <2> QED
    BY <2>1, <2>2, <2>3, <2>4, <2>5, <2>6 DEF Next, Run
<1> QED
  BY <1>1, AlwaysSound, PTL DEF Spec, InDoubtWaits

-----------------------------------------------------------------------------
(* Units: the sum of the quantities of a set of orders.                    *)

Quantities == [o \in Orders |-> Qty(o)]

\* Quantities are numbers.
LEMMA QtyIsNat == ASSUME NEW o \in Orders PROVE Qty(o) \in Nat /\ Qty(o) > 0
  BY SagaAssumption DEF Qty

\* The fold gives the sum.
LEMMA UnitsAreSum ==
    ASSUME NEW os \in SUBSET Orders
    PROVE  Units(os) = SumOf(Quantities, os)
<1> DEFINE Rec(g) == g = [s \in SUBSET os |-> IF s = {} THEN 0
                              ELSE Qty(CHOOSE x \in s : TRUE) + g[s \ {CHOOSE x \in s : TRUE}]]
           f == [o \in os |-> Qty(o)]
<1>1. Units(os) = (CHOOSE g : Rec(g))[os]
  BY DEF Units, FoldSet, MapThenFoldSet
<1>2. f \in [os -> Nat] /\ IsFiniteSet(os)
  BY QtyIsNat, SagaAssumption, FS_Subset
<1>3. ASSUME NEW g PROVE Rec(g) <=> AddsUp(f, os, g)
  <2>1. ASSUME NEW s \in SUBSET os, s # {} PROVE f[CHOOSE x \in s : TRUE] = Qty(CHOOSE x \in s : TRUE)
    <3>1. (CHOOSE x \in s : TRUE) \in os
      BY <2>1
    <3>2. QED
      BY <3>1
  <2> HIDE DEF f
  <2>2. [s \in SUBSET os |-> IF s = {} THEN 0
             ELSE Qty(CHOOSE x \in s : TRUE) + g[s \ {CHOOSE x \in s : TRUE}]] =
        [s \in SUBSET os |-> IF s = {} THEN 0
             ELSE f[CHOOSE x \in s : TRUE] + g[s \ {CHOOSE x \in s : TRUE}]]
    BY <2>1
  <2>3. QED
    BY <2>2 DEF AddsUp
<1>4. UnitsIn(f, os) = UnitsIn(Quantities, os)
  BY DEF UnitsIn, Quantities
<1> HIDE DEF Rec, f
<1>5. (CHOOSE g : Rec(g)) = CHOOSE g : AddsUp(f, os, g)
  BY <1>3
<1>6. (CHOOSE g : AddsUp(f, os, g))[os] = SumOf(f, os)
  BY <1>2, FoldIsSum
<1>7. QED
  BY <1>1, <1>4, <1>5, <1>6 DEF SumOf

\* A sum of quantities is a number, and one more order adds its quantity.
LEMMA SumsOfQuantities ==
    /\ \A os \in SUBSET Orders : SumOf(Quantities, os) \in Nat
    /\ \A os \in SUBSET Orders : \A o \in Orders \ os :
         SumOf(Quantities, os \cup {o}) = SumOf(Quantities, os) + Qty(o)
<1>1. Quantities \in [Orders -> Nat] /\ \A o \in Orders : Quantities[o] = Qty(o)
  BY QtyIsNat DEF Quantities
<1>2. \A os \in SUBSET Orders : IsFiniteSet(os)
  BY SagaAssumption, FS_Subset
<1>3. \A os \in SUBSET Orders : SumOf(Quantities, os) \in Nat
  BY <1>1, SagaAssumption, UnitsAreFinite
<1>4. ASSUME NEW os \in SUBSET Orders, NEW o \in Orders \ os
      PROVE  SumOf(Quantities, os \cup {o}) = SumOf(Quantities, os) + Qty(o)
  <2>1. PICK all \in SUBSET Orders : all = os \cup {o}
    OBVIOUS
  <2>2. o \in all /\ all \ {o} = os /\ IsFiniteSet(all)
    BY <1>2, <2>1
  <2>3. SumOf(Quantities, all) = Quantities[o] + SumOf(Quantities, all \ {o})
    BY <1>1, <2>2, SumOfMore
  <2>4. Quantities[o] = Qty(o)
    BY <1>1
  <2>5. PICK sum \in Nat, q \in Nat : sum = SumOf(Quantities, os) /\ q = Qty(o)
    BY <1>3, QtyIsNat
  <2>6. SumOf(Quantities, all) = q + sum
    BY <2>2, <2>3, <2>4, <2>5
  <2>7. SumOf(Quantities, all) = sum + q
    BY <2>6
  <2>8. QED
    BY <2>1, <2>5, <2>7
<1>5. QED
  BY <1>3, <1>4

\* Units is a number, adds an order's quantity with it, and is nothing for no order.
LEMMA UnitsAdd ==
    /\ Units({}) = 0
    /\ \A os \in SUBSET Orders : Units(os) \in Nat
    /\ \A os \in SUBSET Orders : \A o \in Orders \ os : Units(os \cup {o}) = Units(os) + Qty(o)
    /\ \A os \in SUBSET Orders : \A o \in os : Units(os \ {o}) = Units(os) - Qty(o) /\ Units(os) >= Qty(o)
    /\ \A o \in Orders : Units({o}) = Qty(o)
<1>1. Units({}) = 0
  BY UnitsAreSum, SumOfNone
<1>2. \A os \in SUBSET Orders : Units(os) \in Nat
  BY UnitsAreSum, SumsOfQuantities
<1>3. \A os \in SUBSET Orders : \A o \in Orders \ os : Units(os \cup {o}) = Units(os) + Qty(o)
  BY UnitsAreSum, SumsOfQuantities
<1>4. ASSUME NEW os \in SUBSET Orders, NEW o \in os
      PROVE  Units(os \ {o}) = Units(os) - Qty(o) /\ Units(os) >= Qty(o)
  <2>1. (os \ {o}) \cup {o} = os /\ o \in Orders \ (os \ {o}) /\ os \ {o} \in SUBSET Orders
    OBVIOUS
  <2>2. Units(os) = Units(os \ {o}) + Qty(o)
    BY <1>3, <2>1
  <2>3. Qty(o) \in Nat /\ Units(os \ {o}) \in Nat
    BY <1>2, <2>1, QtyIsNat
  <2>4. QED
    BY <2>2, <2>3
<1>5. ASSUME NEW o \in Orders PROVE Units({o}) = Qty(o)
  <2>1. Units({} \cup {o}) = Units({}) + Qty(o)
    BY <1>3
  <2>2. {} \cup {o} = {o}
    OBVIOUS
  <2>3. QED
    BY <1>1, <2>1, <2>2, QtyIsNat
<1>6. QED
  BY <1>1, <1>2, <1>3, <1>4, <1>5

-----------------------------------------------------------------------------
(* The sagas: an order that no execute() runs is settled, and the one that *)
(* runs is at a step that tells which of its effects are in force and what *)
(* is on the stack of compensations.                                       *)

Taker(o) == orders[o] = "CONFIRMED" \/ Holding(o)

Takers(s) == {o \in Orders : Sku(o) = s /\ Taker(o)}

Executing(o) == ~Idle /\ running.order = o

Settled(o) ==
    \/ orders[o] = "none" /\ payments[o] = "none" /\ shipments[o] = "none"
    \/ orders[o] = "CANCELLED" /\ payments[o] \in {"none", "DECLINED"} /\ shipments[o] = "none"
    \/ /\ orders[o] = "CONFIRMED" /\ payments[o] = "CHARGED" /\ shipments[o] = "SHIPPED"
       /\ Sku(o) \in DOMAIN Seed

\* The steps at which the order has taken no stock, or has given it back.
WithoutStock(o) ==
    /\ orders[o] = "CREATED" /\ shipments[o] = "none"
    /\ \/ running.at = "reserve" /\ done = <<<<"CreateOrder", o>>>> /\ payments[o] = "none"
       \/ /\ running.at = "compensate" /\ done = <<<<"CreateOrder", o>>>>
          /\ payments[o] \in {"none", "DECLINED"}
       \/ running.at \in {"OrderCreated", "StockReservationFailed"} /\ payments[o] = "none"
       \/ running.at = "StockReleased" /\ payments[o] = "DECLINED"

\* The steps at which it holds its stock.
WithStock(o) ==
    /\ orders[o] = "CREATED" /\ Sku(o) \in DOMAIN Seed
    /\ \/ /\ running.at = "charge" /\ done = <<<<"CreateOrder", o>>, <<"ReserveStock", o>>>>
          /\ payments[o] = "none" /\ shipments[o] = "none"
       \/ running.at = "ship" /\ payments[o] = "CHARGED" /\ shipments[o] = "none"
       \/ running.at = "confirm" /\ payments[o] = "CHARGED" /\ shipments[o] = "SHIPPED"
       \/ /\ running.at = "compensate" /\ done = <<<<"CreateOrder", o>>, <<"ReserveStock", o>>>>
          /\ payments[o] = "DECLINED" /\ shipments[o] = "none"
       \/ running.at = "StockReserved" /\ payments[o] = "none" /\ shipments[o] = "none"
       \/ running.at = "PaymentFailed" /\ payments[o] = "DECLINED" /\ shipments[o] = "none"
       \/ running.at = "PaymentCharged" /\ payments[o] = "CHARGED" /\ shipments[o] = "none"
       \/ running.at = "OrderShipped" /\ payments[o] = "CHARGED" /\ shipments[o] = "SHIPPED"

\* All that was done is undone.
Undone(o) ==
    /\ orders[o] = "CANCELLED" /\ payments[o] \in {"none", "DECLINED"} /\ shipments[o] = "none"
    /\ running.at = "compensate" /\ done = <<>>

Underway(o) == WithoutStock(o) \/ WithStock(o) \/ Undone(o)

Progress == \A o \in Orders : IF Executing(o) THEN Underway(o) ELSE Settled(o)

SagaInv == SagaTypeOK /\ StockAccounted /\ Progress

\* An order that is executed holds its stock at the steps named so.
StockShows(o) == Executing(o) => (WithStock(o) => Holding(o)) /\ (WithoutStock(o) \/ Undone(o) => ~Holding(o))

\* In every state, before a step and after it.
LEMMA WhoHolds == \A o \in Orders : StockShows(o) /\ StockShows(o)'
<1> SUFFICES ASSUME NEW o \in Orders PROVE StockShows(o) /\ StockShows(o)'
  OBVIOUS
<1>1. Contains(<<<<"CreateOrder", o>>, <<"ReserveStock", o>>>>, <<"ReserveStock", o>>)
  BY DEF Contains
<1>2. /\ ~Contains(<<<<"CreateOrder", o>>>>, <<"ReserveStock", o>>)
      /\ ~Contains(<<>>, <<"ReserveStock", o>>)
  BY DEF Contains
<1>3. Executing(o) => (WithStock(o) => Holding(o))
  BY <1>1 DEF WithStock, Holding, Executing
<1>4. WithoutStock(o) => ~Holding(o)
  BY <1>2 DEF WithoutStock, Holding
<1>5. Undone(o) => ~Holding(o)
  BY <1>2 DEF Undone, Holding
<1>6. StockShows(o)
  BY <1>3, <1>4, <1>5 DEF StockShows
<1>7. Executing(o)' => (WithStock(o)' => Holding(o)')
  BY <1>1 DEF WithStock, Holding, Executing
<1>8. WithoutStock(o)' => ~Holding(o)'
  BY <1>2 DEF WithoutStock, Holding
<1>9. Undone(o)' => ~Holding(o)'
  BY <1>2 DEF Undone, Holding
<1>10. StockShows(o)'
  BY <1>7, <1>8, <1>9 DEF StockShows
<1>11. QED
  BY <1>6, <1>10

\* The stock stays accounted for when no order takes any or gives any back.
LEMMA SameTakers ==
    ASSUME StockAccounted, stock' = stock, \A o \in Orders : Taker(o)' <=> Taker(o)
    PROVE  StockAccounted'
<1>1. \A s : Takers(s)' = Takers(s)
  BY DEF Takers
<1>2. QED
  BY <1>1 DEF StockAccounted, Takers, Taker

\* Reserving adds one taker, and its quantity.
LEMMA ReserveAccounts ==
    ASSUME SagaTypeOK, StockAccounted, NEW o \in Orders, CanReserve(o), Reserve(o),
           ~Taker(o), Taker(o)', \A p \in Orders \ {o} : Taker(p)' <=> Taker(p)
    PROVE  StockAccounted' /\ stock' \in [DOMAIN Seed -> [available : Nat, reserved : Nat]]
<1> DEFINE sku == Sku(o)
           old == stock[sku]
<1>1. sku \in DOMAIN Seed /\ old \in [available : Nat, reserved : Nat] /\ old.available >= Qty(o) /\ Qty(o) \in Nat
  BY QtyIsNat DEF CanReserve, SagaTypeOK
<1>2. /\ DOMAIN stock' = DOMAIN Seed
      /\ stock'[sku] = [available |-> old.available - Qty(o), reserved |-> old.reserved + Qty(o)]
      /\ \A s \in DOMAIN Seed \ {sku} : stock'[s] = stock[s]
  BY <1>1 DEF Reserve, SagaTypeOK
<1>3. stock' \in [DOMAIN Seed -> [available : Nat, reserved : Nat]]
  <2>1. stock'[sku] \in [available : Nat, reserved : Nat]
    BY <1>1, <1>2
  <2>2. stock' = [s \in DOMAIN Seed |-> stock'[s]]
    BY <1>2 DEF Reserve, SagaTypeOK
  <2>3. \A s \in DOMAIN Seed : stock'[s] \in [available : Nat, reserved : Nat]
    BY <1>2, <2>1 DEF SagaTypeOK
  <2>4. QED
    BY <2>2, <2>3
<1>4. Takers(sku)' = Takers(sku) \cup {o} /\ o \in Orders \ Takers(sku) /\ Takers(sku) \in SUBSET Orders
  BY DEF Takers
<1>5. \A s \in DOMAIN Seed \ {sku} : Takers(s)' = Takers(s)
  BY DEF Takers
<1>6. Units(Takers(sku)') = Units(Takers(sku)) + Qty(o)
  BY <1>4, UnitsAdd
<1>7. old.reserved = Units(Takers(sku)) /\ old.available + old.reserved = Seed[sku]
  BY <1>1 DEF StockAccounted, Takers, Taker
<1>8. stock'[sku].reserved = Units(Takers(sku)') /\ stock'[sku].available + stock'[sku].reserved = Seed[sku]
  BY <1>1, <1>2, <1>6, <1>7
<1>9. ASSUME NEW s \in DOMAIN Seed
      PROVE  stock'[s].reserved = Units(Takers(s)') /\ stock'[s].available + stock'[s].reserved = Seed[s]
  <2>1. CASE s = sku
    BY <1>8, <2>1
  <2>2. CASE s # sku
    BY <1>2, <1>5, <2>2 DEF StockAccounted, Takers, Taker
  <2>3. QED
    BY <2>1, <2>2
<1>10. QED
  BY <1>3, <1>9 DEF StockAccounted, Takers, Taker

\* Releasing takes away one taker, and its quantity.
LEMMA ReleaseAccounts ==
    ASSUME SagaTypeOK, StockAccounted, NEW o \in Orders, Sku(o) \in DOMAIN Seed, Release(o),
           Taker(o), ~Taker(o)', \A p \in Orders \ {o} : Taker(p)' <=> Taker(p)
    PROVE  StockAccounted' /\ stock' \in [DOMAIN Seed -> [available : Nat, reserved : Nat]]
<1> DEFINE sku == Sku(o)
           old == stock[sku]
<1>1. sku \in DOMAIN Seed /\ old \in [available : Nat, reserved : Nat] /\ Qty(o) \in Nat
  BY QtyIsNat DEF SagaTypeOK
<1>2. /\ DOMAIN stock' = DOMAIN Seed
      /\ stock'[sku] = [available |-> old.available + Qty(o), reserved |-> old.reserved - Qty(o)]
      /\ \A s \in DOMAIN Seed \ {sku} : stock'[s] = stock[s]
  BY <1>1 DEF Release, SagaTypeOK
<1>3. Takers(sku)' = Takers(sku) \ {o} /\ o \in Takers(sku) /\ Takers(sku) \in SUBSET Orders
  BY DEF Takers
<1>4. \A s \in DOMAIN Seed \ {sku} : Takers(s)' = Takers(s)
  BY DEF Takers
<1>5. Units(Takers(sku)') = Units(Takers(sku)) - Qty(o) /\ Units(Takers(sku)) >= Qty(o)
  BY <1>3, UnitsAdd
<1>6. old.reserved = Units(Takers(sku)) /\ old.available + old.reserved = Seed[sku]
  BY <1>1 DEF StockAccounted, Takers, Taker
<1>7. stock'[sku].reserved = Units(Takers(sku)') /\ stock'[sku].available + stock'[sku].reserved = Seed[sku]
  BY <1>1, <1>2, <1>5, <1>6
<1>8. stock' \in [DOMAIN Seed -> [available : Nat, reserved : Nat]]
  <2>1. stock'[sku] \in [available : Nat, reserved : Nat]
    BY <1>1, <1>2, <1>5, <1>6
  <2>2. stock' = [s \in DOMAIN Seed |-> stock'[s]]
    BY <1>2 DEF Release, SagaTypeOK
  <2>3. \A s \in DOMAIN Seed : stock'[s] \in [available : Nat, reserved : Nat]
    BY <1>2, <2>1 DEF SagaTypeOK
  <2>4. QED
    BY <2>2, <2>3
<1>9. ASSUME NEW s \in DOMAIN Seed
      PROVE  stock'[s].reserved = Units(Takers(s)') /\ stock'[s].available + stock'[s].reserved = Seed[s]
  <2>1. CASE s = sku
    BY <1>7, <2>1
  <2>2. CASE s # sku
    BY <1>2, <1>4, <2>2 DEF StockAccounted, Takers, Taker
  <2>3. QED
    BY <2>1, <2>2
<1>10. QED
  BY <1>8, <1>9 DEF StockAccounted, Takers, Taker

\* What a step of one order leaves as it was.
Only(o) ==
    /\ \A p \in Orders \ {o} :
         orders'[p] = orders[p] /\ payments'[p] = payments[p] /\ shipments'[p] = shipments[p]
    /\ \A p \in Orders \ {o} : ~Executing(p) /\ ~Executing(p)'

\* The other orders stay settled, and take or give back nothing.
LEMMA OthersStay ==
    ASSUME Progress, NEW o \in Orders, Only(o)
    PROVE  \A p \in Orders \ {o} : ~Executing(p)' /\ Settled(p)' /\ (Taker(p)' <=> Taker(p))
<1>1. ASSUME NEW p \in Orders \ {o} PROVE Settled(p)'
  BY <1>1 DEF Only, Progress, Settled
<1>2. ASSUME NEW p \in Orders \ {o} PROVE ~Holding(p) /\ ~Holding(p)'
  BY <1>2 DEF Only, Holding, Executing
<1>3. QED
  BY <1>1, <1>2 DEF Taker, Only

\* The invariant holds after a step of an order that has come to a step like it.
LEMMA StepKeeps ==
    ASSUME SagaInv, NEW o \in Orders, Only(o), SagaTypeOK', StockAccounted',
           IF Executing(o)' THEN Underway(o)' ELSE Settled(o)'
    PROVE  SagaInv'
  BY OthersStay DEF SagaInv, Progress

\* Going on with a saga.
LEMMA Going ==
    ASSUME SagaTypeOK, ~Idle, NEW at, Goto(at),
           at \in {"reserve", "charge", "ship", "confirm", "compensate", "OrderCreated",
                   "StockReserved", "StockReservationFailed", "PaymentCharged",
                   "PaymentFailed", "StockReleased", "OrderShipped"}
    PROVE  /\ running' \in Execution /\ ~Idle' /\ running'.at = at
           /\ running.order \in Orders /\ Executing(running.order) /\ Executing(running.order)'
           /\ \A p : p # running.order => ~Executing(p) /\ ~Executing(p)'
<1>1. running \in Execution
  BY DEF SagaTypeOK
<1>2. running' \in Execution /\ running'.at = at /\ running'.order = running.order
  BY <1>1 DEF Goto, Execution
<1>3. ~Idle'
  BY <1>2, ExecutionAssumption DEF Idle
<1>4. QED
  BY <1>1, <1>2, <1>3 DEF Executing, Execution

\* Writing one record of a world.
LEMMA OneRecord ==
    ASSUME NEW f, NEW S, f \in [Orders -> S], NEW o \in Orders, NEW v \in S
    PROVE  /\ [f EXCEPT ![o] = v] \in [Orders -> S] /\ [f EXCEPT ![o] = v][o] = v
           /\ \A p \in Orders \ {o} : [f EXCEPT ![o] = v][p] = f[p]
  OBVIOUS

\* What is known of the saga that runs.
LEMMA Running ==
    ASSUME SagaInv, NEW kind, NEW at, By(kind, at)
    PROVE  /\ ~Idle /\ running \in Execution /\ running.order \in Orders /\ running.at = at
           /\ Executing(running.order) /\ Underway(running.order)
<1>1. ~Idle /\ running \in Execution /\ running.at = at
  BY DEF By, SagaInv, SagaTypeOK
<1>2. running.order \in Orders /\ Executing(running.order)
  BY <1>1 DEF Execution, Executing
<1>3. QED
  BY <1>1, <1>2 DEF SagaInv, Progress

\* The empty world.
LEMMA SagaStarts == SagaInit => SagaInv
<1>1. ASSUME SagaInit PROVE SagaTypeOK
  BY <1>1, SagaAssumption DEF SagaInit, SagaTypeOK, NoRecord, SeededStock, Idle
<1>2. ASSUME SagaInit PROVE StockAccounted
  <2>1. \A s : Takers(s) = {}
    BY <1>2 DEF SagaInit, Takers, Taker, Holding, Idle, NoRecord
  <2>2. ASSUME NEW s \in DOMAIN Seed
        PROVE  stock[s].reserved = 0 /\ stock[s].available + stock[s].reserved = Seed[s]
    BY <1>2, <2>2, SagaAssumption DEF SagaInit, SeededStock
  <2>3. \A s : Units(Takers(s)) = 0
    BY <2>1, UnitsAdd
  <2>4. QED
    BY <2>2, <2>3 DEF StockAccounted, Takers, Taker
<1>3. ASSUME SagaInit PROVE Progress
  BY <1>3 DEF SagaInit, Progress, Executing, Idle, Settled, NoRecord
<1>4. QED
  BY <1>1, <1>2, <1>3 DEF SagaInv

\* World.reset: the empty world again.
LEMMA ResetWorldKeeps ==
    ASSUME SagaInv, ResetWorld
    PROVE  SagaInv'
<1>1. SagaTypeOK'
  BY SagaAssumption DEF ResetWorld, SagaInv, SagaTypeOK, NoRecord, SeededStock, Idle
<1>2. StockAccounted'
  <2>1. \A s : Takers(s)' = {}
    BY DEF ResetWorld, Takers, Taker, Holding, Idle, NoRecord
  <2>2. ASSUME NEW s \in DOMAIN Seed
        PROVE  stock'[s].reserved = 0 /\ stock'[s].available + stock'[s].reserved = Seed[s]
    BY <2>2, SagaAssumption DEF ResetWorld, SeededStock
  <2>3. \A s : Units(Takers(s)') = 0
    BY <2>1, UnitsAdd
  <2>4. QED
    BY <2>2, <2>3 DEF StockAccounted, Takers, Taker
<1>3. Progress'
  BY DEF ResetWorld, Progress, Executing, Idle, Settled, NoRecord
<1>4. QED
  BY <1>1, <1>2, <1>3 DEF SagaInv

\* execute() of the orchestrator: a new order at its first step, without stock.
LEMMA OrchestrateCreateKeeps ==
    ASSUME SagaInv, NEW o \in Orders, OrchestrateCreate(o)
    PROVE  SagaInv'
<1>1. PICK declined, shortage \in BOOLEAN :
        running' = [order |-> o, kind |-> "orchestration", at |-> "reserve",
                    declined |-> declined, shortage |-> shortage]
  BY DEF OrchestrateCreate
<1>2. running' \in Execution /\ running'.order = o /\ running'.at = "reserve"
  BY <1>1 DEF Execution
<1>3. ~Idle' /\ Executing(o)' /\ Idle /\ \A p \in Orders \ {o} : ~Executing(p) /\ ~Executing(p)'
  BY <1>2, ExecutionAssumption DEF Idle, Executing, OrchestrateCreate
<1>4. /\ orders[o] = "none" /\ orders' = [orders EXCEPT ![o] = "CREATED"]
      /\ done' = <<<<"CreateOrder", o>>>> /\ UNCHANGED <<stock, payments, shipments>>
  BY DEF OrchestrateCreate, SetOrder
<1>5. /\ orders' \in [Orders -> {"none", "CREATED", "CANCELLED", "CONFIRMED"}] /\ orders'[o] = "CREATED"
      /\ \A p \in Orders \ {o} : orders'[p] = orders[p]
  BY <1>4, OneRecord DEF SagaInv, SagaTypeOK
<1>6. Only(o)
  BY <1>3, <1>4, <1>5 DEF Only
<1>7. Settled(o)
  BY <1>3 DEF SagaInv, Progress, Executing
<1>8. Underway(o)' /\ WithoutStock(o)'
  BY <1>2, <1>4, <1>5, <1>7 DEF Underway, WithoutStock, Settled
<1>9. SagaTypeOK'
  BY <1>2, <1>4, <1>5 DEF SagaInv, SagaTypeOK
<1>10. ~Taker(o) /\ ~Taker(o)'
  <2>1. ~Holding(o)'
    BY <1>3, <1>8, WhoHolds DEF StockShows
  <2>2. QED
    BY <1>3, <1>4, <1>5, <2>1 DEF Taker, Holding
<1>11. StockAccounted'
  BY <1>4, <1>6, <1>10, OthersStay, SameTakers DEF SagaInv
<1>12. QED
  BY <1>3, <1>6, <1>8, <1>9, <1>11, StepKeeps

\* An order underway takes stock exactly when it is at a step with stock.
LEMMA UnderwayTakes ==
    ASSUME NEW o \in Orders
    PROVE  /\ Executing(o) => (WithStock(o) => Taker(o)) /\ (WithoutStock(o) \/ Undone(o) => ~Taker(o))
           /\ Executing(o)' => (WithStock(o)' => Taker(o)') /\ (WithoutStock(o)' \/ Undone(o)' => ~Taker(o)')
<1>1. Executing(o) => (WithStock(o) => Taker(o)) /\ (WithoutStock(o) \/ Undone(o) => ~Taker(o))
  BY WhoHolds DEF StockShows, Taker, WithoutStock, Undone
<1>2. Executing(o)' => (WithStock(o)' => Taker(o)') /\ (WithoutStock(o)' \/ Undone(o)' => ~Taker(o)')
  BY WhoHolds DEF StockShows, Taker, WithoutStock, Undone
<1>3. QED
  BY <1>1, <1>2

\* A step that is not the last and leaves the stock alone: it is enough that it comes
\* to a step of the same kind.
LEMMA GoesOn ==
    ASSUME SagaInv, NEW o \in Orders, Only(o), Executing(o), Executing(o)', SagaTypeOK', stock' = stock,
           \/ WithStock(o) /\ WithStock(o)'
           \/ WithoutStock(o) /\ (WithoutStock(o)' \/ Undone(o)')
    PROVE  SagaInv'
<1>1. Taker(o)' <=> Taker(o)
  BY UnderwayTakes
<1>2. StockAccounted'
  BY <1>1, OthersStay, SameTakers DEF SagaInv
<1>3. QED
  BY <1>2, StepKeeps DEF Underway

\* Two sequences of one or two elements are the same with the same elements.
LEMMA ShortSequences ==
    ASSUME NEW S, NEW s \in Seq(S), NEW t \in Seq(S), Len(s) = Len(t), Len(t) \in {1, 2},
           s[1] = t[1], Len(t) = 2 => s[2] = t[2]
    PROVE  s = t
<1>1. \A i \in 1 .. Len(s) : s[i] = t[i]
  OBVIOUS
<1>2. QED
  BY <1>1, SeqEqual

\* Pushing on the stack of compensations, and popping.
LEMMA Stacked ==
    /\ \A a, b : Append(<<a>>, b) = <<a, b>>
    /\ \A a : Last(<<a>>) = a /\ Front(<<a>>) = <<>>
    /\ \A a, b : Last(<<a, b>>) = b /\ Front(<<a, b>>) = <<a>>
<1>1. ASSUME NEW a, NEW b PROVE Append(<<a>>, b) = <<a, b>>
  <2>1. PICK S : S = {a, b}
    OBVIOUS
  <2>2. PICK s : s = Append(<<a>>, b) /\ s \in Seq(S) /\ Len(s) = 2 /\ s[1] = a /\ s[2] = b
    <3>1. Append(<<a>>, b) \in Seq(S) /\ Len(Append(<<a>>, b)) = 2 /\ Append(<<a>>, b)[1] = a /\ Append(<<a>>, b)[2] = b
      BY <2>1
    <3>2. QED
      BY <3>1, Zenon
  <2>3. PICK t : t = <<a, b>> /\ t \in Seq(S) /\ Len(t) = 2 /\ t[1] = a /\ t[2] = b
    <3>1. <<a, b>> \in Seq(S) /\ Len(<<a, b>>) = 2 /\ <<a, b>>[1] = a /\ <<a, b>>[2] = b
      BY <2>1
    <3>2. QED
      BY <3>1, Zenon
  <2>4. s = t
    BY ONLY <2>2, <2>3, ShortSequences
  <2>5. QED
    BY <2>2, <2>3, <2>4
<1>2. ASSUME NEW a PROVE Last(<<a>>) = a /\ Front(<<a>>) = <<>>
  BY DEF Last, Front
<1>3. ASSUME NEW a, NEW b PROVE Last(<<a, b>>) = b /\ Front(<<a, b>>) = <<a>>
  <2>1. Last(<<a, b>>) = b
    BY DEF Last
  <2>2. PICK S : S = {a, b}
    OBVIOUS
  <2>3. PICK s : s = Front(<<a, b>>) /\ s \in Seq(S) /\ Len(s) = 1 /\ s[1] = a
    <3>1. Front(<<a, b>>) \in Seq(S) /\ Len(Front(<<a, b>>)) = 1 /\ Front(<<a, b>>)[1] = a
      BY <2>2 DEF Front
    <3>2. QED
      BY <3>1, Zenon
  <2>4. PICK t : t = <<a>> /\ t \in Seq(S) /\ Len(t) = 1 /\ t[1] = a
    <3>1. <<a>> \in Seq(S) /\ Len(<<a>>) = 1 /\ <<a>>[1] = a
      BY <2>2
    <3>2. QED
      BY <3>1, Zenon
  <2>5. s = t
    BY ONLY <2>3, <2>4, ShortSequences
  <2>6. QED
    BY <2>1, <2>3, <2>4, <2>5
<1>4. QED
  BY <1>1, <1>2, <1>3

\* reserveStock: the order gets its stock, or is on its way back with one step to undo.
LEMMA OrchestrateReserveKeeps ==
    ASSUME SagaInv, OrchestrateReserve
    PROVE  SagaInv'
<1>0. PICK o : o = running.order
  OBVIOUS
<1>1. /\ ~Idle /\ running \in Execution /\ o \in Orders /\ running.at = "reserve" /\ Executing(o) /\ Underway(o)
      /\ UNCHANGED <<orders, payments, shipments>>
  BY <1>0, Running DEF OrchestrateReserve
<1>2. WithoutStock(o) /\ orders[o] = "CREATED" /\ shipments[o] = "none" /\ payments[o] = "none"
      /\ done = <<<<"CreateOrder", o>>>>
  BY <1>1 DEF Underway, WithoutStock, WithStock, Undone
<1>3. CASE Reserve(o) /\ CanReserve(o) /\ Push("ReserveStock") /\ Goto("charge")
  <2>1. /\ running' \in Execution /\ ~Idle' /\ running'.at = "charge" /\ Executing(o)' /\ running'.order = o
        /\ \A p : p # o => ~Executing(p) /\ ~Executing(p)'
    BY <1>0, <1>1, <1>3, Going DEF SagaInv, Executing
  <2>2. Only(o)
    BY <1>1, <2>1 DEF Only
  <2>3. done' = <<<<"CreateOrder", o>>, <<"ReserveStock", o>>>>
    BY <1>0, <1>2, <1>3, Stacked DEF Push
  <2>4. WithStock(o)'
    BY <1>1, <1>2, <1>3, <2>1, <2>3 DEF WithStock, CanReserve
  <2>5. ~Taker(o) /\ Taker(o)'
    BY <1>1, <1>2, <2>1, <2>4, UnderwayTakes
  <2>6. StockAccounted' /\ stock' \in [DOMAIN Seed -> [available : Nat, reserved : Nat]]
    <3>1. \A p \in Orders \ {o} : Taker(p)' <=> Taker(p)
      BY <1>1, <2>2, OthersStay DEF SagaInv
    <3>2. SagaTypeOK /\ StockAccounted
      BY DEF SagaInv
    <3>3. QED
      BY <1>1, <1>3, <2>5, <3>1, <3>2, ReserveAccounts
  <2>7. SagaTypeOK'
    BY <1>1, <2>1, <2>3, <2>6 DEF SagaInv, SagaTypeOK
  <2>8. QED
    BY <1>1, <2>1, <2>2, <2>4, <2>6, <2>7, StepKeeps DEF Underway
<1>4. CASE Goto("compensate") /\ UNCHANGED <<stock, done>>
  <2>1. /\ running' \in Execution /\ ~Idle' /\ running'.at = "compensate" /\ Executing(o)' /\ running'.order = o
        /\ \A p : p # o => ~Executing(p) /\ ~Executing(p)'
    BY <1>0, <1>1, <1>4, Going DEF SagaInv, Executing
  <2>2. Only(o)
    BY <1>1, <2>1 DEF Only
  <2>3. WithoutStock(o)'
    BY <1>1, <1>2, <1>4, <2>1 DEF WithoutStock
  <2>4. SagaTypeOK'
    BY <1>1, <1>4, <2>1 DEF SagaInv, SagaTypeOK
  <2>5. QED
    BY <1>1, <1>2, <1>4, <2>1, <2>2, <2>3, <2>4, GoesOn
<1>5. QED
  BY <1>0, <1>3, <1>4 DEF OrchestrateReserve

\* chargePayment: with or without success the order keeps its stock for now.
LEMMA OrchestrateChargeKeeps ==
    ASSUME SagaInv, OrchestrateCharge
    PROVE  SagaInv'
<1>0. PICK o : o = running.order
  OBVIOUS
<1>1. /\ ~Idle /\ running \in Execution /\ o \in Orders /\ running.at = "charge" /\ Executing(o) /\ Underway(o)
      /\ UNCHANGED <<orders, stock, shipments>>
  BY <1>0, Running DEF OrchestrateCharge
<1>2. WithStock(o) /\ shipments[o] = "none" /\ done = <<<<"CreateOrder", o>>, <<"ReserveStock", o>>>>
  BY <1>1 DEF Underway, WithoutStock, WithStock, Undone
<1>3. /\ payments \in [Orders -> {"none", "CHARGED", "REFUNDED", "DECLINED"}]
      /\ done \in Seq({"CreateOrder", "ReserveStock", "ChargePayment", "Ship"} \X Orders)
  BY DEF SagaInv, SagaTypeOK
<1>4. CASE SetPayment(o, "DECLINED") /\ Goto("compensate") /\ UNCHANGED done
  <2>1. /\ running' \in Execution /\ ~Idle' /\ running'.at = "compensate" /\ Executing(o)' /\ running'.order = o
        /\ \A p : p # o => ~Executing(p) /\ ~Executing(p)'
    BY <1>0, <1>1, <1>4, Going DEF SagaInv, Executing
  <2>2. /\ payments' \in [Orders -> {"none", "CHARGED", "REFUNDED", "DECLINED"}] /\ payments'[o] = "DECLINED"
        /\ \A p \in Orders \ {o} : payments'[p] = payments[p]
    BY <1>1, <1>3, <1>4 DEF SetPayment
  <2>3. Only(o) /\ WithStock(o)'
    BY <1>1, <1>2, <1>4, <2>1, <2>2 DEF Only, WithStock
  <2>4. SagaTypeOK'
    BY <1>1, <1>4, <2>1, <2>2 DEF SagaInv, SagaTypeOK
  <2>5. QED
    BY <1>1, <1>2, <2>1, <2>3, <2>4, GoesOn
<1>5. CASE SetPayment(o, "CHARGED") /\ Goto("ship") /\ Push("ChargePayment")
  <2>1. /\ running' \in Execution /\ ~Idle' /\ running'.at = "ship" /\ Executing(o)' /\ running'.order = o
        /\ \A p : p # o => ~Executing(p) /\ ~Executing(p)'
    BY <1>0, <1>1, <1>5, Going DEF SagaInv, Executing
  <2>2. /\ payments' \in [Orders -> {"none", "CHARGED", "REFUNDED", "DECLINED"}] /\ payments'[o] = "CHARGED"
        /\ \A p \in Orders \ {o} : payments'[p] = payments[p]
    BY <1>1, <1>3, <1>5 DEF SetPayment
  <2>3. Only(o) /\ WithStock(o)'
    BY <1>1, <1>2, <1>5, <2>1, <2>2 DEF Only, WithStock
  <2>4. done' \in Seq({"CreateOrder", "ReserveStock", "ChargePayment", "Ship"} \X Orders)
    BY <1>0, <1>1, <1>3, <1>5 DEF Push
  <2>5. SagaTypeOK'
    BY <1>1, <2>1, <2>2, <2>4 DEF SagaInv, SagaTypeOK
  <2>6. QED
    BY <1>1, <1>2, <2>1, <2>3, <2>5, GoesOn
<1>6. QED
  BY <1>0, <1>4, <1>5 DEF OrchestrateCharge

\* ship: only what is paid for is shipped.
LEMMA OrchestrateShipKeeps ==
    ASSUME SagaInv, OrchestrateShip
    PROVE  SagaInv'
<1>0. PICK o : o = running.order
  OBVIOUS
<1>1. /\ ~Idle /\ running \in Execution /\ o \in Orders /\ running.at = "ship" /\ Executing(o) /\ Underway(o)
      /\ UNCHANGED <<orders, stock, payments>>
  BY <1>0, Running DEF OrchestrateShip
<1>2. WithStock(o) /\ payments[o] = "CHARGED"
  BY <1>1 DEF Underway, WithoutStock, WithStock, Undone
<1>3. /\ running' \in Execution /\ ~Idle' /\ running'.at = "confirm" /\ Executing(o)' /\ running'.order = o
      /\ \A p : p # o => ~Executing(p) /\ ~Executing(p)'
  BY <1>0, <1>1, Going DEF SagaInv, Executing, OrchestrateShip
<1>4. /\ shipments' \in [Orders -> {"none", "SHIPPED", "CANCELLED"}] /\ shipments'[o] = "SHIPPED"
      /\ \A p \in Orders \ {o} : shipments'[p] = shipments[p]
  BY <1>0, <1>1 DEF OrchestrateShip, SetShipment, SagaInv, SagaTypeOK
<1>5. Only(o) /\ WithStock(o)'
  BY <1>1, <1>2, <1>3, <1>4 DEF Only, WithStock
<1>6. done' \in Seq({"CreateOrder", "ReserveStock", "ChargePayment", "Ship"} \X Orders)
  BY <1>0, <1>1 DEF OrchestrateShip, Push, SagaInv, SagaTypeOK
<1>7. SagaTypeOK'
  BY <1>1, <1>3, <1>4, <1>6 DEF SagaInv, SagaTypeOK
<1>8. QED
  BY <1>1, <1>2, <1>3, <1>5, <1>7, GoesOn

\* The end of an execute(): no order is executed any more.
LEMMA Ending ==
    ASSUME SagaTypeOK, ~Idle, EndSaga
    PROVE  Idle' /\ \A p : ~Executing(p)' /\ (p # running.order => ~Executing(p)) /\ ~Holding(p)'
  BY DEF EndSaga, Idle, Executing, Holding

\* A last step with success: the order takes its stock for good.
LEMMA Confirms ==
    ASSUME SagaInv, NEW o \in Orders, o = running.order, ~Idle, WithStock(o), payments[o] = "CHARGED",
           shipments[o] = "SHIPPED", SetOrder(o, "CONFIRMED"), EndSaga,
           UNCHANGED <<stock, payments, shipments, done>>
    PROVE  SagaInv'
<1>1. Idle' /\ \A p : ~Executing(p)' /\ (p # o => ~Executing(p))
  BY Ending DEF SagaInv
<1>2. /\ orders' \in [Orders -> {"none", "CREATED", "CANCELLED", "CONFIRMED"}] /\ orders'[o] = "CONFIRMED"
      /\ \A p \in Orders \ {o} : orders'[p] = orders[p]
  BY DEF SetOrder, SagaInv, SagaTypeOK
<1>3. Only(o)
  BY <1>1, <1>2 DEF Only
<1>4. Settled(o)'
  BY <1>2 DEF Settled, WithStock
<1>5. Taker(o) /\ Taker(o)'
  BY <1>2, UnderwayTakes DEF Taker, Executing
<1>6. StockAccounted'
  BY <1>3, <1>5, OthersStay, SameTakers DEF SagaInv
<1>7. SagaTypeOK'
  BY <1>1, <1>2 DEF SagaInv, SagaTypeOK
<1>8. QED
  BY <1>1, <1>3, <1>4, <1>6, <1>7, StepKeeps

\* A last step of a saga that failed: the order keeps nothing.
LEMMA Cancels ==
    ASSUME SagaInv, NEW o \in Orders, o = running.order, ~Idle, WithoutStock(o) \/ Undone(o), EndSaga,
           SagaTypeOK', Only(o), Settled(o)', orders'[o] = "CANCELLED", stock' = stock
    PROVE  SagaInv'
<1>1. Idle' /\ \A p : ~Executing(p)' /\ (p # o => ~Executing(p)) /\ ~Holding(p)'
  BY Ending DEF SagaInv
<1>2. ~Taker(o) /\ ~Taker(o)'
  BY <1>1, UnderwayTakes DEF Taker, Executing
<1>3. StockAccounted'
  BY <1>2, OthersStay, SameTakers DEF SagaInv
<1>4. QED
  BY <1>1, <1>3, StepKeeps

\* confirmOrder.
LEMMA OrchestrateConfirmKeeps ==
    ASSUME SagaInv, OrchestrateConfirm
    PROVE  SagaInv'
<1>0. PICK o : o = running.order
  OBVIOUS
<1>1. /\ ~Idle /\ running \in Execution /\ o \in Orders /\ running.at = "confirm" /\ Executing(o) /\ Underway(o)
      /\ UNCHANGED <<stock, payments, shipments, done>>
  BY <1>0, Running DEF OrchestrateConfirm
<1>2. WithStock(o) /\ payments[o] = "CHARGED" /\ shipments[o] = "SHIPPED"
  BY <1>1 DEF Underway, WithoutStock, WithStock, Undone
<1>3. QED
  BY <1>0, <1>1, <1>2, Confirms DEF OrchestrateConfirm

\* The order is confirmed when it is shipped.
LEMMA OrderOnOrderShippedKeeps ==
    ASSUME SagaInv, OrderOnOrderShipped
    PROVE  SagaInv'
<1>0. PICK o : o = running.order
  OBVIOUS
<1>1. /\ ~Idle /\ running \in Execution /\ o \in Orders /\ running.at = "OrderShipped" /\ Executing(o) /\ Underway(o)
      /\ UNCHANGED <<stock, payments, shipments, done>>
  BY <1>0, Running DEF OrderOnOrderShipped
<1>2. WithStock(o) /\ payments[o] = "CHARGED" /\ shipments[o] = "SHIPPED"
  BY <1>1 DEF Underway, WithoutStock, WithStock, Undone
<1>3. QED
  BY <1>0, <1>1, <1>2, Confirms DEF OrderOnOrderShipped

\* compensate: the step done last is undone first, and nothing else.
LEMMA CompensateKeeps ==
    ASSUME SagaInv, Compensate
    PROVE  SagaInv'
<1>0. PICK o : o = running.order
  OBVIOUS
<1>1. /\ ~Idle /\ running \in Execution /\ o \in Orders /\ running.at = "compensate" /\ Executing(o) /\ Underway(o)
  BY <1>0, Running DEF Compensate, By
<1>2. \/ WithStock(o) /\ payments[o] = "DECLINED" /\ shipments[o] = "none"
         /\ done = <<<<"CreateOrder", o>>, <<"ReserveStock", o>>>>
      \/ WithoutStock(o) /\ payments[o] \in {"none", "DECLINED"} /\ done = <<<<"CreateOrder", o>>>>
      \/ Undone(o) /\ done = <<>>
  BY <1>1 DEF Underway, WithoutStock, WithStock, Undone
<1>3. SagaTypeOK /\ StockAccounted
  BY DEF SagaInv
<1>4. ASSUME running' = running
      PROVE  Executing(o)' /\ ~Idle' /\ \A p : p # o => ~Executing(p) /\ ~Executing(p)'
  BY <1>0, <1>1, <1>4 DEF Executing, Idle
<1>5. CASE WithStock(o) /\ payments[o] = "DECLINED" /\ shipments[o] = "none"
         /\ done = <<<<"CreateOrder", o>>, <<"ReserveStock", o>>>>
  <2>1. Last(done) = <<"ReserveStock", o>> /\ Front(done) = <<<<"CreateOrder", o>>>> /\ done # <<>>
    BY <1>5, Stacked
  <2>2. /\ Release(o) /\ UNCHANGED <<orders, payments, shipments, running>>
        /\ done' = <<<<"CreateOrder", o>>>>
    BY <2>1 DEF Compensate, Undo
  <2>3. Only(o)
    BY <1>4, <2>2 DEF Only
  <2>4. WithoutStock(o)'
    BY <1>1, <1>5, <2>2 DEF WithoutStock, WithStock
  <2>5. Taker(o) /\ ~Taker(o)'
    BY <1>1, <1>4, <1>5, <2>2, <2>4, UnderwayTakes
  <2>6. \A p \in Orders \ {o} : Taker(p)' <=> Taker(p)
    BY <1>1, <2>3, OthersStay DEF SagaInv
  <2>7. StockAccounted' /\ stock' \in [DOMAIN Seed -> [available : Nat, reserved : Nat]]
    <3>1. Sku(o) \in DOMAIN Seed
      BY <1>5 DEF WithStock
    <3>2. QED
      BY <1>1, <1>3, <2>2, <2>5, <2>6, <3>1, ReleaseAccounts
  <2>8. SagaTypeOK'
    BY <1>1, <2>2, <2>7 DEF SagaInv, SagaTypeOK, Idle
  <2>9. QED
    BY <1>1, <1>4, <2>2, <2>3, <2>4, <2>7, <2>8, StepKeeps DEF Underway
<1>6. CASE WithoutStock(o) /\ payments[o] \in {"none", "DECLINED"} /\ done = <<<<"CreateOrder", o>>>>
  <2>1. Last(done) = <<"CreateOrder", o>> /\ Front(done) = <<>> /\ done # <<>>
    BY <1>6, Stacked
  <2>2. /\ SetOrder(o, "CANCELLED") /\ UNCHANGED <<stock, payments, shipments, running>> /\ done' = <<>>
    BY <2>1 DEF Compensate, Undo
  <2>3. /\ orders' \in [Orders -> {"none", "CREATED", "CANCELLED", "CONFIRMED"}] /\ orders'[o] = "CANCELLED"
        /\ \A p \in Orders \ {o} : orders'[p] = orders[p]
    BY <1>1, <1>3, <2>2 DEF SetOrder, SagaTypeOK
  <2>4. Only(o)
    BY <1>4, <2>2, <2>3 DEF Only
  <2>5. Undone(o)'
    BY <1>1, <1>6, <2>2, <2>3 DEF WithoutStock, Undone
  <2>6. SagaTypeOK'
    BY <1>1, <2>2, <2>3 DEF SagaInv, SagaTypeOK, Idle
  <2>7. QED
    BY <1>1, <1>4, <1>6, <2>2, <2>4, <2>5, <2>6, GoesOn
<1>7. CASE Undone(o) /\ done = <<>>
  <2>1. EndSaga /\ UNCHANGED <<orders, stock, payments, shipments, done>>
    BY <1>7 DEF Compensate, world
  <2>2. /\ Idle' /\ \A p : ~Executing(p)' /\ (p # o => ~Executing(p))
    BY <1>0, <1>1, <1>3, <2>1, Ending
  <2>3. Only(o) /\ Settled(o)' /\ orders'[o] = "CANCELLED"
    BY <1>7, <2>1, <2>2 DEF Only, Settled, Undone
  <2>4. SagaTypeOK'
    BY <2>1, <2>2 DEF SagaInv, SagaTypeOK
  <2>5. QED
    BY <1>0, <1>1, <1>7, <2>1, <2>3, <2>4, Cancels
<1>8. QED
  BY <1>2, <1>5, <1>6, <1>7

\* execute() of the choreography.
LEMMA ChoreographOrderKeeps ==
    ASSUME SagaInv, NEW o \in Orders, ChoreographOrder(o)
    PROVE  SagaInv'
<1>1. PICK declined \in BOOLEAN :
        running' = [order |-> o, kind |-> "choreography", at |-> "OrderCreated",
                    declined |-> declined, shortage |-> FALSE]
  BY DEF ChoreographOrder
<1>2. running' \in Execution /\ running'.order = o /\ running'.at = "OrderCreated"
  BY <1>1 DEF Execution
<1>3. ~Idle' /\ Executing(o)' /\ Idle /\ \A p \in Orders \ {o} : ~Executing(p) /\ ~Executing(p)'
  BY <1>2, ExecutionAssumption DEF Idle, Executing, ChoreographOrder
<1>4. /\ orders[o] = "none" /\ orders' = [orders EXCEPT ![o] = "CREATED"]
      /\ UNCHANGED <<stock, payments, shipments, done>>
  BY DEF ChoreographOrder, SetOrder
<1>5. /\ orders' \in [Orders -> {"none", "CREATED", "CANCELLED", "CONFIRMED"}] /\ orders'[o] = "CREATED"
      /\ \A p \in Orders \ {o} : orders'[p] = orders[p]
  BY <1>4, OneRecord DEF SagaInv, SagaTypeOK
<1>6. Only(o)
  BY <1>3, <1>4, <1>5 DEF Only
<1>7. Settled(o)
  BY <1>3 DEF SagaInv, Progress, Executing
<1>8. Underway(o)' /\ WithoutStock(o)'
  BY <1>2, <1>4, <1>5, <1>7 DEF Underway, WithoutStock, Settled
<1>9. SagaTypeOK'
  BY <1>2, <1>4, <1>5 DEF SagaInv, SagaTypeOK
<1>10. ~Taker(o) /\ ~Taker(o)'
  <2>1. ~Holding(o)'
    BY <1>3, <1>8, WhoHolds DEF StockShows
  <2>2. QED
    BY <1>3, <1>4, <1>5, <2>1 DEF Taker, Holding
<1>11. StockAccounted'
  BY <1>4, <1>6, <1>10, OthersStay, SameTakers DEF SagaInv
<1>12. QED
  BY <1>3, <1>6, <1>8, <1>9, <1>11, StepKeeps

\* The stock service on OrderCreated.
LEMMA StockOnOrderCreatedKeeps ==
    ASSUME SagaInv, StockOnOrderCreated
    PROVE  SagaInv'
<1>0. PICK o : o = running.order
  OBVIOUS
<1>1. /\ ~Idle /\ running \in Execution /\ o \in Orders /\ running.at = "OrderCreated" /\ Executing(o) /\ Underway(o)
      /\ UNCHANGED <<orders, payments, shipments, done>>
  BY <1>0, Running DEF StockOnOrderCreated
<1>2. WithoutStock(o) /\ payments[o] = "none" /\ shipments[o] = "none" /\ orders[o] = "CREATED"
  BY <1>1 DEF Underway, WithoutStock, WithStock, Undone
<1>3. CASE CanReserve(o) /\ Reserve(o) /\ Goto("StockReserved")
  <2>1. /\ running' \in Execution /\ ~Idle' /\ running'.at = "StockReserved" /\ Executing(o)' /\ running'.order = o
        /\ \A p : p # o => ~Executing(p) /\ ~Executing(p)'
    BY <1>0, <1>1, <1>3, Going DEF SagaInv, Executing
  <2>2. Only(o)
    BY <1>1, <2>1 DEF Only
  <2>3. WithStock(o)'
    BY <1>1, <1>2, <1>3, <2>1 DEF WithStock, CanReserve
  <2>4. ~Taker(o) /\ Taker(o)'
    BY <1>1, <1>2, <2>1, <2>3, UnderwayTakes
  <2>5. StockAccounted' /\ stock' \in [DOMAIN Seed -> [available : Nat, reserved : Nat]]
    <3>1. \A p \in Orders \ {o} : Taker(p)' <=> Taker(p)
      BY <1>1, <2>2, OthersStay DEF SagaInv
    <3>2. SagaTypeOK /\ StockAccounted
      BY DEF SagaInv
    <3>3. QED
      BY <1>1, <1>3, <2>4, <3>1, <3>2, ReserveAccounts
  <2>6. SagaTypeOK'
    BY <1>1, <2>1, <2>5 DEF SagaInv, SagaTypeOK
  <2>7. QED
    BY <1>1, <2>1, <2>2, <2>3, <2>5, <2>6, StepKeeps DEF Underway
<1>4. CASE Goto("StockReservationFailed") /\ UNCHANGED stock
  <2>1. /\ running' \in Execution /\ ~Idle' /\ running'.at = "StockReservationFailed" /\ Executing(o)' /\ running'.order = o
        /\ \A p : p # o => ~Executing(p) /\ ~Executing(p)'
    BY <1>0, <1>1, <1>4, Going DEF SagaInv, Executing
  <2>3. Only(o) /\ WithoutStock(o)'
    BY <1>1, <1>2, <1>4, <2>1 DEF Only, WithoutStock
  <2>4. SagaTypeOK'
    BY <1>1, <1>4, <2>1 DEF SagaInv, SagaTypeOK
  <2>5. QED
    BY <1>1, <1>2, <1>4, <2>1, <2>3, <2>4, GoesOn
<1>5. QED
  BY <1>0, <1>3, <1>4 DEF StockOnOrderCreated

\* The payment service on StockReserved.
LEMMA PaymentOnStockReservedKeeps ==
    ASSUME SagaInv, PaymentOnStockReserved
    PROVE  SagaInv'
<1>0. PICK o : o = running.order
  OBVIOUS
<1>1. /\ ~Idle /\ running \in Execution /\ o \in Orders /\ running.at = "StockReserved" /\ Executing(o) /\ Underway(o)
      /\ UNCHANGED <<orders, stock, shipments, done>>
  BY <1>0, Running DEF PaymentOnStockReserved
<1>2. WithStock(o) /\ shipments[o] = "none"
  BY <1>1 DEF Underway, WithoutStock, WithStock, Undone
<1>3. CASE SetPayment(o, "DECLINED") /\ Goto("PaymentFailed")
  <2>1. /\ running' \in Execution /\ ~Idle' /\ running'.at = "PaymentFailed" /\ Executing(o)' /\ running'.order = o
        /\ \A p : p # o => ~Executing(p) /\ ~Executing(p)'
    BY <1>0, <1>1, <1>3, Going DEF SagaInv, Executing
  <2>2. /\ payments' \in [Orders -> {"none", "CHARGED", "REFUNDED", "DECLINED"}] /\ payments'[o] = "DECLINED"
        /\ \A p \in Orders \ {o} : payments'[p] = payments[p]
    BY <1>1, <1>3 DEF SetPayment, SagaInv, SagaTypeOK
  <2>3. Only(o) /\ WithStock(o)'
    BY <1>1, <1>2, <1>3, <2>1, <2>2 DEF Only, WithStock
  <2>4. SagaTypeOK'
    BY <1>1, <1>3, <2>1, <2>2 DEF SagaInv, SagaTypeOK
  <2>5. QED
    BY <1>1, <1>2, <1>3, <2>1, <2>3, <2>4, GoesOn
<1>4. CASE SetPayment(o, "CHARGED") /\ Goto("PaymentCharged")
  <2>1. /\ running' \in Execution /\ ~Idle' /\ running'.at = "PaymentCharged" /\ Executing(o)' /\ running'.order = o
        /\ \A p : p # o => ~Executing(p) /\ ~Executing(p)'
    BY <1>0, <1>1, <1>4, Going DEF SagaInv, Executing
  <2>2. /\ payments' \in [Orders -> {"none", "CHARGED", "REFUNDED", "DECLINED"}] /\ payments'[o] = "CHARGED"
        /\ \A p \in Orders \ {o} : payments'[p] = payments[p]
    BY <1>1, <1>4 DEF SetPayment, SagaInv, SagaTypeOK
  <2>3. Only(o) /\ WithStock(o)'
    BY <1>1, <1>2, <1>4, <2>1, <2>2 DEF Only, WithStock
  <2>4. SagaTypeOK'
    BY <1>1, <1>4, <2>1, <2>2 DEF SagaInv, SagaTypeOK
  <2>5. QED
    BY <1>1, <1>2, <1>4, <2>1, <2>3, <2>4, GoesOn
<1>5. QED
  BY <1>0, <1>3, <1>4 DEF PaymentOnStockReserved

\* The stock service on PaymentFailed.
LEMMA StockOnPaymentFailedKeeps ==
    ASSUME SagaInv, StockOnPaymentFailed
    PROVE  SagaInv'
<1>0. PICK o : o = running.order
  OBVIOUS
<1>1. /\ ~Idle /\ running \in Execution /\ o \in Orders /\ running.at = "PaymentFailed" /\ Executing(o) /\ Underway(o)
      /\ UNCHANGED <<orders, payments, shipments, done>>
  BY <1>0, Running DEF StockOnPaymentFailed
<1>2. WithStock(o) /\ payments[o] = "DECLINED" /\ shipments[o] = "none"
  BY <1>1 DEF Underway, WithoutStock, WithStock, Undone
<1>3. /\ running' \in Execution /\ ~Idle' /\ running'.at = "StockReleased" /\ Executing(o)' /\ running'.order = o
      /\ \A p : p # o => ~Executing(p) /\ ~Executing(p)'
  BY <1>0, <1>1, Going DEF SagaInv, Executing, StockOnPaymentFailed
<1>4. Only(o) /\ Release(o)
  BY <1>0, <1>1, <1>3 DEF Only, StockOnPaymentFailed
<1>5. WithoutStock(o)'
  BY <1>1, <1>2, <1>3 DEF WithStock, WithoutStock
<1>6. Taker(o) /\ ~Taker(o)'
  BY <1>1, <1>2, <1>3, <1>5, UnderwayTakes
<1>7. StockAccounted' /\ stock' \in [DOMAIN Seed -> [available : Nat, reserved : Nat]]
  <2>1. \A p \in Orders \ {o} : Taker(p)' <=> Taker(p)
    BY <1>1, <1>4, OthersStay DEF SagaInv
  <2>2. SagaTypeOK /\ StockAccounted /\ Sku(o) \in DOMAIN Seed
    BY <1>2 DEF SagaInv, WithStock
  <2>3. QED
    BY <1>1, <1>4, <1>6, <2>1, <2>2, ReleaseAccounts
<1>8. SagaTypeOK'
  BY <1>1, <1>3, <1>7 DEF SagaInv, SagaTypeOK
<1>9. QED
  BY <1>1, <1>3, <1>4, <1>5, <1>7, <1>8, StepKeeps DEF Underway

\* The order service when stock or payment failed.
LEMMA OrderOnFailureKeeps ==
    ASSUME SagaInv, OrderOnFailure
    PROVE  SagaInv'
<1>0. PICK o : o = running.order
  OBVIOUS
<1>1. /\ ~Idle /\ running \in Execution /\ o \in Orders /\ running.at \in {"StockReservationFailed", "StockReleased"}
      /\ Executing(o) /\ Underway(o) /\ UNCHANGED <<stock, payments, shipments, done>>
  BY <1>0, Running DEF OrderOnFailure
<1>2. WithoutStock(o) /\ payments[o] \in {"none", "DECLINED"} /\ shipments[o] = "none"
  BY <1>1 DEF Underway, WithoutStock, WithStock, Undone
<1>3. Idle' /\ \A p : ~Executing(p)' /\ (p # o => ~Executing(p))
  BY <1>0, <1>1, Ending DEF OrderOnFailure, SagaInv
<1>4. /\ orders' \in [Orders -> {"none", "CREATED", "CANCELLED", "CONFIRMED"}] /\ orders'[o] = "CANCELLED"
      /\ \A p \in Orders \ {o} : orders'[p] = orders[p]
  BY <1>0, <1>1 DEF OrderOnFailure, SetOrder, SagaInv, SagaTypeOK
<1>5. Only(o) /\ Settled(o)'
  BY <1>1, <1>2, <1>3, <1>4 DEF Only, Settled
<1>6. SagaTypeOK'
  BY <1>1, <1>3, <1>4 DEF SagaInv, SagaTypeOK
<1>7. QED
  BY <1>0, <1>1, <1>2, <1>4, <1>5, <1>6, Cancels DEF OrderOnFailure

\* The shipping service on PaymentCharged.
LEMMA ShippingOnPaymentChargedKeeps ==
    ASSUME SagaInv, ShippingOnPaymentCharged
    PROVE  SagaInv'
<1>0. PICK o : o = running.order
  OBVIOUS
<1>1. /\ ~Idle /\ running \in Execution /\ o \in Orders /\ running.at = "PaymentCharged" /\ Executing(o) /\ Underway(o)
      /\ UNCHANGED <<orders, stock, payments, done>>
  BY <1>0, Running DEF ShippingOnPaymentCharged
<1>2. WithStock(o) /\ payments[o] = "CHARGED"
  BY <1>1 DEF Underway, WithoutStock, WithStock, Undone
<1>3. /\ running' \in Execution /\ ~Idle' /\ running'.at = "OrderShipped" /\ Executing(o)' /\ running'.order = o
      /\ \A p : p # o => ~Executing(p) /\ ~Executing(p)'
  BY <1>0, <1>1, Going DEF SagaInv, Executing, ShippingOnPaymentCharged
<1>4. /\ shipments' \in [Orders -> {"none", "SHIPPED", "CANCELLED"}] /\ shipments'[o] = "SHIPPED"
      /\ \A p \in Orders \ {o} : shipments'[p] = shipments[p]
  BY <1>0, <1>1 DEF ShippingOnPaymentCharged, SetShipment, SagaInv, SagaTypeOK
<1>5. Only(o) /\ WithStock(o)'
  BY <1>1, <1>2, <1>3, <1>4 DEF Only, WithStock
<1>6. SagaTypeOK'
  BY <1>1, <1>3, <1>4 DEF SagaInv, SagaTypeOK
<1>7. QED
  BY <1>1, <1>2, <1>3, <1>5, <1>6, GoesOn

\* A step that changes nothing of the sagas.
LEMMA SagaQuiet == ASSUME SagaInv, UNCHANGED sagaVars PROVE SagaInv'
<1>1. UNCHANGED <<orders, stock, payments, shipments, done, running>>
  BY DEF sagaVars, world
<1>2. SagaTypeOK'
  BY <1>1 DEF SagaInv, SagaTypeOK, Idle
<1>3. \A o \in Orders : (Executing(o)' <=> Executing(o)) /\ (Taker(o)' <=> Taker(o))
  BY <1>1 DEF Executing, Taker, Holding, Idle
<1>4. StockAccounted'
  BY <1>1, <1>3, SameTakers DEF SagaInv
<1>5. \A o \in Orders : (Underway(o)' <=> Underway(o)) /\ (Settled(o)' <=> Settled(o))
  BY <1>1 DEF Underway, WithoutStock, WithStock, Undone, Settled
<1>6. QED
  BY <1>2, <1>3, <1>4, <1>5 DEF SagaInv, Progress

\* Every step of the sagas keeps the invariant.
LEMMA SagaStepsKeep == SagaInv /\ [SagaNext]_sagaVars => SagaInv'
<1>1. ASSUME SagaInv, SagaNext PROVE SagaInv'
  <2>1. CASE ResetWorld
    BY <1>1, <2>1, ResetWorldKeeps
  <2>2. CASE \E o \in Orders : OrchestrateCreate(o) \/ ChoreographOrder(o)
    BY <1>1, <2>2, OrchestrateCreateKeeps, ChoreographOrderKeeps
  <2>3. CASE SagaStep
    BY <1>1, <2>3, OrchestrateReserveKeeps, OrchestrateChargeKeeps, OrchestrateShipKeeps,
       OrchestrateConfirmKeeps, CompensateKeeps, StockOnOrderCreatedKeeps, PaymentOnStockReservedKeeps,
       StockOnPaymentFailedKeeps, OrderOnFailureKeeps, ShippingOnPaymentChargedKeeps,
       OrderOnOrderShippedKeeps DEF SagaStep
  <2>4. QED
    BY <1>1, <2>1, <2>2, <2>3 DEF SagaNext
<1>2. QED
  BY <1>1, SagaQuiet

\* What the invariant says of the effects.
LEMMA EffectsInOrder == SagaInv => SagaTypeOK /\ StockAccounted /\ EffectsAreAPrefix
<1>1. ASSUME SagaInv, NEW o \in Orders
      PROVE  /\ shipments[o] = "SHIPPED" => payments[o] = "CHARGED"
             /\ payments[o] = "CHARGED" => Taker(o)
             /\ Taker(o) => orders[o] \in {"CREATED", "CONFIRMED"}
  <2>1. CASE Executing(o)
    <3>1. Underway(o)
      BY <1>1, <2>1 DEF SagaInv, Progress
    <3>2. CASE WithStock(o)
      BY <2>1, <3>2, UnderwayTakes DEF WithStock
    <3>3. CASE WithoutStock(o) \/ Undone(o)
      BY <2>1, <3>3, UnderwayTakes DEF WithoutStock, Undone
    <3>4. QED
      BY <3>1, <3>2, <3>3 DEF Underway
  <2>2. CASE ~Executing(o)
    <3>1. Settled(o) /\ ~Holding(o)
      BY <1>1, <2>2 DEF SagaInv, Progress, Holding, Executing
    <3>2. QED
      BY <3>1 DEF Settled, Taker
  <2>3. QED
    BY <2>1, <2>2
<1>2. QED
  BY <1>1 DEF SagaInv, EffectsAreAPrefix, Taker

-----------------------------------------------------------------------------
(* The refinement.  Given the invariant, both abstract variables are       *)
(* functions of World.orders alone: an outcome is an order's status, and   *)
(* what is free of a sku is what was seeded less the confirmed quantities. *)

Confirmed(s) == {o \in Orders : Sku(o) = s /\ orders[o] = "CONFIRMED"}

OnHold(s) == {o \in Orders : Sku(o) = s /\ Holding(o) /\ orders[o] # "CONFIRMED"}

ToldByOrders ==
    /\ \A o \in Orders :
         orderOutcomes[o] = CASE orders[o] = "CONFIRMED" -> "COMPLETED"
                         [] orders[o] = "CANCELLED" -> "FAILED"
                         [] OTHER -> "none"
    /\ \A s \in DOMAIN Seed : freeStock[s] = Seed[s] - Units(Confirmed(s))
    /\ \A o \in Orders : Holding(o) /\ orders[o] = "CREATED" =>
         Sku(o) \in DOMAIN Seed /\ freeStock[Sku(o)] >= Qty(o)

\* At most the order that runs is on hold.
LEMMA OneOnHold ==
    ASSUME NEW s
    PROVE  OnHold(s) = {} \/ (running.order \in Orders /\ OnHold(s) = {running.order} /\ Sku(running.order) = s)
  BY DEF OnHold, Holding

\* The invariant makes the two variables what World.orders tells.
LEMMA OrdersTell == SagaInv => ToldByOrders
<1> SUFFICES ASSUME SagaInv PROVE ToldByOrders
  OBVIOUS
<1>1. ASSUME NEW o \in Orders
      PROVE  Outcome(o) = CASE orders[o] = "CONFIRMED" -> "COMPLETED"
                            [] orders[o] = "CANCELLED" -> "FAILED"
                            [] OTHER -> "none"
  <2>1. \/ orders[o] = "CONFIRMED" /\ payments[o] = "CHARGED" /\ shipments[o] = "SHIPPED"
        \/ orders[o] = "CANCELLED" /\ payments[o] # "CHARGED" /\ shipments[o] # "SHIPPED"
        \/ orders[o] = "none"
        \/ orders[o] = "CREATED"
    BY DEF SagaInv, Progress, Settled, Underway, WithStock, WithoutStock, Undone
  <2>2. QED
    BY <2>1 DEF Outcome
<1>2. ASSUME NEW s \in DOMAIN Seed
      PROVE  /\ stock[s].available + Units(OnHold(s)) = Seed[s] - Units(Confirmed(s))
             /\ OnHold(s) # {} => stock[s].available + Units(OnHold(s)) >= Qty(running.order)
  <2> DEFINE o == running.order
  <2>1. Takers(s) = Confirmed(s) \cup OnHold(s)
    BY DEF Takers, Taker, Confirmed, OnHold
  <2>2. /\ stock[s].reserved = Units(Takers(s)) /\ stock[s].available + stock[s].reserved = Seed[s]
        /\ stock[s].available \in Nat
    BY DEF SagaInv, SagaTypeOK, StockAccounted, Takers, Taker
  <2>3. Confirmed(s) \in SUBSET Orders
    BY DEF Confirmed
  <2>4. Units(Confirmed(s)) \in Nat
    BY <2>3, UnitsAdd
  <2>5. CASE OnHold(s) = {}
    <3>1. Units(Takers(s)) = Units(Confirmed(s)) /\ Units(OnHold(s)) = 0
      BY <2>1, <2>5, UnitsAdd
    <3>2. QED
      BY <2>2, <2>4, <2>5, <3>1
  <2>6. CASE o \in Orders /\ OnHold(s) = {o}
    <3>1. o \in Orders \ Confirmed(s)
      BY <2>6 DEF OnHold, Confirmed
    <3>2. Units(Takers(s)) = Units(Confirmed(s)) + Qty(o) /\ Units(OnHold(s)) = Qty(o)
      BY <2>1, <2>3, <2>6, <3>1, UnitsAdd
    <3>3. Qty(o) \in Nat
      BY <2>6, QtyIsNat
    <3> HIDE DEF o
    <3>4. stock[s].available + Qty(o) = Seed[s] - Units(Confirmed(s)) /\ stock[s].available + Qty(o) >= Qty(o)
      BY <2>2, <2>4, <3>2, <3>3
    <3>5. QED
      BY <3>2, <3>4 DEF o
  <2>7. QED
    BY <2>5, <2>6, OneOnHold
<1>3. \A s \in DOMAIN Seed : freeStock[s] = stock[s].available + Units(OnHold(s))
  BY DEF freeStock, OnHold
<1>4. ASSUME NEW o \in Orders, Holding(o), orders[o] = "CREATED"
      PROVE  Sku(o) \in DOMAIN Seed /\ freeStock[Sku(o)] >= Qty(o)
  <2>1. Executing(o) /\ o = running.order
    BY <1>4 DEF Holding, Executing
  <2>2. WithStock(o)
    BY <1>4, <2>1, WhoHolds DEF StockShows, SagaInv, Progress, Underway
  <2>3. Sku(o) \in DOMAIN Seed /\ o \in OnHold(Sku(o))
    BY <1>4, <2>2 DEF WithStock, OnHold
  <2>4. QED
    BY <1>2, <1>3, <2>1, <2>3
<1>5. QED
  BY <1>1, <1>2, <1>3, <1>4 DEF ToldByOrders, orderOutcomes

\* What a step does to World.orders: nothing, or one order is created, confirmed while it
\* holds its stock, or cancelled, or all are forgotten.
OrdersMove ==
    \/ orders' = orders
    \/ \E o \in Orders : orders[o] = "none" /\ SetOrder(o, "CREATED")
    \/ \E o \in Orders : orders[o] = "CREATED" /\ SetOrder(o, "CANCELLED")
    \/ \E o \in Orders : orders[o] = "CREATED" /\ Holding(o) /\ SetOrder(o, "CONFIRMED")
    \/ orders' = NoRecord

\* The steps of the saga that runs.
LEMMA StepMovesOrders == ASSUME SagaInv, SagaStep PROVE OrdersMove
<1>0. PICK o : o = running.order
  OBVIOUS
<1>1. CASE \/ OrchestrateReserve \/ OrchestrateCharge \/ OrchestrateShip \/ StockOnOrderCreated
           \/ PaymentOnStockReserved \/ StockOnPaymentFailed \/ ShippingOnPaymentCharged
  <2>1. orders' = orders
    BY <1>1 DEF OrchestrateReserve, OrchestrateCharge, OrchestrateShip, StockOnOrderCreated,
       PaymentOnStockReserved, StockOnPaymentFailed, ShippingOnPaymentCharged
  <2>2. QED
    BY <2>1 DEF OrdersMove
<1>2. CASE OrchestrateConfirm \/ OrderOnOrderShipped
  <2>1. o \in Orders /\ Executing(o) /\ Underway(o) /\ running.at \in {"confirm", "OrderShipped"}
    BY <1>0, <1>2, Running DEF OrchestrateConfirm, OrderOnOrderShipped
  <2>2. WithStock(o)
    BY <2>1 DEF Underway, WithStock, WithoutStock, Undone
  <2>3. orders[o] = "CREATED" /\ Holding(o) /\ SetOrder(o, "CONFIRMED")
    BY <1>0, <1>2, <2>1, <2>2, WhoHolds DEF StockShows, WithStock, OrchestrateConfirm, OrderOnOrderShipped
  <2>4. QED
    BY <2>1, <2>3 DEF OrdersMove
<1>3. CASE OrderOnFailure
  <2>1. o \in Orders /\ Underway(o) /\ running.at \in {"StockReservationFailed", "StockReleased"}
    BY <1>0, <1>3, Running DEF OrderOnFailure
  <2>2. orders[o] = "CREATED" /\ SetOrder(o, "CANCELLED")
    BY <1>0, <1>3, <2>1 DEF Underway, WithStock, WithoutStock, Undone, OrderOnFailure
  <2>3. QED
    BY <2>1, <2>2 DEF OrdersMove
<1>4. CASE Compensate
  <2>1. o \in Orders /\ Underway(o) /\ running.at = "compensate"
    BY <1>0, <1>4, Running DEF Compensate
  <2>2. CASE WithStock(o)
    <3>1. done # <<>> /\ Last(done) = <<"ReserveStock", o>>
      BY <2>1, <2>2, Stacked DEF WithStock
    <3>2. orders' = orders
      BY <1>4, <3>1 DEF Compensate, Undo
    <3>3. QED
      BY <3>2 DEF OrdersMove
  <2>3. CASE WithoutStock(o)
    <3>1. done # <<>> /\ Last(done) = <<"CreateOrder", o>> /\ orders[o] = "CREATED"
      BY <2>1, <2>3, Stacked DEF WithoutStock
    <3>2. SetOrder(o, "CANCELLED")
      BY <1>4, <3>1 DEF Compensate, Undo
    <3>3. QED
      BY <2>1, <3>1, <3>2 DEF OrdersMove
  <2>4. CASE Undone(o)
    <3>1. orders' = orders
      BY <1>4, <2>4 DEF Undone, Compensate, world
    <3>2. QED
      BY <3>1 DEF OrdersMove
  <2>5. QED
    BY <2>1, <2>2, <2>3, <2>4 DEF Underway
<1>5. QED
  BY <1>1, <1>2, <1>3, <1>4 DEF SagaStep

\* Every step.
LEMMA SagaMovesOrders == ASSUME SagaInv, [SagaNext]_sagaVars PROVE OrdersMove
<1>1. CASE ResetWorld
  BY <1>1 DEF ResetWorld, OrdersMove
<1>2. CASE \E o \in Orders : OrchestrateCreate(o) \/ ChoreographOrder(o)
  BY <1>2 DEF OrchestrateCreate, ChoreographOrder, OrdersMove
<1>3. CASE UNCHANGED sagaVars
  BY <1>3 DEF sagaVars, world, OrdersMove
<1>4. QED
  BY <1>1, <1>2, <1>3, StepMovesOrders DEF SagaNext

\* A move of World.orders is an abstract step.
LEMMA MovesAreAtomic ==
    ASSUME SagaTypeOK, ToldByOrders, ToldByOrders', OrdersMove
    PROVE  [AtomicOrders!AbstractNext]_<<orderOutcomes, freeStock>>
<1>1. orderOutcomes = [o \in Orders |-> orderOutcomes[o]] /\ orderOutcomes' = [o \in Orders |-> orderOutcomes'[o]]
  BY DEF orderOutcomes
<1>2. freeStock = [s \in DOMAIN Seed |-> freeStock[s]] /\ freeStock' = [s \in DOMAIN Seed |-> freeStock'[s]]
  BY DEF freeStock
<1>3. ASSUME \A s \in DOMAIN Seed : Confirmed(s)' = Confirmed(s) PROVE freeStock' = freeStock
  <2>1. \A s \in DOMAIN Seed : freeStock'[s] = freeStock[s]
    BY <1>3 DEF ToldByOrders
  <2>2. QED
    BY <1>2, <2>1, Zenon
<1>4. CASE orders' = orders
  <2>1. \A s : Confirmed(s)' = Confirmed(s)
    BY <1>4 DEF Confirmed
  <2>2. \A o \in Orders : orderOutcomes'[o] = orderOutcomes[o]
    BY <1>4 DEF ToldByOrders
  <2>3. orderOutcomes' = orderOutcomes
    BY <1>1, <2>2, Zenon
  <2>4. QED
    BY <1>3, <2>1, <2>3
<1>5. ASSUME NEW o \in Orders, orders[o] = "none", SetOrder(o, "CREATED")
      PROVE  UNCHANGED <<orderOutcomes, freeStock>>
  <2>1. orders'[o] = "CREATED" /\ \A p \in Orders \ {o} : orders'[p] = orders[p]
    BY <1>5 DEF SetOrder, SagaTypeOK
  <2>2. \A s : Confirmed(s)' = Confirmed(s)
    BY <1>5, <2>1 DEF Confirmed
  <2>3. \A p \in Orders : orderOutcomes'[p] = orderOutcomes[p]
    BY <1>5, <2>1 DEF ToldByOrders
  <2>4. orderOutcomes' = orderOutcomes
    BY <1>1, <2>3, Zenon
  <2>5. QED
    BY <1>3, <2>2, <2>4
<1>6. ASSUME NEW o \in Orders, orders[o] = "CREATED", SetOrder(o, "CANCELLED")
      PROVE  AtomicOrders!Fail(o)
  <2>1. orders'[o] = "CANCELLED" /\ \A p \in Orders \ {o} : orders'[p] = orders[p]
    BY <1>6 DEF SetOrder, SagaTypeOK
  <2>2. \A s : Confirmed(s)' = Confirmed(s)
    BY <1>6, <2>1 DEF Confirmed
  <2>3. /\ orderOutcomes[o] = "none" /\ orderOutcomes'[o] = "FAILED"
        /\ \A p \in Orders \ {o} : orderOutcomes'[p] = orderOutcomes[p]
    BY <1>6, <2>1 DEF ToldByOrders
  <2>4. orderOutcomes' = [orderOutcomes EXCEPT ![o] = "FAILED"]
    BY <1>1, <2>3
  <2>5. QED
    BY <1>3, <2>2, <2>3, <2>4 DEF AtomicOrders!Fail
<1>7. ASSUME NEW o \in Orders, orders[o] = "CREATED", Holding(o), SetOrder(o, "CONFIRMED")
      PROVE  AtomicOrders!Complete(o)
  <2>1. orders'[o] = "CONFIRMED" /\ \A p \in Orders \ {o} : orders'[p] = orders[p]
    BY <1>7 DEF SetOrder, SagaTypeOK
  <2>2. /\ orderOutcomes[o] = "none" /\ orderOutcomes'[o] = "COMPLETED"
        /\ \A p \in Orders \ {o} : orderOutcomes'[p] = orderOutcomes[p]
    BY <1>7, <2>1 DEF ToldByOrders
  <2>3. orderOutcomes' = [orderOutcomes EXCEPT ![o] = "COMPLETED"]
    BY <1>1, <2>2
  <2>4. PICK sku \in DOMAIN Seed : sku = Sku(o) /\ freeStock[sku] >= Qty(o)
    BY <1>7 DEF ToldByOrders
  <2>5. Confirmed(sku)' = Confirmed(sku) \cup {o} /\ o \in Orders \ Confirmed(sku) /\ Confirmed(sku) \in SUBSET Orders
    BY <1>7, <2>1, <2>4 DEF Confirmed
  <2>6. \A s \in DOMAIN Seed \ {sku} : Confirmed(s)' = Confirmed(s)
    BY <1>7, <2>1, <2>4 DEF Confirmed
  <2>7. Units(Confirmed(sku)') = Units(Confirmed(sku)) + Qty(o)
    BY <2>5, UnitsAdd
  <2>8. freeStock'[sku] = Seed[sku] - Units(Confirmed(sku)') /\ freeStock[sku] = Seed[sku] - Units(Confirmed(sku))
    BY DEF ToldByOrders
  <2>9. freeStock'[sku] = freeStock[sku] - Qty(o)
    <3>1. Units(Confirmed(sku)) \in Nat /\ Qty(o) \in Nat /\ Seed[sku] \in Nat
      BY <2>5, UnitsAdd, QtyIsNat, SagaAssumption
    <3>2. QED
      BY <2>7, <2>8, <3>1
  <2>10. \A s \in DOMAIN Seed \ {sku} : freeStock'[s] = freeStock[s]
    BY <2>6 DEF ToldByOrders
  <2>11. freeStock' = [freeStock EXCEPT ![sku] = freeStock[sku] - Qty(o)]
    BY <1>2, <2>9, <2>10
  <2>12. DOMAIN freeStock = DOMAIN Seed
    BY <1>2
  <2>13. QED
    BY <2>2, <2>3, <2>4, <2>11, <2>12 DEF AtomicOrders!Complete, Sku, Qty
<1>8. CASE orders' = NoRecord
  <2>1. \A s : Confirmed(s)' = {}
    BY <1>8 DEF Confirmed, NoRecord
  <2>2. \A s \in DOMAIN Seed : freeStock'[s] = Seed[s]
    <3>1. \A s \in DOMAIN Seed : freeStock'[s] = Seed[s] - 0 /\ Seed[s] \in Nat
      BY <2>1, UnitsAdd, SagaAssumption DEF ToldByOrders
    <3>2. QED
      BY <3>1
  <2>3. freeStock' = Seed
    <3>1. Seed = [s \in DOMAIN Seed |-> Seed[s]]
      BY SagaAssumption
    <3>2. QED
      BY <1>2, <2>2, <3>1, Zenon
  <2>4. \A o \in Orders : orderOutcomes'[o] = "none"
    BY <1>8 DEF ToldByOrders, NoRecord
  <2>5. orderOutcomes' = [o \in Orders |-> "none"]
    BY <1>1, <2>4, Zenon
  <2>6. QED
    BY <2>3, <2>5 DEF AtomicOrders!AbstractNext, AtomicOrders!NewWorld
<1>9. QED
  BY <1>4, <1>5, <1>6, <1>7, <1>8 DEF OrdersMove, AtomicOrders!AbstractNext

\* Both sagas make every order all or nothing (SagaIsAtomic): as seen from outside each
\* order completes with all of its effects or fails with none, in one step, and what is
\* left of the stock is what the completed ones have not taken; for any number of orders
\* and skus, whichever step fails.
THEOREM SagasAreAtomic == SagaSpec => SagaIsAtomic
<1>1. SagaInit => AtomicOrders!AbstractInit
  <2> SUFFICES ASSUME SagaInit PROVE AtomicOrders!AbstractInit
    OBVIOUS
  <2>1. ToldByOrders
    BY SagaStarts, OrdersTell
  <2>2. \A s : Confirmed(s) = {}
    BY DEF Confirmed, SagaInit, NoRecord
  <2>3. \A s \in DOMAIN Seed : freeStock[s] = Seed[s] - 0 /\ Seed[s] \in Nat
    BY <2>1, <2>2, UnitsAdd, SagaAssumption DEF ToldByOrders
  <2>4. freeStock = [s \in DOMAIN Seed |-> freeStock[s]] /\ Seed = [s \in DOMAIN Seed |-> Seed[s]]
    BY SagaAssumption DEF freeStock
  <2>5. \A s \in DOMAIN Seed : freeStock[s] = Seed[s]
    BY <2>3
  <2>6. freeStock = Seed
    BY <2>4, <2>5, Zenon
  <2>7. \A o \in Orders : orderOutcomes[o] = "none"
    BY <2>1 DEF ToldByOrders, SagaInit, NoRecord
  <2>8. orderOutcomes = [o \in Orders |-> orderOutcomes[o]]
    BY DEF orderOutcomes
  <2>9. orderOutcomes = [o \in Orders |-> "none"]
    BY <2>7, <2>8, Zenon
  <2>10. QED
    BY <2>6, <2>9 DEF AtomicOrders!AbstractInit
<1>2. SagaInit => SagaInv
  BY SagaStarts
<1>3. SagaInv /\ [SagaNext]_sagaVars => SagaInv'
  BY SagaStepsKeep
<1>4. SagaInv => ToldByOrders /\ SagaTypeOK
  BY OrdersTell DEF SagaInv
<1>5. SagaInv /\ [SagaNext]_sagaVars => OrdersMove
  BY SagaMovesOrders
<1>6. SagaTypeOK /\ ToldByOrders /\ ToldByOrders' /\ OrdersMove => [AtomicOrders!AbstractNext]_<<orderOutcomes, freeStock>>
  BY MovesAreAtomic
<1>7. QED
  BY <1>1, <1>2, <1>3, <1>4, <1>5, <1>6, PTL DEF SagaSpec, SagaIsAtomic, AtomicOrders!AbstractSpec, AtomicOrders!abstractVars

\* The invariant holds in every state of the sagas.
LEMMA SagaInvariant == SagaSpec => []SagaInv
<1>1. SagaInit => SagaInv
  BY SagaStarts
<1>2. SagaInv /\ [SagaNext]_sagaVars => SagaInv'
  BY SagaStepsKeep
<1>3. QED
  BY <1>1, <1>2, PTL DEF SagaSpec

-----------------------------------------------------------------------------
(* The outbox: the bus remembers what it has delivered, and what the       *)
(* poller has handed to it is there when it marks the row.                 *)

OnBus == ToSet(busMessages)

Relaying ==
    /\ busDelivered = OnBus
    /\ batch \subseteq DOMAIN outbox
    /\ DOMAIN outbox \subseteq dbOrders /\ dbOrders \subseteq 1 .. seq
    /\ published => batch # {} /\ Row \in OnBus

OutboxInv == OutboxTypeOK /\ StoresAgree /\ Relaying

\* The row a poll is at is one of its batch.
LEMMA RowInBatch ==
    ASSUME batch \subseteq Ids, batch # {}
    PROVE  Row \in batch
<1>1. Ids \subseteq Nat
  BY OutboxAssumption DEF Ids
<1>2. PICK e \in batch : \A later \in batch : ~ (<<later, e>> \in OpToRel(<, Nat))
  BY <1>1, NatLessThanWellFounded, WFMin
<1>3. \A later \in batch : ~ (later < e)
  BY <1>1, <1>2 DEF OpToRel
<1>4. \A later \in batch : e <= later
  <2>1. \A later \in batch : later \in Nat /\ e \in Nat
    BY <1>1
  <2>2. QED
    BY <1>3, <2>1
<1>5. QED
  BY <1>4 DEF Row

\* The bus takes an event once, whether or not it has seen it before.
LEMMA PublishOnce ==
    ASSUME NEW e \in Ids, busMessages \in Seq(Ids), busDelivered = OnBus, IsInjective(busMessages), Publish(e)
    PROVE  /\ busMessages' \in Seq(Ids) /\ IsInjective(busMessages')
           /\ OnBus' = OnBus \cup {e} /\ busDelivered' = OnBus'
<1>1. CASE e \in busDelivered
  BY <1>1 DEF Publish, OnBus
<1>2. CASE e \notin busDelivered
  <2>1. busMessages' = Append(busMessages, e) /\ busDelivered' = busDelivered \cup {e}
    BY <1>2 DEF Publish
  <2>2. /\ busMessages' \in Seq(Ids) /\ DOMAIN busMessages' = 1 .. Len(busMessages) + 1
        /\ busMessages'[Len(busMessages) + 1] = e /\ DOMAIN busMessages = 1 .. Len(busMessages)
        /\ Len(busMessages) \in Nat
        /\ \A i \in 1 .. Len(busMessages) : busMessages'[i] = busMessages[i]
    BY <2>1
  <2>3. \A i \in 1 .. Len(busMessages) : busMessages[i] # e
    BY <1>2, <2>2 DEF OnBus, ToSet
  <2>4. IsInjective(busMessages')
    <3>1. ASSUME NEW i \in DOMAIN busMessages', NEW j \in DOMAIN busMessages', busMessages'[i] = busMessages'[j]
          PROVE  i = j
      <4>1. CASE i \in DOMAIN busMessages /\ j \in DOMAIN busMessages
        BY <2>2, <3>1, <4>1 DEF IsInjective
      <4>2. CASE i \notin DOMAIN busMessages \/ j \notin DOMAIN busMessages
        BY <2>2, <2>3, <3>1, <4>2
      <4>3. QED
        BY <4>1, <4>2
    <3>2. QED
      BY <3>1 DEF IsInjective
  <2>5. OnBus' = OnBus \cup {e}
    BY <2>2 DEF OnBus, ToSet
  <2>6. QED
    BY <2>1, <2>2, <2>4, <2>5
<1>3. QED
  BY <1>1, <1>2

\* No order, no row, nothing on the bus.
LEMMA OutboxStarts == OutboxInit => OutboxInv
<1> SUFFICES ASSUME OutboxInit PROVE OutboxInv
  OBVIOUS
<1>1. DOMAIN outbox = {} /\ OnBus = {} /\ IsInjective(busMessages) /\ busMessages \in Seq(Ids)
  BY DEF OutboxInit, OnBus, ToSet, IsInjective
<1>2. OutboxTypeOK
  <2>1. seq \in 0 .. MaxOrders /\ deaths \in 0 .. MaxDeaths
    BY OutboxAssumption DEF OutboxInit
  <2>2. dbOrders \subseteq Ids /\ busDelivered \subseteq Ids /\ batch \subseteq Ids /\ published \in BOOLEAN
    BY DEF OutboxInit
  <2>3. QED
    BY <1>1, <2>1, <2>2 DEF OutboxTypeOK
<1>3. StoresAgree /\ Relaying
  BY <1>1 DEF OutboxInit, StoresAgree, Relaying, OnBus
<1>4. QED
  BY <1>2, <1>3 DEF OutboxInv

\* The dual write: the order is committed before its event is published.
LEMMA CreateOrderDualWriteKeeps ==
    ASSUME OutboxInv, CreateOrderDualWrite
    PROVE  OutboxInv'
<1>1. PICK e : e = seq + 1 /\ e \in Ids /\ seq' = e /\ e \in 0 .. MaxOrders
  BY OutboxAssumption DEF OutboxInv, OutboxTypeOK, CreateOrderDualWrite, Ids
<1>2. /\ dbOrders' = dbOrders \cup {e} /\ DOMAIN outbox' = DOMAIN outbox
      /\ \A r \in DOMAIN outbox : outbox'[r] = outbox[r]
      /\ UNCHANGED <<batch, published, deaths>> /\ batch = {}
  BY <1>1 DEF CreateOrderDualWrite, Commit
<1>n. dbOrders' \subseteq 1 .. seq'
  <2>1. seq \in Nat /\ dbOrders \subseteq 1 .. seq /\ seq' = seq + 1 /\ dbOrders' = dbOrders \cup {seq + 1}
    BY <1>1, <1>2 DEF OutboxInv, OutboxTypeOK, Relaying
  <2>2. QED
    BY <2>1
<1>3. busMessages \in Seq(Ids) /\ busDelivered = OnBus /\ IsInjective(busMessages) /\ OnBus \subseteq dbOrders
  BY DEF OutboxInv, OutboxTypeOK, StoresAgree, Relaying, OnBus
<1>4. /\ busMessages' \in Seq(Ids) /\ IsInjective(busMessages') /\ busDelivered' = OnBus'
      /\ OnBus \subseteq OnBus' /\ OnBus' \subseteq OnBus \cup {e}
  <2>1. CASE UNCHANGED <<busMessages, busDelivered>>
    BY <1>3, <2>1 DEF OnBus
  <2>2. CASE Publish(e)
    BY <1>1, <1>3, <2>2, PublishOnce
  <2>3. QED
    BY <1>1, <2>1, <2>2 DEF CreateOrderDualWrite
<1>5. OutboxTypeOK'
  BY <1>1, <1>2, <1>3, <1>4 DEF OutboxInv, OutboxTypeOK, OnBus, ToSet
<1>6. StoresAgree'
  BY <1>2, <1>3, <1>4 DEF OutboxInv, StoresAgree, OnBus
<1>7. Relaying'
  BY <1>n, <1>2, <1>4 DEF OutboxInv, Relaying
<1>8. QED
  BY <1>5, <1>6, <1>7 DEF OutboxInv

\* With the outbox the order and its row are committed together.
LEMMA CreateOrderWithOutboxKeeps ==
    ASSUME OutboxInv, CreateOrderWithOutbox
    PROVE  OutboxInv'
<1>1. PICK e : e = seq + 1 /\ e \in Ids /\ seq' = e /\ e \in 0 .. MaxOrders
  BY OutboxAssumption DEF OutboxInv, OutboxTypeOK, CreateOrderWithOutbox, Ids
<1>2. /\ dbOrders' = dbOrders \cup {e} /\ DOMAIN outbox' = DOMAIN outbox \cup {e}
      /\ outbox'[e] = [status |-> "PENDING", attempts |-> 0]
      /\ \A r \in DOMAIN outbox \ {e} : outbox'[r] = outbox[r]
      /\ UNCHANGED <<batch, published, deaths, busMessages, busDelivered>> /\ batch = {}
  BY <1>1 DEF CreateOrderWithOutbox, Commit
<1>n. dbOrders' \subseteq 1 .. seq'
  <2>1. seq \in Nat /\ dbOrders \subseteq 1 .. seq /\ seq' = seq + 1 /\ dbOrders' = dbOrders \cup {seq + 1}
    BY <1>1, <1>2 DEF OutboxInv, OutboxTypeOK, Relaying
  <2>2. QED
    BY <2>1
<1>3. OutboxTypeOK'
  BY <1>1, <1>2 DEF OutboxInv, OutboxTypeOK
<1>4. StoresAgree'
  BY <1>2 DEF OutboxInv, StoresAgree
<1>5. Relaying'
  BY <1>n, <1>2 DEF OutboxInv, Relaying, OnBus
<1>6. QED
  BY <1>3, <1>4, <1>5 DEF OutboxInv

\* pollOnce reads the rows that are pending.
LEMMA PollOnceKeeps ==
    ASSUME OutboxInv, PollOnce
    PROVE  OutboxInv'
<1>1. /\ batch' \subseteq DOMAIN outbox /\ published' = FALSE
      /\ UNCHANGED <<seq, dbOrders, outbox, busMessages, busDelivered, deaths>>
  BY DEF PollOnce, Pending
<1>2. OutboxTypeOK'
  BY <1>1 DEF OutboxInv, OutboxTypeOK
<1>3. StoresAgree' /\ Relaying'
  BY <1>1 DEF OutboxInv, StoresAgree, Relaying, OnBus
<1>4. QED
  BY <1>2, <1>3 DEF OutboxInv

\* The next row is handed to the bus.
LEMMA PublishRowKeeps ==
    ASSUME OutboxInv, PublishRow
    PROVE  OutboxInv'
<1>0. PICK e : e = Row
  OBVIOUS
<1>1. e \in batch /\ e \in Ids /\ e \in DOMAIN outbox /\ e \in dbOrders
  BY <1>0, RowInBatch DEF PublishRow, OutboxInv, OutboxTypeOK, Relaying
<1>2. outbox[e] \in [status : {"PENDING", "PUBLISHED"}, attempts : Nat]
  BY <1>1 DEF OutboxInv, OutboxTypeOK
<1>3. /\ DOMAIN outbox' = DOMAIN outbox /\ \A r \in DOMAIN outbox \ {e} : outbox'[r] = outbox[r]
      /\ outbox'[e].status = outbox[e].status
      /\ outbox'[e] \in [status : {"PENDING", "PUBLISHED"}, attempts : Nat]
      /\ published' /\ published' = TRUE /\ Publish(e) /\ UNCHANGED <<seq, dbOrders, batch, deaths>>
  BY <1>0, <1>1, <1>2 DEF PublishRow
<1>4. busMessages \in Seq(Ids) /\ busDelivered = OnBus /\ IsInjective(busMessages) /\ OnBus \subseteq dbOrders
  BY DEF OutboxInv, OutboxTypeOK, StoresAgree, Relaying, OnBus
<1>5. /\ busMessages' \in Seq(Ids) /\ IsInjective(busMessages') /\ busDelivered' = OnBus'
      /\ OnBus' = OnBus \cup {e}
  BY <1>1, <1>3, <1>4, PublishOnce
<1>6. Row' = e
  BY <1>0, <1>3 DEF Row
<1>7. OutboxTypeOK'
  BY <1>1, <1>3, <1>4, <1>5 DEF OutboxInv, OutboxTypeOK
<1>8. StoresAgree'
  BY <1>1, <1>3, <1>4, <1>5 DEF OutboxInv, StoresAgree, OnBus
<1>9. Relaying'
  BY <1>1, <1>3, <1>5, <1>6 DEF OutboxInv, Relaying
<1>10. QED
  BY <1>7, <1>8, <1>9 DEF OutboxInv

\* The row is marked: its event is on the bus.
LEMMA MarkPublishedKeeps ==
    ASSUME OutboxInv, MarkPublished
    PROVE  OutboxInv'
<1>0. PICK e : e = Row
  OBVIOUS
<1>1. e \in batch /\ e \in DOMAIN outbox /\ e \in OnBus
  BY <1>0, RowInBatch DEF MarkPublished, OutboxInv, OutboxTypeOK, Relaying
<1>2. outbox[e] \in [status : {"PENDING", "PUBLISHED"}, attempts : Nat]
  BY <1>1 DEF OutboxInv, OutboxTypeOK
<1>3. /\ DOMAIN outbox' = DOMAIN outbox /\ \A r \in DOMAIN outbox \ {e} : outbox'[r] = outbox[r]
      /\ outbox'[e] \in [status : {"PENDING", "PUBLISHED"}, attempts : Nat]
      /\ batch' \subseteq batch /\ published' = FALSE
      /\ UNCHANGED <<seq, dbOrders, busMessages, busDelivered, deaths>>
  BY <1>0, <1>1, <1>2 DEF MarkPublished
<1>4. OutboxTypeOK'
  BY <1>3 DEF OutboxInv, OutboxTypeOK
<1>5. StoresAgree'
  BY <1>1, <1>3 DEF OutboxInv, StoresAgree, OnBus
<1>6. Relaying'
  BY <1>3 DEF OutboxInv, Relaying, OnBus
<1>7. QED
  BY <1>4, <1>5, <1>6 DEF OutboxInv

\* The poller dies and leaves its batch to the next round; or the stores are reset, which
\* no row survives.
LEMMA PollerDiesKeeps ==
    ASSUME OutboxInv, PollerDies \/ ResetStores
    PROVE  OutboxInv'
<1>1. CASE PollerDies
  <2>1. /\ batch' = {} /\ published' = FALSE /\ deaths' \in 0 .. MaxDeaths
        /\ UNCHANGED <<seq, dbOrders, outbox, busMessages, busDelivered>>
    BY <1>1, OutboxAssumption DEF PollerDies, OutboxInv, OutboxTypeOK
  <2>2. OutboxTypeOK'
    BY <2>1 DEF OutboxInv, OutboxTypeOK
  <2>3. StoresAgree' /\ Relaying'
    BY <2>1 DEF OutboxInv, StoresAgree, Relaying, OnBus
  <2>4. QED
    BY <2>2, <2>3 DEF OutboxInv
<1>2. CASE ResetStores
  <2>1. /\ DOMAIN outbox = {} /\ batch = {} /\ dbOrders' = {} /\ busMessages' = <<>> /\ busDelivered' = {}
        /\ UNCHANGED <<seq, outbox, batch, published, deaths>>
    BY <1>2 DEF ResetStores, OutboxInv, Relaying
  <2>2. OnBus' = {} /\ IsInjective(busMessages') /\ busMessages' \in Seq(Ids)
    BY <2>1 DEF OnBus, ToSet, IsInjective
  <2>3. OutboxTypeOK'
    BY <2>1, <2>2 DEF OutboxInv, OutboxTypeOK
  <2>4. StoresAgree' /\ Relaying'
    BY <2>1, <2>2 DEF OutboxInv, StoresAgree, Relaying, OnBus
  <2>5. QED
    BY <2>3, <2>4 DEF OutboxInv
<1>3. QED
  BY <1>1, <1>2

\* A step that changes nothing of the outbox.
LEMMA OutboxQuiet == ASSUME OutboxInv, UNCHANGED outboxVars PROVE OutboxInv'
<1>1. UNCHANGED <<seq, dbOrders, outbox, busMessages, busDelivered, batch, published, deaths>>
  BY DEF outboxVars
<1>2. OutboxTypeOK' /\ StoresAgree'
  BY <1>1 DEF OutboxInv, OutboxTypeOK, StoresAgree
<1>3. Relaying'
  BY <1>1 DEF OutboxInv, Relaying, OnBus, Row
<1>4. QED
  BY <1>2, <1>3 DEF OutboxInv

\* The invariant holds in every state.
LEMMA OutboxInvariant == OutboxSpec => []OutboxInv
<1>1. OutboxInit => OutboxInv
  BY OutboxStarts
<1>2. OutboxInv /\ [OutboxNext]_outboxVars => OutboxInv'
  <2>1. ASSUME OutboxInv, OutboxNext PROVE OutboxInv'
    BY <2>1, CreateOrderDualWriteKeeps, CreateOrderWithOutboxKeeps, PollOnceKeeps, PublishRowKeeps,
       MarkPublishedKeeps, PollerDiesKeeps DEF OutboxNext
  <2>2. QED
    BY <2>1, OutboxQuiet
<1>3. QED
  BY <1>1, <1>2, PTL DEF OutboxSpec

\* The stock, the effects and the stores add up (EffectsAddUp): between any two steps of
\* either saga the stock is accounted for and an order has the effects of a first part of
\* its steps; wherever the poller dies no event is on the bus without its order, or twice,
\* or marked and not there.  For any number of orders, quantities and deaths.
THEOREM EffectsAlwaysAddUp == SagaSpec /\ OutboxSpec => []EffectsAddUp
<1>1. SagaInv /\ OutboxInv => EffectsAddUp
  BY EffectsInOrder DEF EffectsAddUp, OutboxInv
<1>2. QED
  BY <1>1, SagaInvariant, OutboxInvariant, PTL

-----------------------------------------------------------------------------
(* The outbox implements ReliableDelivery: what the bus carries for orders *)
(* created with the outbox is a fold of all it carries.                    *)

relaying(rows) ==
    [p \in Seq(Ids) \X Ids |-> IF p[2] \in rows THEN Append(p[1], p[2]) ELSE p[1]]

\* An event kept, or left out, leaves a sequence of events.
LEMMA RelayingIsTyped == \A rows : relaying(rows) \in Operations(Seq(Ids), Ids)
<1>1. ASSUME NEW x \in Seq(Ids), NEW e \in Ids PROVE Append(x, e) \in Seq(Ids)
  BY AppendProperties
<1>2. QED
  BY <1>1 DEF relaying, Operations

\* What Relayed folds.
LEMMA RelayedIsResult ==
    ASSUME NEW rows, NEW base \in Seq(Ids), NEW bus \in Seq(Ids)
    PROVE  FoldLeft(LAMBDA relayed, e : IF e \in rows THEN Append(relayed, e) ELSE relayed, base, bus) = Result(relaying(rows), base, bus)
<1>1. PICK h \in [SUBSET DOMAIN bus -> Seq(Ids)] :
         \A s \in SUBSET DOMAIN bus : h[s] = Turned(relaying(rows), base, bus, h, s)
  <2>1. HasTable(Seq(Ids), relaying(rows), base, bus)
    BY RelayingIsTyped, FoldExists
  <2>2. QED
    BY <2>1 DEF HasTable
<1>2. \A s \in SUBSET DOMAIN bus :
         s # {} => bus[Max(s)] \in Ids /\ s \ {Max(s)} \in SUBSET DOMAIN bus
  BY TurnsAreTyped
<1>3. \A x \in Seq(Ids), e \in Ids : relaying(rows)[<<x, e>>] = (IF e \in rows THEN Append(x, e) ELSE x)
  BY DEF relaying
<1>4. h = [s \in SUBSET DOMAIN bus |->
             IF s = {} THEN base ELSE (IF bus[Max(s)] \in rows THEN Append(h[s \ {Max(s)}], bus[Max(s)]) ELSE h[s \ {Max(s)}])]
  <2>1. ASSUME NEW s \in SUBSET DOMAIN bus
        PROVE  h[s] = IF s = {} THEN base ELSE (IF bus[Max(s)] \in rows THEN Append(h[s \ {Max(s)}], bus[Max(s)]) ELSE h[s \ {Max(s)}])
    <3>1. CASE s = {}
      BY <1>1, <3>1 DEF Turned
    <3>2. CASE s # {}
      <4>1. PICK x \in Seq(Ids), e \in Ids : x = h[s \ {Max(s)}] /\ e = bus[Max(s)]
        BY <1>1, <1>2, <3>2
      <4>2. h[s] = relaying(rows)[<<x, e>>]
        BY <1>1, <3>2, <4>1 DEF Turned
      <4>3. QED
        BY <1>3, <3>2, <4>1, <4>2
    <3>3. QED
      BY <3>1, <3>2
  <2>2. QED
    BY <1>1, <2>1
<1>5. PICK g : /\ g = [s \in SUBSET DOMAIN bus |->
                         IF s = {} THEN base ELSE (IF bus[Max(s)] \in rows THEN Append(g[s \ {Max(s)}], bus[Max(s)]) ELSE g[s \ {Max(s)}])]
               /\ FoldLeft(LAMBDA relayed, e : IF e \in rows THEN Append(relayed, e) ELSE relayed, base, bus) = g[DOMAIN bus]
  BY <1>4 DEF FoldLeft, MapThenFoldSet
<1>6. Tabulates(Seq(Ids), relaying(rows), base, bus, g)
  <2>1. g[{}] = base
    BY <1>5
  <2>2. ASSUME NEW s \in SUBSET DOMAIN bus, s # {}, g[s \ {Max(s)}] \in Seq(Ids)
        PROVE  g[s] = relaying(rows)[<<g[s \ {Max(s)}], bus[Max(s)]>>]
    <3>1. PICK x \in Seq(Ids), e \in Ids : x = g[s \ {Max(s)}] /\ e = bus[Max(s)]
      BY <1>2, <2>2
    <3>2. g[s] = (IF e \in rows THEN Append(x, e) ELSE x)
      BY <1>5, <2>2, <3>1
    <3>3. QED
      BY <1>3, <3>1, <3>2
  <2>3. QED
    BY <2>1, <2>2 DEF Tabulates
<1>7. g[DOMAIN bus] = Result(relaying(rows), base, bus)
  BY <1>6, RelayingIsTyped, FoldIsResult
<1>8. QED
  BY <1>5, <1>7

\* Of nothing, nothing is kept; one event more is kept when it has a row.
LEMMA RelayedLaws ==
    ASSUME NEW rows
    PROVE  /\ Relayed(<<>>, rows) = <<>>
           /\ \A bus \in Seq(Ids) : Relayed(bus, rows) \in Seq(Ids)
           /\ \A bus \in Seq(Ids), e \in Ids :
                Relayed(Append(bus, e), rows) =
                  IF e \in rows THEN Append(Relayed(bus, rows), e) ELSE Relayed(bus, rows)
<1>1. <<>> \in Seq(Ids)
  BY EmptySeq
<1>2. relaying(rows) \in Operations(Seq(Ids), Ids)
  BY RelayingIsTyped
<1>3. ASSUME NEW bus \in Seq(Ids) PROVE Relayed(bus, rows) = Result(relaying(rows), <<>>, bus)
  BY <1>1, RelayedIsResult DEF Relayed
<1>4. /\ Result(relaying(rows), <<>>, <<>>) = <<>>
      /\ \A bus \in Seq(Ids) : Result(relaying(rows), <<>>, bus) \in Seq(Ids)
      /\ \A bus \in Seq(Ids), e \in Ids :
           Result(relaying(rows), <<>>, Append(bus, e)) = relaying(rows)[<<Result(relaying(rows), <<>>, bus), e>>]
  <2>1. PICK op \in Operations(Seq(Ids), Ids) : op = relaying(rows)
    BY <1>2
  <2>2. PICK none \in Seq(Ids) : none = <<>>
    BY <1>1
  <2>3. Result(op, none, <<>>) = none
    BY ResultOfNone
  <2>4. \A bus \in Seq(Ids) : Result(op, none, bus) \in Seq(Ids)
    BY ResultIsTyped
  <2>5. \A bus \in Seq(Ids), e \in Ids : Result(op, none, Append(bus, e)) = op[<<Result(op, none, bus), e>>]
    BY ResultOfAppend
  <2>6. QED
    BY <2>1, <2>2, <2>3, <2>4, <2>5
<1>5. ASSUME NEW bus \in Seq(Ids), NEW e \in Ids
      PROVE  Relayed(Append(bus, e), rows) = IF e \in rows THEN Append(Relayed(bus, rows), e) ELSE Relayed(bus, rows)
  <2>1. PICK longer \in Seq(Ids) : longer = Append(bus, e)
    BY AppendProperties
  <2>2. PICK kept \in Seq(Ids) : kept = Relayed(bus, rows)
    BY <1>3, <1>4
  <2>3. Relayed(longer, rows) = relaying(rows)[<<kept, e>>]
    BY <1>3, <1>4, <2>1, <2>2
  <2>4. relaying(rows)[<<kept, e>>] = IF e \in rows THEN Append(kept, e) ELSE kept
    BY DEF relaying
  <2>5. QED
    BY <2>1, <2>2, <2>3, <2>4
<1>6. QED
  BY <1>1, <1>3, <1>4, <1>5

\* An event that is not on the bus: the set of a longer sequence.
LEMMA SetOfLonger ==
    ASSUME NEW bus \in Seq(Ids), NEW e \in Ids
    PROVE  ToSet(Append(bus, e)) = ToSet(bus) \cup {e}
<1>1. PICK n \in Nat : n = Len(bus)
  BY LenProperties
<1>2. PICK longer \in Seq(Ids) : longer = Append(bus, e)
  BY AppendProperties
<1>3. DOMAIN bus = 1 .. n /\ DOMAIN longer = 1 .. n + 1 /\ longer[n + 1] = e /\ \A i \in 1 .. n : longer[i] = bus[i]
  BY <1>1, <1>2, AppendProperties, LenProperties
<1>4. \A i \in 1 .. n + 1 : i \in 1 .. n \/ i = n + 1
  OBVIOUS
<1>5. n + 1 \in 1 .. n + 1 /\ \A i \in 1 .. n : i \in 1 .. n + 1
  OBVIOUS
<1>6. ToSet(longer) = ToSet(bus) \cup {e}
  BY <1>3, <1>4, <1>5 DEF ToSet
<1>7. QED
  BY <1>2, <1>6

\* What is kept was there, and has a row.
LEMMA RelayedIsPart ==
    ASSUME NEW rows, NEW bus \in Seq(Ids)
    PROVE  ToSet(Relayed(bus, rows)) \subseteq ToSet(bus) \cap rows
<1> DEFINE G == {s \in Seq(Ids) : ToSet(Relayed(s, rows)) \subseteq ToSet(s) \cap rows}
<1>1. <<>> \in G
  <2>1. ToSet(<<>>) = {} /\ <<>> \in Seq(Ids)
    BY EmptySeq DEF ToSet
  <2>2. QED
    BY <2>1, RelayedLaws
<1>2. ASSUME NEW s \in Seq(Ids), NEW e \in Ids, s \in G PROVE Append(s, e) \in G
  <2>1. PICK kept \in Seq(Ids) : kept = Relayed(s, rows)
    BY RelayedLaws
  <2>2. ToSet(kept) \subseteq ToSet(s) \cap rows
    BY <1>2, <2>1
  <2>3. ToSet(Append(s, e)) = ToSet(s) \cup {e} /\ ToSet(Append(kept, e)) = ToSet(kept) \cup {e}
    BY SetOfLonger
  <2>4. Relayed(Append(s, e), rows) = IF e \in rows THEN Append(kept, e) ELSE kept
    BY <2>1, RelayedLaws
  <2>5. Append(s, e) \in Seq(Ids)
    BY AppendProperties
  <2>6. CASE e \in rows
    BY <2>2, <2>3, <2>4, <2>5, <2>6
  <2>7. CASE e \notin rows
    BY <2>2, <2>3, <2>4, <2>5, <2>7
  <2>8. QED
    BY <2>6, <2>7
<1>3. Seq(Ids) \subseteq G
  <2> HIDE DEF G
  <2>1. QED
    BY <1>1, <1>2, GrowingSequences
<1>4. QED
  BY <1>3

\* A new row changes nothing for a bus that does not carry its event.
LEMMA RelayedWithNewRow ==
    ASSUME NEW rows, NEW new, NEW bus \in Seq(Ids), new \notin ToSet(bus)
    PROVE  Relayed(bus, rows \cup {new}) = Relayed(bus, rows)
<1> DEFINE G == {s \in Seq(Ids) : new \notin ToSet(s) => Relayed(s, rows \cup {new}) = Relayed(s, rows)}
<1>1. <<>> \in G
  BY EmptySeq, RelayedLaws
<1>2. ASSUME NEW s \in Seq(Ids), NEW e \in Ids, s \in G PROVE Append(s, e) \in G
  <2>1. Append(s, e) \in Seq(Ids)
    BY AppendProperties
  <2>2. SUFFICES ASSUME new \notin ToSet(Append(s, e))
                 PROVE  Relayed(Append(s, e), rows \cup {new}) = Relayed(Append(s, e), rows)
    BY <2>1
  <2>3. new \notin ToSet(s) /\ new # e
    BY <2>2, SetOfLonger
  <2>4. Relayed(s, rows \cup {new}) = Relayed(s, rows)
    BY <1>2, <2>3
  <2>5. e \in rows \cup {new} <=> e \in rows
    BY <2>3
  <2>6. Relayed(Append(s, e), rows) = IF e \in rows THEN Append(Relayed(s, rows), e) ELSE Relayed(s, rows)
    BY RelayedLaws
  <2>7. PICK more : more = rows \cup {new}
    OBVIOUS
  <2>8. Relayed(Append(s, e), more) = IF e \in more THEN Append(Relayed(s, more), e) ELSE Relayed(s, more)
    BY RelayedLaws
  <2>9. QED
    BY <2>4, <2>5, <2>6, <2>7, <2>8
<1>3. Seq(Ids) \subseteq G
  <2> HIDE DEF G
  <2>1. QED
    BY <1>1, <1>2, GrowingSequences
<1>4. QED
  BY <1>3

\* What the relayed events are after a step.
LEMMA RelayedNext ==
    /\ Relayed(busMessages, DOMAIN outbox)' = Relayed(busMessages', DOMAIN outbox')
    /\ (DOMAIN outbox)' = DOMAIN outbox'
<1>1. Relayed(busMessages, DOMAIN outbox)' = Relayed(busMessages', DOMAIN outbox')
  OBVIOUS
<1>2. QED
  BY <1>1

\* A step that leaves the rows and what is relayed of the bus as they are is none for a client.
LEMMA NothingRelayed ==
    ASSUME DOMAIN outbox' = DOMAIN outbox,
           Relayed(busMessages', DOMAIN outbox') = Relayed(busMessages, DOMAIN outbox)
    PROVE  UNCHANGED Delivery!deliveryVars
  BY RelayedNext DEF Delivery!deliveryVars

\* What is relayed is typed, and is on the bus.
LEMMA RelayedNow ==
    ASSUME OutboxInv
    PROVE  /\ busMessages \in Seq(Ids)
           /\ ToSet(Relayed(busMessages, DOMAIN outbox)) \subseteq OnBus \cap DOMAIN outbox
           /\ \A e \in OnBus \cup DOMAIN outbox \cup dbOrders : e \in 1 .. seq
<1>1. busMessages \in Seq(Ids)
  BY DEF OutboxInv, OutboxTypeOK
<1>2. ToSet(Relayed(busMessages, DOMAIN outbox)) \subseteq OnBus \cap DOMAIN outbox
  BY <1>1, RelayedIsPart DEF OnBus
<1>3. QED
  BY <1>1, <1>2 DEF OutboxInv, StoresAgree, Relaying, OnBus

\* A dual write has no row: what it puts on the bus is not relayed.
LEMMA DualWriteRelaysNothing ==
    ASSUME OutboxInv, CreateOrderDualWrite
    PROVE  UNCHANGED Delivery!deliveryVars
<1>1. PICK e : e = seq + 1 /\ e \in Ids /\ seq' = e
  BY OutboxAssumption DEF OutboxInv, OutboxTypeOK, CreateOrderDualWrite, Ids
<1>2. DOMAIN outbox' = DOMAIN outbox
  BY <1>1 DEF CreateOrderDualWrite, Commit
<1>3. e \notin DOMAIN outbox
  <2>1. seq \in Nat /\ DOMAIN outbox \subseteq 1 .. seq
    BY RelayedNow DEF OutboxInv, OutboxTypeOK
  <2>2. QED
    BY <1>1, <2>1
<1>4. busMessages' = busMessages \/ busMessages' = Append(busMessages, e)
  BY <1>1 DEF CreateOrderDualWrite, Publish
<1>5. Relayed(busMessages', DOMAIN outbox) = Relayed(busMessages, DOMAIN outbox)
  <2>1. PICK rows : rows = DOMAIN outbox
    OBVIOUS
  <2>2. Relayed(Append(busMessages, e), rows) = IF e \in rows THEN Append(Relayed(busMessages, rows), e) ELSE Relayed(busMessages, rows)
    BY <1>1, RelayedNow, RelayedLaws
  <2>3. QED
    BY <1>3, <1>4, <2>1, <2>2
<1>6. QED
  BY <1>2, <1>5, NothingRelayed

\* An order created with the outbox is accepted.
LEMMA CreationAccepts ==
    ASSUME OutboxInv, CreateOrderWithOutbox
    PROVE  Delivery!DeliveryNext
<1>1. PICK e : e = seq + 1 /\ e \in Ids /\ seq' = e
  BY OutboxAssumption DEF OutboxInv, OutboxTypeOK, CreateOrderWithOutbox, Ids
<1>2. DOMAIN outbox' = DOMAIN outbox \cup {e} /\ busMessages' = busMessages
  BY <1>1 DEF CreateOrderWithOutbox, Commit
<1>3. e \notin DOMAIN outbox /\ e \notin ToSet(busMessages)
  <2>1. seq \in Nat /\ DOMAIN outbox \subseteq 1 .. seq /\ OnBus \subseteq 1 .. seq
    BY RelayedNow DEF OutboxInv, OutboxTypeOK
  <2>2. QED
    BY <1>1, <2>1 DEF OnBus
<1>4. Relayed(busMessages', DOMAIN outbox') = Relayed(busMessages, DOMAIN outbox)
  <2>1. PICK rows : rows = DOMAIN outbox
    OBVIOUS
  <2>2. Relayed(busMessages, rows \cup {e}) = Relayed(busMessages, rows)
    BY <1>3, RelayedNow, RelayedWithNewRow
  <2>3. QED
    BY <1>2, <2>1, <2>2
<1>5. Delivery!Accept(e)
  BY <1>2, <1>3, <1>4, RelayedNext DEF Delivery!Accept
<1>6. QED
  BY <1>1, <1>5 DEF Delivery!DeliveryNext

\* A row handed to the bus is delivered, unless the bus has seen it.
LEMMA PublishingDelivers ==
    ASSUME OutboxInv, PublishRow
    PROVE  [Delivery!DeliveryNext]_(Delivery!deliveryVars)
<1>1. PICK e : e = Row
  OBVIOUS
<1>2. e \in DOMAIN outbox /\ e \in Ids
  BY <1>1, RowInBatch DEF PublishRow, OutboxInv, OutboxTypeOK, Relaying
<1>3. DOMAIN outbox' = DOMAIN outbox /\ Publish(e)
  BY <1>1, <1>2 DEF PublishRow
<1>4. CASE e \in busDelivered
  <2>1. busMessages' = busMessages
    BY <1>3, <1>4 DEF Publish
  <2>2. QED
    BY <1>3, <2>1, NothingRelayed
<1>5. CASE e \notin busDelivered
  <2>1. busMessages' = Append(busMessages, e)
    BY <1>3, <1>5 DEF Publish
  <2>2. PICK rows, kept : rows = DOMAIN outbox /\ kept = Relayed(busMessages, rows)
    OBVIOUS
  <2>3. Relayed(Append(busMessages, e), rows) = Append(kept, e)
    BY <1>2, <2>2, RelayedNow, RelayedLaws
  <2>4. Relayed(busMessages', DOMAIN outbox') = Append(kept, e)
    BY <1>3, <2>1, <2>2, <2>3
  <2>5. e \notin ToSet(kept)
    BY <1>5, <2>2, RelayedNow DEF OutboxInv, Relaying
  <2>6. e \notin Delivery!DeliveredIds
    BY <2>2, <2>5 DEF Delivery!DeliveredIds, ToSet
  <2>7. Delivery!Deliver(e)
    BY <1>2, <1>3, <2>2, <2>4, <2>6, RelayedNext DEF Delivery!Deliver
  <2>8. QED
    BY <1>2, <2>7 DEF Delivery!DeliveryNext
<1>6. QED
  BY <1>4, <1>5

\* No other step touches a row's existence or the bus, but a reset, before which there is no row.
LEMMA OthersRelayNothing ==
    ASSUME OutboxInv, PollOnce \/ MarkPublished \/ PollerDies \/ ResetStores \/ UNCHANGED outboxVars
    PROVE  UNCHANGED Delivery!deliveryVars
<1>1. CASE PollOnce \/ PollerDies \/ UNCHANGED outboxVars
  <2>1. outbox' = outbox /\ busMessages' = busMessages
    BY <1>1 DEF PollOnce, PollerDies, outboxVars
  <2>2. QED
    BY <2>1, NothingRelayed
<1>2. CASE MarkPublished
  <2>1. DOMAIN outbox' = DOMAIN outbox /\ busMessages' = busMessages
    BY <1>2 DEF MarkPublished
  <2>2. QED
    BY <2>1, NothingRelayed
<1>3. CASE ResetStores
  <2>1. outbox' = outbox /\ DOMAIN outbox = {} /\ busMessages' = <<>> /\ <<>> \in Seq(Ids)
    BY <1>3, EmptySeq DEF ResetStores
  <2>2. PICK kept \in Seq(Ids) : kept = Relayed(busMessages, DOMAIN outbox)
    BY RelayedNow, RelayedLaws
  <2>3. ToSet(kept) = {}
    BY <2>1, <2>2, RelayedNow
  <2>4. kept = <<>>
    <3>1. Len(kept) \in Nat /\ DOMAIN kept = 1 .. Len(kept)
      BY LenProperties
    <3>2. DOMAIN kept = {}
      BY <2>3 DEF ToSet
    <3>3. Len(kept) = 0
      BY <3>1, <3>2
    <3>4. QED
      BY <3>3, EmptySeq
  <2>5. Relayed(busMessages', DOMAIN outbox') = <<>>
    BY <2>1, RelayedLaws
  <2>6. QED
    BY <2>1, <2>2, <2>4, <2>5, NothingRelayed
<1>4. QED
  BY <1>1, <1>2, <1>3

\* The outbox relays (the safety part of OutboxDelivers): for any number of orders and of
\* deaths of the poller, at any point of a round, every event delivered was accepted with
\* its order, none is delivered twice, and none that was delivered is taken back, while
\* dual writes put events of their own on the same bus.
THEOREM OutboxRelays == OutboxSpec => Delivery!DeliveryInit /\ [][Delivery!DeliveryNext]_(Delivery!deliveryVars)
<1>1. OutboxInit => Delivery!DeliveryInit
  <2>1. OutboxInit => DOMAIN outbox = {} /\ busMessages = <<>>
    BY DEF OutboxInit
  <2>2. QED
    BY <2>1, RelayedLaws DEF Delivery!DeliveryInit
<1>2. OutboxInv /\ [OutboxNext]_outboxVars => [Delivery!DeliveryNext]_(Delivery!deliveryVars)
  <2>1. ASSUME OutboxInv, [OutboxNext]_outboxVars PROVE [Delivery!DeliveryNext]_(Delivery!deliveryVars)
    <3>1. CASE CreateOrderWithOutbox
      BY <2>1, <3>1, CreationAccepts
    <3>2. CASE PublishRow
      BY <2>1, <3>2, PublishingDelivers
    <3>3. CASE CreateOrderDualWrite
      BY <2>1, <3>3, DualWriteRelaysNothing
    <3>4. CASE PollOnce \/ MarkPublished \/ PollerDies \/ ResetStores \/ UNCHANGED outboxVars
      BY <2>1, <3>4, OthersRelayNothing
    <3>5. QED
      BY <2>1, <3>1, <3>2, <3>3, <3>4 DEF OutboxNext
  <2>2. QED
    BY <2>1
<1>3. QED
  BY <1>1, <1>2, OutboxInvariant, PTL DEF OutboxSpec
=============================================================================
