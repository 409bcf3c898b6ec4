---------------------------- MODULE MessageQueue ----------------------------
(***************************************************************************)
(* One named queue of 09-message-queues/queue.ts with its dead-letter queue *)
(* and the consumers of consumer.ts.  Named queues share nothing but the   *)
(* visibility timer, so one of them is enough.                             *)
(*                                                                         *)
(* enqueue, dequeue, ack and nack are synchronous, and so is one round of  *)
(* the visibility timer: each is a step.  A consumer awaits its handler    *)
(* between dequeue and ack or nack, and everything else may happen there.  *)
(* Time passes in ticks.  A message's `wait' is what is left until its     *)
(* visibleAt, its `lease' what is left until its ackDeadline.              *)
(***************************************************************************)
EXTENDS Naturals, FiniteSets, SequencesExt

CONSTANTS
  Messages,            \* what producers enqueue, each once
  Consumers,           \* consumers sharing the queue
  None,                \* no message
  MaxRetries,          \* for each message, the maxRetries it is enqueued with
  VisibilityTimeout,   \* QueueOptions.visibilityTimeoutMs, in ticks
  BackoffBase,         \* QueueOptions.backoffBaseMs, in ticks
  MaxFaults            \* bound: consumers that crash or overrun their lease

ASSUME ParameterAssumption ==
  /\ MaxRetries \in [Messages -> Nat] /\ MaxFaults \in Nat
  /\ VisibilityTimeout \in Nat \ {0} /\ BackoffBase \in Nat
  /\ None \notin Messages /\ IsFiniteSet(Consumers)

VARIABLES
  queue,        \* the messages of the queue, in the order of the array
  dead,         \* the dead-letter queue
  unsent,       \* the messages no producer has enqueued yet
  enforcing,    \* whether the visibility timer runs
  holding,      \* the message each consumer is handling, or None
  held,         \* for how many ticks, up to VisibilityTimeout
  handled,      \* the messages some handler has finished without throwing
  faults        \* crashes and overruns so far

vars == <<queue, dead, unsent, enforcing, holding, held, handled, faults>>

Min2(a, b) == IF a <= b THEN a ELSE b

\* A message in flight was taken while it was visible, at least once.
Envelope ==
  {e \in [id : Messages, attempts : Nat, inFlight : BOOLEAN,
          wait : Nat, lease : Nat] : e.inFlight => e.wait = 0 /\ e.attempts > 0}

Fresh(m) == [id |-> m, attempts |-> 0, inFlight |-> FALSE, wait |-> 0,
             lease |-> 0]

Visible(msg) == ~msg.inFlight /\ msg.wait = 0

Pick(S) == CHOOSE i \in S : \A j \in S : i <= j

\* Where ack and nack find message m: it has to be in flight, whoever
\* dequeued it.
Find(m) == {i \in DOMAIN queue : queue[i].id = m /\ queue[i].inFlight}

\* The envelope after dequeue.
Delivered(msg) ==
  [msg EXCEPT !.inFlight = TRUE, !.attempts = @ + 1,
              !.lease = VisibilityTimeout]

\* MUTANT: one retry too many.
ExhaustedLate(msg) == msg.attempts > MaxRetries[msg.id] + 1

Exhausted(msg) == msg.attempts > MaxRetries[msg.id]

\* The envelope after a nack that leaves it in the queue.
Requeued(msg) ==
  [msg EXCEPT !.inFlight = FALSE, !.lease = 0,
              !.wait = BackoffBase * 2 ^ (msg.attempts - 1)]

\* MUTANT: an expired message is made visible, but stays in flight.
ReleasedInFlight(msg) ==
  IF msg.inFlight /\ msg.lease = 0 THEN [msg EXCEPT !.wait = 0] ELSE msg

\* The envelope after a round of the visibility timer.
Released(msg) ==
  IF msg.inFlight /\ msg.lease = 0
  THEN [msg EXCEPT !.inFlight = FALSE, !.wait = 0]
  ELSE msg

Init ==
  /\ queue = <<>>
  /\ dead = <<>>
  /\ unsent = Messages
  /\ enforcing = FALSE
  /\ holding = [c \in Consumers |-> None]
  /\ held = [c \in Consumers |-> 0]
  /\ handled = {}
  /\ faults = 0

Enqueue(m) ==
  /\ m \in unsent
  /\ unsent' = unsent \ {m}
  /\ queue' = Append(queue, Fresh(m))
  /\ UNCHANGED <<dead, enforcing, holding, held, handled, faults>>

\* An idle consumer takes the first visible message.
Dequeue(c) ==
  LET ready == {i \in DOMAIN queue : Visible(queue[i])}
  IN /\ holding[c] = None
     /\ ready # {}
     /\ queue' = [queue EXCEPT ![Pick(ready)] = Delivered(@)]
     /\ holding' = [holding EXCEPT ![c] = queue[Pick(ready)].id]
     /\ held' = [held EXCEPT ![c] = 0]
     /\ UNCHANGED <<dead, unsent, enforcing, handled, faults>>

Release(c) ==
  /\ holding' = [holding EXCEPT ![c] = None]
  /\ held' = [held EXCEPT ![c] = 0]

\* The handler succeeds and the consumer acks.
Ack(c) ==
  LET m == holding[c]
  IN /\ m # None
     /\ queue' = IF Find(m) = {} THEN queue ELSE RemoveAt(queue, Pick(Find(m)))
     /\ handled' = handled \cup {m}
     /\ Release(c)
     /\ UNCHANGED <<dead, unsent, enforcing, faults>>

\* MUTANT: an exhausted message is dropped.
NackDropping(c) ==
  LET m == holding[c]
      i == Pick(Find(m))
  IN /\ m # None
     /\ queue' = IF Find(m) = {} THEN queue
                 ELSE IF Exhausted(queue[i]) THEN RemoveAt(queue, i)
                 ELSE [queue EXCEPT ![i] = Requeued(@)]
     /\ Release(c)
     /\ UNCHANGED <<dead, unsent, enforcing, handled, faults>>

\* The handler throws and the consumer nacks: the message is retried later, or
\* moves to the dead-letter queue.
Nack(c) ==
  LET m == holding[c]
      i == Pick(Find(m))
  IN /\ m # None
     /\ \/ /\ Find(m) = {}
           /\ UNCHANGED <<queue, dead>>
        \/ /\ Find(m) # {} /\ Exhausted(queue[i])
           /\ queue' = RemoveAt(queue, i)
           /\ dead' = Append(dead, queue[i])
        \/ /\ Find(m) # {} /\ ~Exhausted(queue[i])
           /\ queue' = [queue EXCEPT ![i] = Requeued(@)]
           /\ UNCHANGED dead
     /\ Release(c)
     /\ UNCHANGED <<unsent, enforcing, handled, faults>>

\* A consumer dies before it acks, and another takes its place.
Crash(c) ==
  /\ holding[c] # None
  /\ faults < MaxFaults
  /\ faults' = faults + 1
  /\ Release(c)
  /\ UNCHANGED <<queue, dead, unsent, enforcing, handled>>

StartVisibilityEnforcement ==
  /\ ~enforcing
  /\ enforcing' = TRUE
  /\ UNCHANGED <<queue, dead, unsent, holding, held, handled, faults>>

Stop ==
  /\ enforcing
  /\ enforcing' = FALSE
  /\ UNCHANGED <<queue, dead, unsent, holding, held, handled, faults>>

\* One round of the visibility timer, when there is something for it to do.
Enforce ==
  /\ enforcing
  /\ \E i \in DOMAIN queue : queue[i].inFlight /\ queue[i].lease = 0
  /\ queue' = [i \in DOMAIN queue |-> Released(queue[i])]
  /\ UNCHANGED <<dead, unsent, enforcing, holding, held, handled, faults>>

\* Time passes.  Handlers finish within the visibility timeout, except for
\* those that are counted as faults.
Tick ==
  LET overruns == Cardinality({c \in Consumers :
        holding[c] # None /\ held[c] = VisibilityTimeout - 1})
  IN /\ \/ \E i \in DOMAIN queue : queue[i].wait > 0 \/ queue[i].lease > 0
        \/ \E c \in Consumers :
             holding[c] # None /\ held[c] < VisibilityTimeout
     /\ faults + overruns <= MaxFaults
     /\ faults' = faults + overruns
     /\ queue' = [i \in DOMAIN queue |->
                    [queue[i] EXCEPT !.wait = IF @ > 0 THEN @ - 1 ELSE 0,
                                     !.lease = IF @ > 0 THEN @ - 1 ELSE 0]]
     /\ held' = [c \in Consumers |->
                   IF holding[c] = None THEN 0
                   ELSE Min2(held[c] + 1, VisibilityTimeout)]
     /\ UNCHANGED <<dead, unsent, enforcing, holding, handled>>

Next ==
  \/ \E m \in Messages : Enqueue(m)
  \/ \E c \in Consumers : Dequeue(c) \/ Ack(c) \/ Nack(c) \/ Crash(c)
  \/ StartVisibilityEnforcement \/ Stop \/ Enforce
  \/ Tick

\* Consumers poll in a loop and their handlers finish; time passes, and the
\* interval timer fires as long as it is not cleared.
Fairness ==
  /\ \A c \in Consumers : WF_vars(Dequeue(c)) /\ WF_vars(Ack(c) \/ Nack(c))
  /\ WF_vars(Enforce)
  /\ WF_vars(Tick)

Spec == Init /\ [][Next]_vars /\ Fairness

-----------------------------------------------------------------------------
(* Properties. *)

QueueIds == {queue[i].id : i \in DOMAIN queue}
DeadIds == {dead[i].id : i \in DOMAIN dead}

\* Every variable has its type, and no message waits while it is in flight.
TypeOK ==
  /\ queue \in Seq(Envelope)
  /\ dead \in Seq(Envelope)
  /\ unsent \subseteq Messages
  /\ enforcing \in BOOLEAN
  /\ holding \in [Consumers -> Messages \cup {None}]
  /\ held \in [Consumers -> 0..VisibilityTimeout]
  /\ handled \subseteq Messages
  /\ faults \in 0..MaxFaults

\* At-least-once delivery (README:59-70): a message that was enqueued is in
\* exactly one of the queue and the dead-letter queue, once, or a handler has
\* finished it; stale acks and nacks of consumers that lost their lease do not
\* make it vanish or appear twice.
NothingLost ==
  /\ TypeOK
  /\ Cardinality(QueueIds) = Len(queue)
  /\ Cardinality(DeadIds) = Len(dead)
  /\ QueueIds \cap DeadIds = {}
  /\ unsent \cap (QueueIds \cup DeadIds \cup handled) = {}
  /\ Messages \ unsent \subseteq QueueIds \cup DeadIds \cup handled

\* "Total attempts = 1 (initial) + maxRetries" (queue.ts:179-181): no message
\* is given up earlier, and each attempt beyond is owed to a consumer that
\* crashed or overran its lease.
RetryBudget ==
  /\ \A i \in DOMAIN dead : dead[i].attempts > MaxRetries[dead[i].id]
  /\ \A i \in DOMAIN queue :
       queue[i].attempts <= MaxRetries[queue[i].id] + 1 + faults

\* While the visibility timer is left running every message that is enqueued
\* leaves the queue in the end, acknowledged or dead-lettered, whatever
\* crashes, overruns and stale answers come in between.
EveryMessageSettles ==
  <>[]enforcing =>
    \A m \in Messages : (m \in QueueIds) ~> (m \notin QueueIds)

\* "With the visibility timeout only one consumer processes at a time"
\* (README:192): of the consumers that hold one message at most one is still
\* within its lease.
OneConsumerWithinLease ==
  \A a, b \in Consumers :
    /\ holding[a] # None
    /\ holding[a] = holding[b]
    /\ held[a] < VisibilityTimeout
    /\ held[b] < VisibilityTimeout
    => a = b
=============================================================================
