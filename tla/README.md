# A verification project for learn-api

learn-api is a course in TypeScript: nineteen directories, each with a small
program that shows one way in which services talk to each other, replicate or
agree. Many of the programs contain a real algorithm in memory: a Raft cluster,
a message queue with leases and retries, two-phase commit, sagas, an outbox, a
Kafka-like log, a circuit breaker, CRDTs, event sourcing, a gateway. This directory
models those algorithms in TLA+, checks the models with TLC, and proves the most
important results with TLAPS.

All paths below are relative to `src/`; `15:142` stands for line 142 of the main
source file of directory 15.

## 1. Inventory

| Component | State | Operations | Interacts with | What is hard | What makes it correct |
|---|---|---|---|---|---|
| **Raft** `15-consensus/raft.ts` | per node: role, term, vote, log, commit index, applied entries, deadline, nextIndex/matchIndex; per cluster: down nodes, partition, clock | `tick` (elections, then heartbeats), `propose`, `crashNode`, `restartNode`, `setPartition`, `healPartition` | nodes call each other synchronously | several nodes time out in one tick; leaders cut off for some terms; restarts; conflicting tails; the quorum with few reachable peers | one leader per term, logs match, a minority can do nothing, a healthy cluster converges |
| **Message queue** `09-message-queues` | array of messages (attempts, inFlight, visibleAt, ackDeadline), dead-letter queue, visibility timer | `enqueue`, `dequeue`, `ack`, `nack`, timer round, start and stop | any number of consumers await handlers between `dequeue` and `ack`/`nack` | late acks and nacks, the timer racing a handler, crashed consumers, off-by-one between retries and attempts | nothing is lost or duplicated in the queues, attempts stay within the retries, every message settles |
| **Two-phase commit** `16-distributed-transactions/two-phase-commit.ts` | participant: state, lock, log, alive; coordinator: state, decision, alive | `prepare`, `commit`, `abort`, `recover`, `applyDecision`, `run` | the coordinator calls its participants one after the other | crashes before and after a vote, a loop that stops half-way, recovery in doubt | atomic commitment; participants in doubt wait; a decision reaches everybody |
| **Saga** `16-…/saga.ts` | orders, stock, payments, shipments; the stack of compensations | orchestrated and choreographed `execute` | sagas share the stock | failure in the middle, the order of compensations | all or nothing after compensation; stock is conserved |
| **Outbox** `16-…/outbox.ts` | orders, outbox rows, transaction buffer; messages on the bus | `createOrderDualWrite`, `createOrderWithOutbox`, `pollOnce`, `publish` | service → database → poller → bus | a crash between commit and publish, or between publish and mark | an event for exactly the orders that exist, once, eventually |
| **Event log** `10-kafka/event-log.ts` | partitions of records, committed offsets, consumers' positions, the assignment | `produce`, `poll`, `commit`, `seek`, `subscribe`, `unsubscribe`, `applyRetention` | consumers of a group share partitions | rebalance with uncommitted positions, seek and commit, retention that renumbers | one owner per partition, at-least-once, order per key |
| **Microservices** `12-microservices` | breaker: state, counts, last failure, test flag; registry: instances, heartbeats, round-robin | `call`, `register`, `heartbeat`, `discover`, health check, `GET /orders/:id` | order service → registry, breaker → user service | answers that arrive in a later breaker state, dead instances still listed, a test call that hangs | one test call at a time, bounded staleness of discovery, recovery |
| **Reconciliation** `14-eventual-consistency` | G-counter, PN-counter, G-set, 2P-set, OR-set; vector clocks; replicas with versions; Merkle trees | `inc`, `add`, `remove`, `merge`; `local`, `receive`; `readRepair`; `syncBidirectional` | replicas exchange states | merges in any order, repeated and out of date | convergence, no resurrection; clocks decide causality exactly |
| **Event sourcing** `11-event-driven` | the event log, latest versions, subscribers; three views | commands, `append`, `subscribe`, `replayTo` | handler → store → projections | two writers with one version, replays on views that are not empty | versions without gaps, views equal a fold of the log |
| **CAP cluster and consistency models** `13-distributed-systems` | nodes with versioned values, partition; registers and their replicas; causal logs | `write`, `read`, `partitionInto`, `heal`, `reconcile`, `crash`, `recover`; `tick`, `propagate` | writes replicate to reachable nodes | majorities that change with every partition; replies relayed before their posts | CP: the newest write is on a majority; CA: no two nodes differ; AP: stale reads are marked; sessions read their own writes; causes come first |
| **cr-sqlite sync** `18-cr-sqlite`, `tmp` | rows with versions (in the extension), `lastSentVersion` | push loop, `/sync`, `/write` | nodes push to peers over HTTP | peers that are unreachable when a change is pushed | every change reaches every peer |
| **Gateway** `08-api-gateway` | rate-limit windows; rows of two backends | the middleware chain, proxy with timeout, dashboard | gateway → user-service, order-service | window boundaries, a backend that goes on after the gateway gave up, two reads at different times and their join | at most twice the limit in a window's time, answers that are true, what was acknowledged is shown, an order under its user |
| **Webhooks** `03-webhooks` | subscriptions, tasks; ids a receiver has seen | subscribe, create, patch, deliver, receive | sender → any number of receivers | overlapping requests, deliveries that time out and arrive all the same | completed once per completion, no event processed twice in a receiver's life |
| **Server-sent events, chat** `04-sse`, `05-websockets` | streams and buffers; sockets and names | open, broadcast, parse; join, talk, close | server → clients | chunks that end anywhere, also inside a character, changes beside a stream's opening, sockets that break | a client's picture is the server's, but for a title spoilt on the way; one conversation for all |
| **Task APIs** `01`, `02`, `06`, `07`, `shared` | a map of tasks each | create, read, update, delete | the same data behind four protocols | blank titles, titles with spaces around them, fields left out, protocol defaults | the stores agree, but for differences that can be named |
| **WAL shipping** `17`, **HTTP protocols** `19` | - | - | an external binary; node's own HTTP stacks | outside the repository | - |

The repository has no tests. Its READMEs, the comments in the code and the demo
scripts say what the programs are for, and the findings below quote them.

## 2. Plan

The order follows the weight of the algorithm in the repository.

| # | Module | Composition, abstract specification | Run | Theorems |
|---|---|---|---|---|
| 1 | `Raft`, `MCRaft`, `MCRaftRecovery`, `MCRaftFall` | whole cluster in one module | `raft_crash_stop`, `raft_recovery`, `raft_commit_falls`, `raft_double_vote`, `raft_commit_minority` | types, election safety, log matching, final votes, powerless minorities, commits that fall only with loss |
| 2 | `MessageQueue`, `MCMessageQueue` | queue with its consumers | `message_queue`, `queue_lease` | nothing lost, retries in budget |
| 3 | `TwoPhaseCommit` | implements `AtomicCommit` | `services` | types, agreement, refinement, waiting in doubt |
| 4 | `CircuitBreaker`, `ServiceRegistry`, `OrderService` | order service composes breaker and registry | `order_service` | one test call, counters, the registry |
| 5 | `EventLog`, `MCEventLog` | broker and consumer group in one module | `event_log`, `event_log_retention` | range assignment, at least once, resuming |
| 6 | `Saga`, `Outbox` | implement `AtomicOrder`, `ReliableDelivery`; `Transactions` joins them | `services` | refinement of `AtomicOrder`, of `ReliableDelivery` as far as safety goes, stock accounting, the stores agree |
| 7 | `EventSourcing` | store, handler and views in one module | `services` | legal histories, views that match |
| 8 | `CapCluster`, `Registers`, `CausalStore`, `Crdt`, `CausalClocks`, `ReadRepair`, `AntiEntropy`, `ChangesetSync` | one program each, side by side in `MCReplication` | `replication` | the promises of CAP modes and registers, clocks, nothing forgotten, causal order, convergence of the CRDTs |
| 9 | `Gateway`, `Webhooks`, `Chat`, `EventStream`, `TaskApis` | one program each, with 3, 6 and 7 side by side in `MCServices` | `services` | gateway, webhooks, chat, event streams, the APIs agree |

All nine are built and checked, and every safety property of the plan but one is
proved; section 12 lists what is not. The proofs of rows 3 and 6 stand in
`TransactionProofs`, those of row 8 in `ReplicationProofs`, those of rows 7 and 9 in
`WebServicesProofs`, and those of the other rows in a module each (`RaftProofs`, ...).
`FoldLemmas` has the laws of folds over sequences and sets that three of them use. Modules
that are proved about use no RECURSIVE operator; `AntiEntropy` alone has some, and
`MCReplication`, which extends it.

`MCServices` and `MCReplication` put programs side by side that share no state. A
variable (`service`, `program`) picks in the initial state the one a behaviour
follows; the others keep their initial values, so that the state space is the sum
and not the product. Every behaviour of a program appears there as it would in a
run of its own.

## 3. Raft

`Raft.tla` follows the program: a node is a record with the fields of `RaftNode`,
and each operator carries the name of the method it translates. The program has
one thread and its RPCs are plain calls, so an election with all its votes,
`becomeLeader` and the first broadcast are one step (`StartElection`), and so are
a proposal and a heartbeat with all answers. A tick is a loop over the nodes, first
for timeouts, then for heartbeats; `phase` and `cursor` are its program counter,
because what the next node sees depends on what the one before did. Proposals and
failures happen between ticks.

Kept as the code has them, and not as the Raft paper does: `restartNode` clears
the vote; the answer to AppendEntries carries the follower's whole log length; a
broadcast stops at the first higher term; a candidate ignores the term in a vote
answer; `becomeLeader` resets the indices of the reachable peers only; a crashed
node's role stays frozen.

A deadline is modelled as the ticks left until it (`timer`). The random jitter is a
nondeterministic choice; `Overrun` is 1 when the generator may return 1.0, which
`range` turns into one tick more than its maximum. The state machine of a node is
a fold of `applied`, and the values of commands do not matter. `propose` answers
true whether or not the entry was committed, in spite of its comment (15:287); the
model has no return value and no property depends on it.

| Run | Bounds | What it shows |
|---|---|---|
| `raft_crash_stop` | 3 nodes, terms to 2, logs to 2, 2 faults, any crash, either end of the ring cut off, no restart; 464,435 states | election safety and the quorum behind each leader, log matching, final votes, powerless minorities |
| `raft_recovery` | terms to 3, logs to 1, 2 faults, node 1 restarts; 727,381 states | after two of the longest election timeouts without a disturbance a connected majority has one leader that all follow; one more tick per entry and all logs agree |
| `raft_commit_falls` | 5 nodes, terms to 4, logs to 4, 5 faults, the moves between the ticks given; 1,838 states | a commit index falls from 3 to 2, and only with loss |
| `raft_double_vote` | every node restarts, 3 faults | *violated*: two leaders of one term |
| `raft_commit_minority` | every split, no restart | *violated*: an entry is committed that one node has |

Why the bounds are enough: three nodes are the smallest cluster with a real
majority; two terms give an old leader and a new one, and two entries a conflict
that has to be truncated behind a matching prefix; with a third term a healed
cluster can elect anew. A node at `MaxTerm` does not time out; a leader with
`MaxLog` entries takes no proposal; `MaxFaults` bounds crashes and partitions, and
heals and restarts are free.

`raft_recovery` states convergence as a bound and not with fairness: `calm` counts
the ticks since the last disturbance, and the invariant says what must be true when
enough of them have passed (`HealthyClusterRecovers`: one leader, then equal logs). It
needs two election timeouts, not one, because a candidate that is behind learns the newer
term only when its rival calls.

**Findings.** (1) `restartNode` forgets the vote and keeps the term (15:505): a
restarted voter votes again, and two leaders share a term, which `demo.ts:410` and
`:439` rule out. (2) `handleAppendEntries` answers with its last index even when
the entries after the request's are another leader's (15:279), and the leader takes
that as `matchIndex` (15:334): it commits an entry that no follower has, against
`README.md:210` and `:612`.

**Proofs.** `RaftProofs` proves `TypeCorrect` for every value of the constants, and
`AtMostOneLeaderPerTerm`, `LeadersKeepTheirQuorum`, `LogsMatch` and `VotesAreFinal` for
`CrashStopSpec`, in which nobody calls `restartNode`: the first finding makes
that restriction necessary. `MinoritiesArePowerless` holds with restarts too.

*Election safety* is not inductive: a second leader could be elected if the first
one's voters had vanished. `LeaderHasQuorum` adds that a majority stands by each
leader: it still has its vote for it or has left its term. The argument has two
parts. Whatever a node hears, it only *evolves*: its term does not fall, within a
term a vote given is kept, and no one becomes leader; evolution keeps leaders'
backers (`EvolutionIsSound`). And when `startElection` counts a majority, that
majority shares a node with the backers of any other leader of the term, which
would have to have voted twice (`NoRival`). `TypeCorrect` and this invariant are also
invariants of `raft_crash_stop`.

*Log matching* follows the code's own reasoning. The log a follower ends a
broadcast with is, entry for entry, the one it had or the leader's; so a broadcast
makes no new log, and only a proposal does. That the index a proposal fills is free in
the leader's term everywhere else needs the rest of the invariant `LogInv`: a majority
once stood by the author of each entry in the entry's term (`Authored`), and a leader
holds every entry of its term that anybody holds (`Held`). `LogInv` thus rests on
election safety.

*Commit indices can fall.* A follower takes over the smaller of the leader's commit
index and the last index of the request (15:272), whatever it has committed before. In a
cluster of five the second finding makes that bite: two followers with long tails of an
old term inflate `matchIndex`, so that leader X commits index 4 while one follower
commits 3; another leader cuts X's log to two entries; X is elected again and tells the
follower min(4, 2) = 2. That takes five nodes, logs of four entries and four terms, more than
TLC can search. `MCRaftFall` therefore gives the proposals, partitions and crashes of one such
course in their order and leaves the ticks between them to `Raft`, with every jitter under which
the node that is to lead times out first. Its last action, `Over`, has the fall as its guard, so
that the run shows the index falling. The property is what the code does keep:
`CommitFallsOnlyWithLoss`, a node's commit index falls only when it lies above the end
of some node's log and below that node's own commit index, so that this node has lost at
least two entries it had committed. `CommitsFallOnlyWithLoss` proves it, with restarts too: a request that is accepted reaches
exactly to the end of the leader's log (`RequestReachesEnd`: an index behind that end
has no term which a follower's entry could match), so that the bound a follower takes over is the
leader's commit index unless the leader's own log ends before it; and nothing else
lowers a commit index (`Recedes`, through polls, broadcasts and proposals).

## 4. Message queue

`MessageQueue.tla` is one queue with its dead-letter queue, the visibility timer and
the consumers of `consumer.ts`. Every method is synchronous and is one action. A
consumer awaits its handler between `Dequeue` and `Ack` or `Nack`, and anything may
happen there: the timer, other consumers, its own crash. `visibleAt` and
`ackDeadline` are modelled as the ticks left (`wait`, `lease`); `ack` and `nack` find
a message by its id and the inFlight flag, whoever dequeued it, as the code does.

`message_queue` has two messages, with no retry and with one, two consumers, a
visibility timeout of 4 and a backoff of 1, so that a retry comes back within the
lease of a slow consumer, and two faults (a crash, or a handler that overruns its
lease), which is what it takes for a stale answer to hit another consumer's delivery.
It checks that nothing is lost or present twice (`NothingLost`, with the types), that
attempts beyond the retries are owed to faults one by one (`RetryBudget`: `attempts`
is compared with `maxRetries` at a nack only), and that every message leaves the queue
if the timer is left running (`EveryMessageSettles`).

Fairness: consumers poll in a loop (`consumer.ts:119-175`), handlers finish, time
passes, and `setInterval` fires while it is not cleared. Nothing is assumed about
producers or about starting and stopping the timer; the property names the
behaviours in which it stays on.

**Finding.** `queue_lease` is violated: the nack of a consumer that has lost its
lease requeues the message that another consumer is handling, and a third delivery
runs beside it within the lease. `README.md:192` says that only one consumer
processes a message at a time.

**Proofs.** `MessageQueueProofs` proves `NothingIsLost` and `RetriesStayInBudget` for any
finite set of consumers and any numbers of messages, retries and ticks. The invariant
says besides the types that an id stands at one place in one of the two arrays
(`Settled`), that no consumer holds a message that was never sent, and of each message
that it is `Owed` its attempts: they are within the retries and the faults so far, or
exceed them by one while an owner who has not failed yet still has it under lease - the
time it has held it and what is left of the lease make up the visibility timeout. That
clause is what a stale nack cannot break without a fault to pay for it. What removing
a message, adding one and changing one in place do to the positions of the others is
shown in lemmas of their own (`Removal`, `Addition`, `InPlace`).

## 5. Two-phase commit

`TwoPhaseCommit.tla` has N participants with every vote and every crash the
`behavior` options can inject, and the coordinator's `run`, whose loops are unrolled
into one step per call (`phase`, `turn`); its early returns are the `Return` steps. After
`run` has returned, participants and coordinator recover and the caller hands the
decision on, as `demo.ts:150-170` does, in any order and any number of times.

`AtomicCommit.tla` is what a transaction promises its participants: promise,
commit when everybody has promised, abort when nobody has committed.
`ImplementsAtomicCommit` is the refinement, with the outcomes read off the
participants' states. `InDoubtWaits` says that a PREPARED participant leaves that state
only for a decision taken by the coordinator, and `DecisionReachesAll` that a decision
once taken reaches everybody and frees every lock. The run `services` checks them with
three participants, the least with a first, a middle and a last one in the loops;
the state space (3,850 states) is complete, with no bound. Fairness: `run` is a
synchronous function and does not stop in the middle, crashed parties are recovered,
and the caller applies a decision that exists; the demo does just that.

`DecisionReachesAll` starts from a decision. When there is none (the coordinator
crashed between the phases, or a participant crashed in `prepare`) the participants
that voted YES stay locked for ever: `Coordinator.recover` goes back to IDLE and no
code decides. The source presents this as 2PC's blocking problem.

**Proofs.** `TransactionProofs` proves, for every N, `TypeCorrect`,
`ParticipantsAgree`, `InDoubtParticipantsWait` and `Refinement`. The inductive
invariant `Sound` adds to agreement what the program counter says about the votes
collected so far, which decision belongs to which place of `run`, which states belong
to which decision (COMMIT: everybody is PREPARED or COMMITTED), and that a participant
in doubt is PREPARED, so that its recovery changes nothing.

## 6. Microservices

`CircuitBreaker.tla` and `ServiceRegistry.tla` are the two classes as operators on the
state of one breaker and on the instances of one service. `OrderService.tla` puts them
to work: overlapping `GET /orders/:id`, user-service with its fail mode, heartbeat and
health check timers. A request is one step up to the fetch (`Order`; it ends there
with 502 when nothing is discovered, or 503 when the breaker rejects), then
user-service's answer (`Serve`), then the rest of `breaker.call` and of the handler
(`Answer`). Between these steps everything else may happen, and that is the point:
the outcome of a call is counted in the state the breaker has *then*.

`lastFailureTime` is modelled as the ticks left of the cooldown and `lastHeartbeat` as
an age that saturates past the timeout. A timer fires on time, unless the event loop
is blocked (`Stall`) for longer than the heartbeat timeout; then all timers are late and
run in any order. `Close` is `server.close()`: the heartbeat timer goes on, as in the
code, so that the registry keeps handing out the dead address until somebody
deregisters it (`Leave`; nobody in the repository does).

`order_service` has two instances, two requests, thresholds of 2 (so that one outcome
does not decide) and one fault. Two requests are what it takes: one from before the
breaker opened and one test call. `OneTestCall` says that the flag and the test call
in flight agree, `CountersMatchState` that the counters fit the state for every order
of outcomes, `RegistryInOrder` that only a late heartbeat makes a running instance
unhealthy, that it is revived by the next one, and that the round-robin index and all
else keep their types, and `BreakerRecovers` that the breaker closes for good when,
from some time on, all registered instances work. Fairness: clients keep asking,
timers fire, and a fetch ends in some way (the code sets no timeout; node's fetch has
its own).

One thing no run states: `onSuccess` counts every success that arrives in
HALF_OPEN (`circuit-breaker.ts:129`), also that of a call let through before the breaker
opened, while the README (`:133`, `:147`) speaks of successes in a row of one test call
at a time. The model has that behaviour, and `CountersMatchState` and `BreakerRecovers`
hold with it.

**Proofs.** `OrderServiceProofs` proves `AtMostOneTestCall` and `CountersFitState` for
every number of requests and instances and every threshold. With the types of breaker
and requests both are inductive; nothing is needed about the registry, because it only
chooses the address. `RegistryStaysInOrder` has an invariant of its own: each address is
listed once (`Once`), and an instance whose next heartbeat is still to come is healthy
and not older than the heartbeats' distance (`Timed`). Its hardest part is the
round-robin: that the index, counted over the healthy instances, finds one among all
(`NthPosition`). It assumes finitely many addresses, and that heartbeats are more
frequent than the timeout (`BeatEvery <= HeartbeatTimeout`), as the defaults are.

## 7. Event log

`EventLog.tla` is one topic and one consumer group. The broker's and the consumers'
methods are synchronous steps; a consumer polls, handles its batch, and commits, as
`README.md:193-199` and `consumer.ts` do, and everything else may happen in between.
Offsets are indices, so a position or a committed offset is the number of records
before it. The assignment is not a variable: `rebalance` runs at every join and leave
and computes it from the list of consumers (`RangeOf`, the loop's cursor in closed
form). A consumer that leaves drops what it was handling. `ApplyRetention` removes the
oldest records of all partitions and renumbers the rest, as `trimOlderThan` does.

`event_log` has three partitions and two consumers, the README's example with a
remainder, two records, so that a position can lie between them, four joins, so that
both consumers can come back, and one round of retention.

`EveryPartitionOwned` says that assignments are complete, exclusive and balanced (and
the types); `AtLeastOnce` that what is committed was handled, in every order of
rebalances, replays, crashes and commits; `ResumesFromCommitted` that only a replay
takes the owner of a partition behind its committed offset; `EveryRecordHandled` that
nothing is left unhandled while the group is not empty. Fairness: consumers poll in a
loop and finish what they have polled; nothing is assumed about joins, commits and
seeks. Deadlock is not checked: when the bounds on joins and records are used up and
everybody has left, nothing more happens.

**Finding.** `event_log_retention` is violated: after retention has renumbered the
records (`event-log.ts:70`), the committed offset of a group lies behind records that
were never delivered, and they never will be. `README.md:74` says that offsets are never
reset, and the comment at `event-log.ts:61` that they stay consistent. `AtLeastOnce`
therefore speaks of the partitions retention has not touched.

**Proofs.** `EventLogProofs` proves `PartitionsHaveOneOwner`, `CommittedWasHandled` and
`OwnersResume` for any number of partitions, consumers and records. The first is
arithmetic: with quotient and remainder, the cursor of `rebalance` starts at no partition,
moves by an even share or one more for each consumer, and ends after all of them. The
second needs an invariant about positions that are not committed yet: what an owner has
read is handled or in its hands (`Progress`), and a consumer that is not handling has
nothing in its hands.

## 8. Sagas and the outbox

`Saga.tla` has both variants of `saga.ts` over one `World`: the orchestrator with its
stack of compensations, and the choreography, whose services react to the last event.
`execute` awaits nothing, so sagas do not overlap; each step is an action of its own
all the same, which shows the states between two steps. An order goes through either
variant, payment may be declined, and an order may find too little stock or a sku
that was never seeded. `AtomicOrder.tla` is the promise: an order completes and takes
its quantity, or fails and leaves no trace. `SagaIsAtomic` is the refinement; the stock
seen from outside is what is available plus what the unfinished saga holds.
`EffectsAddUp` says in addition, for every state between two steps, that what is
reserved is what confirmed orders and the running saga took, and that the effects in
force are those of a first part of the steps.

`Outbox.tla` has the dual write, the write through the outbox table, the poller row by
row, and the bus that drops ids it has seen. The poller may die between any two of its
calls, the case `README.md:316` of chapter 16 describes. Its abstract
specification, `ReliableDelivery`, delivers every accepted event exactly once, in the
end; `OutboxDelivers` is the refinement, with the dual-write orders, which promise
nothing, left out. `StoresAgree` (in `EffectsAddUp`) holds for both ways of writing.
Fairness: a round goes on while the process lives, and rounds recur; the number of
deaths is bounded.

Bounds: four orders over three units of one sku, of which two of the large ones do not
both fit, and one order of an unseeded sku; three orders through the outbox, so that a
batch has a row before and a row behind the one at which the poller dies; two deaths,
so that the same row can be published three times.

**Proofs.** `TransactionProofs` proves `SagasAreAtomic`, the refinement, and
`EffectsAlwaysAddUp`, for any finite set of orders, any skus, quantities and stock.
The invariant `SagaInv` adds to the accounting of the stock what the place of `execute`
tells of the running order: which effects it has, and what is on the stack of
compensations (`WithoutStock`, `WithStock`, `Undone`); every other order is `Settled`.
Only `World.orders` shows in the abstract variables (`OrdersTell`), so that a step that
leaves it alone is a stutter, confirming an order is completing it, and cancelling it is
failing it; that it completes with all effects is what the invariant says there.
What is reserved is the sum of quantities over a set of orders, a fold of the community
modules. `FoldLemmas` counts it as a set: the sum of a function is the cardinality of
its *units*, the pairs of an element and a number up to its value (`FoldIsSum`), so that
adding an order adds its quantity, which is all that reserving and releasing need.

The outbox's invariant says that the bus remembers what it carries, that the rows in
the poller's hands are rows of the table and those of orders, that rows carry numbers
already given, and that a row is published before it is marked (`Relaying`).
`OutboxRelays` proves from it the safety part of `OutboxDelivers`: initial states map to initial
states, and every step is a step of `ReliableDelivery` or a stutter. What is
delivered is the bus's messages without those of the dual write, a fold
(`Relayed`). The events of the dual write never have a row, a new row's event is not on
the bus yet, and publishing again what the bus has seen changes nothing. The liveness part stays with TLC.

## 9. Event sourcing

`EventSourcing.tla` is the store, the task aggregate as a fold of its events, the four
commands, and the three views of `projection.ts`, which subscribe at any length of the
log and may be cleared and rebuilt. The command handler loads, decides and appends in
one call; a writer that keeps what it loaded and appends later, as both writers of
`demo.ts:176` do, gets a `ConcurrencyError` when it is stale. `HistoryIsLegal` says that
versions have no gaps and each event was allowed in the state its predecessors leave,
although `append` looks at nothing but the version. `ViewsMatchAggregates` compares the
views, which interpret events with code of their own, with the aggregates. Two tasks,
two titles, one slow writer beside the handler and four events: create, complete,
reopen and one more, or events of two tasks in turn.

**Proofs.** `WebServicesProofs` proves `HistoriesAreLegal` and `ViewsShowAggregates` for
any number of tasks, titles, writers and events. Loading an aggregate, replaying a log
and each view are folds; with the laws of `FoldLemmas` (the fold of the empty sequence, of
an appended element, of a concatenation) the state after one more event is the fold's
last step. The invariant `EventInv` adds that what a slow writer holds is the aggregate of a
prefix of its task's history (`HeldWasLoaded`): when the version it expects is the current
one, that prefix is the whole, and the event it decided on is legal.

## 10. Replication (chapters 13, 14 and 18)

One run, `replication` (201,973 states), asks each program for what it promises.

- `CapCluster`: the three modes, partitions into two groups, crashes, and messages
  injected in AP mode. `ModesKeepPromises`: in CP the newest accepted write is on a
  majority though majorities change; in CA no two nodes differ; in AP, under a partition, a
  value that is read is marked stale exactly when a newer one exists; a write without a
  partition and a reconciliation bring all nodes to the newest version. An answer without a
  value, from a node that is down or was never written to, is not marked whatever the others
  have (`cap-theorem.ts:192-196`), and the property says nothing of it. Four nodes, so that a half is
  not a majority; two writes, one on either side of a change of groups.
  Two things the program says of CP are not so, and no property claims them: a read on
  the side of a minority returns an old value with `stale: false` (`cap-theorem.ts:8`,
  `README.md:95`), and the majority that a write asks for counts nodes that are down
  (`cap-theorem.ts:91`). Both behaviours are in the model.
- `Registers` (in `ModesKeepPromises`): strong, eventual and read-your-writes, with
  propagations that arrive in order and late. Four writes of two clients to three
  replicas.
- `CausalStore`: `CausalOrder` says that whatever a write's author had seen stands
  before the write in every log, by whatever path it came, and that a read returns
  nothing known to be overwritten. Three nodes, the least with a relay; three writes,
  a post, a reply and a reply to that.
- `Crdt`: the five classes, with copies of states that are merged late and repeatedly.
  `ValueIsOfKnownOps`: the value of a replica is a function of the set of operations it
  has heard of; convergence, and no resurrection, follow from it. Two replicas, three
  operations and three copies: add, remove and add again, with an old copy merged last.
- `CausalClocks`: `ClocksTellCausality` compares the vector clocks with what really
  happened before, which the model records. Three nodes, four events, two snapshots.
- `ReadRepair` and `AntiEntropy` (`ReplicasReconcile`): readers that repair with what
  they read earlier spread every write in the end; a Merkle round makes the replicas
  equal, for every set of up to five keys, which gives every shape of a level with an
  odd node. Fairness: readers keep reading and repair what they have read.
- `ChangesetSync`: the push loop of `sync.ts` sets `lastSentVersion` before it posts.
  `NothingForgotten` says exactly what may be missing at a peer and why;
  `ConvergesOnceAllReached` that the mesh converges when every node whose post failed
  has been restarted. Fairness: the
  timers fire and every fetch ends. Three sites, so that changes are passed on; two
  writes of a row that collide; one failed post and one restart.

The comments at `sync.ts:158` and `tmp/crsql-replicate.ts:159` ("retry next interval")
promise more than the code does: a change whose post failed is not sent again by that
process. `NothingForgotten` allows just that (`missed`).

Merging in cr-sqlite is done by an extension that is not in the repository; the model
takes from `sync.ts` how it is used (the higher version wins, then the larger value).

**Proofs.** `ReplicationProofs` proves for any number of nodes, replicas, clients and
writes:

- `PromisesAreKept` (`ConsistencyModes`, cluster and registers). For the cluster the
  promises are inductive once it is said that a partition has two groups, that no
  version is from the future, and that in AP some node has the newest one, so that a value
  with none above it is that one; two majorities share a node. For the registers: the strong copies are at the latest
  version, whoever is behind in the eventual register has the latest one coming, and the
  session cache holds a client's own last write.
- `ClocksTell`. The invariant says of every *view* (a node, a snapshot under way, an
  event) that it knows an event exactly when its clock has reached that event's tick
  of the event's node, and then has reached all of the event's clock; and that nobody is
  ahead of a node's own count.
- `NothingIsForgotten`. Wherever a row of a node beats a peer's, the node still has it
  marked unsent, or a push round carries it to that peer, or a post to it has failed.
  It rests on `wins` being a strict order, and on the rounds that read the table before
  a change: the change marks the row unsent again.
- `CausalOrderHolds` (`CausalOrder`). The readiness test skips the sender's component and
  a relay sends entries of other authors, so that the test alone does not order a log.
  The invariant `CausalInv` has four parts: no clock is ahead of the author's own count
  (`OwnersLead`), a node's clock covers the clocks of all it has logged (`ClocksCover`), different
  writes have different clocks, and one that another's author had seen an earlier one
  (`WritesDiffer`), and every log is in causal order (`InCausalOrder`). An entry is relayed from a log that holds its causes
  before it, and the receiver walks that log from its beginning.
- `ReplicasConverge` (`ValueIsOfKnownOps`), for every finite set of replicas. The
  invariant `CrdtInv` says what the state of a replica, or of a copy, is as a function
  of the operations it has heard of; views of one replica's own operations are nested,
  so that of two counts of a node the larger is the count of both views together. That
  makes the merge of counters the counter of the union, and a counter's value a sum, which
  is again the cardinality of a set of units.

## 11. The web services (chapters 01 to 08)

They are in the run `services` (155,038 states), with sections 5, 8 and 9.

- `Gateway`: the middleware chain, the rate limit's fixed windows, the proxy's timeout
  and the backend that goes on after it, the dashboard's two reads. The requests of a
  behaviour come from one of three scripts, each made for one question; when they
  arrive and how their handlers interleave is left open. `GatewayPromises`: a client
  gets through at most twice its limit in a window's time (it may: a window is fixed,
  and starts with a request); nobody is refused who has not used the limit; a dashboard
  shows what was acknowledged before it was asked for, a user as a row, an order in the
  total and in the row of its user, whatever became of that user's own POST; a 201 means that the row is
  there and a refusal that it is not. After a 502 either may be true. A limit of two and
  a horizon of two windows let a client meet the end of a window from both sides.
  order-service takes an order of any `userId` (`order-service.ts:76`): one that no user has is
  acknowledged, counted, and shown in no row (`gateway.ts:176`). A script has such an order. The
  figures the sources give differ: `gateway.ts:88` says 10 requests in 10 seconds,
  `README.md:29` says 30, which is the constant's value, and with fixed windows a client may
  get 60 through in 10 seconds.
- `Webhooks`: PATCH requests that overlap, one delivery per URL, each given up on by a
  timeout and perhaps arriving later; two URLs of one receiver, which restarts.
  `PushesTellWhatHappens` (module `Pushes`, with the chat): `task.completed` is fired once
  per completion and a receiver processes an event once in its life. There is no retry in
  the code, as `03-webhooks/README.md:77` says and the comment at `sender.ts:22` denies.
- `EventStream`: the stream as lines and newlines. A chunk ends anywhere. Where it
  ends within a line, what follows is put behind it in the buffer and the line is whole again, so
  that only three kinds of place matter: behind a line, between the two newlines that end an
  event, and inside a character of several bytes, since `client.ts:42` decodes each chunk by
  itself and loses such a character. One task's title has one (`WideId`); a line cut there comes
  out garbled. `StreamsFollowStore`: what the client was told, with what is in its buffer
  and on the wire, comes to what the server has, but for the title of a task that a chunk ended
  in. One stream, three changes or heartbeats after the initial state, and every way to cut it.
- `Chat`: a socket hears all that is said from its joining on, in order, whoever joins,
  breaks off or leaves meanwhile. Two sockets, four messages.
- `TaskApis`: one call made to REST, GraphQL, gRPC and tRPC, with titles that say
  something or nothing and have spaces around them or not. `ApisAgree` says where the
  four agree ("same data, different protocol", `shared/types.ts:2`) and how far they do
  after calls with blank titles or fields left out. gRPC is the odd one. It stores the title
  of an update with its spaces, which the others trim (`06-grpc/server.ts:138`): its tasks are
  the others' after trimming, and the same as theirs until an update has such a title. A field
  left out arrives as its default, so an update of a title reopens the task (line 139), and a list
  without a filter lists the open tasks only (line 175), though `task.proto:50` calls the filter
  optional; the property says exactly that of it.

Neither run checks for deadlock: when the bounds on writes, events or calls are used up
a program has nothing more to do.

**Proofs.** `WebServicesProofs` proves all of these for every value of the constants.

- `GatewayKeepsPromises`. `WindowsTell` relates a window to the requests let through: its
  count is theirs since the window was opened, none is later than the clock, and those
  of the window before were over when it was opened, so that any stretch of a window's
  length meets at most two windows. `RefusalsAreEarned` is part of the promise and
  inductive with it. `RowsArePerformed` and `Handled` tie the rows of the backends to the
  call of each request, and what a dashboard has read to the rows acknowledged before. That
  an order is in the row of its user needs one thing more: it was sent when that user
  existed, so that the users read hold it whenever the orders read hold the order.
- `PushesAreTrue`, from `WebhooksKeepPromises` and `ChatIsOneConversation`. Webhooks: an
  event that says a task is done, when it is not now, was followed by one that says so
  (`EventsTellTheStore`), and a receiver has processed exactly the ids it remembers
  (`HandledAsRemembered`). Chat: nothing is left of a socket that is gone (`GoneIsGone`).
- `TheApisAgree`. The stores themselves are compared, gRPC's with its titles trimmed; that
  they hold the same ids, or fewer where an API refuses more, is kept by every call.
- `StreamsAreFollowed`. `StreamInv` says what a client will know once its buffer and the
  wire are read: the tasks the server has. Where a chunk ends between lines does not matter, since
  the parser's work is a fold over lines, and a fold over a concatenation is the fold of
  the second part from where the first has ended. Where it ends inside a character, the line
  that comes out is *alike* to the one that was written: the same but for the mark. Texts that
  are alike split into events that are alike, and readers that are alike stay so through them
  (`ReadAlike`): they know the same tasks, equally done, and differ in the title of `WideId` at most.

## 12. What is only model-checked

Liveness (`EveryMessageSettles`, `DecisionReachesAll`, `BreakerRecovers`,
`EveryRecordHandled`, `OutboxDelivers`, `ReplicasReconcile`, `ConvergesOnceAllReached`) is
checked by TLC and not proved: it rests on fairness, which the prover does not reason
about. Of `OutboxDelivers` that is the liveness part only; its steps are proved
(`OutboxRelays`). `AntiEntropy` builds its trees with RECURSIVE operators, which the
prover does not take. `HealthyClusterRecovers` is a bound on the time a cluster needs to
recover, and is checked within the bounds of `raft_recovery`. Of clusters with restarts
types, powerless minorities and the loss behind a falling commit index are proved; that
logs match and leaders are unique is false for them, as the first finding shows.

The prover has no rule of induction over data that takes an operator. `FoldLemmas`
replaces it where folds are concerned. Induction is stated with a set in the place of the
operator (`CountingUp`, `GrowingSequences`, `GrowingSubsets`) and comes from a least
counterexample over natural numbers. With it, a table of the values a fold passes
through exists for every sequence, any two such tables agree (`FoldExists`,
`FoldIsResult`), and `Result`, the last value, has the laws the proofs cite. A sum over a
finite set is treated likewise. That the models' folds are such results is shown once
for each of them.

## 13. What is not modelled

Payloads, statistics, event logs, printing and pauses are left out of every module.
Spans of the tracer (12) are touched by one request only and nothing depends on them.
WAL shipping (17) is done by a binary outside the repository, the programs of 19 show
node's own HTTP stacks and keep no state, and the demo scripts and clients call what is
modelled and print. Three-phase commit exists as printed text only.

## 14. Running it

    tlc -config raft_crash_stop.cfg MCRaft.tla
    tlc -config raft_recovery.cfg MCRaftRecovery.tla
    tlc -config raft_commit_falls.cfg MCRaftFall.tla
    tlc -config message_queue.cfg MCMessageQueue.tla
    tlc -config order_service.cfg OrderService.tla
    tlc -config event_log.cfg MCEventLog.tla
    tlc -config replication.cfg MCReplication.tla
    tlc -config services.cfg MCServices.tla
    tlapm FoldLemmas.tla
    tlapm RaftProofs.tla
    tlapm MessageQueueProofs.tla
    tlapm OrderServiceProofs.tla
    tlapm EventLogProofs.tla
    tlapm ReplicationProofs.tla
    tlapm TransactionProofs.tla
    tlapm WebServicesProofs.tla

`PROJECT.json` lists every run with its properties, for each property a mutant of the
model that TLC must find violating it, the source lines of every definition, the
hazards of the code and the theorems. A definition whose comment begins with MUTANT is
the mutated form for one of these and belongs to no specification.
