-------------------------------- MODULE Saga --------------------------------
(***************************************************************************)
(* The two order sagas of 16-distributed-transactions/saga.ts over one     *)
(* World.  `execute' is async but awaits nothing: a saga runs to its end   *)
(* before another starts, so at most one is `running'.  Its steps are      *)
(* separate actions here, which shows the states between two steps; only   *)
(* the starting actions are guarded by Idle.                               *)
(***************************************************************************)
EXTENDS Naturals, FiniteSets, SequencesExt

CONSTANTS
    Orders,     \* ids of the orders placed, each at most once per world
    Skus,       \* every sku a request may name
    Request,    \* order -> [sku, qty], the arguments of execute()
    Seed,       \* sku -> quantity given to seedStock()
    NoSaga      \* no execute() is running

ASSUME SagaAssumption ==
    /\ Request \in [Orders -> [sku : Skus, qty : Nat \ {0}]]
    /\ DOMAIN Seed \subseteq Skus
    /\ Seed \in [DOMAIN Seed -> Nat]
    /\ IsFiniteSet(Orders)

\* An execute() under way: its next step, or the last event of its choreography.
Execution == [order : Orders, kind : {"orchestration", "choreography"},
        at : {"reserve", "charge", "ship", "confirm", "compensate", "OrderCreated",
              "StockReserved", "StockReservationFailed", "PaymentCharged",
              "PaymentFailed", "StockReleased", "OrderShipped"},
        declined : BOOLEAN, shortage : BOOLEAN]

ASSUME ExecutionAssumption == NoSaga \notin Execution

VARIABLES
    orders,     \* World.orders: status, or "none" without a record
    stock,      \* World.stock: sku -> [available, reserved]
    payments,   \* World.payments
    shipments,  \* World.shipments
    events,     \* World.events, as <<type, order>>
    done,       \* the orchestrator's stack of steps to compensate
    running     \* the saga being executed, or NoSaga

world == <<orders, stock, payments, shipments, events>>
sagaVars == <<world, done, running>>

Sku(o) == Request[o].sku
Qty(o) == Request[o].qty
Idle == running = NoSaga
By(kind, at) == /\ ~Idle
                /\ running.kind = kind
                /\ running.at = at

SagaTypeOK ==
    /\ orders \in [Orders -> {"none", "CREATED", "CANCELLED", "CONFIRMED"}]
    /\ stock \in [DOMAIN Seed -> [available : Nat, reserved : Nat]]
    /\ payments \in [Orders -> {"none", "CHARGED", "REFUNDED", "DECLINED"}]
    /\ shipments \in [Orders -> {"none", "SHIPPED", "CANCELLED"}]
    /\ done \in Seq({"CreateOrder", "ReserveStock", "ChargePayment", "Ship"} \X Orders)
    /\ Idle \/ running \in Execution

NoRecord == [o \in Orders |-> "none"]
SeededStock == [s \in DOMAIN Seed |-> [available |-> Seed[s], reserved |-> 0]]

SagaInit ==
    /\ orders = NoRecord /\ payments = NoRecord /\ shipments = NoRecord
    /\ stock = SeededStock
    /\ events = <<>>
    /\ done = <<>>
    /\ running = NoSaga

\* World.reset() and seedStock() for the next scenario.
ResetWorld ==
    /\ Idle
    /\ orders' = NoRecord /\ payments' = NoRecord /\ shipments' = NoRecord
    /\ stock' = SeededStock
    /\ events' = <<>>
    /\ UNCHANGED <<done, running>>

-----------------------------------------------------------------------------
(* Effects on the World shared by the two variants.                        *)

CanReserve(o) == Sku(o) \in DOMAIN Seed /\ stock[Sku(o)].available >= Qty(o)

Reserve(o) == stock' = [stock EXCEPT ![Sku(o)] =
    [available |-> @.available - Qty(o), reserved |-> @.reserved + Qty(o)]]

Release(o) == stock' = [stock EXCEPT ![Sku(o)] =
    [available |-> @.available + Qty(o), reserved |-> @.reserved - Qty(o)]]

SetOrder(o, status) == orders' = [orders EXCEPT ![o] = status]
SetPayment(o, status) == payments' = [payments EXCEPT ![o] = status]
SetShipment(o, status) == shipments' = [shipments EXCEPT ![o] = status]

Emit(o, types) == events' = events \o [i \in DOMAIN types |-> <<types[i], o>>]

Goto(at) == running' = [running EXCEPT !.at = at]
EndSaga == running' = NoSaga

-----------------------------------------------------------------------------
(* The orchestrator: each step that succeeds pushes its compensation.      *)

Push(step) == done' = Append(done, <<step, running.order>>)

\* MUTANT: a second execute() of one orchestrator: the stack of the first remains.
OrchestrateCreateAgain(o) ==
    \E declined, shortage \in BOOLEAN :
        /\ Idle
        /\ orders[o] = "none"
        /\ SetOrder(o, "CREATED")
        /\ done' = Append(done, <<"CreateOrder", o>>)
        /\ running' = [order |-> o, kind |-> "orchestration", at |-> "reserve",
                       declined |-> declined, shortage |-> shortage]
        /\ UNCHANGED <<stock, payments, shipments, events>>

\* Each order is executed by an orchestrator of its own, whose stack is empty.
OrchestrateCreate(o) ==
    \E declined, shortage \in BOOLEAN :
        /\ Idle
        /\ orders[o] = "none"
        /\ SetOrder(o, "CREATED")
        /\ done' = <<<<"CreateOrder", o>>>>
        /\ running' = [order |-> o, kind |-> "orchestration", at |-> "reserve",
                       declined |-> declined, shortage |-> shortage]
        /\ UNCHANGED <<stock, payments, shipments, events>>

OrchestrateReserve ==
    /\ By("orchestration", "reserve")
    /\ IF ~running.shortage /\ CanReserve(running.order)
         THEN Reserve(running.order) /\ Push("ReserveStock") /\ Goto("charge")
         ELSE Goto("compensate") /\ UNCHANGED <<stock, done>>
    /\ UNCHANGED <<orders, payments, shipments, events>>

OrchestrateCharge ==
    /\ By("orchestration", "charge")
    /\ IF running.declined
         THEN SetPayment(running.order, "DECLINED") /\ Goto("compensate") /\ UNCHANGED done
         ELSE SetPayment(running.order, "CHARGED") /\ Goto("ship") /\ Push("ChargePayment")
    /\ UNCHANGED <<orders, stock, shipments, events>>

OrchestrateShip ==
    /\ By("orchestration", "ship")
    /\ SetShipment(running.order, "SHIPPED")
    /\ Push("Ship")
    /\ Goto("confirm")
    /\ UNCHANGED <<orders, stock, payments, events>>

OrchestrateConfirm ==
    /\ By("orchestration", "confirm")
    /\ SetOrder(running.order, "CONFIRMED")
    /\ EndSaga
    /\ UNCHANGED <<stock, payments, shipments, events, done>>

\* What undoing a step does to the World; refundPayment and cancelShipment
\* act on records that exist.
Undo(step, o) ==
    /\ IF step = "CreateOrder" THEN SetOrder(o, "CANCELLED") ELSE UNCHANGED orders
    /\ IF step = "ReserveStock" THEN Release(o) ELSE UNCHANGED stock
    /\ IF step = "ChargePayment" THEN SetPayment(o, "REFUNDED") ELSE UNCHANGED payments
    /\ IF step = "Ship" THEN SetShipment(o, "CANCELLED") ELSE UNCHANGED shipments

\* MUTANT: as Compensate, but taking the steps in the order they were done.
CompensateForward ==
    /\ By("orchestration", "compensate")
    /\ IF done = <<>>
         THEN EndSaga /\ UNCHANGED <<world, done>>
         ELSE /\ Undo(Head(done)[1], Head(done)[2])
              /\ done' = Tail(done)
              /\ UNCHANGED <<events, running>>

\* One turn of the loop in compensate(), which pops the last step.
Compensate ==
    /\ By("orchestration", "compensate")
    /\ IF done = <<>>
         THEN EndSaga /\ UNCHANGED <<world, done>>
         ELSE /\ Undo(Last(done)[1], Last(done)[2])
              /\ done' = Front(done)
              /\ UNCHANGED <<events, running>>

-----------------------------------------------------------------------------
(* The choreography: services react to the last event emitted.             *)

ChoreographOrder(o) ==
    \E declined \in BOOLEAN :
        /\ Idle
        /\ orders[o] = "none"
        /\ SetOrder(o, "CREATED")
        /\ Emit(o, <<"OrderCreated">>)
        /\ running' = [order |-> o, kind |-> "choreography", at |-> "OrderCreated",
                       declined |-> declined, shortage |-> FALSE]
        /\ UNCHANGED <<stock, payments, shipments, done>>

StockOnOrderCreated ==
    /\ By("choreography", "OrderCreated")
    /\ IF CanReserve(running.order)
         THEN Reserve(running.order) /\ Emit(running.order, <<"StockReserved">>)
              /\ Goto("StockReserved")
         ELSE Emit(running.order, <<"StockReservationFailed">>)
              /\ Goto("StockReservationFailed") /\ UNCHANGED stock
    /\ UNCHANGED <<orders, payments, shipments, done>>

PaymentOnStockReserved ==
    /\ By("choreography", "StockReserved")
    /\ LET type == IF running.declined THEN "PaymentFailed" ELSE "PaymentCharged"
       IN  /\ SetPayment(running.order, IF running.declined THEN "DECLINED" ELSE "CHARGED")
           /\ Emit(running.order, <<type>>)
           /\ Goto(type)
    /\ UNCHANGED <<orders, stock, shipments, done>>

StockOnPaymentFailed ==
    /\ By("choreography", "PaymentFailed")
    /\ Release(running.order)
    /\ Emit(running.order, <<"StockReleased">>)
    /\ Goto("StockReleased")
    /\ UNCHANGED <<orders, payments, shipments, done>>

OrderOnFailure ==
    /\ By("choreography", "StockReservationFailed") \/ By("choreography", "StockReleased")
    /\ SetOrder(running.order, "CANCELLED")
    /\ Emit(running.order, <<"OrderCancelled">>)
    /\ EndSaga
    /\ UNCHANGED <<stock, payments, shipments, done>>

ShippingOnPaymentCharged ==
    /\ By("choreography", "PaymentCharged")
    /\ SetShipment(running.order, "SHIPPED")
    /\ Emit(running.order, <<"OrderShipped">>)
    /\ Goto("OrderShipped")
    /\ UNCHANGED <<orders, stock, payments, done>>

OrderOnOrderShipped ==
    /\ By("choreography", "OrderShipped")
    /\ SetOrder(running.order, "CONFIRMED")
    /\ EndSaga
    /\ UNCHANGED <<stock, payments, shipments, events, done>>

SagaStep ==
    \/ OrchestrateReserve \/ OrchestrateCharge \/ OrchestrateShip
    \/ OrchestrateConfirm \/ Compensate
    \/ StockOnOrderCreated \/ PaymentOnStockReserved \/ StockOnPaymentFailed
    \/ OrderOnFailure \/ ShippingOnPaymentCharged \/ OrderOnOrderShipped

SagaNext ==
    \/ ResetWorld
    \/ \E o \in Orders : OrchestrateCreate(o) \/ ChoreographOrder(o)
    \/ SagaStep

SagaSpec == SagaInit /\ [][SagaNext]_sagaVars

-----------------------------------------------------------------------------
(* Properties.                                                             *)

\* The saga that runs has taken its quantity and not yet given it back.
Holding(o) ==
    /\ ~Idle
    /\ running.order = o
    /\ \/ running.at \in {"charge", "ship", "confirm", "StockReserved",
                          "PaymentCharged", "PaymentFailed", "OrderShipped"}
       \/ running.at = "compensate" /\ Contains(done, <<"ReserveStock", o>>)

\* The quantities of a set of orders.
Units(os) == FoldSet(LAMBDA o, sum : Qty(o) + sum, 0, os)

\* What is reserved of a sku is what the confirmed orders and the saga in
\* progress took of it, and the rest is available: no compensation gives back
\* more or less than was taken (releaseStock, saga.ts:265).
StockAccounted ==
    \A s \in DOMAIN Seed :
        LET taken == {o \in Orders : Sku(o) = s /\ (orders[o] = "CONFIRMED" \/ Holding(o))}
        IN  /\ stock[s].reserved = Units(taken)
            /\ stock[s].available + stock[s].reserved = Seed[s]

\* Compensation runs in reverse order (saga.ts:192), so in every state the
\* effects in force are those of a first part of the steps: nothing is shipped
\* unpaid, nothing is paid without its stock, no cancelled order keeps any.
EffectsAreAPrefix ==
    \A o \in Orders :
        LET holds == orders[o] = "CONFIRMED" \/ Holding(o)
        IN  /\ shipments[o] = "SHIPPED" => payments[o] = "CHARGED"
            /\ payments[o] = "CHARGED" => holds
            /\ holds => orders[o] \in {"CREATED", "CONFIRMED"}

Outcome(o) ==
    CASE orders[o] = "CONFIRMED" /\ payments[o] = "CHARGED" /\ shipments[o] = "SHIPPED"
           -> "COMPLETED"
      [] orders[o] = "CANCELLED" /\ payments[o] # "CHARGED" /\ shipments[o] # "SHIPPED"
           -> "FAILED"
      [] orders[o] \in {"none", "CREATED"} -> "none"
      [] OTHER -> "mixed"

\* What an order that is not settled holds counts as free: it may come back.
orderOutcomes == [o \in Orders |-> Outcome(o)]
freeStock == [s \in DOMAIN Seed |-> stock[s].available +
                Units({o \in Orders : Sku(o) = s /\ Holding(o) /\ orders[o] # "CONFIRMED"})]

AtomicOrders == INSTANCE AtomicOrder WITH outcome <- orderOutcomes, free <- freeStock

\* Both sagas make an order all or nothing: as seen from outside, an order
\* completes with all four effects or fails with none, in one step.
SagaIsAtomic == AtomicOrders!AbstractSpec
=============================================================================
