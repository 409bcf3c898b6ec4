------------------------------- MODULE Outbox -------------------------------
(***************************************************************************)
(* 16-distributed-transactions/outbox.ts: an order service that publishes  *)
(* its events directly or through an outbox table, the poller that relays  *)
(* the table to the bus, and the bus that drops ids it has seen.  Event    *)
(* evt-ord-n is written n, like its order.                                 *)
(*                                                                         *)
(* Every call is synchronous: while a poll is under way (batch # {})       *)
(* no order is created.  The poll is split at the points where the process *)
(* may die between two calls to the database and the bus, which survive it *)
(* as the services they stand for would: PollerDies.                       *)
(***************************************************************************)
EXTENDS Naturals, SequencesExt

CONSTANTS
    MaxOrders,  \* bound: orders created
    MaxDeaths   \* bound: times the poller dies

ASSUME OutboxAssumption == MaxOrders \in Nat /\ MaxDeaths \in Nat

VARIABLES
    seq,         \* OrderService.seq
    dbOrders,    \* Database.orders
    outbox,      \* Database.outbox: id -> [status, attempts]
    busMessages, \* MessageBus.messages, as event ids
    busDelivered,\* MessageBus.delivered
    batch,       \* rows pollOnce() has read and not yet finished, as event ids
    published,   \* the next row of the batch has been handed to the bus
    deaths       \* times the poller died

outboxVars == <<seq, dbOrders, outbox, busMessages, busDelivered, batch, published, deaths>>

Ids == 1..MaxOrders

OutboxTypeOK ==
    /\ seq \in 0..MaxOrders
    /\ dbOrders \subseteq Ids
    /\ DOMAIN outbox \subseteq Ids
    /\ \A e \in DOMAIN outbox :
         outbox[e] \in [status : {"PENDING", "PUBLISHED"}, attempts : Nat]
    /\ busMessages \in Seq(Ids)
    /\ busDelivered \subseteq Ids
    /\ batch \subseteq Ids
    /\ published \in BOOLEAN
    /\ deaths \in 0..MaxDeaths

OutboxInit ==
    /\ seq = 0
    /\ dbOrders = {}
    /\ outbox = <<>>
    /\ busMessages = <<>>
    /\ busDelivered = {}
    /\ batch = {}
    /\ published = FALSE
    /\ deaths = 0

\* MessageBus.publish: an id already delivered is skipped.
Publish(e) ==
    IF e \in busDelivered
      THEN UNCHANGED <<busMessages, busDelivered>>
      ELSE /\ busMessages' = Append(busMessages, e)
           /\ busDelivered' = busDelivered \cup {e}

\* begin(), the writes and commit(): the rows buffered become visible at once.
Commit(orderRows, outboxRows) ==
    /\ dbOrders' = dbOrders \cup orderRows
    /\ outbox' = [e \in DOMAIN outbox \cup outboxRows |->
                    IF e \in outboxRows THEN [status |-> "PENDING", attempts |-> 0] ELSE outbox[e]]

CreateOrderDualWrite ==
    /\ batch = {} /\ seq < MaxOrders
    /\ seq' = seq + 1
    /\ Commit({seq'}, {})
    /\ \E failPublish \in BOOLEAN :
         IF failPublish THEN UNCHANGED <<busMessages, busDelivered>> ELSE Publish(seq')
    /\ UNCHANGED <<batch, published, deaths>>

CreateOrderWithOutbox ==
    /\ batch = {} /\ seq < MaxOrders
    /\ seq' = seq + 1
    /\ Commit({seq'}, {seq'})
    /\ UNCHANGED <<busMessages, busDelivered, batch, published, deaths>>

\* getOutbox("PENDING"); the rows are handled in the order they were inserted.
Pending == {e \in DOMAIN outbox : outbox[e].status = "PENDING"}

Row == CHOOSE e \in batch : \A later \in batch : e <= later

PollOnce ==
    /\ batch = {} /\ Pending # {}
    /\ batch' = Pending
    /\ published' = FALSE
    /\ UNCHANGED <<seq, dbOrders, outbox, busMessages, busDelivered, deaths>>

PublishRow ==
    /\ batch # {} /\ ~published
    /\ outbox' = [outbox EXCEPT ![Row].attempts = @ + 1]
    /\ Publish(Row)
    /\ published' = TRUE
    /\ UNCHANGED <<seq, dbOrders, batch, deaths>>

\* MUTANT: as MarkPublished, but the whole batch is marked after its first row.
MarkBatch ==
    /\ batch # {} /\ published
    /\ outbox' = [e \in DOMAIN outbox |->
                    [outbox[e] EXCEPT !.status = IF e \in batch THEN "PUBLISHED" ELSE @]]
    /\ batch' = {}
    /\ published' = FALSE
    /\ UNCHANGED <<seq, dbOrders, busMessages, busDelivered, deaths>>

\* The row is marked whether or not the bus took the event.
MarkPublished ==
    /\ batch # {} /\ published
    /\ outbox' = [outbox EXCEPT ![Row].status = "PUBLISHED"]
    /\ batch' = batch \ {Row}
    /\ published' = FALSE
    /\ UNCHANGED <<seq, dbOrders, busMessages, busDelivered, deaths>>

\* The process that polls dies; another one starts with the next round.
PollerDies ==
    /\ batch # {} /\ deaths < MaxDeaths
    /\ batch' = {}
    /\ published' = FALSE
    /\ deaths' = deaths + 1
    /\ UNCHANGED <<seq, dbOrders, outbox, busMessages, busDelivered>>

\* db.reset() and bus.reset(), which the demo calls between its two dual writes.
ResetStores ==
    /\ dbOrders # {} /\ outbox = <<>>
    /\ dbOrders' = {}
    /\ busMessages' = <<>>
    /\ busDelivered' = {}
    /\ UNCHANGED <<seq, outbox, batch, published, deaths>>

OutboxNext ==
    \/ ResetStores \/ CreateOrderDualWrite \/ CreateOrderWithOutbox
    \/ PollOnce \/ PublishRow \/ MarkPublished \/ PollerDies

\* A round that has begun runs on, and rounds recur (the poller is a timer).
OutboxFairness ==
    /\ WF_outboxVars(PollOnce)
    /\ WF_outboxVars(PublishRow)
    /\ WF_outboxVars(MarkPublished)

OutboxSpec == OutboxInit /\ [][OutboxNext]_outboxVars /\ OutboxFairness

-----------------------------------------------------------------------------
(* Properties.                                                             *)

\* An event on the bus belongs to an order the database holds, no event is on
\* it twice, and a row is PUBLISHED only if its event is there: wherever the
\* poller dies, the three stores stay consistent (outbox.ts:144, 268).
StoresAgree ==
    /\ ToSet(busMessages) \subseteq dbOrders
    /\ IsInjective(busMessages)
    /\ \A e \in DOMAIN outbox :
         outbox[e].status = "PUBLISHED" => e \in ToSet(busMessages)

\* What the bus carries for orders created with the outbox.
Relayed(bus, rows) ==
    FoldLeft(LAMBDA events, e : IF e \in rows THEN Append(events, e) ELSE events, <<>>, bus)

Delivery == INSTANCE ReliableDelivery WITH
    Events <- Ids,
    accepted <- DOMAIN outbox,
    delivered <- Relayed(busMessages, DOMAIN outbox)

\* An order created with the outbox has its event on the bus in the end, and
\* once, even when the poller dies after publishing and before marking the row.
OutboxDelivers == Delivery!DeliverySpec
=============================================================================
