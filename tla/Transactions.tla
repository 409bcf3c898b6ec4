---------------------------- MODULE Transactions ----------------------------
(***************************************************************************)
(* What the distributed transactions of chapter 16 that do without a       *)
(* coordinator promise: the sagas and the outbox.  They share no state.    *)
(***************************************************************************)
EXTENDS Saga, Outbox

\* Between any two steps of either saga the stock adds up and an order has the
\* effects of the steps before it and none behind; the outbox, the database and
\* the bus agree wherever the poller dies.
EffectsAddUp ==
    /\ SagaTypeOK /\ StockAccounted /\ EffectsAreAPrefix
    /\ OutboxTypeOK /\ StoresAgree
=============================================================================
