----------------------------- MODULE AtomicOrder -----------------------------
(***************************************************************************)
(* What a saga promises: an order either happens completely, taking its    *)
(* quantity from the stock, or fails and leaves no trace.  The sagas of    *)
(* 16-distributed-transactions implement it (Saga.tla).                    *)
(***************************************************************************)
EXTENDS Naturals

CONSTANTS Orders, Request, Seed

VARIABLES outcome, free
abstractVars == <<outcome, free>>

AbstractInit ==
    /\ outcome = [o \in Orders |-> "none"]
    /\ free = Seed

Complete(o) ==
    /\ outcome[o] = "none"
    /\ Request[o].sku \in DOMAIN free
    /\ free[Request[o].sku] >= Request[o].qty
    /\ outcome' = [outcome EXCEPT ![o] = "COMPLETED"]
    /\ free' = [free EXCEPT ![Request[o].sku] = @ - Request[o].qty]

Fail(o) ==
    /\ outcome[o] = "none"
    /\ outcome' = [outcome EXCEPT ![o] = "FAILED"]
    /\ UNCHANGED free

\* A new world: World.reset() and seedStock().
NewWorld ==
    /\ outcome' = [o \in Orders |-> "none"]
    /\ free' = Seed

AbstractNext ==
    \/ \E o \in Orders : Complete(o) \/ Fail(o)
    \/ NewWorld

AbstractSpec == AbstractInit /\ [][AbstractNext]_abstractVars
=============================================================================
