-------------------------- MODULE ReliableDelivery --------------------------
(***************************************************************************)
(* What a transactional outbox promises: every event accepted together     *)
(* with its order is delivered, exactly once, and no other event is.       *)
(***************************************************************************)
EXTENDS Naturals, Sequences

CONSTANT Events

VARIABLES accepted, delivered
deliveryVars == <<accepted, delivered>>

DeliveredIds == {delivered[i] : i \in DOMAIN delivered}

DeliveryInit == accepted = {} /\ delivered = <<>>

Accept(e) ==
    /\ e \notin accepted
    /\ accepted' = accepted \cup {e}
    /\ UNCHANGED delivered

Deliver(e) ==
    /\ e \in accepted \ DeliveredIds
    /\ delivered' = Append(delivered, e)
    /\ UNCHANGED accepted

DeliveryNext == \E e \in Events : Accept(e) \/ Deliver(e)

DeliverySpec ==
    /\ DeliveryInit
    /\ [][DeliveryNext]_deliveryVars
    /\ \A e \in Events : WF_deliveryVars(Deliver(e))
=============================================================================
