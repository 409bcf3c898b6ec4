----------------------------- MODULE MCServices -----------------------------
(***************************************************************************)
(* Two-phase commit, the order sagas and the outbox, the event-sourced     *)
(* tasks, the gateway and the servers that publish tasks or chat, in one   *)
(* run.  They share no state: `service' picks, in the initial state, the   *)
(* one a behaviour follows, and the others keep their initial states.      *)
(* Fairness is of two-phase commit and of the outbox poller, and asks      *)
(* nothing of a behaviour of another service.                              *)
(***************************************************************************)
EXTENDS TwoPhaseCommit, Transactions, EventSourcing, Gateway, Pushes, EventStream, TaskApis

VARIABLE service
Services == {"two-phase-commit", "saga", "outbox", "event-sourcing", "gateway", "webhooks", "sse", "chat", "task-apis"}

serviceVars ==
    <<service, vars, sagaVars, outboxVars, eventVars, gatewayVars, hookVars, streamVars, chatVars, apiVars>>

\* Two orders over three units of "p" do not both fit; "q" is not seeded.
TwoOrThree == [o1 |-> [sku |-> "p", qty |-> 2], o2 |-> [sku |-> "p", qty |-> 2],
               o3 |-> [sku |-> "p", qty |-> 1], o4 |-> [sku |-> "q", qty |-> 1]]
OrderIds == DOMAIN TwoOrThree
ThreeOfP == [p |-> 3]

\* More requests than a window allows, with another client's between them; a
\* dashboard beside a user, an order of that user and one of nobody; POSTs that are
\* admitted and refused.
ByK1(kind) == [key |-> "k1", kind |-> kind]
ByK2(kind) == [key |-> "k2", kind |-> kind]
OrderOf(key, user) == [key |-> key, kind |-> "order", user |-> user]
Nobody == 9
Traffic == {
    <<ByK1("unrouted"), ByK1("unrouted"), ByK2("unrouted"), ByK1("unrouted"),
      ByK1("unrouted"), ByK1("unrouted"), ByK1("health")>>,
    <<ByK2("user"), OrderOf("k1", 1), ByK1("dashboard")>>,
    <<OrderOf("k1", Nobody), OrderOf("k2", Seeded), ByK1("dashboard")>>,
    <<ByK1("user"), OrderOf("unknown", Seeded), ByK1("incomplete")>>}

\* Two URLs of one receiver; a seeded task that is done.
OneReceiver == [u1 |-> "r", u2 |-> "r"]
DoneSeed == [t1 |-> TRUE]

NoFaults ==
    <<[p \in Participants |-> "YES"], [p \in Participants |-> "never"], FALSE>>

ServicesInit ==
    /\ service \in Services
    /\ Init /\ SagaInit /\ OutboxInit /\ EventInit /\ GatewayInit
    /\ HookInit /\ StreamInit /\ ChatInit /\ ApiInit
    /\ service # "gateway" => script = CHOOSE s \in Scripts : TRUE
    /\ service # "two-phase-commit" => behavior = NoFaults

\* A step of service s, which leaves the variables of the others alone.
ServiceStep(s) ==
    /\ IF s = "two-phase-commit" THEN Next ELSE UNCHANGED vars
    /\ IF s = "saga" THEN SagaNext ELSE UNCHANGED sagaVars
    /\ IF s = "outbox" THEN OutboxNext ELSE UNCHANGED outboxVars
    /\ IF s = "event-sourcing" THEN EventNext ELSE UNCHANGED eventVars
    /\ IF s = "gateway" THEN GatewayNext ELSE UNCHANGED gatewayVars
    /\ IF s = "webhooks" THEN HookNext ELSE UNCHANGED hookVars
    /\ IF s = "sse" THEN StreamNext ELSE UNCHANGED streamVars
    /\ IF s = "chat" THEN ChatNext ELSE UNCHANGED chatVars
    /\ IF s = "task-apis" THEN ApiNext ELSE UNCHANGED apiVars

ServicesNext == UNCHANGED service /\ ServiceStep(service)

ServicesSpec ==
    /\ ServicesInit /\ [][ServicesNext]_serviceVars
    /\ service = "two-phase-commit" => Fairness
    /\ OutboxFairness
=============================================================================
