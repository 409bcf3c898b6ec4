------------------------------- MODULE Gateway -------------------------------
(***************************************************************************)
(* 08-api-gateway: the middleware chain of gateway.ts (API key, rate       *)
(* limit), the proxy with its timeout, the dashboard that reads two        *)
(* services, and those services.                                           *)
(*                                                                         *)
(* `script' is the traffic of a behaviour: which requests arrive, in which *)
(* order.  When they arrive, how their handlers interleave and which calls *)
(* of the backends fail or hang is left open.  A tick of `now' is half the *)
(* rate limit's window, the proxy's timeout.                               *)
(***************************************************************************)
EXTENDS Naturals, FiniteSets, Sequences

CONSTANTS
    ValidKeys,      \* VALID_API_KEYS
    Scripts,        \* sequences of [key, kind]: what is asked for, and by whom;
                    \* an order has the field user as well
    Window,         \* RATE_LIMIT_WINDOW
    MaxPerWindow,   \* RATE_LIMIT_MAX
    Timeout,        \* of the proxy's fetch
    Horizon         \* bound: the clock stops here

ASSUME GatewayAssumption == {Window, MaxPerWindow, Timeout, Horizon} \subseteq Nat

VARIABLES
    script,
    now,
    windows,        \* rateLimitMap: [count, resetAt] of the clients seen
    arrivals,       \* the requests that have arrived, see Arrived
    userRows, orderRows   \* rows POSTed to the backends, named by their request;
                          \* user-service starts with users too: see Seeded

gatewayVars == <<script, now, windows, arrivals, userRows, orderRows>>

\* The kinds: "health", "user" and "order" (POSTs), "incomplete" (a POST without a
\* field), "dashboard", and "unrouted", a path the gateway does not know.
\* A request: when it arrived, the answer the client has ("none" as yet), its
\* call of a backend ("sent", "performed", "failed", or none), what a dashboard
\* has read, the orders it shows under each user, and which rows were
\* acknowledged when it arrived.
Arrived(answer, call) ==
    [at |-> now, answer |-> answer, call |-> call,
     usersRead |-> {}, ordersRead |-> {}, read |-> {}, shown |-> <<>>,
     acknowledged |-> {i \in DOMAIN arrivals : arrivals[i].answer = "201"}]

GatewayInit ==
    /\ script \in Scripts
    /\ now = 0
    /\ windows = <<>>
    /\ arrivals = <<>>
    /\ userRows = {}
    /\ orderRows = {}

-----------------------------------------------------------------------------
(* The middleware.                                                         *)

\* MUTANT: as CountRequest, but a new window keeps the count.
CountOn(key) ==
    LET expired == key \notin DOMAIN windows \/ now > windows[key].resetAt
        start == IF key \in DOMAIN windows THEN windows[key].count ELSE 0
    IN  IF expired THEN [count |-> start + 1, resetAt |-> now + Window]
        ELSE [windows[key] EXCEPT !.count = @ + 1]

\* The client's window with this request, admitted or not, counted.
CountRequest(key) ==
    IF key \notin DOMAIN windows \/ now > windows[key].resetAt
      THEN [count |-> 1, resetAt |-> now + Window]
      ELSE [windows[key] EXCEPT !.count = @ + 1]

Arrive(key, kind) ==
    /\ IF kind = "health"
         THEN arrivals' = Append(arrivals, Arrived("200", "none")) /\ UNCHANGED windows
       ELSE IF key \notin ValidKeys
         THEN arrivals' = Append(arrivals, Arrived("401", "none")) /\ UNCHANGED windows
       ELSE LET window == CountRequest(key)
            IN  /\ windows' = [k \in DOMAIN windows \cup {key} |->
                                 IF k = key THEN window ELSE windows[k]]
                /\ arrivals' = Append(arrivals,
                     IF window.count > MaxPerWindow THEN Arrived("429", "none")
                     ELSE IF kind = "unrouted" THEN Arrived("404", "none")
                     ELSE Arrived("none", "sent"))
    /\ UNCHANGED <<script, now, userRows, orderRows>>

Kind(i) == script[i].kind

\* An order names its user: Seeded, one nobody has, for order-service does not ask
\* user-service, or the one a POST of the script makes.  The id of that user is
\* random, so that its orders come when it is there.
Seeded == 0
UserPost(i) == {u \in DOMAIN script : Kind(i) = "order" /\ script[i].user = u /\ Kind(u) = "user"}

NextArrives ==
    LET i == Len(arrivals) + 1
    IN  /\ i \in DOMAIN script
        /\ UserPost(i) \subseteq userRows
        /\ Arrive(script[i].key, script[i].kind)

-----------------------------------------------------------------------------
(* The backends, whose handlers run to the end once a call reaches them,   *)
(* also one the gateway no longer waits for.                               *)

Performed(i) ==
    /\ arrivals[i].call = "sent"
    /\ arrivals' = [arrivals EXCEPT ![i].call = "performed"]
    /\ UNCHANGED <<script, now, windows>>

PostUser(i) ==
    /\ Kind(i) = "user" /\ Performed(i)
    /\ userRows' = userRows \cup {i}
    /\ UNCHANGED orderRows

\* An incomplete order is refused and leaves no row.
PostOrder(i) ==
    /\ Kind(i) \in {"order", "incomplete"} /\ Performed(i)
    /\ orderRows' = IF Kind(i) = "order" THEN orderRows \cup {i} ELSE orderRows
    /\ UNCHANGED userRows

\* One of the two parallel reads of the dashboard.
ReadRows(i, service) ==
    /\ arrivals[i].call = "sent" /\ Kind(i) = "dashboard"
    /\ service \notin arrivals[i].read
    /\ arrivals' = [arrivals EXCEPT
                      ![i].read = @ \cup {service},
                      ![i].usersRead = IF service = "user-service" THEN userRows ELSE @,
                      ![i].ordersRead = IF service = "order-service" THEN orderRows ELSE @]
    /\ UNCHANGED <<script, now, windows, userRows, orderRows>>

\* The backend cannot be reached: gateway.ts starts it and does not wait for it.
CallFails(i) ==
    /\ arrivals[i].call = "sent"
    /\ arrivals' = [arrivals EXCEPT ![i].call = "failed",
                                    ![i].answer = IF @ = "none" THEN "502" ELSE @]
    /\ UNCHANGED <<script, now, windows, userRows, orderRows>>

-----------------------------------------------------------------------------
(* What the gateway answers.                                               *)

ProxyAnswers(i) ==
    /\ arrivals[i].answer = "none" /\ arrivals[i].call = "performed"
    /\ arrivals' = [arrivals EXCEPT ![i].answer = IF Kind(i) = "incomplete" THEN "400" ELSE "201"]
    /\ UNCHANGED <<script, now, windows, userRows, orderRows>>

\* AbortSignal.timeout: the call itself goes on.
ProxyGivesUp(i) ==
    /\ arrivals[i].answer = "none" /\ Kind(i) # "dashboard"
    /\ now >= arrivals[i].at + Timeout
    /\ arrivals' = [arrivals EXCEPT ![i].answer = "502"]
    /\ UNCHANGED <<script, now, windows, userRows, orderRows>>

\* Of the orders read, those of each user read; one of another user is in the
\* totals alone.
OrdersByUser(usersRead, ordersRead) ==
    [u \in usersRead \cup {Seeded} |-> {o \in ordersRead : script[o].user = u}]

DashboardAnswers(i) ==
    /\ arrivals[i].answer = "none"
    /\ arrivals[i].read = {"user-service", "order-service"}
    /\ arrivals' = [arrivals EXCEPT
                      ![i].answer = "200", ![i].call = "performed",
                      ![i].shown = OrdersByUser(arrivals[i].usersRead, arrivals[i].ordersRead)]
    /\ UNCHANGED <<script, now, windows, userRows, orderRows>>

GatewayTick ==
    /\ now < Horizon
    /\ now' = now + 1
    /\ UNCHANGED <<script, windows, arrivals, userRows, orderRows>>

GatewayNext ==
    \/ NextArrives
    \/ GatewayTick
    \/ \E i \in DOMAIN arrivals :
         \/ PostUser(i) \/ PostOrder(i)
         \/ \E service \in {"user-service", "order-service"} : ReadRows(i, service)
         \/ CallFails(i)
         \/ ProxyAnswers(i)
         \/ ProxyGivesUp(i)
         \/ DashboardAnswers(i)

GatewaySpec == GatewayInit /\ [][GatewayNext]_gatewayVars

-----------------------------------------------------------------------------
(* Properties.                                                             *)

\* The requests of a client the rate limit let through.
Admitted(key) ==
    {i \in DOMAIN arrivals : /\ script[i].key = key /\ Kind(i) # "health"
                             /\ arrivals[i].answer \notin {"401", "429"}}

\* A fixed window may be met by two of them, no more: in no Window + 1 instants
\* is a client let through more than twice its limit.
AtMostTwiceTheLimit ==
    \A key \in ValidKeys, t \in 0 .. now :
        Cardinality({i \in Admitted(key) : arrivals[i].at \in t .. t + Window}) <= 2 * MaxPerWindow

\* Whom the gateway turns away with 429 has had the whole limit within the last
\* window: the requests refused, and those of others, cost nobody a new one.
RefusalsAreEarned ==
    \A i \in DOMAIN arrivals :
        arrivals[i].answer = "429" =>
          Cardinality({j \in Admitted(script[i].key) :
                         j < i /\ arrivals[j].at + Window >= arrivals[i].at}) >= MaxPerWindow

\* What was acknowledged to some client before a dashboard was asked for is in it,
\* though it reads the two services at different times: a user as a row, an order in
\* the total and in the row of its user, whether the POST of that user was answered
\* or not.  An order of a user nobody has is in no row (gateway.ts:176).
AcknowledgedIsShown ==
    \A i \in DOMAIN arrivals :
        (Kind(i) = "dashboard" /\ arrivals[i].answer = "200") =>
          \A j \in arrivals[i].acknowledged :
              /\ Kind(j) = "user" => j \in DOMAIN arrivals[i].shown
              /\ Kind(j) = "order" =>
                   /\ j \in arrivals[i].ordersRead
                   /\ UserPost(j) \subseteq DOMAIN arrivals[i].shown
                   /\ \A u \in DOMAIN arrivals[i].shown :
                        j \in arrivals[i].shown[u] <=> script[j].user = u

\* What a client is told is so, and only requests let through have effects; a
\* 502 alone leaves open whether the row is there (gateway.ts:225).
AnswersAreTrue ==
    \A i \in DOMAIN arrivals :
        /\ arrivals[i].answer = "201" => i \in userRows \cup orderRows
        /\ arrivals[i].answer \in {"400", "401", "429"} => i \notin userRows \cup orderRows

\* The promises of gateway.ts together.
GatewayPromises ==
    AtMostTwiceTheLimit /\ RefusalsAreEarned /\ AcknowledgedIsShown /\ AnswersAreTrue
=============================================================================
