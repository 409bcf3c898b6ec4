---------------------------- MODULE OrderService ----------------------------
(***************************************************************************)
(* The services of 12-microservices at work: order-service answers         *)
(* requests, finds user-service in the registry, and fetches the user      *)
(* through its circuit breaker.  Everything runs on one event loop.  A     *)
(* request is one step up to the fetch, or up to its answer if nothing is  *)
(* fetched; user-service answers the fetch in a step of its own; the rest  *)
(* of the request is the third.  Timers run on time, unless the loop is    *)
(* blocked (Stall): then they all run late, in any order.                  *)
(***************************************************************************)
EXTENDS CircuitBreaker, ServiceRegistry

CONSTANTS
  Requests,      \* how many GET /orders/:id can be open at a time, as a set
  BeatEvery,     \* the heartbeat interval of user-service, in ticks
  CheckEvery,    \* intervalMs of startHealthCheck, in ticks
  MaxFaults      \* bound: stalls, closed servers and failed connections

ASSUME OrderAssumption ==
  /\ BeatEvery \in Nat \ {0} /\ BeatEvery <= HeartbeatTimeout
  /\ CheckEvery \in Nat \ {0} /\ MaxFaults \in Nat

VARIABLES
  breaker,    \* the CircuitBreaker of order-service
  services,   \* the instances registered as "user-service"
  rr,         \* rrIndex
  beatIn,     \* for each instance, the ticks until its heartbeat timer fires
  checkIn,    \* the ticks until the health check timer fires
  server,     \* "new", "listening" or "closed" for each instance
  failMode,   \* the fail mode of user-service
  request,    \* what each GET /orders/:id is waiting for
  faults      \* faults so far

vars == <<breaker, services, rr, beatIn, checkIn, server, failMode, request,
          faults>>

NotOpen == [stage |-> "none"]
Fetching(url, test) == [stage |-> "fetching", url |-> url, test |-> test]
Fetched(ok, test) == [stage |-> "fetched", ok |-> ok, test |-> test]

\* What a request may be waiting for.
RequestStates ==
  {NotOpen} \cup {Fetching(u, t) : u \in Urls, t \in BOOLEAN}
            \cup {Fetched(ok, t) : ok, t \in BOOLEAN}

Init ==
  /\ breaker = NewBreaker
  /\ services = <<>>
  /\ rr = 0
  /\ beatIn = [u \in Urls |-> 0]
  /\ checkIn = CheckEvery
  /\ server = [u \in Urls |-> "new"]
  /\ failMode = FALSE
  /\ request = [r \in Requests |-> NotOpen]
  /\ faults = 0

Running == {u \in Urls : server[u] # "new"}

\* startUserService: register, and start the heartbeat timer.
Start(u) ==
  /\ server[u] = "new"
  /\ server' = [server EXCEPT ![u] = "listening"]
  /\ services' = Register(services, u)
  /\ beatIn' = [beatIn EXCEPT ![u] = BeatEvery]
  /\ UNCHANGED <<breaker, rr, checkIn, failMode, request, faults>>

\* server.close(): the heartbeat timer goes on.
Close(u) ==
  /\ server[u] = "listening"
  /\ faults < MaxFaults
  /\ faults' = faults + 1
  /\ server' = [server EXCEPT ![u] = "closed"]
  /\ UNCHANGED <<breaker, services, rr, beatIn, checkIn, failMode, request>>

Leave(u) ==
  /\ server[u] = "closed"
  /\ u \in Registered(services)
  /\ services' = Deregister(services, u)
  /\ UNCHANGED <<breaker, rr, beatIn, checkIn, server, failMode, request,
                 faults>>

\* setUserFailMode and the control endpoints.
SetFailMode ==
  /\ failMode' = ~failMode
  /\ UNCHANGED <<breaker, services, rr, beatIn, checkIn, server, request,
                 faults>>

\* GET /orders/:id up to the fetch.
Order(r) ==
  LET url == Discovered(services, rr)
  IN /\ request[r] = NotOpen
     /\ rr' = NextIndex(services, rr)
     /\ \/ /\ url = NoUrl                         \* 502
           /\ UNCHANGED <<breaker, request>>
        \/ /\ url # NoUrl
           /\ Rejects(breaker)                    \* 503
           /\ breaker' = Tested(breaker)
           /\ UNCHANGED request
        \/ /\ url # NoUrl
           /\ ~Rejects(breaker)
           /\ breaker' = Begun(breaker)
           /\ request' = [request EXCEPT
                            ![r] = Fetching(url, IsTest(breaker))]
     /\ UNCHANGED <<services, beatIn, checkIn, server, failMode, faults>>

\* GET /users/:id, or the refusal of the connection by a closed server.
Serve(r) ==
  /\ request[r].stage = "fetching"
  /\ request' = [request EXCEPT
       ![r] = Fetched(server[@.url] = "listening" /\ ~failMode, @.test)]
  /\ UNCHANGED <<breaker, services, rr, beatIn, checkIn, server, failMode,
                 faults>>

\* The connection breaks, or fetch gives up waiting.
Disconnect(r) ==
  /\ request[r].stage = "fetching"
  /\ faults < MaxFaults
  /\ faults' = faults + 1
  /\ request' = [request EXCEPT ![r] = Fetched(FALSE, @.test)]
  /\ UNCHANGED <<breaker, services, rr, beatIn, checkIn, server, failMode>>

\* The rest of breaker.call and of the handler: 200 or 502.
Answer(r) ==
  /\ request[r].stage = "fetched"
  /\ breaker' = Settled(breaker, request[r].ok, request[r].test)
  /\ request' = [request EXCEPT ![r] = NotOpen]
  /\ UNCHANGED <<services, rr, beatIn, checkIn, server, failMode, faults>>

Beat(u) ==
  /\ u \in Running
  /\ beatIn[u] = 0
  /\ beatIn' = [beatIn EXCEPT ![u] = BeatEvery]
  /\ services' = Heartbeat(services, u)
  /\ UNCHANGED <<breaker, rr, checkIn, server, failMode, request, faults>>

HealthCheck ==
  /\ checkIn = 0
  /\ checkIn' = CheckEvery
  /\ services' = Checked(services)
  /\ UNCHANGED <<breaker, rr, beatIn, server, failMode, request, faults>>

Less(n, ticks) == IF n > ticks THEN n - ticks ELSE 0

Elapse(ticks) ==
  /\ breaker' = [breaker EXCEPT !.cooldown = Less(@, ticks)]
  /\ services' = Aged(services, ticks)
  /\ beatIn' = [u \in Urls |-> Less(beatIn[u], ticks)]
  /\ checkIn' = Less(checkIn, ticks)
  /\ UNCHANGED <<rr, server, failMode, request>>

\* Time does not pass over a timer that is due.
Tick ==
  /\ checkIn > 0
  /\ \A u \in Running : beatIn[u] > 0
  /\ Elapse(1)
  /\ UNCHANGED faults

Stall ==
  /\ faults < MaxFaults
  /\ faults' = faults + 1
  /\ Elapse(HeartbeatTimeout + 1)

Next ==
  \/ \E u \in Urls : Start(u) \/ Close(u) \/ Leave(u) \/ Beat(u)
  \/ \E r \in Requests : Order(r) \/ Serve(r) \/ Disconnect(r) \/ Answer(r)
  \/ SetFailMode \/ HealthCheck \/ Tick \/ Stall

Spec == Init /\ [][Next]_vars

\* Services start, timers fire and the clock runs, clients keep asking, and
\* a fetch ends in some way: fetch has a timeout of its own.
Fairness ==
  /\ \A u \in Urls : WF_vars(Start(u)) /\ WF_vars(Beat(u))
  /\ \A r \in Requests :
       WF_vars(Order(r)) /\ WF_vars(Serve(r)) /\ WF_vars(Answer(r))
  /\ WF_vars(HealthCheck) /\ WF_vars(Tick)

FairSpec == Spec /\ Fairness

-----------------------------------------------------------------------------
(* Properties. *)

\* Every variable has its type; the round-robin index does not grow beyond
\* the number of instances (service-registry.ts:94-95).
TypeOK ==
  /\ breaker \in Breaker
  /\ services \in Seq(Instance)
  /\ rr \in 0 .. Cardinality(Urls)
  /\ beatIn \in [Urls -> 0 .. BeatEvery]
  /\ checkIn \in 0 .. CheckEvery
  /\ server \in [Urls -> {"new", "listening", "closed"}]
  /\ failMode \in BOOLEAN
  /\ request \in [Requests -> RequestStates]
  /\ faults \in 0 .. MaxFaults

TestCalls == {r \in Requests : request[r].stage # "none" /\ request[r].test}

\* At most one test call runs at a time, and the breaker knows of it, however
\* calls from before the breaker opened end in between
\* (circuit-breaker.ts:86, 105-124).
OneTestCall ==
  /\ \A r, q \in TestCalls : r = q
  /\ breaker.testing <=> TestCalls # {}

\* The counters fit the state whatever order the outcomes of overlapping
\* calls come in: a closed breaker is below the threshold, a half-open one
\* still needs successes, and no failure is more recent than its cooldown
\* (circuit-breaker.ts:128-163).
CountersMatchState ==
  /\ breaker.state = "CLOSED" => breaker.failureCount < FailureThreshold
  /\ breaker.state # "HALF_OPEN" => breaker.successCount = 0
  /\ breaker.state = "HALF_OPEN" =>
       breaker.successCount < SuccessThreshold /\ breaker.cooldown = 0

\* An instance whose process runs is unhealthy only after a stall, until its
\* heartbeat, by then overdue, is sent (service-registry.ts:70-78, 117-132).
UnhealthyUntilHeartbeat ==
  \A i \in DOMAIN services : ~services[i].healthy => beatIn[services[i].url] = 0

\* The registry is in order however stalls, closed servers and requests fall:
\* it revives what it gave up wrongly, and its index stays one of an instance.
RegistryInOrder == TypeOK /\ UnhealthyUntilHeartbeat

Reachable ==
  /\ services # <<>>
  /\ \A u \in Registered(services) : server[u] = "listening"
  /\ ~failMode

\* Once user-service works for good the breaker closes for good, although
\* calls that failed before may still reopen it and prolong its cooldown
\* (circuit-breaker.ts:88-126, README:147).
BreakerRecovers == <>[]Reachable => <>[](breaker.state = "CLOSED")
=============================================================================
