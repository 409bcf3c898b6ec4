------------------------- MODULE OrderServiceProofs -------------------------
(***************************************************************************)
(* The circuit breaker under any number of overlapping requests, for every *)
(* threshold and timeout: one test call at a time, and counters that fit   *)
(* the state.  And the registry, for every number of instances and every   *)
(* timing of heartbeats, health checks and stalls.                         *)
(*                                                                         *)
(* The breaker's properties are inductive with the types of the breaker    *)
(* and of the requests, whatever the registry answers.  The registry's     *)
(* need that an instance is registered once, which bounds the round-robin  *)
(* index, and that a heartbeat that is still to come is not late.          *)
(***************************************************************************)
EXTENDS OrderService, TLAPS, SequenceTheorems, FiniteSetTheorems

\* Where a request may stand, whatever address it fetches from.
Stands(q) ==
  \/ q = NotOpen
  \/ \E u : \E t \in BOOLEAN : q = Fetching(u, t)
  \/ \E ok, t \in BOOLEAN : q = Fetched(ok, t)

IsRequests(f) == f = [r \in Requests |-> f[r]] /\ \A r \in Requests : Stands(f[r])

\* The counters of one breaker.
Matches(b) ==
  /\ b.state = "CLOSED" => b.failureCount < FailureThreshold
  /\ b.state # "HALF_OPEN" => b.successCount = 0
  /\ b.state = "HALF_OPEN" =>
       b.successCount < SuccessThreshold /\ b.cooldown = 0

\* A request that is a test call.
Testing(q) == q.stage # "none" /\ q.test

\* At most one of the requests f is a test call, and the breaker knows.
OneTest(b, f) ==
  /\ \A r, q \in Requests : Testing(f[r]) /\ Testing(f[q]) => r = q
  /\ b.testing <=> \E r \in Requests : Testing(f[r])

IInv ==
  /\ breaker \in Breaker
  /\ IsRequests(request)
  /\ Matches(breaker)
  /\ OneTest(breaker, request)

-----------------------------------------------------------------------------
(* What each part of call() does to a breaker. *)

\* A call that is let through leaves the counters in order, and is a test
\* call only if none was running.
LEMMA CallBegins ==
  ASSUME NEW b \in Breaker, Matches(b)
  PROVE  /\ Tested(b) \in Breaker
         /\ Matches(Tested(b))
         /\ Tested(b).testing = b.testing
         /\ Begun(b) \in Breaker
         /\ Matches(Begun(b))
         /\ Begun(b).testing <=> b.testing \/ IsTest(b)
         /\ IsTest(b) \in BOOLEAN
         /\ ~Rejects(b) /\ IsTest(b) => ~b.testing
<1>1. Tested(b) \in Breaker /\ Matches(Tested(b)) /\ Tested(b).testing = b.testing
  <2>1. CASE b.state = "OPEN" /\ b.cooldown = 0
    <3>1. Tested(b) = [b EXCEPT !.state = "HALF_OPEN"]
      BY <2>1 DEF Tested
    <3>2. [b EXCEPT !.state = "HALF_OPEN"] \in Breaker
      BY DEF Breaker
    <3> QED
      BY <2>1, <3>1, <3>2, BreakerAssumption DEF Breaker, Matches
  <2>2. CASE ~(b.state = "OPEN" /\ b.cooldown = 0)
    BY <2>2 DEF Tested
  <2> QED
    BY <2>1, <2>2
<1>2. IsTest(b) \in BOOLEAN
  BY DEF IsTest
<1>3. Begun(b) \in Breaker /\ Matches(Begun(b))
  <2> DEFINE t == Tested(b)
  <2>1. Begun(b) = [t EXCEPT !.testing = t.testing \/ IsTest(b)]
    BY DEF Begun
  <2> HIDE DEF t
  <2> QED
    BY <1>1, <1>2, <2>1 DEF Breaker, Matches, t
<1>4. Begun(b).testing <=> b.testing \/ IsTest(b)
  <2> DEFINE t == Tested(b)
  <2>1. Begun(b) = [t EXCEPT !.testing = t.testing \/ IsTest(b)]
    BY DEF Begun
  <2>2. t \in Breaker /\ t.testing = b.testing
    BY <1>1
  <2> HIDE DEF t
  <2> QED
    BY <2>1, <2>2 DEF Breaker
<1>5. ~Rejects(b) /\ IsTest(b) => ~b.testing
  BY DEF Rejects, IsTest
<1> QED
  BY <1>1, <1>2, <1>3, <1>4, <1>5

\* An outcome leaves the counters in order, whenever it comes, and only a
\* test call clears the flag.
LEMMA CallSettles ==
  ASSUME NEW b \in Breaker, Matches(b), NEW ok \in BOOLEAN, NEW test \in BOOLEAN
  PROVE  /\ Settled(b, ok, test) \in Breaker
         /\ Matches(Settled(b, ok, test))
         /\ Settled(b, ok, test).testing <=> b.testing /\ ~test
<1> DEFINE s == IF ok THEN OnSuccess(b) ELSE OnFailure(b)
<1>1. s \in Breaker /\ Matches(s) /\ s.testing = b.testing
  <2>1. CASE ok
    <3>1. s = OnSuccess(b)
      BY <2>1
    <3>2. CASE b.state = "CLOSED"
      <4>1. s = [b EXCEPT !.failureCount = 0]
        BY <3>1, <3>2 DEF OnSuccess
      <4> QED
        BY <3>2, <4>1, BreakerAssumption DEF Breaker, Matches
    <3>3. CASE b.state = "OPEN"
      BY <3>1, <3>3 DEF OnSuccess
    <3>4. CASE b.state = "HALF_OPEN" /\ b.successCount + 1 >= SuccessThreshold
      <4>1. s = [b EXCEPT !.state = "CLOSED", !.failureCount = 0,
                          !.successCount = 0]
        BY <3>1, <3>4 DEF OnSuccess
      <4> HIDE DEF s
      <4>2. s \in Breaker /\ s.testing = b.testing
        BY <4>1 DEF Breaker
      <4>3. s.state = "CLOSED" /\ s.failureCount = 0 /\ s.successCount = 0
        BY <4>1 DEF Breaker
      <4> QED
        BY <4>2, <4>3, BreakerAssumption DEF Matches
    <3>5. CASE b.state = "HALF_OPEN" /\ ~(b.successCount + 1 >= SuccessThreshold)
      <4>1. s = [b EXCEPT !.successCount = @ + 1]
        BY <3>1, <3>5 DEF OnSuccess
      <4> QED
        BY <3>5, <4>1, BreakerAssumption DEF Breaker, Matches
    <3> QED
      BY <3>2, <3>3, <3>4, <3>5 DEF Breaker
  <2>2. CASE ~ok
    <3>1. s = OnFailure(b)
      BY <2>2
    <3> DEFINE failed == [b EXCEPT !.cooldown = ResetTimeout]
    <3>2. failed \in Breaker
      BY BreakerAssumption DEF Breaker
    <3>3. CASE b.state = "CLOSED"
      <4> DEFINE next == IF b.failureCount + 1 >= FailureThreshold
                         THEN "OPEN" ELSE "CLOSED"
      <4>1. s = [failed EXCEPT !.failureCount = b.failureCount + 1,
                               !.state = next]
        BY <3>1, <3>3 DEF OnFailure, Breaker
      <4>2. failed.state = "CLOSED" /\ failed.successCount = 0
            /\ failed.failureCount = b.failureCount /\ failed.testing = b.testing
        BY <3>3 DEF Breaker, Matches
      <4>3. next \in {"OPEN", "CLOSED", "HALF_OPEN"} /\ b.failureCount + 1 \in Nat
        BY DEF Breaker
      <4> HIDE DEF s, failed, next
      <4>4. s \in Breaker /\ s.testing = b.testing
        <5>1. \A c \in Nat, n \in {"OPEN", "CLOSED", "HALF_OPEN"} :
                [failed EXCEPT !.failureCount = c, !.state = n] \in Breaker
          BY <3>2 DEF Breaker
        <5> QED
          BY <3>2, <4>1, <4>2, <4>3, <5>1 DEF Breaker
      <4>5. /\ s.failureCount = b.failureCount + 1 /\ s.successCount = 0
            /\ s.state = next
        BY <3>2, <4>1, <4>2 DEF Breaker
      <4> QED
        BY <4>4, <4>5, BreakerAssumption DEF Breaker, Matches, next
    <3>4. CASE b.state = "OPEN"
      <4>1. s = failed
        BY <3>1, <3>4 DEF OnFailure
      <4> QED
        BY <3>2, <3>4, <4>1 DEF Breaker, Matches
    <3>5. CASE b.state = "HALF_OPEN"
      <4>1. s = [failed EXCEPT !.successCount = 0, !.state = "OPEN"]
        BY <3>1, <3>5 DEF OnFailure
      <4> QED
        BY <3>2, <4>1 DEF Breaker, Matches
    <3> QED
      BY <3>3, <3>4, <3>5 DEF Breaker
  <2> QED
    BY <2>1, <2>2
<1>2. Settled(b, ok, test) = [s EXCEPT !.testing = b.testing /\ ~test]
  BY <1>1 DEF Settled
<1> HIDE DEF s
<1> QED
  BY <1>1, <1>2 DEF Breaker, Matches

\* Time only lets the cooldown run down.
LEMMA TimePasses ==
  ASSUME NEW b \in Breaker, Matches(b), NEW ticks \in Nat
  PROVE  /\ [b EXCEPT !.cooldown = Less(@, ticks)] \in Breaker
         /\ Matches([b EXCEPT !.cooldown = Less(@, ticks)])
         /\ [b EXCEPT !.cooldown = Less(@, ticks)].testing = b.testing
BY DEF Less, Breaker, Matches

\* What the places a request may stand at say of its being a test call.
LEMMA Places ==
  /\ ~Testing(NotOpen)
  /\ \A u : \A t \in BOOLEAN : Testing(Fetching(u, t)) <=> t
  /\ \A ok, t \in BOOLEAN : Testing(Fetched(ok, t)) <=> t
BY DEF Testing, NotOpen, Fetching, Fetched

-----------------------------------------------------------------------------
\* A new breaker is closed, with nothing counted and no request in flight.
LEMMA InitSafe == Init => IInv
BY BreakerAssumption, Places
DEF Init, IInv, NewBreaker, Breaker, Matches, IsRequests, Stands, OneTest

\* Every step of clients, user-service, timers and failures keeps the breaker's
\* counters, its flag and the requests in step with each other.
LEMMA NextSafe == IInv /\ [Next]_vars => IInv'
<1> SUFFICES ASSUME IInv, [Next]_vars PROVE IInv'
  OBVIOUS
<1> USE DEF IInv
<1>1. ASSUME UNCHANGED <<breaker, request>> PROVE IInv'
  BY <1>1
<1>2. ASSUME NEW r \in Requests, Order(r) PROVE IInv'
  <2>1. CASE UNCHANGED <<breaker, request>>
    BY <2>1
  <2>2. CASE breaker' = Tested(breaker) /\ UNCHANGED request
    BY <2>2, CallBegins DEF OneTest
  <2>3. ASSUME NEW u, ~Rejects(breaker), breaker' = Begun(breaker),
               request' = [request EXCEPT ![r] = Fetching(u, IsTest(breaker))]
        PROVE  IInv'
    <3>1. IsTest(breaker) \in BOOLEAN
      BY CallBegins
    <3>2. IsRequests(request')
      BY <2>3, <3>1 DEF IsRequests, Stands
    <3>3. \A q \in Requests :
            request'[q] = IF q = r THEN Fetching(u, IsTest(breaker)) ELSE request[q]
      BY <2>3 DEF IsRequests
    <3>4. request[r] = NotOpen
      BY <1>2 DEF Order
    <3>5. OneTest(breaker', request')
      BY <2>3, <3>1, <3>3, <3>4, CallBegins, Places DEF OneTest
    <3> QED
      BY <2>3, <3>2, <3>5, CallBegins
  <2> QED
    BY <1>2, <2>1, <2>2, <2>3 DEF Order
<1>3. ASSUME NEW r \in Requests, Serve(r) \/ Disconnect(r) PROVE IInv'
  <2>1. PICK u : \E t \in BOOLEAN : request[r] = Fetching(u, t)
    BY <1>3 DEF Serve, Disconnect, IsRequests, Stands, NotOpen, Fetched
  <2>2. PICK t \in BOOLEAN : request[r] = Fetching(u, t)
    BY <2>1
  <2>3. request[r].test = t /\ request[r].url = u
    BY <2>2 DEF Fetching
  <2>4. PICK ok \in BOOLEAN : request' = [request EXCEPT ![r] = Fetched(ok, t)]
    <3>1. CASE Serve(r)
      <4> DEFINE ok == server[u] = "listening" /\ ~failMode
      <4>1. request' = [request EXCEPT ![r] = Fetched(ok, t)]
        BY <3>1, <2>3 DEF Serve
      <4>2. ok \in BOOLEAN
        OBVIOUS
      <4> QED
        BY <4>1, <4>2
    <3>2. CASE Disconnect(r)
      BY <3>2, <2>3 DEF Disconnect
    <3> QED
      BY <1>3, <3>1, <3>2
  <2>5. IsRequests(request')
    BY <2>4 DEF IsRequests, Stands
  <2>6. \A q \in Requests : Testing(request'[q]) <=> Testing(request[q])
    BY <2>2, <2>4, Places DEF IsRequests
  <2>7. breaker' = breaker
    BY <1>3 DEF Serve, Disconnect
  <2> QED
    BY <2>5, <2>6, <2>7 DEF OneTest
<1>4. ASSUME NEW r \in Requests, Answer(r) PROVE IInv'
  <2>1. PICK ok \in BOOLEAN, t \in BOOLEAN : request[r] = Fetched(ok, t)
    BY <1>4 DEF Answer, IsRequests, Stands, NotOpen, Fetching
  <2>2. breaker' = Settled(breaker, ok, t)
    BY <1>4, <2>1 DEF Answer, Fetched
  <2>3. request' = [request EXCEPT ![r] = NotOpen]
    BY <1>4 DEF Answer
  <2>4. IsRequests(request')
    BY <2>3 DEF IsRequests, Stands
  <2>5. \A q \in Requests : request'[q] = IF q = r THEN NotOpen ELSE request[q]
    BY <2>3 DEF IsRequests
  <2>6. OneTest(breaker', request')
    BY <2>1, <2>2, <2>5, CallSettles, Places DEF OneTest
  <2> QED
    BY <2>2, <2>4, <2>6, CallSettles
<1>5. ASSUME NEW ticks \in Nat, Elapse(ticks) PROVE IInv'
  BY <1>5, TimePasses DEF Elapse, OneTest
<1>6. CASE Tick \/ Stall
  BY <1>5, <1>6, RegistryAssumption DEF Tick, Stall
<1>7. ASSUME NEW u \in Urls, Start(u) \/ Close(u) \/ Leave(u) \/ Beat(u) PROVE IInv'
  BY <1>1, <1>7 DEF Start, Close, Leave, Beat
<1>8. CASE SetFailMode \/ HealthCheck \/ UNCHANGED vars
  BY <1>1, <1>8 DEF SetFailMode, HealthCheck, vars
<1> QED
  BY <1>2, <1>3, <1>4, <1>6, <1>7, <1>8 DEF Next

-----------------------------------------------------------------------------
\* For every number of overlapping requests at most one test call runs, and
\* the breaker knows of it (circuit-breaker.ts:105-124).
THEOREM AtMostOneTestCall == Spec => []OneTestCall
<1>1. IInv => OneTestCall
  BY DEF IInv, OneTest, Testing, OneTestCall, TestCalls
<1> QED
  BY <1>1, InitSafe, NextSafe, PTL DEF Spec

\* For all thresholds and timeouts, and in every order of outcomes, the
\* counters fit the state (circuit-breaker.ts:128-163).
THEOREM CountersFitState == Spec => []CountersMatchState
<1>1. IInv => CountersMatchState
  BY DEF IInv, Matches, CountersMatchState
<1> QED
  BY <1>1, InitSafe, NextSafe, PTL DEF Spec

-----------------------------------------------------------------------------
(* The registry. *)

\* An instance whose next heartbeat is still to come is healthy, and that
\* heartbeat comes within BeatEvery of its last one.
Timed(ss, beats) ==
  \A i \in DOMAIN ss : beats[ss[i].url] > 0 =>
    ss[i].healthy /\ ss[i].age + beats[ss[i].url] <= BeatEvery

\* Each url is registered once.
Once(ss) == \A i, j \in DOMAIN ss : ss[i].url = ss[j].url => i = j

RegistryInv ==
  /\ TypeOK
  /\ Timed(services, beatIn)
  /\ Once(services)

\* Of a set of positions one has k others before it, if there are as many.
LEMMA NthPosition ==
  ASSUME NEW n \in Nat, NEW H \in SUBSET (1 .. n), NEW k \in Nat, k < Cardinality(H)
  PROVE  \E i \in H : Cardinality({j \in H : j < i}) = k
<1> DEFINE below(i) == {j \in H : j < i}
           c(i) == Cardinality(below(i))
           Past == {i \in 1 .. n + 1 : c(i) > k}
<1>1. IsFiniteSet(H)
  <2>1. 1 \in Int /\ n \in Int
    OBVIOUS
  <2>2. IsFiniteSet(1 .. n)
    BY <2>1, FS_Interval
  <2> QED
    BY <2>2, FS_Subset
<1>2. \A i : IsFiniteSet(below(i)) /\ c(i) \in Nat
  <2> TAKE i
  <2>1. below(i) \in SUBSET H
    OBVIOUS
  <2> HIDE DEF below
  <2> QED
    BY <1>1, <2>1, FS_Subset, FS_CardinalityType
<1>3. below(n + 1) = H /\ below(1) = {}
  <2>1. \A j \in H : j < n + 1 /\ ~ (j < 1)
    OBVIOUS
  <2> QED
    BY <2>1
<1>4. ASSUME NEW i \in 1 .. n + 1, i > 1, i - 1 \in H
      PROVE  below(i) = below(i - 1) \cup {i - 1}
  <2>1. \A j \in H : j < i <=> j < i - 1 \/ j = i - 1
    BY <1>4
  <2>2. i - 1 < i
    BY <1>4
  <2> QED
    BY <1>4, <2>1, <2>2
<1>5. ASSUME NEW i \in 1 .. n + 1, i > 1, i - 1 \notin H
      PROVE  below(i) = below(i - 1)
  <2>1. \A j \in H : j < i <=> j < i - 1 \/ j = i - 1
    BY <1>5
  <2>2. \A j \in H : j < i <=> j < i - 1
    BY <1>5, <2>1
  <2> QED
    BY <2>2
<1>6. \A i \in 1 .. n + 1 : i - 1 \notin below(i - 1)
  OBVIOUS
<1> HIDE DEF below
<1>7. n + 1 \in Past /\ 1 \notin Past
  <2>1. c(n + 1) > k /\ c(1) = 0
    BY <1>3, FS_EmptySet
  <2> QED
    BY <2>1
<1>8. PICK i \in Past : \A x \in Past : ~ (<<x, i>> \in OpToRel(<, Nat))
  <2>1. Past \subseteq Nat /\ Past # {}
    BY <1>7
  <2> HIDE DEF Past
  <2> QED
    BY <2>1, NatLessThanWellFounded, WFMin
<1>9. i \in 1 .. n + 1 /\ i > 1 /\ c(i) > k
  BY <1>7
<1>10. c(i - 1) <= k
  <2>1. <<i - 1, i>> \in Nat \X Nat /\ i - 1 < i /\ i - 1 \in 1 .. n + 1
    BY <1>9
  <2>2. i - 1 \notin Past
    BY <1>8, <2>1 DEF OpToRel
  <2> QED
    BY <1>2, <2>1, <2>2
<1> HIDE DEF Past
<1>11. i - 1 \in H
  BY <1>2, <1>5, <1>9, <1>10
<1>12. c(i) = c(i - 1) + 1
  BY <1>2, <1>4, <1>6, <1>9, <1>11, FS_AddElement
<1>13. c(i - 1) = k
  <2> HIDE DEF c
  <2> QED
    BY <1>2, <1>9, <1>10, <1>12
<1> QED
  BY <1>11, <1>13 DEF below

\* discover() returns an address if an instance is healthy, and stores an
\* index that is one of an instance's.
LEMMA Discovery ==
  ASSUME NEW ss \in Seq(Instance), Once(ss), NEW n \in 0 .. Cardinality(Urls)
  PROVE  /\ Discovered(ss, n) \in Urls \cup {NoUrl}
         /\ NextIndex(ss, n) \in 0 .. Cardinality(Urls)
<1> DEFINE H == Healthy(ss)
           m == Cardinality(H)
           k == n % m
<1>1. Len(ss) \in Nat /\ DOMAIN ss = 1 .. Len(ss)
      /\ \A i \in DOMAIN ss : ss[i].url \in Urls
  <2>1. \A i \in DOMAIN ss : ss[i] \in Instance
    BY LenProperties
  <2> QED
    BY <2>1, LenProperties DEF Instance
<1>2. H \in SUBSET DOMAIN ss
  BY DEF Healthy
<1> HIDE DEF H
<1>3. IsFiniteSet(H) /\ m <= Cardinality(Urls) /\ m \in Nat
      /\ Cardinality(Urls) \in Nat
  <2> DEFINE f == [i \in H |-> ss[i].url]
  <2>1. f \in Injection(H, Urls)
    BY <1>1, <1>2 DEF Injection, IsInjective, Once
  <2> HIDE DEF f
  <2>2. IsFiniteSet(H) /\ m <= Cardinality(Urls)
    BY <2>1, RegistryAssumption, FS_Injection
  <2> QED
    BY <2>2, RegistryAssumption, FS_CardinalityType
<1>4. CASE H = {}
  BY <1>4 DEF Discovered, NextIndex, H
<1>5. CASE H # {}
  <2>1. m \in Nat \ {0}
    BY <1>3, <1>5, FS_EmptySet
  <2> HIDE DEF m
  <2>2. n \in Nat
    BY <1>3
  <2>3. k \in Nat /\ k < m /\ k + 1 <= m
    BY <2>1, <2>2
  <2> HIDE DEF k
  <2>4. \E i \in H : Cardinality({j \in H : j < i}) = k
    <3>1. H \in SUBSET (1 .. Len(ss)) /\ k < Cardinality(H) /\ k \in Nat
      BY <1>1, <1>2, <2>3 DEF m
    <3> QED
      BY <1>1, <3>1, NthPosition
  <2>5. Index(ss, n) = k
    BY DEF Index, k, m, H
  <2>6. \E i \in H : Cardinality(Before(ss, i)) = k
    BY <2>4 DEF Before, H
  <2>7. Discovered(ss, n) =
          ss[CHOOSE i \in H : Cardinality(Before(ss, i)) = k].url
    BY <1>5, <2>5 DEF Discovered, H
  <2>8. Discovered(ss, n) \in Urls
    BY <1>1, <1>2, <2>6, <2>7
  <2>9. NextIndex(ss, n) = k + 1
    BY <1>5, <2>5 DEF NextIndex, H
  <2> QED
    BY <1>3, <2>3, <2>8, <2>9
<1> QED
  BY <1>4, <1>5

\* Instances that change where they stand are still registered once.
LEMMA SameInstances ==
  ASSUME NEW ss \in Seq(Instance), NEW r, r = [i \in DOMAIN ss |-> r[i]],
         \A i \in DOMAIN ss : r[i] \in Instance /\ r[i].url = ss[i].url
  PROVE  r \in Seq(Instance) /\ DOMAIN r = DOMAIN ss /\ (Once(ss) => Once(r))
<1>1. Len(ss) \in Nat /\ DOMAIN ss = 1 .. Len(ss)
  BY LenProperties
<1>2. r \in [1 .. Len(ss) -> Instance]
  BY <1>1
<1>3. r \in Seq(Instance) /\ DOMAIN r = DOMAIN ss
  BY <1>1, <1>2, SeqDef
<1> QED
  BY <1>3 DEF Once

\* Registering leaves one instance of the url, which is fresh.
LEMMA Registration ==
  ASSUME NEW ss \in Seq(Instance), Once(ss), NEW u \in Urls
  PROVE  /\ Register(ss, u) \in Seq(Instance) /\ Once(Register(ss, u))
         /\ \A i \in DOMAIN Register(ss, u) :
              \/ Register(ss, u)[i] = Fresh(u)
              \/ /\ i \in DOMAIN ss /\ ss[i].url # u
                 /\ Register(ss, u)[i] = ss[i]
<1> DEFINE r == Register(ss, u)
           n == Len(ss)
<1>1. n \in Nat /\ DOMAIN ss = 1 .. n /\ \A i \in DOMAIN ss : ss[i] \in Instance
  BY LenProperties
<1>2. Fresh(u) \in Instance /\ Fresh(u).url = u
  BY RegistryAssumption DEF Fresh, Instance
<1>3. CASE u \in Registered(ss)
  <2>1. r = [i \in DOMAIN ss |-> IF ss[i].url = u THEN Fresh(u) ELSE ss[i]]
    BY <1>3 DEF Register
  <2> HIDE DEF r
  <2>2. \A i \in DOMAIN ss : r[i] \in Instance /\ r[i].url = ss[i].url
    BY <1>1, <1>2, <2>1
  <2>3. r \in Seq(Instance) /\ DOMAIN r = DOMAIN ss /\ Once(r)
    BY <2>1, <2>2, SameInstances
  <2> QED
    BY <2>1, <2>3 DEF r
<1>4. CASE u \notin Registered(ss)
  <2>1. r = Append(ss, Fresh(u))
    BY <1>4 DEF Register
  <2> HIDE DEF r
  <2>2. /\ r \in Seq(Instance) /\ DOMAIN r = 1 .. n + 1
        /\ r[n + 1] = Fresh(u) /\ \A i \in 1 .. n : r[i] = ss[i]
    BY <1>1, <1>2, <2>1, AppendProperties, LenProperties
  <2> HIDE DEF n
  <2>3. \A i \in DOMAIN r : i = n + 1 \/ i \in DOMAIN ss
    BY <1>1, <2>2
  <2>4. \A i \in DOMAIN ss : ss[i].url # u
    BY <1>4 DEF Registered
  <2>5. Once(r)
    BY <1>1, <1>2, <2>2, <2>3, <2>4 DEF Once
  <2> QED
    BY <1>1, <2>2, <2>3, <2>4, <2>5 DEF r
<1> QED
  BY <1>3, <1>4

\* Deregistering leaves the other instances.
LEMMA Deregistration ==
  ASSUME NEW ss \in Seq(Instance), Once(ss), NEW u \in Registered(ss)
  PROVE  /\ Deregister(ss, u) \in Seq(Instance) /\ Once(Deregister(ss, u))
         /\ \A i \in DOMAIN Deregister(ss, u) :
              \E j \in DOMAIN ss : Deregister(ss, u)[i] = ss[j]
<1> DEFINE r == Deregister(ss, u)
           n == Len(ss)
           at == CHOOSE i \in DOMAIN ss : ss[i].url = u
<1>1. n \in Nat /\ DOMAIN ss = 1 .. n /\ \A i \in DOMAIN ss : ss[i] \in Instance
  BY LenProperties
<1>2. at \in 1 .. n
  BY <1>1 DEF Registered
<1>3. r = [i \in 1 .. n - 1 |-> ss[IF i < at THEN i ELSE i + 1]]
  BY DEF Deregister
<1> HIDE DEF n, at, r
<1>4. /\ DOMAIN r = 1 .. n - 1
      /\ \A i \in 1 .. n - 1 :
           /\ i < at => i \in 1 .. n /\ r[i] = ss[i]
           /\ i >= at => i + 1 \in 1 .. n /\ r[i] = ss[i + 1]
  BY <1>1, <1>2, <1>3
<1>5. \A i \in DOMAIN r : \E j \in DOMAIN ss : r[i] = ss[j]
  BY <1>1, <1>2, <1>4
<1>6. r \in Seq(Instance)
  <2>1. r \in [1 .. n - 1 -> Instance]
    BY <1>1, <1>3, <1>4, <1>5
  <2>2. n - 1 \in Nat
    BY <1>1, <1>2
  <2> QED
    BY <2>1, <2>2, SeqDef
<1>7. Once(r)
  <2>1. SUFFICES ASSUME NEW i \in DOMAIN r, NEW j \in DOMAIN r, r[i].url = r[j].url
                 PROVE  i = j
    BY DEF Once
  <2>2. i \in Int /\ j \in Int /\ at \in Int
    BY <1>2, <1>4
  <2>3. CASE i < at /\ j < at
    BY <1>1, <1>4, <2>1, <2>3 DEF Once
  <2>4. CASE i >= at /\ j >= at
    <3>1. i + 1 = j + 1
      BY <1>1, <1>4, <2>1, <2>4 DEF Once
    <3> QED
      BY <2>2, <3>1
  <2>5. CASE i < at /\ j >= at
    <3>1. i = j + 1
      BY <1>1, <1>4, <2>1, <2>5 DEF Once
    <3> QED
      BY <2>2, <2>5, <3>1
  <2>6. CASE i >= at /\ j < at
    <3>1. i + 1 = j
      BY <1>1, <1>4, <2>1, <2>6 DEF Once
    <3> QED
      BY <2>2, <2>6, <3>1
  <2> QED
    BY <2>2, <2>3, <2>4, <2>5, <2>6
<1> QED
  BY <1>5, <1>6, <1>7 DEF r

\* The registry starts empty.
LEMMA RegistryInit == Init => RegistryInv
<1> SUFFICES ASSUME Init PROVE RegistryInv
  OBVIOUS
<1>1. breaker \in Breaker
  BY InitSafe DEF IInv
<1>2. services = <<>> /\ DOMAIN services = {} /\ services \in Seq(Instance)
  BY EmptySeq DEF Init
<1>3. 0 \in 0 .. Cardinality(Urls) /\ 0 \in 0 .. BeatEvery /\ 0 \in 0 .. MaxFaults
      /\ CheckEvery \in 0 .. CheckEvery
  BY OrderAssumption, RegistryAssumption, FS_CardinalityType
<1>4. request \in [Requests -> RequestStates]
  BY DEF Init, RequestStates
<1>5. TypeOK
  BY <1>1, <1>2, <1>3, <1>4 DEF Init, TypeOK
<1> QED
  BY <1>2, <1>5 DEF RegistryInv, Timed, Once

\* A step that leaves the instances and their timers alone.
LEMMA RegistryStays ==
  ASSUME RegistryInv, TypeOK', UNCHANGED <<services, beatIn>>
  PROVE  RegistryInv'
BY DEF RegistryInv

\* An instance that starts or sends its heartbeat is fresh, and its next
\* heartbeat is BeatEvery away.
LEMMA Freshened ==
  ASSUME RegistryInv, NEW u \in Urls, TypeOK', Once(services'),
         beatIn' = [beatIn EXCEPT ![u] = BeatEvery],
         \A i \in DOMAIN services' :
           \/ services'[i] = Fresh(u)
           \/ /\ i \in DOMAIN services /\ services[i].url # u
              /\ services'[i] = services[i]
  PROVE  RegistryInv'
<1>1. ASSUME NEW i \in DOMAIN services', beatIn'[services'[i].url] > 0
      PROVE  /\ services'[i].healthy
             /\ services'[i].age + beatIn'[services'[i].url] <= BeatEvery
  <2>1. CASE services'[i] = Fresh(u)
    <3>1. beatIn'[u] = BeatEvery
      BY DEF RegistryInv, TypeOK
    <3> QED
      BY <2>1, <3>1, OrderAssumption DEF Fresh
  <2>2. CASE /\ i \in DOMAIN services /\ services[i].url # u
             /\ services'[i] = services[i]
    <3>1. beatIn'[services[i].url] = beatIn[services[i].url]
      <4>1. services[i].url \in Urls
        <5>1. services \in Seq(Instance)
          BY DEF RegistryInv, TypeOK
        <5>2. services[i] \in Instance
          BY <2>2, <5>1, LenProperties
        <5> QED
          BY <5>2 DEF Instance
      <4> QED
        BY <2>2, <4>1 DEF RegistryInv, TypeOK
    <3> QED
      BY <1>1, <2>2, <3>1 DEF RegistryInv, Timed
  <2> QED
    BY <2>1, <2>2
<1> QED
  BY <1>1 DEF RegistryInv, Timed

\* As time passes a timer runs down by what an instance grows older.
LEMMA ElapseKeeps ==
  ASSUME RegistryInv, breaker' \in Breaker, faults' \in 0 .. MaxFaults,
         NEW ticks \in Nat, Elapse(ticks)
  PROVE  RegistryInv'
<1> DEFINE aged(s) == [s EXCEPT !.age = IF s.age + ticks > HeartbeatTimeout
                                        THEN HeartbeatTimeout + 1
                                        ELSE s.age + ticks]
<1>1. /\ services' = [i \in DOMAIN services |-> aged(services[i])]
      /\ beatIn' = [u \in Urls |-> Less(beatIn[u], ticks)]
      /\ checkIn' = Less(checkIn, ticks)
      /\ UNCHANGED <<rr, server, failMode, request>>
  BY DEF Elapse, Aged
<1>2. /\ services \in Seq(Instance) /\ HeartbeatTimeout \in Nat /\ BeatEvery \in Nat
      /\ BeatEvery <= HeartbeatTimeout
      /\ \A i \in DOMAIN services : services[i] \in Instance
  <2>1. services \in Seq(Instance)
    BY DEF RegistryInv, TypeOK
  <2> QED
    BY <2>1, LenProperties, OrderAssumption, RegistryAssumption
<1>3. \A s \in Instance : /\ aged(s) \in Instance /\ aged(s).url = s.url
                          /\ aged(s).healthy = s.healthy
                          /\ aged(s).age <= s.age + ticks
  <2> TAKE s \in Instance
  <2> DEFINE a == IF s.age + ticks > HeartbeatTimeout THEN HeartbeatTimeout + 1
                  ELSE s.age + ticks
  <2>1. s.age \in 0 .. HeartbeatTimeout + 1
    BY DEF Instance
  <2>2. a \in 0 .. HeartbeatTimeout + 1 /\ a <= s.age + ticks
    BY <1>2, <2>1
  <2>3. aged(s) = [s EXCEPT !.age = a]
    OBVIOUS
  <2> HIDE DEF a, aged
  <2> QED
    BY <2>2, <2>3 DEF Instance
<1> HIDE DEF aged
<1>4. services' \in Seq(Instance) /\ DOMAIN services' = DOMAIN services
      /\ Once(services')
  <2>1. services' = [i \in DOMAIN services |-> services'[i]]
    BY <1>1
  <2>2. \A i \in DOMAIN services :
           services'[i] \in Instance /\ services'[i].url = services[i].url
    BY <1>1, <1>2, <1>3
  <2> QED
    BY <1>2, <2>1, <2>2, SameInstances DEF RegistryInv
<1>5. beatIn' \in [Urls -> 0 .. BeatEvery] /\ checkIn' \in 0 .. CheckEvery
  BY <1>1, OrderAssumption DEF RegistryInv, TypeOK, Less
<1>6. TypeOK'
  BY <1>1, <1>4, <1>5 DEF RegistryInv, TypeOK
<1>7. ASSUME NEW i \in DOMAIN services', beatIn'[services'[i].url] > 0
      PROVE  /\ services'[i].healthy
             /\ services'[i].age + beatIn'[services'[i].url] <= BeatEvery
  <2> DEFINE s == services[i]
             b == beatIn[s.url]
  <2>1. s \in Instance /\ s.url \in Urls /\ s.age \in Nat /\ b \in Nat
    BY <1>2, <1>4, OrderAssumption DEF Instance, RegistryInv, TypeOK
  <2>2. services'[i] = aged(s)
    BY <1>1, <1>4
  <2>3. beatIn'[services'[i].url] = Less(b, ticks)
    BY <1>1, <1>3, <2>1, <2>2
  <2>4. b > 0 => s.healthy /\ s.age + b <= BeatEvery
    BY <1>4 DEF RegistryInv, Timed
  <2>5. aged(s).age \in Nat /\ aged(s).age <= s.age + ticks
    <3>1. aged(s) \in Instance
      BY <1>3, <2>1
    <3>2. aged(s).age \in 0 .. HeartbeatTimeout + 1
      BY <3>1 DEF Instance
    <3> QED
      BY <1>2, <1>3, <2>1, <3>2
  <2> HIDE DEF s, b
  <2>6. b > ticks /\ beatIn'[services'[i].url] = b - ticks
    BY <1>7, <2>1, <2>3 DEF Less
  <2>7. aged(s).age + (b - ticks) <= s.age + b
    BY <2>1, <2>5, <2>6
  <2> QED
    BY <1>2, <1>3, <2>1, <2>2, <2>4, <2>5, <2>6, <2>7
<1> QED
  BY <1>4, <1>6, <1>7 DEF RegistryInv, Timed

\* Every step keeps the registry in order.
LEMMA RegistryNext == IInv /\ RegistryInv /\ [Next]_vars => RegistryInv'
<1> SUFFICES ASSUME IInv, RegistryInv, [Next]_vars PROVE RegistryInv'
  OBVIOUS
<1>1. breaker' \in Breaker
  BY NextSafe DEF IInv
<1>2. /\ services \in Seq(Instance) /\ rr \in 0 .. Cardinality(Urls)
      /\ request \in [Requests -> RequestStates]
      /\ BeatEvery \in 0 .. BeatEvery /\ CheckEvery \in 0 .. CheckEvery
      /\ beatIn \in [Urls -> 0 .. BeatEvery]
      /\ \A i \in DOMAIN services : services[i] \in Instance
      /\ Once(services) /\ Timed(services, beatIn)
      /\ TypeOK
  <2>1. services \in Seq(Instance)
    BY DEF RegistryInv, TypeOK
  <2> QED
    BY <2>1, OrderAssumption, LenProperties DEF RegistryInv, TypeOK
<1>3. ASSUME NEW u \in Urls, Start(u) PROVE RegistryInv'
  <2>1. /\ services' = Register(services, u)
        /\ beatIn' = [beatIn EXCEPT ![u] = BeatEvery]
        /\ server' = [server EXCEPT ![u] = "listening"]
        /\ UNCHANGED <<breaker, rr, checkIn, failMode, request, faults>>
    BY <1>3 DEF Start
  <2>2. /\ services' \in Seq(Instance) /\ Once(services')
        /\ \A i \in DOMAIN services' :
             \/ services'[i] = Fresh(u)
             \/ /\ i \in DOMAIN services /\ services[i].url # u
                /\ services'[i] = services[i]
    BY <1>2, <2>1, Registration
  <2>3. TypeOK'
    BY <1>2, <2>1, <2>2 DEF TypeOK
  <2> QED
    BY <2>1, <2>2, <2>3, Freshened
<1>4. ASSUME NEW u \in Urls, Beat(u) PROVE RegistryInv'
  <2>1. /\ services' = [i \in DOMAIN services |->
                          IF services[i].url = u THEN Fresh(u) ELSE services[i]]
        /\ beatIn' = [beatIn EXCEPT ![u] = BeatEvery]
        /\ UNCHANGED <<breaker, rr, checkIn, server, failMode, request, faults>>
    BY <1>4 DEF Beat, Heartbeat
  <2>2. Fresh(u) \in Instance /\ Fresh(u).url = u
    BY RegistryAssumption DEF Fresh, Instance
  <2>3. services' = [i \in DOMAIN services |-> services'[i]]
        /\ \A i \in DOMAIN services :
             services'[i] \in Instance /\ services'[i].url = services[i].url
    BY <1>2, <2>1, <2>2
  <2>4. services' \in Seq(Instance) /\ Once(services') /\ DOMAIN services' = DOMAIN services
    BY <1>2, <2>3, SameInstances
  <2>5. TypeOK'
    BY <1>2, <2>1, <2>4 DEF TypeOK
  <2>6. \A i \in DOMAIN services' :
          \/ services'[i] = Fresh(u)
          \/ /\ i \in DOMAIN services /\ services[i].url # u
             /\ services'[i] = services[i]
    BY <2>1, <2>4
  <2> QED
    BY <2>1, <2>4, <2>5, <2>6, Freshened
<1>5. ASSUME NEW u \in Urls, Close(u) PROVE RegistryInv'
  <2>1. faults' \in 0 .. MaxFaults /\ server' \in [Urls -> {"new", "listening", "closed"}]
        /\ UNCHANGED <<breaker, services, rr, beatIn, checkIn, failMode, request>>
    BY <1>2, <1>5, OrderAssumption DEF Close, TypeOK
  <2>2. TypeOK'
    BY <1>2, <2>1 DEF TypeOK
  <2> QED
    BY <2>1, <2>2, RegistryStays
<1>6. ASSUME NEW u \in Urls, Leave(u) PROVE RegistryInv'
  <2>1. /\ u \in Registered(services) /\ services' = Deregister(services, u)
        /\ UNCHANGED <<breaker, rr, beatIn, checkIn, server, failMode, request, faults>>
    BY <1>6 DEF Leave
  <2>2. /\ services' \in Seq(Instance) /\ Once(services')
        /\ \A i \in DOMAIN services' : \E j \in DOMAIN services : services'[i] = services[j]
    BY <1>2, <2>1, Deregistration
  <2>3. TypeOK'
    BY <1>2, <2>1, <2>2 DEF TypeOK
  <2>4. Timed(services', beatIn')
    BY <1>2, <2>1, <2>2 DEF Timed
  <2> QED
    BY <2>2, <2>3, <2>4 DEF RegistryInv
<1>7. ASSUME NEW r \in Requests, Order(r) PROVE RegistryInv'
  <2> DEFINE url == Discovered(services, rr)
  <2>1. url \in Urls \cup {NoUrl} /\ NextIndex(services, rr) \in 0 .. Cardinality(Urls)
    BY <1>2, Discovery
  <2>2. /\ rr' = NextIndex(services, rr)
        /\ \/ UNCHANGED request
           \/ /\ url # NoUrl
              /\ request' = [request EXCEPT ![r] = Fetching(url, IsTest(breaker))]
        /\ UNCHANGED <<services, beatIn, checkIn, server, failMode, faults>>
    BY <1>7 DEF Order
  <2> HIDE DEF url
  <2>3. request' \in [Requests -> RequestStates]
    <3>1. IsTest(breaker) \in BOOLEAN
      BY CallBegins DEF IInv
    <3>2. url # NoUrl => Fetching(url, IsTest(breaker)) \in RequestStates
      BY <2>1, <3>1 DEF RequestStates
    <3> QED
      BY <1>2, <2>2, <3>2
  <2>4. TypeOK'
    BY <1>1, <1>2, <2>1, <2>2, <2>3 DEF TypeOK
  <2> QED
    BY <2>2, <2>4, RegistryStays
<1>8. ASSUME NEW r \in Requests, Serve(r) \/ Disconnect(r) PROVE RegistryInv'
  <2>1. PICK u \in Urls, t \in BOOLEAN : request[r] = Fetching(u, t)
    BY <1>2, <1>8 DEF Serve, Disconnect, RequestStates, NotOpen, Fetched
  <2>2. request[r].test = t
    BY <2>1 DEF Fetching
  <2>3. \E ok \in BOOLEAN : request' = [request EXCEPT ![r] = Fetched(ok, t)]
    <3>1. CASE Serve(r)
      <4> DEFINE ok == server[request[r].url] = "listening" /\ ~failMode
      <4>1. ok \in BOOLEAN
        OBVIOUS
      <4>2. request' = [request EXCEPT ![r] = Fetched(ok, t)]
        BY <2>2, <3>1 DEF Serve
      <4> QED
        BY <4>1, <4>2
    <3>2. CASE Disconnect(r)
      BY <2>2, <3>2 DEF Disconnect
    <3> QED
      BY <1>8, <3>1, <3>2
  <2>4. request' \in [Requests -> RequestStates]
    BY <1>2, <2>3 DEF RequestStates
  <2>5. /\ faults' = faults \/ (faults < MaxFaults /\ faults' = faults + 1)
        /\ UNCHANGED <<services, rr, beatIn, checkIn, server, failMode>>
    BY <1>8 DEF Serve, Disconnect
  <2>7. faults' \in 0 .. MaxFaults
    BY <1>2, <2>5, OrderAssumption DEF TypeOK
  <2>6. TypeOK'
    BY <1>1, <1>2, <2>4, <2>5, <2>7 DEF TypeOK
  <2> QED
    BY <2>5, <2>6, RegistryStays
<1>9. ASSUME NEW r \in Requests, Answer(r) PROVE RegistryInv'
  <2>1. request' \in [Requests -> RequestStates]
    BY <1>2, <1>9 DEF Answer, RequestStates
  <2>2. UNCHANGED <<services, rr, beatIn, checkIn, server, failMode, faults>>
    BY <1>9 DEF Answer
  <2>3. TypeOK'
    BY <1>1, <1>2, <2>1, <2>2 DEF TypeOK
  <2> QED
    BY <2>2, <2>3, RegistryStays
<1>10. CASE HealthCheck
  <2>1. /\ services' = [i \in DOMAIN services |->
              [services[i] EXCEPT !.healthy =
                 services[i].healthy /\ services[i].age <= HeartbeatTimeout]]
        /\ checkIn' = CheckEvery
        /\ UNCHANGED <<breaker, rr, beatIn, server, failMode, request, faults>>
    BY <1>2, <1>10 DEF HealthCheck, Checked, Instance
  <2>2. \A i \in DOMAIN services :
          /\ services'[i] \in Instance /\ services'[i].url = services[i].url
          /\ services'[i].age = services[i].age
          /\ services[i].healthy /\ services[i].age <= HeartbeatTimeout
               => services'[i].healthy
    BY <1>2, <2>1 DEF Instance
  <2>3. services' = [i \in DOMAIN services |-> services'[i]]
    BY <2>1
  <2>4. services' \in Seq(Instance) /\ Once(services') /\ DOMAIN services' = DOMAIN services
    BY <1>2, <2>2, <2>3, SameInstances
  <2>5. TypeOK'
    BY <1>2, <2>1, <2>4 DEF TypeOK
  <2>6. ASSUME NEW i \in DOMAIN services, beatIn[services[i].url] > 0
        PROVE  services[i].age <= HeartbeatTimeout
    <3>1. services[i].age \in Nat /\ beatIn[services[i].url] \in Nat
      BY <1>2, OrderAssumption, RegistryAssumption DEF Instance
    <3>2. services[i].age + beatIn[services[i].url] <= BeatEvery
      BY <1>2, <2>6 DEF Timed
    <3> QED
      BY <3>1, <3>2, OrderAssumption, RegistryAssumption
  <2>7. Timed(services', beatIn')
    BY <1>2, <2>1, <2>2, <2>4, <2>6 DEF Timed
  <2> QED
    BY <2>4, <2>5, <2>7 DEF RegistryInv
<1>11. CASE SetFailMode
  <2>1. TypeOK' /\ UNCHANGED <<services, beatIn>>
    BY <1>2, <1>11 DEF SetFailMode, TypeOK
  <2> QED
    BY <2>1, RegistryStays
<1>12. CASE Tick
  <2>1. faults' \in 0 .. MaxFaults /\ Elapse(1)
    BY <1>2, <1>12 DEF Tick, TypeOK
  <2> QED
    BY <1>1, <2>1, ElapseKeeps
<1>13. CASE Stall
  <2>1. faults' \in 0 .. MaxFaults /\ Elapse(HeartbeatTimeout + 1)
        /\ HeartbeatTimeout + 1 \in Nat
    BY <1>2, <1>13, OrderAssumption, RegistryAssumption DEF Stall, TypeOK
  <2> QED
    BY <1>1, <2>1, ElapseKeeps
<1>14. CASE UNCHANGED vars
  <2>1. TypeOK' /\ UNCHANGED <<services, beatIn>>
    BY <1>2, <1>14 DEF vars, TypeOK
  <2> QED
    BY <2>1, RegistryStays
<1> QED
  BY <1>3, <1>4, <1>5, <1>6, <1>7, <1>8, <1>9, <1>10, <1>11, <1>12, <1>13, <1>14
     DEF Next

\* For every number of instances, and however stalls, closed servers and
\* requests fall between heartbeats and health checks: an instance whose
\* process runs is only unhealthy while its heartbeat is overdue, and the
\* round-robin index stays within the instances (service-registry.ts:70-130).
THEOREM RegistryStaysInOrder == Spec => []RegistryInOrder
<1>1. ASSUME RegistryInv PROVE RegistryInOrder
  <2>1. ASSUME NEW i \in DOMAIN services, ~services[i].healthy
        PROVE  beatIn[services[i].url] = 0
    <3>1. services[i].url \in Urls
      <4>1. services \in Seq(Instance)
        BY <1>1 DEF RegistryInv, TypeOK
      <4>2. services[i] \in Instance
        BY <4>1, LenProperties
      <4> QED
        BY <4>2 DEF Instance
    <3>2. beatIn[services[i].url] \in Nat
      BY <1>1, <3>1, OrderAssumption DEF RegistryInv, TypeOK
    <3> QED
      BY <1>1, <2>1, <3>2 DEF RegistryInv, Timed
  <2> QED
    BY <1>1, <2>1 DEF RegistryInv, RegistryInOrder, UnhealthyUntilHeartbeat
<1> QED
  BY <1>1, InitSafe, NextSafe, RegistryInit, RegistryNext, PTL DEF Spec
=============================================================================
