-------------------------- MODULE ServiceRegistry --------------------------
(***************************************************************************)
(* The class ServiceRegistry of 12-microservices/service-registry.ts for   *)
(* one service name, as operators on its instances: a sequence in the      *)
(* order of the Map, which keeps the place of a url that registers again.  *)
(* `age' counts the ticks since lastHeartbeat; beyond HeartbeatTimeout it  *)
(* is all the same to the registry, so there it stops counting.            *)
(***************************************************************************)
EXTENDS Naturals, FiniteSets, Sequences

CONSTANTS
  Urls,              \* the addresses of the instances
  HeartbeatTimeout,  \* heartbeatTimeoutMs, in ticks
  NoUrl              \* discover() returns null

ASSUME RegistryAssumption ==
  HeartbeatTimeout \in Nat /\ NoUrl \notin Urls /\ IsFiniteSet(Urls)

Instance == [url : Urls, healthy : BOOLEAN, age : 0 .. HeartbeatTimeout + 1]

Registered(services) == {services[i].url : i \in DOMAIN services}

Fresh(url) == [url |-> url, healthy |-> TRUE, age |-> 0]

Register(services, url) ==
  IF url \in Registered(services)
  THEN [i \in DOMAIN services |->
          IF services[i].url = url THEN Fresh(url) ELSE services[i]]
  ELSE Append(services, Fresh(url))

\* A url that is registered has one instance.
Deregister(services, url) ==
  LET at == CHOOSE i \in DOMAIN services : services[i].url = url
  IN [i \in 1 .. Len(services) - 1 |-> services[IF i < at THEN i ELSE i + 1]]

\* MUTANT: a heartbeat does not bring an unhealthy instance back.
HeartbeatWithoutRevival(services, url) ==
  [i \in DOMAIN services |->
     IF services[i].url = url THEN [services[i] EXCEPT !.age = 0]
     ELSE services[i]]

Heartbeat(services, url) ==
  [i \in DOMAIN services |->
     IF services[i].url = url THEN Fresh(url) ELSE services[i]]

Healthy(services) == {i \in DOMAIN services : services[i].healthy}

\* discover(): the url, and the round-robin index that is stored for the
\* next call.  The index counts the healthy instances only.
Index(services, rr) == rr % Cardinality(Healthy(services))

Before(services, i) == {j \in Healthy(services) : j < i}

Discovered(services, rr) ==
  IF Healthy(services) = {} THEN NoUrl
  ELSE LET at == CHOOSE i \in Healthy(services) :
                   Cardinality(Before(services, i)) = Index(services, rr)
       IN services[at].url

NextIndex(services, rr) ==
  IF Healthy(services) = {} THEN rr ELSE Index(services, rr) + 1

\* One round of the health check timer.
Checked(services) ==
  [i \in DOMAIN services |->
     [services[i] EXCEPT !.healthy = @ /\ services[i].age <= HeartbeatTimeout]]

Aged(services, ticks) ==
  [i \in DOMAIN services |->
     [services[i] EXCEPT
        !.age = IF @ + ticks > HeartbeatTimeout THEN HeartbeatTimeout + 1
                ELSE @ + ticks]]
=============================================================================
