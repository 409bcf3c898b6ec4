--------------------------- MODULE CircuitBreaker ---------------------------
(***************************************************************************)
(* The class CircuitBreaker of 12-microservices/circuit-breaker.ts, as     *)
(* operators on the state b of one breaker.  call() is in three parts:     *)
(* what it does before it awaits fn (Tested, Rejects, Begun), the await,   *)
(* in which other calls run, and what it does with the outcome (Settled).  *)
(* Time is in ticks: `cooldown' is what is left until resetTimeoutMs have  *)
(* passed since lastFailureTime.                                           *)
(***************************************************************************)
EXTENDS Naturals

CONSTANTS FailureThreshold, ResetTimeout, SuccessThreshold

ASSUME BreakerAssumption ==
  /\ FailureThreshold \in Nat \ {0}
  /\ ResetTimeout \in Nat
  /\ SuccessThreshold \in Nat \ {0}

Breaker ==
  [state : {"CLOSED", "OPEN", "HALF_OPEN"}, failureCount : Nat,
   successCount : Nat, cooldown : Nat, testing : BOOLEAN]

NewBreaker ==
  [state |-> "CLOSED", failureCount |-> 0, successCount |-> 0,
   cooldown |-> 0, testing |-> FALSE]

\* The breaker after call() has looked at the cooldown.
Tested(b) ==
  IF b.state = "OPEN" /\ b.cooldown = 0
  THEN [b EXCEPT !.state = "HALF_OPEN"]
  ELSE b

\* Whether call() throws CircuitOpenError: also when a test call runs.
Rejects(b) ==
  \/ Tested(b).state = "OPEN"
  \/ Tested(b).state = "HALF_OPEN" /\ b.testing

\* Whether the call, if it is not rejected, is a test call.
IsTest(b) == Tested(b).state = "HALF_OPEN"

\* The breaker when fn is awaited.
Begun(b) == [Tested(b) EXCEPT !.testing = @ \/ IsTest(b)]

\* MUTANT: the breaker closes and keeps the count of old failures.
OnSuccessKeepingFailures(b) ==
  IF b.state = "HALF_OPEN"
  THEN IF b.successCount + 1 >= SuccessThreshold
       THEN [b EXCEPT !.state = "CLOSED", !.successCount = 0]
       ELSE [b EXCEPT !.successCount = @ + 1]
  ELSE IF b.state = "CLOSED" THEN [b EXCEPT !.failureCount = 0]
  ELSE b

OnSuccess(b) ==
  CASE b.state = "CLOSED" -> [b EXCEPT !.failureCount = 0]
    [] b.state = "OPEN" -> b
    [] b.state = "HALF_OPEN" ->
         IF b.successCount + 1 >= SuccessThreshold
         THEN [b EXCEPT !.state = "CLOSED", !.failureCount = 0,
                        !.successCount = 0]
         ELSE [b EXCEPT !.successCount = @ + 1]

OnFailure(b) ==
  LET failed == [b EXCEPT !.cooldown = ResetTimeout]
  IN CASE b.state = "CLOSED" ->
            [failed EXCEPT
               !.failureCount = @ + 1,
               !.state = IF b.failureCount + 1 >= FailureThreshold
                         THEN "OPEN" ELSE @]
       [] b.state = "OPEN" -> failed
       [] b.state = "HALF_OPEN" ->
            [failed EXCEPT !.successCount = 0, !.state = "OPEN"]

\* MUTANT: every call clears the flag, not only the test call that set it.
SettledByAnyone(b, ok, test) ==
  [(IF ok THEN OnSuccess(b) ELSE OnFailure(b)) EXCEPT !.testing = FALSE]

\* MUTANT: the flag stays set when the test call throws.
SettledOnlyOnSuccess(b, ok, test) ==
  [(IF ok THEN OnSuccess(b) ELSE OnFailure(b))
     EXCEPT !.testing = @ /\ ~(test /\ ok)]

\* The breaker after fn has returned (ok) or thrown.
Settled(b, ok, test) ==
  [(IF ok THEN OnSuccess(b) ELSE OnFailure(b))
     EXCEPT !.testing = @ /\ ~test]
=============================================================================
