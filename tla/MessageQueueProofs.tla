------------------------- MODULE MessageQueueProofs -------------------------
(***************************************************************************)
(* Safety of the message queue for every set of messages and consumers,    *)
(* every retry budget and every timeout: no message is lost or doubled, and *)
(* its attempts stay within its budget.                                    *)
(*                                                                         *)
(* That an array holds each message once is stated on positions, where ack *)
(* and nack remove one.  The budget is not inductive: Owed adds whom the   *)
(* attempt beyond it is owed to, which is the consumer that took the       *)
(* message and has had it for as long as its lease has run, unless that    *)
(* consumer has crashed since and was counted as a fault.                  *)
(***************************************************************************)
EXTENDS MessageQueue, TLAPS, SequenceTheorems, FiniteSetTheorems

\* The messages of a queue, and that it holds each of them once.
IdsOf(q) == {q[i].id : i \in DOMAIN q}
Distinct(q) == \A i, j \in DOMAIN q : q[i].id = q[j].id => i = j

\* NothingLost, with the cardinalities stated on positions.
Settled ==
  /\ Distinct(queue)
  /\ Distinct(dead)
  /\ IdsOf(queue) \cap IdsOf(dead) = {}
  /\ unsent \cap (IdsOf(queue) \cup IdsOf(dead) \cup handled) = {}
  /\ Messages \ unsent \subseteq IdsOf(queue) \cup IdsOf(dead) \cup handled

\* Somebody took message e and still holds it: its time with the message and
\* what is left of the lease make up the visibility timeout.
Owner(e, hands, times) ==
  \E c \in Consumers : hands[c] = e.id /\ times[c] + e.lease = VisibilityTimeout

\* A message is within the budget that the faults so far allow, or it is out
\* for the last attempt of it and its owner has not failed yet.
Owed(e, hands, times, failures) ==
  \/ e.attempts <= MaxRetries[e.id] + failures
  \/ /\ e.inFlight
     /\ e.attempts <= MaxRetries[e.id] + 1 + failures
     /\ e.lease > 0
     /\ Owner(e, hands, times)

IInv ==
  /\ TypeOK
  /\ Settled
  /\ \A c \in Consumers : holding[c] \notin unsent
  /\ \A i \in DOMAIN queue : Owed(queue[i], holding, held, faults)
  /\ \A i \in DOMAIN dead : dead[i].attempts > MaxRetries[dead[i].id]

-----------------------------------------------------------------------------
(* Numbers and arrays. *)

\* A power of two is a natural number: it counts the subsets of a set.
LEMMA PowerOfTwo ==
  ASSUME NEW n \in Nat
  PROVE  2 ^ n \in Nat
<1>1. IsFiniteSet(1..n) /\ Cardinality(1..n) = n
  BY FS_Interval
<1>2. IsFiniteSet(SUBSET (1..n)) /\ Cardinality(SUBSET (1..n)) = 2 ^ n
  BY <1>1, FS_SUBSET
<1> QED
  BY <1>2, FS_CardinalityType

\* A position that Pick finds is one of those it was given.
LEMMA PickIsMember ==
  ASSUME NEW q \in Seq(Envelope), NEW S \in SUBSET DOMAIN q, S # {}
  PROVE  Pick(S) \in S /\ Pick(S) \in DOMAIN q
<1>1. S \in SUBSET Nat
  BY LenProperties
<1> DEFINE R == OpToRel(<, Nat)
<1>2. PICK x \in S : \A y \in S : ~ (<<y, x>> \in R)
  BY <1>1, NatLessThanWellFounded, WFMin
<1>3. \A y \in S : x <= y
  <2> TAKE y \in S
  <2>1. <<y, x>> \in Nat \X Nat
    BY <1>1
  <2>2. ~ (y < x)
    BY <1>2, <2>1 DEF OpToRel
  <2> QED
    BY <1>1, <2>2
<1> QED
  BY <1>3 DEF Pick

\* What is left when position i is taken out of an array (queue.ts:150, 171).
LEMMA Removal ==
  ASSUME NEW q \in Seq(Envelope), NEW i \in DOMAIN q
  PROVE  /\ RemoveAt(q, i) \in Seq(Envelope)
         /\ DOMAIN RemoveAt(q, i) = 1 .. (Len(q) - 1)
         /\ \A k \in 1 .. (Len(q) - 1) :
              RemoveAt(q, i)[k] = q[IF k < i THEN k ELSE k + 1]
<1> DEFINE a == SubSeq(q, 1, i - 1)
           b == SubSeq(q, i + 1, Len(q))
<1>1. Len(q) \in Nat /\ DOMAIN q = 1..Len(q) /\ i \in 1..Len(q)
      /\ \A k \in 1..Len(q) : q[k] \in Envelope
  BY LenProperties
<1>2. /\ a \in Seq(Envelope) /\ Len(a) = i - 1
      /\ \A k \in 1..(i - 1) : a[k] = q[k]
  <2>1. \A k \in 1..(i - 1) : q[k] \in Envelope
    BY <1>1
  <2>2. /\ a \in Seq(Envelope)
        /\ Len(a) = IF 1 <= i - 1 THEN (i - 1) - 1 + 1 ELSE 0
        /\ \A k \in 1..((i - 1) - 1 + 1) : a[k] = q[1 + k - 1]
    BY <1>1, <2>1, SubSeqProperties
  <2> HIDE DEF a
  <2> QED
    BY <1>1, <2>2
<1>3. /\ b \in Seq(Envelope) /\ Len(b) = Len(q) - i
      /\ \A k \in 1..(Len(q) - i) : b[k] = q[k + i]
  <2>1. \A k \in (i + 1)..Len(q) : q[k] \in Envelope
    BY <1>1
  <2>2. /\ b \in Seq(Envelope)
        /\ Len(b) = IF i + 1 <= Len(q) THEN Len(q) - (i + 1) + 1 ELSE 0
        /\ \A k \in 1..(Len(q) - (i + 1) + 1) : b[k] = q[(i + 1) + k - 1]
    <3>1. i + 1 \in Int /\ Len(q) \in Int
      BY <1>1
    <3> QED
      BY <2>1, <3>1, SubSeqProperties
  <2> HIDE DEF b
  <2>3. Len(b) = Len(q) - i
    BY <1>1, <2>2
  <2>4. Len(q) - (i + 1) + 1 = Len(q) - i
    BY <1>1
  <2>5. \A k \in 1..(Len(q) - i) : (i + 1) + k - 1 = k + i
    BY <1>1
  <2> QED
    BY <2>2, <2>3, <2>4, <2>5
<1>4. RemoveAt(q, i) = a \o b
  BY DEF RemoveAt
<1> HIDE DEF a, b
<1>5. /\ a \o b \in Seq(Envelope) /\ Len(a \o b) = Len(q) - 1
      /\ \A k \in 1..(Len(q) - 1) :
           (a \o b)[k] = IF k <= i - 1 THEN a[k] ELSE b[k - (i - 1)]
  <2>1. Len(a) + Len(b) = Len(q) - 1
    BY <1>1, <1>2, <1>3
  <2>2. /\ a \o b \in Seq(Envelope) /\ Len(a \o b) = Len(a) + Len(b)
        /\ \A k \in 1..(Len(a) + Len(b)) :
             (a \o b)[k] = IF k <= Len(a) THEN a[k] ELSE b[k - Len(a)]
    BY <1>2, <1>3, ConcatProperties
  <2> QED
    BY <1>2, <2>1, <2>2
<1>6. \A k \in 1..(Len(q) - 1) : (a \o b)[k] = q[IF k < i THEN k ELSE k + 1]
  <2> TAKE k \in 1..(Len(q) - 1)
  <2>1. CASE k < i
    <3>1. k \in 1..(i - 1) /\ k <= i - 1
      BY <1>1, <2>1
    <3> QED
      BY <1>2, <1>5, <2>1, <3>1
  <2>2. CASE k >= i
    <3>1. k - (i - 1) \in 1..(Len(q) - i)
      BY <1>1, <2>2
    <3>2. b[k - (i - 1)] = q[(k - (i - 1)) + i]
      BY <1>3, <3>1
    <3>3. (k - (i - 1)) + i = k + 1
      BY <1>1, <2>2
    <3>4. ~ (k <= i - 1) /\ ~ (k < i)
      BY <1>1, <2>2
    <3> QED
      BY <1>5, <3>2, <3>3, <3>4
  <2>3. k < i \/ k >= i
    BY <1>1
  <2> QED
    BY <2>1, <2>2, <2>3
<1> QED
  BY <1>4, <1>5, <1>6, LenProperties

\* The envelopes left are those of the other positions, each once.
LEMMA RemovalKeepsOthers ==
  ASSUME NEW q \in Seq(Envelope), NEW i \in DOMAIN q, Distinct(q)
  PROVE  /\ \A k \in DOMAIN RemoveAt(q, i) :
              \E j \in DOMAIN q : j # i /\ RemoveAt(q, i)[k] = q[j]
         /\ Distinct(RemoveAt(q, i))
         /\ IdsOf(RemoveAt(q, i)) = IdsOf(q) \ {q[i].id}
<1> DEFINE r == RemoveAt(q, i)
           at(k) == IF k < i THEN k ELSE k + 1
<1>1. Len(q) \in Nat /\ DOMAIN q = 1..Len(q) /\ i \in 1..Len(q)
  BY LenProperties
<1>2. /\ DOMAIN r = 1 .. (Len(q) - 1)
      /\ \A k \in DOMAIN r : r[k] = q[at(k)]
  BY Removal
<1> HIDE DEF r
<1>3. \A k \in DOMAIN r : at(k) \in DOMAIN q /\ at(k) # i
  BY <1>1, <1>2
<1>4. \A k, m \in DOMAIN r : at(k) = at(m) => k = m
  BY <1>1, <1>2
<1>5. \A j \in DOMAIN q : j # i => \E k \in DOMAIN r : at(k) = j
  <2> TAKE j \in DOMAIN q
  <2>1. CASE j < i
    <3>1. j \in DOMAIN r /\ at(j) = j
      BY <1>1, <1>2, <2>1
    <3> QED
      BY <3>1
  <2>2. CASE j > i
    <3>1. j - 1 \in DOMAIN r /\ at(j - 1) = j
      BY <1>1, <1>2, <2>2
    <3> QED
      BY <3>1
  <2> QED
    BY <1>1, <2>1, <2>2
<1> HIDE DEF at
<1>6. \A k \in DOMAIN r : \E j \in DOMAIN q : j # i /\ r[k] = q[j]
  BY <1>2, <1>3
<1>7. Distinct(r)
  BY <1>2, <1>3, <1>4 DEF Distinct
<1>8. IdsOf(r) = IdsOf(q) \ {q[i].id}
  <2>1. \A k \in DOMAIN r : r[k].id \in IdsOf(q) \ {q[i].id}
    BY <1>2, <1>3 DEF IdsOf, Distinct
  <2>2. \A j \in DOMAIN q : q[j].id # q[i].id => q[j].id \in IdsOf(r)
    BY <1>2, <1>5 DEF IdsOf
  <2> QED
    BY <2>1, <2>2 DEF IdsOf
<1> QED
  BY <1>6, <1>7, <1>8 DEF r

\* Appending adds one message.
LEMMA Addition ==
  ASSUME NEW q \in Seq(Envelope), NEW e \in Envelope
  PROVE  /\ Append(q, e) \in Seq(Envelope)
         /\ IdsOf(Append(q, e)) = IdsOf(q) \cup {e.id}
         /\ Distinct(q) /\ e.id \notin IdsOf(q) => Distinct(Append(q, e))
         /\ \A k \in DOMAIN Append(q, e) :
              Append(q, e)[k] = e \/ (k \in DOMAIN q /\ Append(q, e)[k] = q[k])
<1> DEFINE r == Append(q, e)
           n == Len(q)
<1>1. /\ n \in Nat /\ DOMAIN q = 1..n
      /\ r \in Seq(Envelope) /\ DOMAIN r = 1..(n + 1)
      /\ r[n + 1] = e /\ \A i \in 1..n : r[i] = q[i]
  BY AppendProperties, LenProperties
<1> HIDE DEF r, n
<1>2. /\ \A i \in DOMAIN r : i = n + 1 \/ i \in DOMAIN q
      /\ n + 1 \in DOMAIN r /\ n + 1 \notin DOMAIN q
      /\ \A i \in DOMAIN q : i \in DOMAIN r /\ r[i] = q[i]
  BY <1>1
<1>3. IdsOf(r) = IdsOf(q) \cup {e.id}
  BY <1>1, <1>2 DEF IdsOf
<1>4. Distinct(q) /\ e.id \notin IdsOf(q) => Distinct(r)
  BY <1>1, <1>2 DEF IdsOf, Distinct
<1> QED
  BY <1>1, <1>2, <1>3, <1>4 DEF r

\* Changing envelopes where they stand keeps the messages.
LEMMA InPlace ==
  ASSUME NEW q, NEW r, DOMAIN r = DOMAIN q, \A i \in DOMAIN q : r[i].id = q[i].id
  PROVE  IdsOf(r) = IdsOf(q) /\ (Distinct(q) => Distinct(r))
BY DEF IdsOf, Distinct

\* A queue that holds each message once is as long as its messages are many.
LEMMA CountingMessages ==
  ASSUME NEW q \in Seq(Envelope), Distinct(q)
  PROVE  Cardinality(IdsOf(q)) = Len(q)
<1> DEFINE f == [i \in 1..Len(q) |-> q[i].id]
<1>1. Len(q) \in Nat /\ DOMAIN q = 1..Len(q)
  BY LenProperties
<1>2. f \in Bijection(1..Len(q), IdsOf(q))
  BY <1>1 DEF Bijection, Injection, Surjection, IsInjective, IdsOf, Distinct
<1>3. IsFiniteSet(1..Len(q)) /\ Cardinality(1..Len(q)) = Len(q)
  BY <1>1, FS_Interval
<1>4. ExistsBijection(1..Len(q), IdsOf(q))
  BY <1>2 DEF ExistsBijection
<1> QED
  BY <1>3, <1>4, FS_Bijection

-----------------------------------------------------------------------------
(* Envelopes. *)

\* Whatever the queue does to an envelope, it stays one and keeps its id.
LEMMA EnvelopeType ==
  ASSUME NEW e \in Envelope
  PROVE  /\ Visible(e) => Delivered(e) \in Envelope
         /\ e.inFlight => Requeued(e) \in Envelope
         /\ Released(e) \in Envelope
         /\ Delivered(e).id = e.id /\ Requeued(e).id = e.id /\ Released(e).id = e.id
<1>1. /\ e.attempts \in Nat /\ e.wait \in Nat /\ e.lease \in Nat /\ e.id \in Messages
      /\ e.inFlight \in BOOLEAN
      /\ e.inFlight => e.wait = 0 /\ e.attempts > 0
  BY DEF Envelope
<1>2. Visible(e) => Delivered(e) \in Envelope
  <2> SUFFICES ASSUME Visible(e) PROVE Delivered(e) \in Envelope
    OBVIOUS
  <2>1. e.attempts + 1 \in Nat /\ e.attempts + 1 > 0 /\ e.wait = 0
    BY <1>1 DEF Visible
  <2>2. Delivered(e) = [e EXCEPT !.inFlight = TRUE, !.attempts = e.attempts + 1,
                                 !.lease = VisibilityTimeout]
    BY DEF Delivered, Envelope
  <2>3. VisibilityTimeout \in Nat
    BY ParameterAssumption
  <2> QED
    BY <2>1, <2>2, <2>3 DEF Envelope
<1>3. e.inFlight => Requeued(e) \in Envelope
  <2> SUFFICES ASSUME e.inFlight PROVE Requeued(e) \in Envelope
    OBVIOUS
  <2> DEFINE w == BackoffBase * 2 ^ (e.attempts - 1)
  <2>1. w \in Nat
    <3>1. 2 ^ (e.attempts - 1) \in Nat
      BY <1>1, PowerOfTwo
    <3> QED
      BY <3>1, ParameterAssumption
  <2>2. Requeued(e) = [e EXCEPT !.inFlight = FALSE, !.lease = 0, !.wait = w]
    BY DEF Requeued
  <2> HIDE DEF w
  <2> QED
    BY <2>1, <2>2 DEF Envelope
<1>4. Released(e) \in Envelope
  BY DEF Released, Envelope
<1>5. Delivered(e).id = e.id /\ Released(e).id = e.id
  BY DEF Delivered, Released, Envelope
<1>6. Requeued(e).id = e.id
  <2>1. \A w : [e EXCEPT !.inFlight = FALSE, !.lease = 0, !.wait = w].id = e.id
    BY DEF Envelope
  <2> QED
    BY <2>1 DEF Requeued
<1> QED
  BY <1>2, <1>3, <1>4, <1>5, <1>6

\* An array whose envelopes change where they stand is still a queue.
LEMMA InPlaceType ==
  ASSUME NEW q \in Seq(Envelope), NEW r, r = [i \in DOMAIN q |-> r[i]],
         \A i \in DOMAIN q : r[i] \in Envelope
  PROVE  r \in Seq(Envelope)
<1>1. Len(q) \in Nat /\ DOMAIN q = 1..Len(q)
  BY LenProperties
<1>2. r \in [1..Len(q) -> Envelope]
  BY <1>1
<1> QED
  BY <1>1, <1>2, SeqDef

\* The envelope a consumer settles is the one in flight with its message.
LEMMA Found ==
  ASSUME queue \in Seq(Envelope), NEW m, Find(m) # {}
  PROVE  /\ Pick(Find(m)) \in DOMAIN queue
         /\ queue[Pick(Find(m))].id = m
         /\ queue[Pick(Find(m))].inFlight
<1>1. Find(m) \in SUBSET DOMAIN queue
  BY DEF Find
<1>2. Pick(Find(m)) \in Find(m)
  BY <1>1, PickIsMember
<1> QED
  BY <1>2 DEF Find

\* Giving up a message costs the others no owner.
LEMMA ReleaseKeepsOwners ==
  ASSUME TypeOK, NEW c \in Consumers, Release(c), NEW e \in Envelope,
         Owed(e, holding, held, faults), e.id # holding[c] \/ ~e.inFlight
  PROVE  Owed(e, holding', held', faults)
<1>1. e.id # None
  BY ParameterAssumption DEF Envelope
<1>2. ASSUME e.id # holding[c], NEW d \in Consumers, holding[d] = e.id
      PROVE  holding'[d] = holding[d] /\ held'[d] = held[d]
  BY <1>2 DEF Release, TypeOK
<1> QED
  BY <1>1, <1>2 DEF Owed, Owner

-----------------------------------------------------------------------------
(* The operations. *)

\* Enqueueing puts a new message in one place.
LEMMA EnqueueKeeps ==
  ASSUME IInv, NEW m \in Messages, Enqueue(m)
  PROVE  IInv'
<1>1. /\ queue \in Seq(Envelope) /\ dead \in Seq(Envelope)
      /\ m \in unsent /\ faults \in Nat
  BY ParameterAssumption DEF IInv, TypeOK, Enqueue
<1>2. Fresh(m) \in Envelope /\ Fresh(m).id = m /\ Fresh(m).attempts = 0
  BY DEF Fresh, Envelope
<1>3. /\ queue' = Append(queue, Fresh(m)) /\ unsent' = unsent \ {m}
      /\ UNCHANGED <<dead, enforcing, holding, held, handled, faults>>
  BY DEF Enqueue
<1>4. m \notin IdsOf(queue) \cup IdsOf(dead) \cup handled
  BY <1>1 DEF IInv, Settled
<1>5. /\ queue' \in Seq(Envelope)
      /\ IdsOf(queue') = IdsOf(queue) \cup {m}
      /\ Distinct(queue')
      /\ \A k \in DOMAIN queue' :
            queue'[k] = Fresh(m) \/ (k \in DOMAIN queue /\ queue'[k] = queue[k])
  BY <1>1, <1>2, <1>3, <1>4, Addition DEF IInv, Settled
<1>6. TypeOK'
  BY <1>3, <1>5 DEF IInv, TypeOK
<1>7. Settled'
  BY <1>1, <1>3, <1>4, <1>5 DEF IInv, Settled, TypeOK
<1>8. Owed(Fresh(m), holding, held, faults)
  <2>1. MaxRetries[m] + faults >= 0
    BY <1>1, ParameterAssumption
  <2> QED
    BY <1>2, <2>1 DEF Owed
<1>9. \A k \in DOMAIN queue' : Owed(queue'[k], holding', held', faults')
  BY <1>3, <1>5, <1>8 DEF IInv
<1> QED
  BY <1>3, <1>6, <1>7, <1>9 DEF IInv

\* Dequeueing starts an attempt that the consumer owns.
LEMMA DequeueKeeps ==
  ASSUME IInv, NEW c \in Consumers, Dequeue(c)
  PROVE  IInv'
<1> DEFINE ready == {i \in DOMAIN queue : Visible(queue[i])}
           k == Pick(ready)
<1>1. /\ queue \in Seq(Envelope) /\ dead \in Seq(Envelope) /\ faults \in Nat
      /\ holding \in [Consumers -> Messages \cup {None}]
      /\ held \in [Consumers -> 0..VisibilityTimeout]
  BY ParameterAssumption DEF IInv, TypeOK
<1>2. k \in DOMAIN queue /\ Visible(queue[k])
  <2>1. ready # {} /\ ready \in SUBSET DOMAIN queue
    BY DEF Dequeue
  <2>2. k \in ready
    BY <1>1, <2>1, PickIsMember
  <2> QED
    BY <2>2
<1>3. /\ queue' = [queue EXCEPT ![k] = Delivered(queue[k])]
      /\ holding' = [holding EXCEPT ![c] = queue[k].id]
      /\ held' = [held EXCEPT ![c] = 0]
      /\ holding[c] = None
      /\ UNCHANGED <<dead, unsent, enforcing, handled, faults>>
  BY DEF Dequeue
<1> HIDE DEF k
<1>4. /\ DOMAIN queue = 1..Len(queue)
      /\ \A i \in DOMAIN queue : queue[i] \in Envelope
  BY <1>1, LenProperties
<1>5. /\ queue' \in Seq(Envelope) /\ DOMAIN queue' = DOMAIN queue
      /\ queue'[k] = Delivered(queue[k])
      /\ \A i \in DOMAIN queue : i # k => queue'[i] = queue[i]
  <2>1. Delivered(queue[k]) \in Envelope
    BY <1>2, <1>4, EnvelopeType
  <2> QED
    BY <1>1, <1>2, <1>3, <1>4, <2>1, ExceptSeq
<1>6. IdsOf(queue') = IdsOf(queue) /\ (Distinct(queue) => Distinct(queue'))
  <2>1. \A i \in DOMAIN queue : queue'[i].id = queue[i].id
    BY <1>2, <1>4, <1>5, EnvelopeType
  <2> QED
    BY <1>5, <2>1, InPlace
<1>7. queue[k].id \in Messages /\ queue[k].id \in IdsOf(queue)
  BY <1>2, <1>4 DEF Envelope, IdsOf
<1>8. TypeOK'
  BY <1>1, <1>3, <1>5, <1>7, ParameterAssumption DEF IInv, TypeOK
<1>9. Settled'
  BY <1>3, <1>6 DEF IInv, Settled
<1>10. \A d \in Consumers : holding'[d] \notin unsent'
  BY <1>1, <1>3, <1>7 DEF IInv, Settled
<1>11. Owed(queue'[k], holding', held', faults')
  <2> DEFINE e == queue[k]
             f == queue'[k]
  <2>1. e \in Envelope /\ ~e.inFlight /\ Owed(e, holding, held, faults)
    BY <1>2, <1>4 DEF Visible, IInv
  <2>2. e.attempts <= MaxRetries[e.id] + faults /\ e.attempts \in Nat
        /\ MaxRetries[e.id] \in Nat
    BY <1>1, <2>1, ParameterAssumption DEF Owed, Envelope
  <2>3. /\ f.inFlight /\ f.attempts = e.attempts + 1 /\ f.id = e.id
        /\ f.lease = VisibilityTimeout
    BY <1>5, <2>1 DEF Delivered, Envelope
  <2>4. holding'[c] = e.id /\ held'[c] = 0
    BY <1>1, <1>3
  <2> HIDE DEF e, f
  <2>5. Owner(f, holding', held')
    BY <2>3, <2>4, ParameterAssumption DEF Owner
  <2>6. f.attempts <= MaxRetries[f.id] + 1 + faults
    BY <1>1, <2>2, <2>3
  <2> QED
    BY <1>3, <2>3, <2>5, <2>6, ParameterAssumption DEF Owed, f
<1>12. ASSUME NEW i \in DOMAIN queue, i # k
       PROVE  Owed(queue'[i], holding', held', faults')
  <2>1. queue'[i] = queue[i] /\ Owed(queue[i], holding, held, faults)
    BY <1>5, <1>12 DEF IInv
  <2>2. queue[i].id # None
    BY <1>4, <1>12, ParameterAssumption DEF Envelope
  <2>3. \A d \in Consumers : holding[d] # None =>
          holding'[d] = holding[d] /\ held'[d] = held[d]
    BY <1>1, <1>3
  <2> QED
    BY <1>3, <2>1, <2>2, <2>3 DEF Owed, Owner
<1>13. \A i \in DOMAIN queue' : Owed(queue'[i], holding', held', faults')
  BY <1>5, <1>11, <1>12
<1> QED
  BY <1>3, <1>8, <1>9, <1>10, <1>13 DEF IInv

\* An ack takes the message out of the queue, or finds nothing to do.
LEMMA AckKeeps ==
  ASSUME IInv, NEW c \in Consumers, Ack(c)
  PROVE  IInv'
<1> DEFINE m == holding[c]
           k == Pick(Find(m))
<1>1. /\ queue \in Seq(Envelope) /\ dead \in Seq(Envelope) /\ faults \in Nat
      /\ m \in Messages /\ m \notin unsent /\ TypeOK
  BY ParameterAssumption DEF IInv, TypeOK, Ack
<1>2. /\ queue' = IF Find(m) = {} THEN queue ELSE RemoveAt(queue, k)
      /\ handled' = handled \cup {m}
      /\ Release(c)
      /\ UNCHANGED <<dead, unsent, enforcing, faults>>
  BY DEF Ack
<1>3. /\ holding' \in [Consumers -> Messages \cup {None}]
      /\ held' \in [Consumers -> 0..VisibilityTimeout]
      /\ \A d \in Consumers : holding'[d] \notin unsent'
  BY <1>1, <1>2, ParameterAssumption DEF Release, TypeOK, IInv
<1>4. \A i \in DOMAIN queue : queue[i] \in Envelope
  BY <1>1, LenProperties
<1> HIDE DEF k
<1>5. CASE Find(m) = {}
  <2>1. queue' = queue
    BY <1>2, <1>5
  <2>2. TypeOK'
    BY <1>1, <1>2, <1>3, <2>1 DEF TypeOK
  <2>3. Settled'
    BY <1>1, <1>2, <2>1 DEF IInv, Settled
  <2>4. \A i \in DOMAIN queue : queue[i].id # m \/ ~queue[i].inFlight
    BY <1>5 DEF Find
  <2>5. \A i \in DOMAIN queue : Owed(queue[i], holding', held', faults)
    BY <1>1, <1>2, <1>4, <2>4, ReleaseKeepsOwners DEF IInv
  <2> QED
    BY <1>2, <1>3, <2>1, <2>2, <2>3, <2>5 DEF IInv
<1>6. CASE Find(m) # {}
  <2>1. k \in DOMAIN queue /\ queue[k].id = m
    BY <1>1, <1>6, Found DEF k
  <2>2. queue' = RemoveAt(queue, k)
    BY <1>2, <1>6
  <2>3. /\ queue' \in Seq(Envelope) /\ Distinct(queue')
        /\ IdsOf(queue') = IdsOf(queue) \ {m}
        /\ \A i \in DOMAIN queue' :
              \E j \in DOMAIN queue : j # k /\ queue'[i] = queue[j]
    BY <1>1, <2>1, <2>2, Removal, RemovalKeepsOthers DEF IInv, Settled
  <2>4. TypeOK'
    BY <1>1, <1>2, <1>3, <2>3 DEF TypeOK
  <2>5. Settled'
    BY <1>1, <1>2, <2>3 DEF IInv, Settled
  <2>6. \A j \in DOMAIN queue : j # k => Owed(queue[j], holding', held', faults)
    <3>1. \A j \in DOMAIN queue : j # k => queue[j].id # m
      BY <2>1 DEF IInv, Settled, Distinct
    <3> QED
      BY <1>1, <1>2, <1>4, <3>1, ReleaseKeepsOwners DEF IInv
  <2>7. \A i \in DOMAIN queue' : Owed(queue'[i], holding', held', faults')
    BY <1>2, <2>3, <2>6
  <2> QED
    BY <1>2, <1>3, <2>4, <2>5, <2>7 DEF IInv
<1> QED
  BY <1>5, <1>6

\* A nack does nothing, or sends the message back, or moves it to the
\* dead-letter queue, with its budget used up.
LEMMA NackKeeps ==
  ASSUME IInv, NEW c \in Consumers, Nack(c)
  PROVE  IInv'
<1> DEFINE m == holding[c]
           k == Pick(Find(m))
<1>1. /\ queue \in Seq(Envelope) /\ dead \in Seq(Envelope) /\ faults \in Nat
      /\ m \in Messages /\ m \notin unsent /\ TypeOK
  BY ParameterAssumption DEF IInv, TypeOK, Nack
<1>2. /\ Release(c)
      /\ UNCHANGED <<unsent, enforcing, handled, faults>>
      /\ \/ Find(m) = {} /\ UNCHANGED <<queue, dead>>
         \/ /\ Find(m) # {} /\ Exhausted(queue[k])
            /\ queue' = RemoveAt(queue, k)
            /\ dead' = Append(dead, queue[k])
         \/ /\ Find(m) # {} /\ ~Exhausted(queue[k])
            /\ queue' = [queue EXCEPT ![k] = Requeued(queue[k])]
            /\ UNCHANGED dead
  BY DEF Nack
<1>3. /\ holding' \in [Consumers -> Messages \cup {None}]
      /\ held' \in [Consumers -> 0..VisibilityTimeout]
      /\ \A d \in Consumers : holding'[d] \notin unsent'
  BY <1>1, <1>2, ParameterAssumption DEF Release, TypeOK, IInv
<1>4. /\ \A i \in DOMAIN queue : queue[i] \in Envelope
      /\ DOMAIN queue = 1..Len(queue)
  BY <1>1, LenProperties
<1>5. Find(m) # {} =>
        k \in DOMAIN queue /\ queue[k].id = m /\ queue[k].inFlight
  BY <1>1, Found
<1> HIDE DEF k
<1>6. ASSUME Find(m) # {}
      PROVE  \A j \in DOMAIN queue : j # k => Owed(queue[j], holding', held', faults)
  <2>1. \A j \in DOMAIN queue : j # k => queue[j].id # m
    BY <1>5, <1>6 DEF IInv, Settled, Distinct
  <2> QED
    BY <1>1, <1>2, <1>4, <2>1, ReleaseKeepsOwners DEF IInv
<1>7. CASE Find(m) = {} /\ UNCHANGED <<queue, dead>>
  <2>1. \A i \in DOMAIN queue : queue[i].id # m \/ ~queue[i].inFlight
    BY <1>7 DEF Find
  <2>2. \A i \in DOMAIN queue : Owed(queue[i], holding', held', faults)
    BY <1>1, <1>2, <1>4, <2>1, ReleaseKeepsOwners DEF IInv
  <2>3. TypeOK' /\ Settled'
    BY <1>1, <1>2, <1>3, <1>7 DEF TypeOK, IInv, Settled
  <2> QED
    BY <1>2, <1>3, <1>7, <2>2, <2>3 DEF IInv
<1>8. CASE /\ Find(m) # {} /\ Exhausted(queue[k])
           /\ queue' = RemoveAt(queue, k)
           /\ dead' = Append(dead, queue[k])
  <2>1. k \in DOMAIN queue /\ queue[k].id = m /\ queue[k] \in Envelope
    BY <1>4, <1>5, <1>8
  <2>2. /\ queue' \in Seq(Envelope) /\ Distinct(queue')
        /\ IdsOf(queue') = IdsOf(queue) \ {m}
        /\ \A i \in DOMAIN queue' :
              \E j \in DOMAIN queue : j # k /\ queue'[i] = queue[j]
    BY <1>1, <1>8, <2>1, Removal, RemovalKeepsOthers DEF IInv, Settled
  <2>3. m \in IdsOf(queue) /\ m \notin IdsOf(dead)
    BY <2>1 DEF IdsOf, IInv, Settled
  <2>4. /\ dead' \in Seq(Envelope) /\ Distinct(dead')
        /\ IdsOf(dead') = IdsOf(dead) \cup {m}
        /\ \A i \in DOMAIN dead' :
              dead'[i] = queue[k] \/ (i \in DOMAIN dead /\ dead'[i] = dead[i])
    BY <1>1, <1>8, <2>1, <2>3, Addition DEF IInv, Settled
  <2>5. TypeOK'
    BY <1>1, <1>2, <1>3, <2>2, <2>4 DEF TypeOK
  <2>6. Settled'
    BY <1>1, <1>2, <2>2, <2>3, <2>4 DEF IInv, Settled
  <2>7. \A i \in DOMAIN queue' : Owed(queue'[i], holding', held', faults')
    BY <1>2, <1>6, <1>8, <2>2
  <2>8. \A i \in DOMAIN dead' : dead'[i].attempts > MaxRetries[dead'[i].id]
    BY <1>8, <2>4 DEF Exhausted, IInv
  <2> QED
    BY <1>2, <1>3, <2>5, <2>6, <2>7, <2>8 DEF IInv
<1>9. CASE /\ Find(m) # {} /\ ~Exhausted(queue[k])
           /\ queue' = [queue EXCEPT ![k] = Requeued(queue[k])]
           /\ UNCHANGED dead
  <2>1. /\ k \in DOMAIN queue /\ queue[k].id = m /\ queue[k] \in Envelope
        /\ queue[k].inFlight
    BY <1>4, <1>5, <1>9
  <2>2. Requeued(queue[k]) \in Envelope /\ Requeued(queue[k]).id = queue[k].id
    BY <2>1, EnvelopeType
  <2>3. /\ queue' \in Seq(Envelope) /\ DOMAIN queue' = DOMAIN queue
        /\ queue'[k] = Requeued(queue[k])
        /\ \A i \in DOMAIN queue : i # k => queue'[i] = queue[i]
    BY <1>1, <1>4, <1>9, <2>1, <2>2, ExceptSeq
  <2>4. IdsOf(queue') = IdsOf(queue) /\ (Distinct(queue) => Distinct(queue'))
    <3>1. \A i \in DOMAIN queue : queue'[i].id = queue[i].id
      BY <2>2, <2>3
    <3> QED
      BY <2>3, <3>1, InPlace
  <2>5. TypeOK'
    BY <1>1, <1>2, <1>3, <1>9, <2>3 DEF TypeOK
  <2>6. Settled'
    BY <1>2, <1>9, <2>4 DEF IInv, Settled
  <2>7. Owed(queue'[k], holding', held', faults')
    <3>1. queue[k].attempts <= MaxRetries[m] /\ queue[k].attempts \in Nat
          /\ MaxRetries[m] \in Nat
      BY <1>1, <1>9, <2>1, ParameterAssumption DEF Exhausted, Envelope
    <3>2. Requeued(queue[k]).attempts = queue[k].attempts
      <4>1. \A w : [queue[k] EXCEPT !.inFlight = FALSE, !.lease = 0,
                                    !.wait = w].attempts = queue[k].attempts
        BY <2>1 DEF Envelope
      <4> QED
        BY <4>1 DEF Requeued
    <3>3. queue'[k].attempts <= MaxRetries[queue'[k].id] + faults
      BY <1>1, <2>1, <2>2, <2>3, <3>1, <3>2
    <3> QED
      BY <1>2, <3>3 DEF Owed
  <2>8. \A i \in DOMAIN queue' : Owed(queue'[i], holding', held', faults')
    BY <1>2, <1>6, <1>9, <2>3, <2>7
  <2> QED
    BY <1>2, <1>3, <1>9, <2>5, <2>6, <2>8 DEF IInv
<1> QED
  BY <1>2, <1>7, <1>8, <1>9

\* A consumer that crashes owes every message the attempt it may have cost.
LEMMA CrashKeeps ==
  ASSUME IInv, NEW c \in Consumers, Crash(c)
  PROVE  IInv'
<1>1. /\ queue \in Seq(Envelope) /\ faults \in Nat /\ faults' = faults + 1
      /\ faults' \in 0..MaxFaults /\ Release(c)
      /\ UNCHANGED <<queue, dead, unsent, enforcing, handled>>
  BY ParameterAssumption DEF IInv, TypeOK, Crash
<1>2. /\ holding' \in [Consumers -> Messages \cup {None}]
      /\ held' \in [Consumers -> 0..VisibilityTimeout]
      /\ \A d \in Consumers : holding'[d] \notin unsent'
  BY <1>1, ParameterAssumption DEF Release, TypeOK, IInv
<1>3. TypeOK' /\ Settled'
  BY <1>1, <1>2 DEF TypeOK, IInv, Settled
<1>4. ASSUME NEW i \in DOMAIN queue
      PROVE  Owed(queue[i], holding', held', faults')
  <2> DEFINE e == queue[i]
  <2>1. e \in Envelope
    BY <1>1, LenProperties
  <2>2. e.attempts \in Nat /\ MaxRetries[e.id] \in Nat
    BY <2>1, ParameterAssumption DEF Envelope
  <2>3. \/ e.attempts <= MaxRetries[e.id] + faults
        \/ e.attempts <= MaxRetries[e.id] + 1 + faults
    BY <1>4 DEF IInv, Owed
  <2> HIDE DEF e
  <2>4. e.attempts <= MaxRetries[e.id] + faults'
    BY <1>1, <2>2, <2>3
  <2> QED
    BY <2>4 DEF Owed, e
<1> QED
  BY <1>1, <1>2, <1>3, <1>4 DEF IInv

\* A round of the visibility timer makes the messages visible whose lease has
\* run out; none of them was within an attempt that is still owned.
LEMMA EnforceKeeps ==
  ASSUME IInv, Enforce
  PROVE  IInv'
<1>1. /\ queue \in Seq(Envelope)
      /\ queue' = [i \in DOMAIN queue |-> Released(queue[i])]
      /\ UNCHANGED <<dead, unsent, enforcing, holding, held, handled, faults>>
  BY DEF IInv, TypeOK, Enforce
<1>2. \A i \in DOMAIN queue : queue[i] \in Envelope
  BY <1>1, LenProperties
<1>3. /\ DOMAIN queue' = DOMAIN queue
      /\ \A i \in DOMAIN queue : queue'[i] = Released(queue[i])
  BY <1>1
<1>4. \A i \in DOMAIN queue : queue'[i] \in Envelope /\ queue'[i].id = queue[i].id
  BY <1>2, <1>3, EnvelopeType
<1>5. queue' \in Seq(Envelope)
  BY <1>1, <1>3, <1>4, InPlaceType
<1>6. IdsOf(queue') = IdsOf(queue) /\ (Distinct(queue) => Distinct(queue'))
  BY <1>3, <1>4, InPlace
<1>7. TypeOK' /\ Settled'
  BY <1>1, <1>5, <1>6 DEF TypeOK, IInv, Settled
<1>8. ASSUME NEW i \in DOMAIN queue
      PROVE  Owed(queue'[i], holding', held', faults')
  <2> DEFINE e == queue[i]
  <2>1. e \in Envelope /\ Owed(e, holding, held, faults) /\ queue'[i] = Released(e)
    BY <1>2, <1>3 DEF IInv
  <2> HIDE DEF e
  <2>2. CASE e.inFlight /\ e.lease = 0
    <3>1. e.attempts <= MaxRetries[e.id] + faults
      BY <2>1, <2>2 DEF Owed
    <3>2. Released(e).attempts = e.attempts /\ Released(e).id = e.id
      BY <2>1, <2>2 DEF Released, Envelope
    <3> QED
      BY <1>1, <2>1, <3>1, <3>2 DEF Owed
  <2>3. CASE ~ (e.inFlight /\ e.lease = 0)
    BY <1>1, <2>1, <2>3 DEF Released
  <2> QED
    BY <2>2, <2>3
<1> QED
  BY <1>1, <1>3, <1>7, <1>8 DEF IInv

\* As time passes the owner's time grows as the lease shrinks; where the lease
\* runs out the owner has overrun it, and that is counted as a fault.
LEMMA TickKeeps ==
  ASSUME IInv, Tick
  PROVE  IInv'
<1> DEFINE late == {c \in Consumers :
                      holding[c] # None /\ held[c] = VisibilityTimeout - 1}
           less(n) == IF n > 0 THEN n - 1 ELSE 0
           aged(e) == [e EXCEPT !.wait = less(e.wait), !.lease = less(e.lease)]
           n == Cardinality(late)
<1>1. /\ queue \in Seq(Envelope) /\ faults \in Nat /\ MaxFaults \in Nat
      /\ VisibilityTimeout \in Nat
      /\ held \in [Consumers -> 0..VisibilityTimeout]
  BY ParameterAssumption DEF IInv, TypeOK
<1>2. /\ faults' = faults + n /\ faults' <= MaxFaults
      /\ queue' = [i \in DOMAIN queue |-> aged(queue[i])]
      /\ held' = [c \in Consumers |->
                    IF holding[c] = None THEN 0
                    ELSE Min2(held[c] + 1, VisibilityTimeout)]
      /\ UNCHANGED <<dead, unsent, enforcing, holding, handled>>
  BY DEF Tick
<1>3. \A e \in Envelope :
         /\ aged(e) \in Envelope
         /\ aged(e).id = e.id /\ aged(e).attempts = e.attempts
         /\ aged(e).inFlight = e.inFlight /\ aged(e).lease = less(e.lease)
  <2> TAKE e \in Envelope
  <2>1. /\ e.wait \in Nat /\ e.lease \in Nat
        /\ e.inFlight => e.wait = 0
    BY DEF Envelope
  <2>2. /\ less(e.wait) \in Nat /\ less(e.lease) \in Nat
        /\ e.inFlight => less(e.wait) = 0
    BY <2>1
  <2> HIDE DEF less
  <2> QED
    BY <2>2 DEF Envelope
<1>4. IsFiniteSet(late) /\ n \in Nat
  <2>1. late \subseteq Consumers
    OBVIOUS
  <2> HIDE DEF late
  <2> QED
    BY <2>1, ParameterAssumption, FS_Subset, FS_CardinalityType
<1>5. late # {} => n > 0
  BY <1>4, FS_EmptySet
<1>6. \A c \in Consumers : c \in late <=>
         holding[c] # None /\ held[c] = VisibilityTimeout - 1
  OBVIOUS
<1> HIDE DEF n, late, aged
<1>7. /\ \A i \in DOMAIN queue : queue[i] \in Envelope
      /\ DOMAIN queue' = DOMAIN queue
      /\ \A i \in DOMAIN queue : queue'[i] = aged(queue[i])
  BY <1>1, <1>2, LenProperties
<1>8. queue' \in Seq(Envelope)
  BY <1>1, <1>2, <1>3, <1>7, InPlaceType
<1>9. IdsOf(queue') = IdsOf(queue) /\ (Distinct(queue) => Distinct(queue'))
  BY <1>3, <1>7, InPlace
<1>10. held' \in [Consumers -> 0..VisibilityTimeout]
  BY <1>1, <1>2 DEF Min2
<1>11. faults' \in 0..MaxFaults
  BY <1>1, <1>2, <1>4
<1>12. TypeOK' /\ Settled'
  BY <1>2, <1>8, <1>9, <1>10, <1>11 DEF TypeOK, IInv, Settled
<1>13. ASSUME NEW i \in DOMAIN queue
       PROVE  Owed(queue'[i], holding', held', faults')
  <2> DEFINE e == queue[i]
             f == queue'[i]
  <2>1. e \in Envelope /\ Owed(e, holding, held, faults)
    BY <1>7 DEF IInv
  <2>2. /\ f.id = e.id /\ f.attempts = e.attempts /\ f.inFlight = e.inFlight
        /\ f.lease = less(e.lease)
    BY <1>3, <1>7, <2>1
  <2>3. /\ e.attempts \in Nat /\ MaxRetries[e.id] \in Nat /\ e.lease \in Nat
        /\ e.id # None
    BY <2>1, ParameterAssumption DEF Envelope
  <2>6. MaxRetries[f.id] = MaxRetries[e.id]
    BY <2>2
  <2>7. e.lease > 0 => f.lease = e.lease - 1
    BY <2>2, <2>3
  <2> HIDE DEF e, f, less
  <2>4. CASE e.attempts <= MaxRetries[e.id] + faults
    <3>1. f.attempts <= MaxRetries[f.id] + faults'
      BY <1>1, <1>2, <1>4, <2>2, <2>3, <2>4, <2>6
    <3> QED
      BY <3>1 DEF Owed, f
  <2>5. CASE /\ e.inFlight
             /\ e.attempts <= MaxRetries[e.id] + 1 + faults
             /\ e.lease > 0
             /\ Owner(e, holding, held)
    <3>1. PICK c \in Consumers :
             holding[c] = e.id /\ held[c] + e.lease = VisibilityTimeout
      BY <2>5 DEF Owner
    <3>2. held[c] \in Nat
      BY <1>1
    <3>3. CASE e.lease = 1
      <4>1. held[c] = VisibilityTimeout - 1
        BY <1>1, <3>1, <3>2, <3>3
      <4>2. late # {}
        BY <1>6, <2>3, <3>1, <4>1
      <4>3. f.attempts <= MaxRetries[f.id] + faults'
        BY <1>1, <1>2, <1>4, <1>5, <2>2, <2>3, <2>5, <2>6, <4>2
      <4> QED
        BY <4>3 DEF Owed, f
    <3>4. CASE e.lease > 1
      <4>1. f.lease = e.lease - 1 /\ f.lease > 0
        BY <2>3, <2>7, <3>4
      <4>2. holding'[c] = f.id
        BY <1>2, <2>2, <3>1
      <4>3. held'[c] = held[c] + 1
        <5>1. held'[c] = Min2(held[c] + 1, VisibilityTimeout)
          BY <1>2, <2>3, <3>1
        <5>2. held[c] + 1 <= VisibilityTimeout
          BY <1>1, <2>3, <3>1, <3>2, <3>4
        <5> QED
          BY <5>1, <5>2 DEF Min2
      <4>4. held'[c] + f.lease = VisibilityTimeout
        <5>1. \A a, b \in Nat : (a + 1) + (b - 1) = a + b
          OBVIOUS
        <5>2. held'[c] + f.lease = held[c] + e.lease
          BY <2>3, <3>2, <4>1, <4>3, <5>1
        <5> QED
          BY <3>1, <5>2
      <4>5. Owner(f, holding', held')
        BY <4>2, <4>4 DEF Owner
      <4>6. f.attempts <= MaxRetries[f.id] + 1 + faults'
        BY <1>1, <1>2, <1>4, <2>2, <2>3, <2>5, <2>6
      <4>7. f.inFlight
        BY <2>2, <2>5
      <4> QED
        BY <4>1, <4>5, <4>6, <4>7 DEF Owed, f
    <3> QED
      BY <2>3, <2>5, <3>3, <3>4
  <2> QED
    BY <2>1, <2>4, <2>5 DEF Owed
<1> QED
  BY <1>2, <1>7, <1>12, <1>13 DEF IInv

-----------------------------------------------------------------------------
(* The queue as a whole. *)

\* The queue starts empty, with every message still to be sent.
LEMMA InitKeeps == Init => IInv
<1> SUFFICES ASSUME Init PROVE IInv
  OBVIOUS
<1>1. /\ queue = <<>> /\ dead = <<>>
      /\ DOMAIN queue = {} /\ DOMAIN dead = {}
  BY EmptySeq DEF Init
<1>2. queue \in Seq(Envelope) /\ dead \in Seq(Envelope)
  BY <1>1, EmptySeq
<1>3. TypeOK
  <2>1. 0 \in 0..VisibilityTimeout /\ 0 \in 0..MaxFaults
    BY ParameterAssumption
  <2> QED
    BY <1>2, <2>1 DEF Init, TypeOK
<1>4. Settled
  BY <1>1 DEF Init, Settled, IdsOf, Distinct
<1>5. \A c \in Consumers : holding[c] \notin unsent
  BY ParameterAssumption DEF Init
<1> QED
  BY <1>1, <1>3, <1>4, <1>5 DEF IInv

\* Every step keeps the invariant, and so does a step that changes nothing or
\* only starts or stops the visibility timer.
LEMMA NextKeeps == IInv /\ [Next]_vars => IInv'
<1> SUFFICES ASSUME IInv, [Next]_vars PROVE IInv'
  OBVIOUS
<1>1. ASSUME NEW m \in Messages, Enqueue(m) PROVE IInv'
  BY <1>1, EnqueueKeeps
<1>2. ASSUME NEW c \in Consumers, Dequeue(c) PROVE IInv'
  BY <1>2, DequeueKeeps
<1>3. ASSUME NEW c \in Consumers, Ack(c) PROVE IInv'
  BY <1>3, AckKeeps
<1>4. ASSUME NEW c \in Consumers, Nack(c) PROVE IInv'
  BY <1>4, NackKeeps
<1>5. ASSUME NEW c \in Consumers, Crash(c) PROVE IInv'
  BY <1>5, CrashKeeps
<1>6. ASSUME \/ StartVisibilityEnforcement \/ Stop \/ UNCHANGED vars PROVE IInv'
  <2>1. UNCHANGED <<queue, dead, unsent, holding, held, handled, faults>>
        /\ enforcing' \in BOOLEAN
    BY <1>6 DEF StartVisibilityEnforcement, Stop, vars, IInv, TypeOK
  <2>2. TypeOK' /\ Settled'
    BY <2>1 DEF IInv, TypeOK, Settled
  <2> QED
    BY <2>1, <2>2 DEF IInv
<1>7. CASE Enforce
  BY <1>7, EnforceKeeps
<1>8. CASE Tick
  BY <1>8, TickKeeps
<1> QED
  BY <1>1, <1>2, <1>3, <1>4, <1>5, <1>6, <1>7, <1>8 DEF Next

\* The invariant holds throughout.
LEMMA Invariant == Spec => []IInv
BY InitKeeps, NextKeeps, PTL DEF Spec

\* At-least-once delivery (README:59-70): whatever crashes, overruns and stale
\* answers happen, every message that was sent is once in the queue, or once in
\* the dead-letter queue, or was handled.
THEOREM NothingIsLost == Spec => []NothingLost
<1>1. ASSUME IInv PROVE NothingLost
  <2>1. QueueIds = IdsOf(queue) /\ DeadIds = IdsOf(dead)
    BY DEF QueueIds, DeadIds, IdsOf
  <2>2. Cardinality(IdsOf(queue)) = Len(queue) /\ Cardinality(IdsOf(dead)) = Len(dead)
    BY <1>1, CountingMessages DEF IInv, TypeOK, Settled
  <2> QED
    BY <1>1, <2>1, <2>2 DEF IInv, Settled, NothingLost
<1> QED
  BY <1>1, Invariant, PTL

\* "Total attempts = 1 (initial) + maxRetries" (queue.ts:179-181), and each
\* attempt beyond is owed to a consumer that crashed or overran its lease; no
\* message is dead-lettered with attempts left.
THEOREM RetriesStayInBudget == Spec => []RetryBudget
<1>1. ASSUME IInv PROVE RetryBudget
  <2>1. ASSUME NEW i \in DOMAIN queue
        PROVE  queue[i].attempts <= MaxRetries[queue[i].id] + 1 + faults
    <3>1. queue[i] \in Envelope /\ faults \in Nat
      BY <1>1, LenProperties, ParameterAssumption DEF IInv, TypeOK
    <3>2. queue[i].attempts \in Nat /\ MaxRetries[queue[i].id] \in Nat
      BY <3>1, ParameterAssumption DEF Envelope
    <3>3. Owed(queue[i], holding, held, faults)
      BY <1>1 DEF IInv
    <3> QED
      BY <3>1, <3>2, <3>3 DEF Owed
  <2> QED
    BY <1>1, <2>1 DEF IInv, RetryBudget
<1> QED
  BY <1>1, Invariant, PTL
===============================================================================
