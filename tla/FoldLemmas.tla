----------------------------- MODULE FoldLemmas -----------------------------
(***************************************************************************)
(* The laws of the folds that the models are written with: FoldLeft over a *)
(* sequence, as reduce() and the loops over a log do it, and sums over a   *)
(* finite set.                                                             *)
(*                                                                         *)
(* A fold is an operator with an operator for an argument, which no lemma  *)
(* can be cited for.  So the laws are stated for a function op, and for    *)
(* each operator it is shown once that its fold is the Result of such a    *)
(* function.  Induction is stated with sets, for the same reason.          *)
(***************************************************************************)
EXTENDS SequencesExt, SequenceTheorems, FiniteSetTheorems, WellFoundedInduction, TLAPS

-----------------------------------------------------------------------------
(* Induction. *)

\* A set that holds 0 and with each number the next holds all of them.
LEMMA CountingUp ==
    ASSUME NEW G, 0 \in G, \A i \in Nat : i \in G => i + 1 \in G
    PROVE  Nat \subseteq G
<1> DEFINE Bad == Nat \ G
<1>1. SUFFICES ASSUME Bad # {} PROVE FALSE
  OBVIOUS
<1>2. PICK k \in Bad : \A j \in Bad : ~ (<<j, k>> \in OpToRel(<, Nat))
  <2>1. Bad \subseteq Nat
    OBVIOUS
  <2> HIDE DEF Bad
  <2>2. QED
    BY <1>1, <2>1, NatLessThanWellFounded, WFMin
<1>3. k \in Nat /\ k \notin G /\ k # 0
  BY <1>2
<1>4. k - 1 \in Nat /\ k - 1 < k /\ (k - 1) + 1 = k
  BY <1>3
<1>5. k - 1 \in G
  BY <1>2, <1>4 DEF OpToRel
<1>6. QED
  BY <1>3, <1>4, <1>5

\* A set that holds <<>> and with each sequence those one longer holds all of them.
LEMMA GrowingSequences ==
    ASSUME NEW E, NEW G, <<>> \in G, \A s \in Seq(E) : \A e \in E : s \in G => Append(s, e) \in G
    PROVE  Seq(E) \subseteq G
<1> DEFINE H == {n \in Nat : \A s \in Seq(E) : Len(s) = n => s \in G}
<1>1. 0 \in H
  <2>1. \A s \in Seq(E) : Len(s) = 0 => s = <<>>
    BY EmptySeq
  <2>2. QED
    BY <2>1
<1>2. ASSUME NEW n \in Nat, n \in H PROVE n + 1 \in H
  <2>1. SUFFICES ASSUME NEW s \in Seq(E), Len(s) = n + 1 PROVE s \in G
    OBVIOUS
  <2>2. PICK front \in Seq(E), e \in E : s = Append(front, e)
    BY <2>1, EmptySeq, SequenceEmptyOrAppend
  <2>3. Len(front) = n
    BY <2>1, <2>2, AppendProperties, LenProperties
  <2>4. front \in G
    BY <1>2, <2>3
  <2>5. QED
    BY <2>2, <2>4
<1>3. Nat \subseteq H
  <2> HIDE DEF H
  <2>1. QED
    BY <1>1, <1>2, CountingUp
<1>4. QED
  BY <1>3, LenProperties

\* A set that holds {} and with each set of numbers up to n, less its greatest,
\* the set itself, holds all of them.
LEMMA GrowingPositions ==
    ASSUME NEW n \in Nat, NEW G, {} \in G,
           \A s \in SUBSET (1 .. n) : s # {} /\ s \ {Max(s)} \in G => s \in G
    PROVE  SUBSET (1 .. n) \subseteq G
<1> DEFINE H == {k \in Nat : k <= n => SUBSET (1 .. k) \subseteq G}
<1>1. 0 \in H
  <2>1. 1 .. 0 = {}
    OBVIOUS
  <2>2. SUBSET (1 .. 0) = {{}}
    BY <2>1
  <2>3. QED
    BY <2>2
<1>2. ASSUME NEW k \in Nat, k \in H PROVE k + 1 \in H
  <2>1. SUFFICES ASSUME k + 1 <= n, NEW s \in SUBSET (1 .. k + 1) PROVE s \in G
    OBVIOUS
  <2>2. CASE k + 1 \in s
    <3>1. Max(s) = k + 1
      <4>1. k + 1 \in s /\ \A y \in s : k + 1 >= y
        BY <2>1, <2>2
      <4>2. \A x \in s : (\A y \in s : x >= y) => x = k + 1
        BY <2>1, <4>1
      <4>3. QED
        BY <4>1, <4>2, Zenon DEF Max
    <3>2. s \ {Max(s)} \in SUBSET (1 .. k)
      BY <2>1, <3>1
    <3>3. s \in SUBSET (1 .. n) /\ s # {}
      <4>1. \A i \in 1 .. k + 1 : i \in 1 .. n
        BY <2>1
      <4>2. QED
        BY <2>2, <4>1
    <3>4. s \ {Max(s)} \in G
      <4>1. k <= n
        BY <2>1
      <4>2. QED
        BY <1>2, <3>2, <4>1
    <3>5. QED
      BY <3>3, <3>4
  <2>3. CASE k + 1 \notin s
    <3>1. s \in SUBSET (1 .. k)
      BY <2>1, <2>3
    <3>2. QED
      BY <1>2, <2>1, <3>1
  <2>4. QED
    BY <2>2, <2>3
<1>3. Nat \subseteq H
  <2> HIDE DEF H
  <2>1. QED
    BY <1>1, <1>2, CountingUp
<1>4. n \in H
  <2> HIDE DEF H
  <2>1. QED
    BY <1>3
<1>5. QED
  BY <1>4

\* One element makes a sequence.
LEMMA OneInSequence ==
    ASSUME NEW E, NEW e \in E
    PROVE  \E one \in Seq(E) : one = <<e>>
<1>1. <<e>> \in [1 .. 1 -> E]
  OBVIOUS
<1>2. <<e>> \in Seq(E)
  BY <1>1, SeqDef
<1>3. QED
  BY <1>2, Zenon

\* An element appended to the second of two sequences is appended to both.
LEMMA AppendToConcat ==
    ASSUME NEW E, NEW s \in Seq(E), NEW x \in Seq(E), NEW e \in E
    PROVE  s \o Append(x, e) = Append(s \o x, e)
<1>1. PICK one \in Seq(E) : one = <<e>>
  BY OneInSequence
<1>2. Append(x, e) = x \o one
  BY <1>1, AppendIsConcat
<1>3. PICK both \in Seq(E) : both = s \o x
  BY ConcatProperties
<1>4. Append(both, e) = both \o one
  BY <1>1, AppendIsConcat
<1>5. both \o one = s \o (x \o one)
  BY <1>3, ConcatAssociative
<1>6. QED
  BY <1>2, <1>3, <1>4, <1>5

-----------------------------------------------------------------------------
(* Folds over a sequence. *)

\* What takes a value of U and an element of E to a value of U.
Operations(U, E) == [U \X E -> U]

\* The values r that a loop over seq has computed after 0, 1, 2, ... elements.
Steps(op, base, seq, r) ==
    r[0] = base /\ \A i \in 1 .. Len(seq) : r[i] = op[<<r[i - 1], seq[i]>>]

Result(op, base, seq) == (CHOOSE r : Steps(op, base, seq, r))[Len(seq)]

\* A loop computes one value after each number of elements.
LEMMA StepsAgree ==
    ASSUME NEW op, NEW base, NEW seq, NEW other, Len(seq) \in Nat, Len(other) \in Nat, Len(seq) <= Len(other),
           \A i \in 1 .. Len(seq) : seq[i] = other[i],
           NEW r, NEW q, Steps(op, base, seq, r), Steps(op, base, other, q)
    PROVE  \A i \in 0 .. Len(seq) : r[i] = q[i]
<1> DEFINE G == {i \in Nat : i <= Len(seq) => r[i] = q[i]}
<1>1. 0 \in G
  BY DEF Steps
<1>2. ASSUME NEW i \in Nat, i \in G PROVE i + 1 \in G
  <2>1. SUFFICES ASSUME i + 1 <= Len(seq) PROVE r[i + 1] = q[i + 1]
    OBVIOUS
  <2>2. /\ i + 1 \in 1 .. Len(seq) /\ i + 1 \in 1 .. Len(other) /\ (i + 1) - 1 = i
        /\ i <= Len(seq)
    BY <2>1
  <2>3. r[i + 1] = op[<<r[i], seq[i + 1]>>] /\ q[i + 1] = op[<<q[i], other[i + 1]>>] /\ seq[i + 1] = other[i + 1]
    BY <2>2 DEF Steps
  <2>4. r[i] = q[i]
    BY <1>2, <2>2
  <2>5. QED
    BY <2>3, <2>4
<1>3. Nat \subseteq G
  <2> HIDE DEF G
  <2>1. QED
    BY <1>1, <1>2, CountingUp
<1>4. QED
  BY <1>3

\* A loop computes a value of its type after each number of elements.
LEMMA StepsExist ==
    ASSUME NEW U, NEW E, NEW op \in Operations(U, E), NEW base \in U, NEW seq \in Seq(E)
    PROVE  \E r \in [0 .. Len(seq) -> U] : Steps(op, base, seq, r)
<1> DEFINE G == {s \in Seq(E) : \E r \in [0 .. Len(s) -> U] : Steps(op, base, s, r)}
<1>1. <<>> \in G
  <2> DEFINE r == [i \in 0 .. 0 |-> base]
  <2>1. r \in [0 .. Len(<<>>) -> U] /\ Steps(op, base, <<>>, r)
    BY EmptySeq DEF Steps
  <2>2. QED
    BY <2>1, EmptySeq, Zenon
<1>2. ASSUME NEW s \in Seq(E), NEW e \in E, s \in G PROVE Append(s, e) \in G
  <2>1. PICK r \in [0 .. Len(s) -> U] : Steps(op, base, s, r)
    BY <1>2
  <2>2. PICK n \in Nat : n = Len(s)
    BY LenProperties
  <2>3. PICK longer \in Seq(E) : longer = Append(s, e)
    BY AppendProperties
  <2>4. /\ Len(longer) = n + 1 /\ longer[n + 1] = e
        /\ \A i \in 1 .. n : longer[i] = s[i] /\ s[i] \in E
    BY <2>2, <2>3, AppendProperties, LenProperties
  <2>5. r[0] = base /\ \A i \in 1 .. n : r[i] = op[<<r[i - 1], s[i]>>]
    BY <2>1, <2>2 DEF Steps
  <2>6. r \in [0 .. n -> U] /\ op[<<r[n], e>>] \in U
    BY <2>1, <2>2 DEF Operations
  <2>7. PICK q : q = [i \in 0 .. n + 1 |-> IF i = n + 1 THEN op[<<r[n], e>>] ELSE r[i]]
    OBVIOUS
  <2>8. q \in [0 .. n + 1 -> U] /\ q[n + 1] = op[<<r[n], e>>] /\ \A i \in 0 .. n : q[i] = r[i]
    BY <2>6, <2>7
  <2>9. \A i \in 1 .. n + 1 : q[i] = op[<<q[i - 1], longer[i]>>]
    <3>1. ASSUME NEW i \in 1 .. n PROVE q[i] = op[<<q[i - 1], longer[i]>>]
      <4>1. i \in 0 .. n /\ i - 1 \in 0 .. n
        OBVIOUS
      <4>2. q[i] = r[i] /\ q[i - 1] = r[i - 1] /\ longer[i] = s[i]
        BY <2>4, <2>8, <4>1
      <4>3. QED
        BY <2>5, <4>2
    <3>2. q[n + 1] = op[<<q[(n + 1) - 1], longer[n + 1]>>]
      <4>1. (n + 1) - 1 = n /\ n \in 0 .. n
        OBVIOUS
      <4>2. QED
        BY <2>4, <2>8, <4>1
    <3>3. \A i \in 1 .. n + 1 : i \in 1 .. n \/ i = n + 1
      OBVIOUS
    <3>4. QED
      BY <3>1, <3>2, <3>3, Zenon
  <2>10. Steps(op, base, longer, q)
    <3>1. q[0] = base
      BY <2>5, <2>8
    <3>2. QED
      BY <2>4, <2>9, <3>1 DEF Steps
  <2>11. q \in [0 .. Len(longer) -> U]
    BY <2>4, <2>8
  <2>12. QED
    BY <2>3, <2>10, <2>11, Zenon
<1>3. Seq(E) \subseteq G
  <2> HIDE DEF G
  <2>1. QED
    BY <1>1, <1>2, GrowingSequences
<1>4. QED
  BY <1>3

\* Result is what the loop has computed after the last element.
LEMMA ResultOfSteps ==
    ASSUME NEW op, NEW base, NEW seq, Len(seq) \in Nat, NEW r, Steps(op, base, seq, r)
    PROVE  r[Len(seq)] = Result(op, base, seq)
<1>1. PICK q : q = CHOOSE x : Steps(op, base, seq, x)
  OBVIOUS
<1>2. Steps(op, base, seq, q)
  BY <1>1
<1>3. Len(seq) \in 0 .. Len(seq)
  OBVIOUS
<1>4. r[Len(seq)] = q[Len(seq)]
  BY <1>2, <1>3, StepsAgree
<1>5. QED
  BY <1>1, <1>4 DEF Result

\* No element: the base.  One more: one more step.
LEMMA ResultLaws ==
    ASSUME NEW U, NEW E, NEW op \in Operations(U, E), NEW base \in U
    PROVE  /\ Result(op, base, <<>>) = base
           /\ \A s \in Seq(E) : /\ Result(op, base, s) \in U
                                /\ \A e \in E : Result(op, base, Append(s, e)) = op[<<Result(op, base, s), e>>]
<1>1. Result(op, base, <<>>) = base
  <2>1. PICK r \in [0 .. Len(<<>>) -> U] : Steps(op, base, <<>>, r)
    BY EmptySeq, StepsExist
  <2>2. r[Len(<<>>)] = Result(op, base, <<>>) /\ r[0] = base
    BY <2>1, EmptySeq, ResultOfSteps DEF Steps
  <2>3. QED
    BY <2>2, EmptySeq
<1>2. ASSUME NEW s \in Seq(E), NEW e \in E
      PROVE  Result(op, base, s) \in U /\ Result(op, base, Append(s, e)) = op[<<Result(op, base, s), e>>]
  <2>1. PICK r \in [0 .. Len(s) -> U] : Steps(op, base, s, r)
    BY StepsExist
  <2>2. PICK longer \in Seq(E) : longer = Append(s, e)
    BY AppendProperties
  <2>3. PICK q \in [0 .. Len(longer) -> U] : Steps(op, base, longer, q)
    BY StepsExist
  <2>4. PICK n \in Nat : n = Len(s)
    BY LenProperties
  <2>5. Len(longer) = n + 1 /\ longer[n + 1] = e /\ \A i \in 1 .. n : longer[i] = s[i]
    BY <2>2, <2>4, AppendProperties
  <2>6. \A i \in 1 .. Len(s) : s[i] = longer[i]
    BY <2>4, <2>5
  <2>7. Len(s) \in Nat /\ Len(longer) \in Nat /\ Len(s) <= Len(longer)
    BY <2>4, <2>5
  <2>8. \A i \in 0 .. Len(s) : r[i] = q[i]
    BY <2>1, <2>3, <2>6, <2>7, StepsAgree
  <2>9. r[n] = Result(op, base, s) /\ q[n + 1] = Result(op, base, longer)
    BY <2>1, <2>3, <2>4, <2>5, <2>7, ResultOfSteps
  <2>10. r[n] \in U /\ r[n] = q[n]
    BY <2>1, <2>4, <2>8
  <2>11. q[n + 1] = op[<<q[(n + 1) - 1], longer[n + 1]>>]
    BY <2>3, <2>5 DEF Steps
  <2>12. (n + 1) - 1 = n
    OBVIOUS
  <2>13. QED
    BY <2>2, <2>5, <2>9, <2>10, <2>11, <2>12
<1>3. ASSUME NEW s \in Seq(E) PROVE Result(op, base, s) \in U
  <2>1. PICK r \in [0 .. Len(s) -> U] : Steps(op, base, s, r)
    BY StepsExist
  <2>2. PICK n \in Nat : n = Len(s)
    BY LenProperties
  <2>3. r[n] = Result(op, base, s)
    BY <2>1, <2>2, ResultOfSteps
  <2>4. QED
    BY <2>1, <2>2, <2>3
<1>4. QED
  BY <1>1, <1>2, <1>3

\* The values on the way to the result.
LEMMA ResultInSteps ==
    ASSUME NEW U, NEW E, NEW op \in Operations(U, E), NEW base \in U, NEW seq \in Seq(E)
    PROVE  \E r \in [0 .. Len(seq) -> U] :
              /\ r[0] = base /\ \A i \in 1 .. Len(seq) : r[i] = op[<<r[i - 1], seq[i]>>]
              /\ r[Len(seq)] = Result(op, base, seq)
<1>1. PICK r \in [0 .. Len(seq) -> U] : Steps(op, base, seq, r)
  BY StepsExist
<1>2. r[Len(seq)] = Result(op, base, seq)
  BY <1>1, LenProperties, ResultOfSteps
<1>3. r[0] = base /\ \A i \in 1 .. Len(seq) : r[i] = op[<<r[i - 1], seq[i]>>]
  BY <1>1 DEF Steps
<1>4. QED
  BY <1>2, <1>3

\* No element leaves the base.
LEMMA ResultOfNone ==
    ASSUME NEW U, NEW E, NEW op \in Operations(U, E), NEW base \in U
    PROVE  Result(op, base, <<>>) = base
  BY ResultLaws

\* What has been computed is of its type.
LEMMA ResultIsTyped ==
    ASSUME NEW U, NEW E, NEW op \in Operations(U, E), NEW base \in U, NEW s \in Seq(E)
    PROVE  Result(op, base, s) \in U
  BY ResultLaws

\* The last element is taken in last.
LEMMA ResultOfAppend ==
    ASSUME NEW U, NEW E, NEW op \in Operations(U, E), NEW base \in U, NEW s \in Seq(E), NEW e \in E
    PROVE  Result(op, base, Append(s, e)) = op[<<Result(op, base, s), e>>]
  BY ResultLaws

\* A run of one element is one step.
LEMMA ResultOfOne ==
    ASSUME NEW U, NEW E, NEW op \in Operations(U, E), NEW base \in U, NEW e \in E
    PROVE  Result(op, base, <<e>>) = op[<<base, e>>]
<1>1. PICK none \in Seq(E) : none = <<>>
  BY EmptySeq
<1>2. <<e>> = Append(none, e)
  BY <1>1
<1>3. Result(op, base, Append(none, e)) = op[<<Result(op, base, none), e>>]
  BY ResultOfAppend
<1>4. QED
  BY <1>1, <1>2, <1>3, ResultOfNone

\* A run of elements after another is folded onto what that one comes to.
LEMMA ResultOfConcat ==
    ASSUME NEW U, NEW E, NEW op \in Operations(U, E), NEW base \in U, NEW s \in Seq(E), NEW t \in Seq(E)
    PROVE  Result(op, base, s \o t) = Result(op, Result(op, base, s), t)
<1>1. PICK start \in U : start = Result(op, base, s)
  BY ResultLaws
<1>2. ASSUME NEW b \in U
      PROVE  /\ Result(op, b, <<>>) = b
             /\ \A x \in Seq(E), e \in E : Result(op, b, Append(x, e)) = op[<<Result(op, b, x), e>>]
  BY ResultLaws
<1> DEFINE G == {x \in Seq(E) : Result(op, base, s \o x) = Result(op, start, x)}
<1>3. <<>> \in G
  <2>1. s \o <<>> = s /\ <<>> \in Seq(E)
    BY ConcatEmptySeq, EmptySeq
  <2>2. Result(op, start, <<>>) = start
    BY <1>2
  <2>3. QED
    BY <1>1, <2>1, <2>2
<1>4. ASSUME NEW x \in Seq(E), NEW e \in E, x \in G PROVE Append(x, e) \in G
  <2>1. PICK longer \in Seq(E) : longer = Append(x, e)
    BY AppendProperties
  <2>2. PICK both \in Seq(E) : both = s \o x
    BY ConcatProperties
  <2>3. Append(both, e) = s \o longer
    <3>1. s \o Append(x, e) = Append(s \o x, e)
      BY AppendToConcat
    <3>2. QED
      BY <2>1, <2>2, <3>1
  <2>4. Result(op, base, Append(both, e)) = op[<<Result(op, base, both), e>>]
    BY <1>2
  <2>5. Result(op, start, longer) = op[<<Result(op, start, x), e>>]
    BY <2>1, <1>2
  <2>6. Result(op, base, both) = Result(op, start, x)
    BY <1>4, <2>2
  <2>7. QED
    BY <2>1, <2>3, <2>4, <2>5, <2>6
<1>5. Seq(E) \subseteq G
  <2> HIDE DEF G
  <2>1. QED
    BY <1>3, <1>4, GrowingSequences
<1>6. t \in G
  <2> HIDE DEF G
  <2>1. QED
    BY <1>5
<1>7. QED
  BY <1>1, <1>6

-----------------------------------------------------------------------------
(* FoldLeft is a recursive function on the sets of positions, which takes  *)
(* the greatest position last.                                             *)

\* The greatest of a set of positions.
LEMMA GreatestPosition ==
    ASSUME NEW n \in Nat, NEW s \in SUBSET (1 .. n), s # {}
    PROVE  /\ Max(s) \in s /\ Max(s) \in 1 .. n /\ \A y \in s : y <= Max(s)
           /\ s \ {Max(s)} \in SUBSET (1 .. n)
<1> DEFINE G == {k \in Nat : \A x \in SUBSET (1 .. k) : x # {} => \E m \in x : \A y \in x : m >= y}
<1>1. 0 \in G
  <2>1. 1 .. 0 = {}
    OBVIOUS
  <2>2. QED
    BY <2>1
<1>2. ASSUME NEW k \in Nat, k \in G PROVE k + 1 \in G
  <2>1. SUFFICES ASSUME NEW x \in SUBSET (1 .. k + 1), x # {} PROVE \E m \in x : \A y \in x : m >= y
    OBVIOUS
  <2>2. CASE k + 1 \in x
    BY <2>2
  <2>3. CASE k + 1 \notin x
    <3>1. x \in SUBSET (1 .. k)
      BY <2>3
    <3>2. QED
      BY <1>2, <2>1, <3>1
  <2>4. QED
    BY <2>2, <2>3
<1>3. n \in G
  <2> HIDE DEF G
  <2>1. QED
    BY <1>1, <1>2, CountingUp
<1>4. \E m \in s : \A y \in s : m >= y
  BY <1>3
<1>5. Max(s) \in s /\ \A y \in s : Max(s) >= y
  BY <1>4, Zenon DEF Max
<1>6. QED
  BY <1>5

\* The greatest of a set with the next position in it.
LEMMA NextIsGreatest ==
    ASSUME NEW k \in Nat, NEW s \in SUBSET (1 .. k + 1), k + 1 \in s
    PROVE  Max(s) = k + 1
<1>1. k + 1 \in s /\ \A y \in s : k + 1 >= y
  OBVIOUS
<1>2. \A x \in s : (\A y \in s : x >= y) => x = k + 1
  BY <1>1
<1>3. QED
  BY <1>1, <1>2, Zenon DEF Max

Turned(op, base, seq, h, s) ==
    IF s = {} THEN base ELSE op[<<h[s \ {Max(s)}], seq[Max(s)]>>]

\* It does so on the positions up to k.
Folded(op, base, seq, k, h) == \A s \in SUBSET (1 .. k) : h[s] = Turned(op, base, seq, h, s)

Foldable(U, op, base, seq, k) == \E h \in [SUBSET (1 .. k) -> U] : Folded(op, base, seq, k, h)

HasTable(U, op, base, seq) ==
    \E h \in [SUBSET DOMAIN seq -> U] : \A s \in SUBSET DOMAIN seq : h[s] = Turned(op, base, seq, h, s)

\* A recursive function that does what op does wherever the value so far is in U.
Tabulates(U, op, base, seq, h) ==
    /\ h[{}] = base
    /\ \A s \in SUBSET DOMAIN seq :
         s # {} /\ h[s \ {Max(s)}] \in U => h[s] = op[<<h[s \ {Max(s)}], seq[Max(s)]>>]

\* There is such a function.
LEMMA FoldExists ==
    ASSUME NEW U, NEW E, NEW op \in Operations(U, E), NEW base \in U, NEW seq \in Seq(E)
    PROVE  HasTable(U, op, base, seq)
<1>1. PICK n \in Nat : n = Len(seq) /\ DOMAIN seq = 1 .. n /\ \A i \in 1 .. n : seq[i] \in E
  BY LenProperties
<1> DEFINE G == {k \in Nat : k <= n => Foldable(U, op, base, seq, k)}
<1>2. 0 \in G
  <2>1. 1 .. 0 = {} /\ SUBSET (1 .. 0) = {{}}
    OBVIOUS
  <2>2. PICK h : h = [s \in SUBSET (1 .. 0) |-> base]
    OBVIOUS
  <2>3. h \in [SUBSET (1 .. 0) -> U]
    BY <2>2
  <2>4. Folded(op, base, seq, 0, h)
    BY <2>1, <2>2 DEF Turned, Folded
  <2>5. Foldable(U, op, base, seq, 0)
    BY <2>3, <2>4, Zenon DEF Foldable
  <2>6. QED
    BY <2>5
<1>3. ASSUME NEW k \in Nat, k \in G PROVE k + 1 \in G
  <2>1. SUFFICES ASSUME k + 1 <= n PROVE Foldable(U, op, base, seq, k + 1)
    OBVIOUS
  <2>2. PICK h \in [SUBSET (1 .. k) -> U] : Folded(op, base, seq, k, h)
    <3>1. Foldable(U, op, base, seq, k)
      BY <1>3, <2>1
    <3>2. QED
      BY <3>1, Zenon DEF Foldable
  <2>3. PICK g : g = [s \in SUBSET (1 .. k + 1) |-> IF k + 1 \in s THEN op[<<h[s \ {k + 1}], seq[k + 1]>>] ELSE h[s]]
    OBVIOUS
  <2>4. \A s \in SUBSET (1 .. k + 1) : s \ {k + 1} \in SUBSET (1 .. k)
    OBVIOUS
  <2>5. \A s \in SUBSET (1 .. k + 1) : k + 1 \notin s => s \in SUBSET (1 .. k)
    OBVIOUS
  <2>6. \A s \in SUBSET (1 .. k) : s \in SUBSET (1 .. k + 1) /\ g[s] = h[s]
    BY <2>3
  <2>7. ASSUME NEW s \in SUBSET (1 .. k + 1)
        PROVE  g[s] \in U /\ g[s] = Turned(op, base, seq, g, s)
    <3>1. CASE k + 1 \in s
      <4>1. g[s] = op[<<h[s \ {k + 1}], seq[k + 1]>>]
        BY <2>3, <3>1
      <4>2. Max(s) = k + 1 /\ s # {}
        BY <3>1, NextIsGreatest
      <4>3. h[s \ {k + 1}] = g[s \ {k + 1}] /\ h[s \ {k + 1}] \in U
        BY <2>2, <2>4, <2>6
      <4>4. seq[k + 1] \in E
        BY <1>1, <2>1
      <4>5. QED
        BY <4>1, <4>2, <4>3, <4>4 DEF Turned, Operations
    <3>2. CASE k + 1 \notin s
      <4>1. s \in SUBSET (1 .. k)
        BY <2>5, <3>2
      <4>2. g[s] = h[s] /\ h[s] \in U /\ h[s] = Turned(op, base, seq, h, s)
        BY <2>2, <2>6, <4>1 DEF Folded
      <4>3. CASE s = {}
        BY <4>2, <4>3 DEF Turned
      <4>4. CASE s # {}
        <5>1. s \ {Max(s)} \in SUBSET (1 .. k)
          BY <4>1
        <5>2. g[s \ {Max(s)}] = h[s \ {Max(s)}]
          BY <2>6, <5>1
        <5>3. QED
          BY <4>2, <5>2 DEF Turned
      <4>5. QED
        BY <4>3, <4>4
    <3>3. QED
      BY <3>1, <3>2
  <2>8. g \in [SUBSET (1 .. k + 1) -> U]
    BY <2>3, <2>7
  <2>9. Folded(op, base, seq, k + 1, g)
    BY <2>7 DEF Folded
  <2>10. QED
    BY <2>8, <2>9, Zenon DEF Foldable
<1>4. n \in G
  <2> HIDE DEF G
  <2>1. QED
    BY <1>2, <1>3, CountingUp
<1>5. PICK h \in [SUBSET (1 .. n) -> U] : Folded(op, base, seq, n, h)
  <2>1. Foldable(U, op, base, seq, n)
    BY <1>4
  <2>2. QED
    BY <2>1, Zenon DEF Foldable
<1>6. h \in [SUBSET DOMAIN seq -> U] /\ \A s \in SUBSET DOMAIN seq : h[s] = Turned(op, base, seq, h, s)
  BY <1>1, <1>5, Zenon DEF Folded
<1>7. QED
  BY <1>6, Zenon DEF HasTable

\* The greatest of a set of positions of a sequence is one, and what is left is a set of them.
LEMMA TurnsAreTyped ==
    ASSUME NEW E, NEW seq \in Seq(E), NEW s \in SUBSET DOMAIN seq, s # {}
    PROVE  seq[Max(s)] \in E /\ s \ {Max(s)} \in SUBSET DOMAIN seq
<1>1. PICK n \in Nat : n = Len(seq) /\ DOMAIN seq = 1 .. n /\ \A i \in 1 .. n : seq[i] \in E
  BY LenProperties
<1>2. s \in SUBSET (1 .. n)
  BY <1>1
<1>3. Max(s) \in 1 .. n
  BY <1>2, GreatestPosition
<1>4. QED
  BY <1>1, <1>3

\* At all positions such a function is the result of the loop.
LEMMA FoldIsResult ==
    ASSUME NEW U, NEW E, NEW op \in Operations(U, E), NEW base \in U, NEW seq \in Seq(E), NEW h,
           Tabulates(U, op, base, seq, h)
    PROVE  h[DOMAIN seq] = Result(op, base, seq)
<1>1. PICK n \in Nat : n = Len(seq) /\ DOMAIN seq = 1 .. n /\ \A i \in 1 .. n : seq[i] \in E
  BY LenProperties
<1> DEFINE G == {k \in Nat : k <= n => h[1 .. k] \in U}
<1>2. ASSUME NEW k \in Nat, k + 1 <= n
      PROVE  /\ (1 .. k + 1) \in SUBSET DOMAIN seq /\ (1 .. k + 1) # {}
             /\ Max(1 .. k + 1) = k + 1 /\ (1 .. k + 1) \ {k + 1} = 1 .. k
  <2>1. (1 .. k + 1) \in SUBSET (1 .. k + 1) /\ k + 1 \in 1 .. k + 1
    OBVIOUS
  <2>2. PICK s : s = 1 .. k + 1
    OBVIOUS
  <2>3. Max(s) = k + 1
    BY <2>1, <2>2, NextIsGreatest
  <2>4. (1 .. k + 1) \in SUBSET (1 .. n)
    BY <1>2
  <2>5. (1 .. k + 1) \ {k + 1} = 1 .. k
    OBVIOUS
  <2>6. QED
    BY <1>1, <2>1, <2>2, <2>3, <2>4, <2>5
<1>3. 0 \in G
  <2>1. 1 .. 0 = {}
    OBVIOUS
  <2>2. QED
    BY <2>1 DEF Tabulates
<1>4. ASSUME NEW k \in Nat, k \in G, k + 1 <= n
      PROVE  h[1 .. k] \in U /\ h[1 .. k + 1] = op[<<h[1 .. k], seq[k + 1]>>]
  <2>1. h[1 .. k] \in U
    BY <1>4
  <2>2. QED
    BY <1>2, <1>4, <2>1 DEF Tabulates
<1>5. ASSUME NEW k \in Nat, k \in G PROVE k + 1 \in G
  <2>1. SUFFICES ASSUME k + 1 <= n PROVE h[1 .. k + 1] \in U
    OBVIOUS
  <2>2. h[1 .. k] \in U /\ h[1 .. k + 1] = op[<<h[1 .. k], seq[k + 1]>>] /\ seq[k + 1] \in E
    BY <1>1, <1>4, <1>5, <2>1
  <2>3. QED
    BY <2>2 DEF Operations
<1>6. \A k \in Nat : k \in G
  <2> HIDE DEF G
  <2>1. QED
    BY <1>3, <1>5, CountingUp
<1>7. PICK r : r = [i \in 0 .. n |-> h[1 .. i]]
  OBVIOUS
<1>8. r[0] = base
  <2>1. 1 .. 0 = {} /\ 0 \in 0 .. n
    OBVIOUS
  <2>2. QED
    BY <1>7, <2>1 DEF Tabulates
<1>9. ASSUME NEW i \in 1 .. n PROVE r[i] = op[<<r[i - 1], seq[i]>>]
  <2>1. PICK k \in Nat : i = k + 1 /\ k + 1 <= n /\ i - 1 = k /\ k \in 0 .. n
    <3>1. i - 1 \in Nat /\ i = (i - 1) + 1
      OBVIOUS
    <3>2. QED
      BY <3>1
  <2>2. h[1 .. k + 1] = op[<<h[1 .. k], seq[k + 1]>>]
    BY <1>4, <1>6, <2>1
  <2>3. r[i] = h[1 .. k + 1] /\ r[i - 1] = h[1 .. k]
    BY <1>7, <2>1
  <2>4. QED
    BY <2>1, <2>2, <2>3
<1>10. Steps(op, base, seq, r)
  BY <1>1, <1>8, <1>9 DEF Steps
<1>11. r[n] = h[1 .. n]
  BY <1>7
<1>12. r[Len(seq)] = Result(op, base, seq)
  BY <1>1, <1>10, ResultOfSteps
<1>13. QED
  BY <1>1, <1>11, <1>12

-----------------------------------------------------------------------------
(* Sums over a finite set.  The sum of the numbers f[x] is the cardinality *)
(* of a set that holds as many units for each x, which needs no recursion. *)

UnitsIn(f, s) == {p \in s \X Nat : p[2] \in 1 .. f[p[1]]}

SumOf(f, s) == Cardinality(UnitsIn(f, s))

\* What is left of a finite set without one of its elements.
LEMMA OneFewer ==
    ASSUME NEW s, IsFiniteSet(s), NEW n \in Nat, Cardinality(s) = n + 1
    PROVE  s # {} /\ \A x \in s : Cardinality(s \ {x}) = n
<1>1. s # {}
  <2>1. Cardinality({}) = 0
    BY FS_EmptySet
  <2>2. n + 1 # 0
    OBVIOUS
  <2>3. QED
    BY <2>1, <2>2
<1>2. ASSUME NEW x \in s PROVE Cardinality(s \ {x}) = n
  <2>1. Cardinality(s \ {x}) = Cardinality(s) - 1
    BY FS_RemoveElement
  <2>2. QED
    BY <2>1
<1>3. QED
  BY <1>1, <1>2

\* A property of the empty set that holds of a subset when it holds of the subset
\* less any one of its elements holds of every subset of a finite set.
LEMMA GrowingSubsets ==
    ASSUME NEW S, IsFiniteSet(S), NEW G, {} \in G,
           \A s \in SUBSET S : \A x \in s : s \ {x} \in G => s \in G
    PROVE  SUBSET S \subseteq G
<1> DEFINE H == {n \in Nat : \A s \in SUBSET S : Cardinality(s) = n => s \in G}
<1>1. \A s \in SUBSET S : IsFiniteSet(s) /\ Cardinality(s) \in Nat
  BY FS_Subset, FS_CardinalityType
<1>2. 0 \in H
  BY <1>1, FS_EmptySet
<1>3. ASSUME NEW n \in Nat, n \in H PROVE n + 1 \in H
  <2>1. SUFFICES ASSUME NEW s \in SUBSET S, Cardinality(s) = n + 1 PROVE s \in G
    OBVIOUS
  <2>2. IsFiniteSet(s)
    BY <1>1
  <2>3. PICK x \in s : Cardinality(s \ {x}) = n
    BY <2>1, <2>2, OneFewer
  <2>4. Cardinality(s \ {x}) = n /\ s \ {x} \in SUBSET S
    BY <2>1, <2>3
  <2>5. s \ {x} \in G
    BY <1>3, <2>4
  <2>6. QED
    BY <2>5
<1> HIDE DEF H
<1>4. Nat \subseteq H
  BY <1>2, <1>3, CountingUp
<1>5. QED
  BY <1>1, <1>4 DEF H

\* The sum over no element.
LEMMA SumOfNone == \A f : SumOf(f, {}) = 0
  BY FS_EmptySet DEF SumOf, UnitsIn

\* One element has as many units as its number.
LEMMA UnitsOfOne ==
    ASSUME NEW x, NEW m \in Nat
    PROVE  IsFiniteSet({x} \X (1 .. m)) /\ Cardinality({x} \X (1 .. m)) = m
<1>1. IsFiniteSet(1 .. m) /\ Cardinality(1 .. m) = m
  BY FS_Interval
<1>2. IsFiniteSet({x}) /\ Cardinality({x}) = 1
  BY FS_Singleton
<1>3. QED
  BY <1>1, <1>2, FS_Product

\* With one element more the sum grows by its number.
LEMMA UnitsOfMore ==
    ASSUME NEW D, NEW f \in [D -> Nat], NEW s \in SUBSET D, NEW x \in s, IsFiniteSet(UnitsIn(f, s \ {x}))
    PROVE  /\ IsFiniteSet(UnitsIn(f, s))
           /\ SumOf(f, s) = f[x] + SumOf(f, s \ {x})
<1> DEFINE one == {x} \X (1 .. f[x])
           others == UnitsIn(f, s \ {x})
<1>1. f[x] \in Nat
  OBVIOUS
<1>2. IsFiniteSet(one) /\ Cardinality(one) = f[x]
  BY <1>1, UnitsOfOne
<1>3. UnitsIn(f, s) = one \cup others
  BY <1>1 DEF UnitsIn
<1>4. one \cap others = {}
  BY DEF UnitsIn
<1> HIDE DEF one, others
<1>5. IsFiniteSet(others) /\ Cardinality(others) \in Nat
  BY FS_CardinalityType DEF others
<1>6. IsFiniteSet(one \cup others) /\ Cardinality(one \cup others) = f[x] + Cardinality(others) - Cardinality(one \cap others)
  BY <1>2, <1>5, FS_Union
<1>7. Cardinality(one \cap others) = 0
  BY <1>4, FS_EmptySet
<1>8. Cardinality(one \cup others) = f[x] + Cardinality(others)
  BY <1>1, <1>5, <1>6, <1>7
<1>9. QED
  BY <1>3, <1>6, <1>8 DEF SumOf, others

LEMMA UnitsAreFinite ==
    ASSUME NEW D, NEW f \in [D -> Nat], NEW S \in SUBSET D, IsFiniteSet(S)
    PROVE  \A s \in SUBSET S : IsFiniteSet(UnitsIn(f, s)) /\ SumOf(f, s) \in Nat
<1> DEFINE G == {s \in SUBSET S : IsFiniteSet(UnitsIn(f, s))}
<1>1. {} \in G
  BY FS_EmptySet DEF UnitsIn
<1>2. \A s \in SUBSET S : \A x \in s : s \ {x} \in G => s \in G
  <2>1. SUFFICES ASSUME NEW s \in SUBSET S, NEW x \in s, IsFiniteSet(UnitsIn(f, s \ {x})) PROVE IsFiniteSet(UnitsIn(f, s))
    OBVIOUS
  <2>2. s \in SUBSET D
    OBVIOUS
  <2>3. QED
    BY <2>1, <2>2, UnitsOfMore
<1> HIDE DEF G
<1>3. SUBSET S \subseteq G
  BY <1>1, <1>2, GrowingSubsets
<1>4. QED
  BY <1>3, FS_CardinalityType DEF G, SumOf

LEMMA SumOfMore ==
    ASSUME NEW D, NEW f \in [D -> Nat], NEW s \in SUBSET D, NEW x \in s, IsFiniteSet(s)
    PROVE  SumOf(f, s) = f[x] + SumOf(f, s \ {x})
<1>1. IsFiniteSet(UnitsIn(f, s \ {x}))
  BY UnitsAreFinite
<1>2. QED
  BY <1>1, UnitsOfMore

\* The sum over two sets that share no element.
LEMMA SumOfUnion ==
    ASSUME NEW D, NEW f \in [D -> Nat], NEW s \in SUBSET D, NEW t \in SUBSET D,
           IsFiniteSet(s), IsFiniteSet(t), s \cap t = {}
    PROVE  SumOf(f, s \cup t) = SumOf(f, s) + SumOf(f, t)
<1>1. IsFiniteSet(UnitsIn(f, s)) /\ IsFiniteSet(UnitsIn(f, t)) /\ SumOf(f, s) \in Nat /\ SumOf(f, t) \in Nat
  BY UnitsAreFinite
<1>2. UnitsIn(f, s \cup t) = UnitsIn(f, s) \cup UnitsIn(f, t)
  BY DEF UnitsIn
<1>3. UnitsIn(f, s) \cap UnitsIn(f, t) = {}
  BY DEF UnitsIn
<1>4. Cardinality(UnitsIn(f, s) \cup UnitsIn(f, t)) =
         Cardinality(UnitsIn(f, s)) + Cardinality(UnitsIn(f, t)) - Cardinality(UnitsIn(f, s) \cap UnitsIn(f, t))
  BY <1>1, FS_Union
<1>5. Cardinality(UnitsIn(f, s) \cap UnitsIn(f, t)) = 0
  BY <1>3, FS_EmptySet
<1>6. Cardinality(UnitsIn(f, s)) \in Nat /\ Cardinality(UnitsIn(f, t)) \in Nat
  BY <1>1 DEF SumOf
<1>7. Cardinality(UnitsIn(f, s) \cup UnitsIn(f, t)) = Cardinality(UnitsIn(f, s)) + Cardinality(UnitsIn(f, t))
  BY <1>4, <1>5, <1>6
<1>8. QED
  BY <1>2, <1>7 DEF SumOf

\* The sum over a part is no greater.
LEMMA SumOfPart ==
    ASSUME NEW D, NEW f \in [D -> Nat], NEW s \in SUBSET D, IsFiniteSet(s), NEW t \in SUBSET s
    PROVE  SumOf(f, t) <= SumOf(f, s)
<1>1. IsFiniteSet(UnitsIn(f, s))
  BY UnitsAreFinite
<1>2. UnitsIn(f, t) \in SUBSET UnitsIn(f, s)
  BY DEF UnitsIn
<1>3. QED
  BY <1>1, <1>2, FS_Subset DEF SumOf

\* The function FoldSet and its like make of a sum: an element is taken of each set.
AddsUp(f, S, g) ==
    g = [s \in SUBSET S |-> IF s = {} THEN 0
                            ELSE f[CHOOSE x \in s : TRUE] + g[s \ {CHOOSE x \in s : TRUE}]]

\* The sum is such a function.
LEMMA SumsAddUp ==
    ASSUME NEW S, IsFiniteSet(S), NEW f \in [S -> Nat]
    PROVE  AddsUp(f, S, [s \in SUBSET S |-> SumOf(f, s)])
<1> DEFINE h == [s \in SUBSET S |-> SumOf(f, s)]
<1>1. ASSUME NEW s \in SUBSET S
      PROVE  h[s] = IF s = {} THEN 0 ELSE f[CHOOSE x \in s : TRUE] + h[s \ {CHOOSE x \in s : TRUE}]
  <2>1. CASE s = {}
    BY <2>1, SumOfNone
  <2>2. CASE s # {}
    <3>1. PICK x \in s : x = CHOOSE y \in s : TRUE
      BY <2>2
    <3>2. IsFiniteSet(s)
      BY FS_Subset
    <3>3. SumOf(f, s) = f[x] + SumOf(f, s \ {x})
      BY <3>2, SumOfMore
    <3>4. h[s] = f[x] + h[s \ {x}]
      BY <3>3
    <3>5. QED
      BY <2>2, <3>1, <3>4
  <2>3. QED
    BY <2>1, <2>2
<1>2. QED
  BY <1>1 DEF AddsUp

\* It is the only one.
LEMMA SumIsUnique ==
    ASSUME NEW S, IsFiniteSet(S), NEW f \in [S -> Nat], NEW g, AddsUp(f, S, g)
    PROVE  g[S] = SumOf(f, S)
<1> DEFINE H == {n \in Nat : \A s \in SUBSET S : Cardinality(s) = n => g[s] = SumOf(f, s)}
<1>1. \A s \in SUBSET S : IsFiniteSet(s) /\ Cardinality(s) \in Nat
  BY FS_Subset, FS_CardinalityType
<1>2. 0 \in H
  <2>1. \A s \in SUBSET S : Cardinality(s) = 0 => s = {}
    BY <1>1, FS_EmptySet
  <2>2. g[{}] = 0
    BY DEF AddsUp
  <2>3. QED
    BY <2>1, <2>2, SumOfNone
<1>3. ASSUME NEW n \in Nat, n \in H PROVE n + 1 \in H
  <2>1. SUFFICES ASSUME NEW s \in SUBSET S, Cardinality(s) = n + 1 PROVE g[s] = SumOf(f, s)
    OBVIOUS
  <2>2. IsFiniteSet(s)
    BY <1>1
  <2>3. s # {} /\ \A x \in s : Cardinality(s \ {x}) = n
    BY <2>1, <2>2, OneFewer
  <2>4. PICK x \in s : x = CHOOSE y \in s : TRUE
    BY <2>3
  <2>5. g[s \ {x}] = SumOf(f, s \ {x})
    BY <1>3, <2>3
  <2>6. g[s] = f[x] + g[s \ {x}]
    BY <2>3, <2>4 DEF AddsUp
  <2>7. SumOf(f, s) = f[x] + SumOf(f, s \ {x})
    BY <2>2, SumOfMore
  <2>8. QED
    BY <2>5, <2>6, <2>7
<1> HIDE DEF H
<1>4. Nat \subseteq H
  BY <1>2, <1>3, CountingUp
<1>5. QED
  BY <1>1, <1>4 DEF H

\* So the fold, which chooses such a function, gives the sum.
LEMMA FoldIsSum ==
    ASSUME NEW S, IsFiniteSet(S), NEW f \in [S -> Nat]
    PROVE  (CHOOSE g : AddsUp(f, S, g))[S] = SumOf(f, S)
<1>1. \E g : AddsUp(f, S, g)
  BY SumsAddUp
<1>2. PICK g : g = CHOOSE h : AddsUp(f, S, h)
  OBVIOUS
<1>3. AddsUp(f, S, g)
  BY <1>1, <1>2
<1>4. g[S] = SumOf(f, S)
  BY <1>3, SumIsUnique
<1>5. QED
  BY <1>2, <1>4
=============================================================================
