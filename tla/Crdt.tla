-------------------------------- MODULE Crdt --------------------------------
(***************************************************************************)
(* The five state-based CRDTs of 14-eventual-consistency/crdt.ts.  Each    *)
(* replica holds one; replicas apply operations of their own and merge     *)
(* copies of each other's states, in any order, late and repeatedly.       *)
(*                                                                         *)
(* One record holds the fields of all five classes and merges them field   *)
(* by field, as the classes do; `crdtType' decides which operations a      *)
(* behaviour applies and which fields `value' reads.                       *)
(***************************************************************************)
EXTENDS Integers, FiniteSets, FiniteSetsExt

CONSTANTS
    Nodes,      \* replicas, and the node ids of the counters
    Elements,   \* elements of the sets
    Amounts,    \* arguments of inc() and dec()
    MaxOps,     \* bound: operations applied
    MaxCopies   \* bound: copies of states taken

ASSUME CrdtAssumption ==
    IsFiniteSet(Nodes) /\ Amounts \subseteq Nat /\ MaxOps \in Nat /\ MaxCopies \in Nat

VARIABLES
    crdtType,   \* the class in use
    state,      \* node -> state of its replica
    known,      \* node -> operations its state includes (history)
    copies      \* states handed to merge(), with the operations they include

crdtVars == <<crdtType, state, known, copies>>

CrdtTypes == {"GCounter", "PNCounter", "GSet", "TwoPSet", "ORSet"}

Counter == [Nodes -> Nat]
zeroCounter == [n \in Nodes |-> 0]
emptyState == [p |-> zeroCounter, n |-> zeroCounter, adds |-> {}, removes |-> {},
               elements |-> {}, tombstones |-> {}]

-----------------------------------------------------------------------------
(* Merges: element-wise maximum, union, and union less the tombstones.     *)

MergeCounter(a, b) == [k \in Nodes |-> IF a[k] >= b[k] THEN a[k] ELSE b[k]]

\* MUTANT: as MergeTags, but only the tombstones of the replica that merges count.
MergeTagsOwn(a, b) ==
    {pair \in a.elements \cup b.elements : pair[2] \notin a.tombstones}

MergeTags(a, b) ==
    LET dead == a.tombstones \cup b.tombstones
    IN  {pair \in a.elements \cup b.elements : pair[2] \notin dead}

merge(a, b) ==
    [p |-> MergeCounter(a.p, b.p), n |-> MergeCounter(a.n, b.n),
     adds |-> a.adds \cup b.adds, removes |-> a.removes \cup b.removes,
     elements |-> MergeTags(a, b), tombstones |-> a.tombstones \cup b.tombstones]

-----------------------------------------------------------------------------
(* Values.                                                                 *)

CounterValue(c) == FoldSet(LAMBDA k, sum : c[k] + sum, 0, Nodes)

TagValue(pairs) == {pair[1] : pair \in pairs}

value(s) ==
    CASE crdtType = "GCounter" -> CounterValue(s.p)
      [] crdtType = "PNCounter" -> CounterValue(s.p) - CounterValue(s.n)
      [] crdtType = "GSet" -> s.adds
      [] crdtType = "TwoPSet" -> s.adds \ s.removes
      [] crdtType = "ORSet" -> TagValue(s.elements)

-----------------------------------------------------------------------------
(* Operations.  `known' records them: node is the replica that applied one, *)
(* tag numbers them, and a removal records the tags it observed.           *)

Issued == UNION {known[n] : n \in Nodes}
NextTag == Cardinality(Issued) + 1

Operation(kind, r) == [kind |-> kind, node |-> r, tag |-> NextTag, by |-> 0, el |-> {}, seen |-> {}]

Apply(r, op, newState) ==
    /\ NextTag <= MaxOps
    /\ state' = [state EXCEPT ![r] = newState]
    /\ known' = [known EXCEPT ![r] = @ \cup {op}]
    /\ UNCHANGED <<crdtType, copies>>

Inc(r, by) ==
    /\ crdtType \in {"GCounter", "PNCounter"}
    /\ Apply(r, [Operation("inc", r) EXCEPT !.by = by], [state[r] EXCEPT !.p[r] = @ + by])

Dec(r, by) ==
    /\ crdtType = "PNCounter"
    /\ Apply(r, [Operation("dec", r) EXCEPT !.by = by], [state[r] EXCEPT !.n[r] = @ + by])

Add(r, el) ==
    /\ crdtType \in {"GSet", "TwoPSet"}
    /\ Apply(r, [Operation("add", r) EXCEPT !.el = {el}], [state[r] EXCEPT !.adds = @ \cup {el}])

\* Only an element that was added here can be removed.
RemoveElement(r, el) ==
    /\ crdtType = "TwoPSet"
    /\ el \in state[r].adds
    /\ Apply(r, [Operation("remove", r) EXCEPT !.el = {el}], [state[r] EXCEPT !.removes = @ \cup {el}])

\* Tags are fresh, so add() never meets a tombstone of its own tag.
AddTag(r, el) ==
    /\ crdtType = "ORSet"
    /\ Apply(r, [Operation("add", r) EXCEPT !.el = {el}],
             [state[r] EXCEPT !.elements = @ \cup {<<el, NextTag>>}])

RemoveObserved(r, el) ==
    LET tags == {pair[2] : pair \in {q \in state[r].elements : q[1] = el}}
    IN  /\ crdtType = "ORSet"
        /\ tags # {}
        /\ Apply(r, [Operation("remove", r) EXCEPT !.el = {el}, !.seen = tags],
                 [state[r] EXCEPT !.elements = {q \in @ : q[1] # el},
                                  !.tombstones = @ \cup tags])

\* The state of a replica as another will see it, now or much later.
Copy(r) ==
    /\ Cardinality(copies) < MaxCopies
    /\ copies' = copies \cup {[state |-> state[r], known |-> known[r]]}
    /\ UNCHANGED <<crdtType, state, known>>

Merge(r) ==
    \E c \in copies :
        /\ state' = [state EXCEPT ![r] = merge(state[r], c.state)]
        /\ known' = [known EXCEPT ![r] = @ \cup c.known]
        /\ UNCHANGED <<crdtType, copies>>

CrdtInit ==
    /\ crdtType \in CrdtTypes
    /\ state = [r \in Nodes |-> emptyState]
    /\ known = [r \in Nodes |-> {}]
    /\ copies = {}

CrdtNext ==
    \E r \in Nodes :
        \/ \E by \in Amounts : Inc(r, by) \/ Dec(r, by)
        \/ \E el \in Elements : \/ Add(r, el) \/ RemoveElement(r, el)
                                \/ AddTag(r, el) \/ RemoveObserved(r, el)
        \/ Copy(r) \/ Merge(r)

CrdtSpec == CrdtInit /\ [][CrdtNext]_crdtVars

-----------------------------------------------------------------------------
(* Properties.                                                             *)

CrdtTypeOK ==
    /\ crdtType \in CrdtTypes
    /\ \A r \in Nodes :
         /\ state[r].p \in Counter /\ state[r].n \in Counter
         /\ state[r].adds \subseteq Elements /\ state[r].removes \subseteq Elements
         /\ state[r].elements \subseteq Elements \X (1..MaxOps)
         /\ state[r].tombstones \subseteq 1..MaxOps

\* What a set of operations amounts to, whatever order they arrive in.
Total(ops) == FoldSet(LAMBDA op, sum : op.by + sum, 0, ops)
Kind(kind, ops) == {op \in ops : op.kind = kind}
Expected(ops) ==
    LET adds == Kind("add", ops)
        removes == Kind("remove", ops)
    IN  CASE crdtType \in {"GCounter", "PNCounter"} ->
               Total(Kind("inc", ops)) - Total(Kind("dec", ops))
          [] crdtType \in {"GSet", "TwoPSet"} ->
               (UNION {op.el : op \in adds}) \ (UNION {op.el : op \in removes})
          [] crdtType = "ORSet" ->
               UNION {op.el : op \in {a \in adds : \A d \in removes : a.tag \notin d.seen}}

\* Strong eventual consistency: the value of a replica depends on the set of
\* operations it has heard of alone, not on the order, age or repetition of
\* the merges.  An increment counts once, and a removed tag never comes back.
ValueIsOfKnownOps ==
    CrdtTypeOK /\ \A r \in Nodes : value(state[r]) = Expected(known[r])
=============================================================================
