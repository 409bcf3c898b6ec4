----------------------------- MODULE CausalStore -----------------------------
(***************************************************************************)
(* CausalStore of 13-distributed-systems/consistency-models.ts, for one    *)
(* key: each node keeps a log of the writes it has seen, in the order it   *)
(* accepted them, and a vector clock.  A write may name a dependency; the  *)
(* callers name one that the node has seen, which its clock includes.      *)
(***************************************************************************)
EXTENDS Naturals, SequencesExt

CONSTANTS
    CausalNodes,
    CausalValues,   \* numbers: concurrent writes are ordered by value
    MaxCausalWrites \* bound: writes

ASSUME CausalAssumption == CausalValues \subseteq Nat /\ MaxCausalWrites \in Nat

VARIABLES
    vc,         \* node -> vector clock
    causalLog,  \* node -> sequence of [value, vc]; also id and seen (history):
                \* the number of the write and the writes its node had seen
    opCounter

causalVars == <<vc, causalLog, opCounter>>

VClock == [CausalNodes -> Nat]

vclockCompare(a, b) ==
    LET aLess == \E k \in CausalNodes : a[k] < b[k]
        bLess == \E k \in CausalNodes : a[k] > b[k]
    IN  CASE ~aLess /\ ~bLess -> "equal"
          [] aLess /\ ~bLess -> "before"
          [] bLess /\ ~aLess -> "after"
          [] OTHER -> "concurrent"

vclockMerge(a, b) == [k \in CausalNodes |-> IF a[k] >= b[k] THEN a[k] ELSE b[k]]

-----------------------------------------------------------------------------

causalWrite(n, value) ==
    /\ opCounter < MaxCausalWrites
    /\ opCounter' = opCounter + 1
    /\ vc' = [vc EXCEPT ![n][n] = @ + 1]
    /\ causalLog' = [causalLog EXCEPT ![n] =
            Append(@, [value |-> value, vc |-> vc'[n],
                       id |-> opCounter', seen |-> {@[i].id : i \in DOMAIN @}])]

Seen(log, entry) == \E i \in DOMAIN log : log[i].vc = entry.vc

\* All components but the sender's are covered by the receiver's clock.
ready(from, clock, entry) == \A k \in CausalNodes \ {from} : entry.vc[k] <= clock[k]

\* MUTANT: as Accept, but the receiver's clock does not learn of the entry.
AcceptUnmerged(from, node, entry) ==
    IF Seen(node.log, entry) \/ ~ready(from, node.vc, entry) THEN node
    ELSE [log |-> Append(node.log, entry), vc |-> node.vc]

\* One entry of the sender's log arrives; node is the receiver.
Accept(from, node, entry) ==
    IF Seen(node.log, entry) \/ ~ready(from, node.vc, entry) THEN node
    ELSE [log |-> Append(node.log, entry), vc |-> vclockMerge(node.vc, entry.vc)]

propagate(from, to) ==
    LET dst == FoldLeft(LAMBDA node, entry : Accept(from, node, entry),
                        [log |-> causalLog[to], vc |-> vc[to]], causalLog[from])
    IN  /\ causalLog' = [causalLog EXCEPT ![to] = dst.log]
        /\ vc' = [vc EXCEPT ![to] = dst.vc]
        /\ UNCHANGED opCounter

\* The entry that read() returns: the log is scanned once, a later write
\* replaces an earlier one, a concurrent one only if its value is larger.
causalRead(log) ==
    FoldLeft(LAMBDA best, e :
                CASE vclockCompare(best.vc, e.vc) = "before" -> e
                  [] vclockCompare(best.vc, e.vc) = "concurrent" /\ e.value > best.value -> e
                  [] OTHER -> best,
             Head(log), Tail(log))

CausalInit ==
    /\ vc = [n \in CausalNodes |-> [k \in CausalNodes |-> 0]]
    /\ causalLog = [n \in CausalNodes |-> <<>>]
    /\ opCounter = 0

CausalNext ==
    \E n \in CausalNodes :
        \/ \E value \in CausalValues : causalWrite(n, value)
        \/ \E to \in CausalNodes \ {n} : propagate(n, to)

CausalSpec == CausalInit /\ [][CausalNext]_causalVars

-----------------------------------------------------------------------------

CausalTypeOK ==
    /\ vc \in [CausalNodes -> VClock]
    /\ \A n \in CausalNodes : \A i \in DOMAIN causalLog[n] : causalLog[n][i].vc \in VClock
    /\ opCounter \in 0..MaxCausalWrites

\* Whoever has seen the reply has seen the post, before it: the writes that a
\* write's author had seen, and those that these depend on, stand before it
\* in every log that has the write.  And a read never returns a write that
\* the node knows to be overwritten by one of its readers.
CausalOrder ==
    /\ CausalTypeOK
    /\ \A n \in CausalNodes : \A i \in DOMAIN causalLog[n] :
         causalLog[n][i].seen \subseteq {causalLog[n][h].id : h \in 1..(i - 1)}
    /\ \A n \in CausalNodes : causalLog[n] # <<>> =>
         \A i \in DOMAIN causalLog[n] :
            causalRead(causalLog[n]).id \notin causalLog[n][i].seen
=============================================================================
