---------------------------- MODULE AtLeastOnce ----------------------------
(* What a consumer group that commits after its work promises, with nothing *)
(* said of how: the records of a partition are dealt with in order, each at *)
(* least once, and only what has been dealt with is ever committed.         *)
EXTENDS Naturals

CONSTANTS Partitions

VARIABLES
    produced,   \* records in each partition
    handled,    \* the ones dealt with
    committed   \* where a new consumer would start

vars == <<produced, handled, committed>>

Init ==
    /\ produced = [x \in Partitions |-> 0]
    /\ handled = [x \in Partitions |-> {}]
    /\ committed = [x \in Partitions |-> 0]

Produce(x) ==
    /\ produced' = [produced EXCEPT ![x] = @ + 1]
    /\ UNCHANGED <<handled, committed>>

\* Any record whose predecessors have been dealt with, again or for the first
\* time.
Deal(x, i) ==
    /\ 1 .. i - 1 \subseteq handled[x]
    /\ handled' = [handled EXCEPT ![x] = @ \cup {i}]
    /\ UNCHANGED <<produced, committed>>

\* The offset of every partition moves forward, or stays.
Commit ==
    /\ committed' \in [Partitions -> Nat]
    /\ \A x \in Partitions :
        /\ committed[x] <= committed'[x]
        /\ 1 .. committed'[x] \subseteq handled[x]
    /\ UNCHANGED <<produced, handled>>

Next ==
    \/ \E x \in Partitions : Produce(x)
    \/ \E x \in Partitions : \E i \in 1 .. produced[x] : Deal(x, i)
    \/ Commit

Spec == Init /\ [][Next]_vars
=============================================================================
