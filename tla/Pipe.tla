-------------------------------- MODULE Pipe ---------------------------------
(***************************************************************************)
(* What the relay promises a read_committed reader of its output topics: an *)
(* exactly-once pipe.  Each source partition's records come out in order,   *)
(* none twice and none left out, and the group's committed offset always    *)
(* says exactly how many have.                                              *)
(***************************************************************************)
EXTENDS Naturals, Sequences

CONSTANTS Partitions, Log

VARIABLES delivered, committed

Init ==
    /\ delivered = [p \in Partitions |-> <<>>]
    /\ committed = [p \in Partitions |-> 1]

Left(p) == Len(Log[p]) + 1 - committed[p]

\* One transaction: the next n[p] records of every partition p.
Advance ==
    \E n \in [Partitions -> UNION {0..Left(p) : p \in Partitions}] :
        /\ \A p \in Partitions : n[p] <= Left(p)
        /\ \E p \in Partitions : n[p] > 0
        /\ committed' = [p \in Partitions |-> committed[p] + n[p]]
        /\ delivered' = [p \in Partitions |->
              delivered[p] \o [i \in 1..n[p] |-> committed[p] + i - 1]]

Spec == Init /\ [][Advance]_<<delivered, committed>>

=============================================================================
