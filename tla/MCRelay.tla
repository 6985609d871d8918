------------------------------- MODULE MCRelay -------------------------------
(* Instances of Relay for TLC: source logs by partition. *)
EXTENDS Relay, TLC

CONSTANTS p1, p2

Symmetry == Permutations(Relays)

OnePartition == p1 :> <<"record", "malformed", "tombstone">>
ShortLogs    == p1 :> <<"record", "tombstone">> @@ p2 :> <<"oversize">>

=============================================================================
