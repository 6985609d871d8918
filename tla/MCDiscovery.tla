----------------------------- MODULE MCDiscovery -----------------------------
(* Instances of Discovery for TLC.                                          *)
EXTENDS Discovery, TLC

Rec(src, shape) == [source |-> src, shape |-> shape]

\* A required field, then the same record with an optional one.
TwoVariants == <<Rec("t1", {1}), Rec("t1", {1, 2})>>

\* A record, then a payload that does not parse.
ThenMalformed == <<Rec("t1", {1}), Rec("t1", {})>>

Symmetry == Permutations(Promoters) \union Permutations(Families)
=============================================================================
