------------------------------- MODULE MCVault -------------------------------
(* Instances of Vault for TLC.                                              *)
EXTENDS Vault, TLC

CONSTANTS s1, s2, v1, v2, b1, b2

\* The second variant bands into a bucket of its own; the first shares one
\* with both schemas' own digests.
MCBucketOf == [x \in Fingerprints |-> IF x = v2 THEN b2 ELSE b1]

Symmetry == Permutations(Families) \union Permutations(Candidates)
              \union Permutations(Canonicalizers)
=============================================================================
