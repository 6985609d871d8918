----------------------------- MODULE Retrieval -----------------------------
(* What the shadow lane asks the language model about: retrieval.rs ranks the
   registered families by structural distance to a candidate, and prompt.rs
   renders the candidate and that ranking for the model.

   A generalized profile (FieldSig) is a function from paths to
   [optional, types]: <<>> is the root, a field appends its name and an array
   element appends Elem.  Distances are integers: a component lies in
   0..Scale and a weighted total in 0..100*Scale, where the code computes
   with f32 values in 0.0..1.0. *)
EXTENDS Integers, Sequences, FiniteSets, FiniteSetsExt, SequencesExt

CONSTANTS
  Elem,           \* the "[]" segment of an array element's path
  Keys,           \* field names in the order of the B-tree maps
  TokensOf,       \* normalize_name_tokens: name -> set of tokens
  EscapedAs,      \* redact_field_name: name -> what is left of it when capped and escaped
  Suspicious,     \* detect_injection: the names it flags
  MaxFields,      \* MAX_FIELDS of a CandidateProfileView
  MaxPathDepth,   \* MAX_PATH_DEPTH of a CandidateProfileView
  Scale           \* parts a component's 0.0..1.0 is divided into

ASSUME RetrievalAssumption ==
  /\ Elem \notin Range(Keys)
  /\ Scale \in Nat \ {0} /\ MaxFields \in Nat \ {0} /\ MaxPathDepth \in Nat \ {0}
  /\ \A k \in Range(Keys) : IsFiniteSet(TokensOf[k])

\* FieldSig: a finite tree with a root, whatever node or canonical form it was made from.
IsProfile(sig) ==
  /\ IsFiniteSet(DOMAIN sig) /\ <<>> \in DOMAIN sig
  /\ DOMAIN sig \subseteq Seq(Range(Keys) \cup {Elem})
  /\ \A p \in DOMAIN sig : IsFiniteSet(sig[p].types)

----------------------------------------------------------------------------
(* extract_features *)

\* walk: the recorded paths.  An array's element is recorded with its owner,
\* but walk descends from an element only into its named fields, so what lies
\* under an array directly within an array is not compared.
Recorded(sig) ==
  {p \in DOMAIN sig : /\ p # <<>>
                      /\ \A i \in 1..(Len(p) - 1) : ~(p[i] = Elem /\ p[i + 1] = Elem)}

\* max_depth, root = 0: it does count what walk leaves out.
MaxDepth(sig) == Max({Len(p) : p \in DOMAIN sig})

OfType(sig, t) == {p \in Recorded(sig) : t \in sig[p].types}

\* normalize_name_tokens: a name is split at separators and camelCase boundaries, and its
\* parts are case-folded and capped; which parts those are is TokensOf's.
NormalizeNameTokens(name) == TokensOf[name]

RequiredPaths(sig) == {p \in Recorded(sig) : ~sig[p].optional}
NameTokens(sig) ==
  UNION {NormalizeNameTokens(Last(p)) : p \in {q \in Recorded(sig) : Last(q) # Elem}}
TypeUnion(sig) == UNION {sig[p].types : p \in Recorded(sig)}

----------------------------------------------------------------------------
(* The six components of the distance *)

JaccardDistance(a, b) ==
  IF a \cup b = {} THEN 0
  ELSE Scale - (Scale * Cardinality(a \cap b)) \div Cardinality(a \cup b)

DepthDistance(m, n) == (Scale * (IF m > n THEN m - n ELSE n - m)) \div Max({m, n, 1})

FieldPathTypeDistance(a, b) ==
  LET all == Recorded(a) \cup Recorded(b)
      both == Recorded(a) \cap Recorded(b)
  IN IF all = {} THEN 0
     ELSE (SumFunction([p \in both |-> JaccardDistance(a[p].types, b[p].types)])
             + Scale * Cardinality(all \ both)) \div Cardinality(all)

NullabilityDistance(a, b) ==
  (JaccardDistance(OfType(a, "null"), OfType(b, "null"))
     + JaccardDistance(TypeUnion(a), TypeUnion(b))) \div 2

ArrayMapShapeDistance(a, b) ==
  (JaccardDistance(OfType(a, "array"), OfType(b, "array"))
     + JaccardDistance(OfType(a, "object"), OfType(b, "object"))) \div 2

\* compute_distance and DistanceComponents::total, with the weights in percent.
Distance(a, b) ==
  35 * FieldPathTypeDistance(a, b)
    + 25 * JaccardDistance(NameTokens(a), NameTokens(b))
    + 15 * JaccardDistance(RequiredPaths(a), RequiredPaths(b))
    + 10 * DepthDistance(MaxDepth(a), MaxDepth(b))
    + 10 * NullabilityDistance(a, b)
    + 5 * ArrayMapShapeDistance(a, b)

----------------------------------------------------------------------------
(* The neighbourhood of buckets *)

\* fieldband: the next power of two.
Band(n) == IF n = 0 THEN 0 ELSE Min({b \in {2^k : k \in 0..n} : b >= n})

\* generalized_shape_summary: the root's named fields, and a depth that counts the root.
TopLevelFields(sig) == Cardinality({p \in DOMAIN sig : Len(p) = 1 /\ p[1] # Elem})
SummaryDepth(sig) == 1 + MaxDepth(sig)

\* neighbor_bands_and_depths
NeighborBandsAndDepths(sig) ==
  LET n == TopLevelFields(sig)
      d == SummaryDepth(sig)
  IN [bands |-> {Band(IF n = 0 THEN 0 ELSE n - 1), Band(n), Band(n + 1)},
      depths |-> {d - 1, d, d + 1}]

\* list_families_by_band_depth: the registered schemas whose bucket lies there.
\* A registered schema is [schema, family, version, sig].
ListFamilies(registry, sig) ==
  LET near == NeighborBandsAndDepths(sig)
  IN {r \in registry : /\ Band(TopLevelFields(r.sig)) \in near.bands
                       /\ SummaryDepth(r.sig) \in near.depths}

----------------------------------------------------------------------------
(* rank_candidates *)

\* The order of family_representatives' first sort: versions of one family.
NearerVersion(sig, r, s) ==
  LET d == Distance(sig, r.sig)
      e == Distance(sig, s.sig)
  IN \/ d < e
     \/ d = e /\ r.version < s.version
     \/ d = e /\ r.version = s.version /\ r.schema < s.schema

\* family_representatives: the nearest version of each family.
FamilyRepresentatives(sig, refs) ==
  {r \in refs : \A s \in refs : s.family = r.family /\ s # r => NearerVersion(sig, r, s)}

\* The second sort: by distance, then by family id.
NearerFamily(sig, r, s) ==
  LET d == Distance(sig, r.sig)
      e == Distance(sig, s.sig)
  IN d < e \/ (d = e /\ r.family < s.family)
Ranking(sig, reps) ==
  CHOOSE ranked \in [1..Cardinality(reps) -> reps] :
    \A i, j \in DOMAIN ranked : i < j => NearerFamily(sig, ranked[i], ranked[j])

FamilyCandidate(sig, r, rank) ==
  [schema |-> r.schema, family |-> r.family, version |-> r.version,
   distance |-> Distance(sig, r.sig), rank |-> rank]

\* The first k with their rank, the representatives that tie with the last of them but
\* were cut off, and the margin between the first two.
Foremost(sig, ranked, k) ==
  LET n == Min({k, Len(ranked)})
      top == [i \in 1..n |-> FamilyCandidate(sig, ranked[i], i)]
  IN [candidates |-> top,
      ties |-> {FamilyCandidate(sig, ranked[i], n) :
                  i \in {j \in (n + 1)..Len(ranked) :
                           n > 0 /\ Distance(sig, ranked[j].sig) = top[n].distance}},
      margin |-> IF n >= 2 THEN top[2].distance - top[1].distance ELSE 0]

\* rank_candidates
RankCandidates(sig, refs, k) == Foremost(sig, Ranking(sig, FamilyRepresentatives(sig, refs)), k)

RetrieveTopK(registry, sig, k) == RankCandidates(sig, ListFamilies(registry, sig), k)

----------------------------------------------------------------------------
(* CandidateProfileView and build_prompt *)

KeyIndex(name) == CHOOSE i \in 1..Len(Keys) : Keys[i] = name

\* walk_fields visits a field, then its named fields in key order, then its element.
VisitedBefore(p, q) ==
  \/ IsStrictPrefix(p, q)
  \/ \E i \in 1..Min({Len(p), Len(q)}) :
       /\ \A j \in 1..(i - 1) : p[j] = q[j]
       /\ p[i] # q[i]
       /\ p[i] # Elem /\ (q[i] = Elem \/ KeyIndex(p[i]) < KeyIndex(q[i]))

\* The depth at which walk_fields meets a path's owner, and the paths no MAX_PATH_DEPTH
\* keeps out: an element comes with its array, and what lies under an array directly
\* within an array is not visited.
OwnerDepth(p) == IF Last(p) = Elem THEN Len(p) - 2 ELSE Len(p) - 1
Visited(sig) == {p \in Recorded(sig) : OwnerDepth(p) < MaxPathDepth}

\* A visited position that is too deep to be descended into.
CutOff(sig) ==
  \E p \in Visited(sig) :
    Len(p) >= MaxPathDepth /\ \E q \in DOMAIN sig : IsStrictPrefix(p, q)

\* redact_field_name: a name is cut to a maximal length and written as a JSON string, so
\* two long names may come out the same.
RedactFieldName(name) == EscapedAs[name]

RedactedPath(p) == [i \in DOMAIN p |-> IF p[i] = Elem THEN Elem ELSE RedactFieldName(p[i])]

\* detect_injection, over the names as they were observed.
DetectInjection(p) == \E i \in DOMAIN p : p[i] \in Suspicious

\* canonicalize_placeholder, without the sign of numbers (profiles carry no numbers here).
PlaceholderOrder == <<"object", "array", "number", "string", "bool", "null">>
CanonicalizePlaceholder(types) ==
  LET present == {i \in 1..Len(PlaceholderOrder) : PlaceholderOrder[i] \in types}
  IN [base |-> IF present = {} THEN "empty" ELSE PlaceholderOrder[Min(present)],
      nullable |-> "null" \in types /\ types # {"null"}]

\* CandidateProfileView::from_profile
ProfileView(sig, count) ==
  LET order == SetToSortSeq(Visited(sig), VisitedBefore)
      n == Min({MaxFields, Len(order)})
  IN [observations |-> count,
      fields |-> [i \in 1..n |->
                   [path |-> RedactedPath(order[i]),
                    types |-> sig[order[i]].types,
                    placeholder |-> CanonicalizePlaceholder(sig[order[i]].types),
                    flagged |-> DetectInjection(order[i])]],
      truncated |-> Len(order) > MaxFields \/ CutOff(sig)]

\* detect_redaction_collision: two fields the model cannot tell apart.
DetectRedactionCollision(view) ==
  \E i, j \in DOMAIN view.fields : i < j /\ view.fields[i].path = view.fields[j].path

\* build_prompt: a function of the view, the ranking and the set of allowed ids; the
\* candidate's own identity does not enter it.
BuildPrompt(view, retrieved) ==
  [view |-> view, retrieved |-> retrieved, allowed |-> {c.schema : c \in Range(retrieved)}]
=============================================================================
