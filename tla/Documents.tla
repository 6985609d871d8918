------------------------------- MODULE Documents -------------------------------
(***************************************************************************)
(* What the program makes of one JSON document: the bounded parser         *)
(* (deblob-fingerprint parse), its shape and bucket (shape, bucket), its   *)
(* profile and the merge of profiles (deblob-monoid), what promotion and   *)
(* the value-profile sidecar read out of a profile (policy, value_profile) *)
(* and the redaction of a troubleshooting sample (deblob-dlp).             *)
(*                                                                         *)
(* A document is a tree of records.  A number or a string keeps only what  *)
(* the code tells apart (the class of its text, its length, what the       *)
(* detectors say of it); the byte scanner is the record "broken", which    *)
(* names the reason it would give.                                         *)
(***************************************************************************)
EXTENDS Integers, Sequences, FiniteSets, SequencesExt, FiniteSetsExt, TLC

CONSTANTS
  Limits,          \* Limits: [bytes, depth, fields, keyLen, stringLen, inspect]
  KeyLength(_),    \* the byte length of a key
  KeyClass(_),     \* "name" (sensitive_field_name), "data" (is_sensitive_key_data) or "clean"
  MaxFindings,     \* DlpConfig::max_findings
  MaxRedactDepth   \* DlpConfig::max_depth

Elem == "[]"       \* the path segment of an array's elements; no key

----------------------------------------------------------------------------
(* parse.rs *)

Types == {"null", "bool", "number", "string", "array", "object"}
Quarantined(reason) == [t |-> "quarantined", reason |-> reason]
IsQuarantined(r) == r.t = "quarantined"

\* The first failure of a left-to-right scan, if there is one.
FirstFailure(results) ==
  LET failed == {i \in DOMAIN results : IsQuarantined(results[i])}
  IN IF failed = {} THEN {} ELSE {results[Min(failed)]}

Scalar(d) ==
  IF d.t = "broken" THEN Quarantined(d.reason)
  ELSE IF d.t = "string" /\ d.length > Limits.stringLen THEN Quarantined("size_exceeded")
  ELSE d

Entered(d) == [t |-> "entered"]

\* parse_key: a key is a string with a bound of its own.
KeyTooLong(k) == KeyLength(k) > Limits.keyLen

\* skip_value: depth, key and string lengths and the grammar are still
\* checked; duplicate keys and the number of fields are not.
RECURSIVE SkipValue(_, _)
SkipValue(d, depth) ==
  CASE d.t \in {"object", "array"} /\ depth + 1 > Limits.depth -> Quarantined("depth_exceeded")
    [] d.t = "object" ->
         LET field(i) ==
               IF KeyTooLong(d.fields[i].key) THEN Quarantined("key_length_exceeded")
               ELSE SkipValue(d.fields[i].value, depth + 1)
             failed == FirstFailure([i \in DOMAIN d.fields |-> field(i)])
         IN IF failed # {} THEN CHOOSE f \in failed : TRUE ELSE Entered(d)
    [] d.t = "array" ->
         LET failed == FirstFailure([i \in DOMAIN d.items |-> SkipValue(d.items[i], depth + 1)])
         IN IF failed # {} THEN CHOOSE f \in failed : TRUE ELSE Entered(d)
    [] OTHER -> Scalar(d)

\* parse_value: an object becomes a function from its keys, an array the
\* sequence of the elements inspected and whether others were skipped.
RECURSIVE ParseValue(_, _)
ParseValue(d, depth) ==
  CASE d.t \in {"object", "array"} /\ depth + 1 > Limits.depth -> Quarantined("depth_exceeded")
    [] d.t = "object" ->
         LET key(i) == d.fields[i].key
             value(i) == ParseValue(d.fields[i].value, depth + 1)
             field(i) ==
               IF KeyTooLong(key(i)) THEN Quarantined("key_length_exceeded")
               ELSE IF \E j \in 1..(i - 1) : key(j) = key(i) THEN Quarantined("duplicate_key")
               ELSE IF IsQuarantined(value(i)) THEN value(i)
               ELSE IF i > Limits.fields THEN Quarantined("field_count_exceeded")
               ELSE value(i)
             failed == FirstFailure([i \in DOMAIN d.fields |-> field(i)])
         IN IF failed # {} THEN CHOOSE f \in failed : TRUE
            ELSE [t |-> "object",
                  fields |-> [k \in {key(i) : i \in DOMAIN d.fields} |->
                                value(CHOOSE i \in DOMAIN d.fields : key(i) = k)]]
    [] d.t = "array" ->
         LET item(i) == IF i <= Limits.inspect THEN ParseValue(d.items[i], depth + 1)
                        ELSE SkipValue(d.items[i], depth + 1)
             failed == FirstFailure([i \in DOMAIN d.items |-> item(i)])
         IN IF failed # {} THEN CHOOSE f \in failed : TRUE
            ELSE [t |-> "array", cut |-> Len(d.items) > Limits.inspect,
                  items |-> [i \in {j \in DOMAIN d.items : j <= Limits.inspect} |-> item(i)]]
    [] OTHER -> Scalar(d)

\* parse_bounded: size first, then the value, then nothing may follow it.
ParseBounded(payload) ==
  IF payload.size > Limits.bytes THEN Quarantined("size_exceeded")
  ELSE LET node == ParseValue(payload.doc, 0)
       IN IF ~IsQuarantined(node) /\ payload.trailing THEN Quarantined("parse_error") ELSE node

----------------------------------------------------------------------------
(* shape.rs, canon.rs, bucket.rs.  A shape is its own canonical encoding: the
   encoder writes every part of it, in an order the shape determines. *)

RECURSIVE ShapeOf(_)
ShapeOf(n) ==
  CASE n.t = "array" ->
         [t |-> "array", of |-> {ShapeOf(n.items[i]) : i \in DOMAIN n.items},
          e |-> IF n.cut THEN "partial" ELSE IF n.items = <<>> THEN "empty" ELSE "nonempty"]
    [] n.t = "object" -> [t |-> "object", fields |-> [k \in DOMAIN n.fields |-> ShapeOf(n.fields[k])]]
    [] OTHER -> [t |-> n.t]

Deepest(depths) == IF depths = {} THEN 0 ELSE Max(depths)
RECURSIVE ShapeDepth(_)
ShapeDepth(s) ==
  CASE s.t = "array"  -> 1 + Deepest({ShapeDepth(x) : x \in s.of})
    [] s.t = "object" -> 1 + Deepest({ShapeDepth(s.fields[k]) : k \in DOMAIN s.fields})
    [] OTHER -> 1

Summarize(s) ==
  LET keys == IF s.t = "object" THEN DOMAIN s.fields ELSE {}
  IN [fields |-> Cardinality(keys), depth |-> ShapeDepth(s), keys |-> keys]

\* fieldband: the next power of two, and 0 for no field at all.
FieldBand(n) == IF n = 0 THEN 0 ELSE Min({b \in {2^k : k \in 0..n} : b >= n})

\* bucket_key: the hash of the sorted keys is the set of keys.
BucketKey(summary) == <<FieldBand(summary.fields), summary.depth, summary.keys>>
BandDepthPrefix(summary) == <<FieldBand(summary.fields), summary.depth>>

----------------------------------------------------------------------------
(* profile.rs and merge.rs.  A profile is a count and a function from paths
   (sequences of keys and Elem) to the statistics of that position: the tree
   of FieldNodes, with children and array_elem found by extending the path. *)

NoTypes == [t \in Types |-> 0]
Neutral == [present |-> 0, nulls |-> 0, types |-> NoTypes, empty |-> FALSE, partial |-> FALSE,
            intOnly |-> TRUE, negZero |-> FALSE, buckets |-> {}]

\* FieldNode::from_node, for the position itself.
StatsOf(n) ==
  [Neutral EXCEPT !.present = 1,
                  !.types[n.t] = 1,
                  !.nulls   = IF n.t = "null" THEN 1 ELSE 0,
                  !.empty   = n.t = "array" /\ ~n.cut /\ n.items = <<>>,
                  !.partial = n.t = "array" /\ n.cut,
                  !.intOnly = n.t = "number" => n.int,
                  !.negZero = n.t = "number" /\ n.negZero,
                  !.buckets = IF n.t = "number" THEN {n.bucket} ELSE {}]

\* A variant in which one side's integers vouch for the other's numbers.
Bug_MergeStats(a, b) ==
  [present |-> a.present + b.present, nulls |-> a.nulls + b.nulls,
   types   |-> [t \in Types |-> a.types[t] + b.types[t]],
   empty   |-> a.empty \/ b.empty, partial |-> a.partial \/ b.partial,
   intOnly |-> a.intOnly \/ b.intOnly, negZero |-> a.negZero \/ b.negZero,
   buckets |-> a.buckets \cup b.buckets]
MergeStats(a, b) ==
  [present |-> a.present + b.present, nulls |-> a.nulls + b.nulls,
   types   |-> [t \in Types |-> a.types[t] + b.types[t]],
   empty   |-> a.empty \/ b.empty, partial |-> a.partial \/ b.partial,
   intOnly |-> a.intOnly /\ b.intOnly, negZero |-> a.negZero \/ b.negZero,
   buckets |-> a.buckets \cup b.buckets]

\* merge_children and merge_array_elem: what only one side has is kept as it is.
MergeFields(f, g) ==
  [p \in DOMAIN f \cup DOMAIN g |->
     CASE p \notin DOMAIN g -> f[p]
       [] p \notin DOMAIN f -> g[p]
       [] OTHER -> MergeStats(f[p], g[p])]

Below(seg, f) == [p \in {<<seg>> \o q : q \in DOMAIN f} |-> f[Tail(p)]]
NoFields == [p \in {} |-> Neutral]
RECURSIVE FieldsOf(_)
FieldsOf(n) ==
  LET merged(fs) == FoldSet(LAMBDA f, g : MergeFields(f, g), NoFields, fs)
      elements   == FoldLeft(LAMBDA f, i : MergeFields(f, FieldsOf(i)), NoFields,
                            IF n.t = "array" THEN n.items ELSE <<>>)
      children   == IF n.t = "object" THEN {Below(k, FieldsOf(n.fields[k])) : k \in DOMAIN n.fields} ELSE {}
  IN [p \in {<<>>} |-> StatsOf(n)] @@ merged(children) @@ Below(Elem, elements)

Profile(n) == [count |-> 1, fields |-> FieldsOf(n)]
Identity == [count |-> 0, fields |-> [p \in {<<>>} |-> Neutral]]
Merge(a, b) == [count |-> a.count + b.count, fields |-> MergeFields(a.fields, b.fields)]

\* A variant that compares every position with the number of documents.
Bug_Denominator(pr, p) == pr.count
\* write_generalized_field's denominator: the times the parent could hold this.
Denominator(pr, p) ==
  IF p = <<>> THEN pr.count
  ELSE pr.fields[Front(p)].types[IF Last(p) = Elem THEN "array" ELSE "object"]
Optional(pr, p) == pr.fields[p].present < Denominator(pr, p)
TypesAt(pr, p) == {t \in Types : pr.fields[p].types[t] > 0}
GeneralizedCanonical(pr) ==
  [p \in DOMAIN pr.fields |-> [optional |-> Optional(pr, p), types |-> TypesAt(pr, p)]]

\* simhash.rs collect_tokens: one token per position and type.
Tokens(canonical) ==
  {<<p, t>> \in (DOMAIN canonical) \X Types : t \in canonical[p].types}
\* simhash64: a bit is set where more tokens have it than not.  A token's hash
\* is the set of its bits.
SimHash(canonical, hash, bits) ==
  {b \in bits : 2 * Cardinality({k \in Tokens(canonical) : b \in hash[k]}) > Cardinality(Tokens(canonical))}
Hamming(a, b) == Cardinality((a \ b) \cup (b \ a))

----------------------------------------------------------------------------
(* policy.rs and value_profile.rs: what a profile is read for *)

Children(pr, p) == {q \in DOMAIN pr.fields : Len(q) = Len(p) + 1 /\ Front(q) = p}
NamedChildren(pr, p) == {q \in Children(pr, p) : Last(q) # Elem}

\* A variant that takes the element of a top-level array for a field.
Bug_GeneralizedSummary(pr) ==
  LET top == Children(pr, <<>>)
  IN [fields |-> Cardinality(top), depth |-> 1 + Max({Len(p) : p \in DOMAIN pr.fields}),
      keys |-> {Last(p) : p \in top}]
\* generalized_shape_summary and field_depth.
GeneralizedSummary(pr) ==
  LET top == NamedChildren(pr, <<>>)
  IN [fields |-> Cardinality(top), depth |-> 1 + Max({Len(p) : p \in DOMAIN pr.fields}),
      keys |-> {Last(p) : p \in top}]

\* count_leaves, and AutoPromotePolicy::eligible with its ratio as a pair of
\* numbers (no rounding slack: the comparison is exact).
Leaves(pr) == {p \in DOMAIN pr.fields : Children(pr, p) = {}}
RequiredLeaves(pr) ==
  {p \in Leaves(pr) : Denominator(pr, p) > 0 /\ pr.fields[p].present = Denominator(pr, p)}
Settled(pr, minRequired, ratio) ==
  /\ pr.count > 0
  /\ Leaves(pr) # {}
  /\ Cardinality(RequiredLeaves(pr)) >= minRequired
  /\ Cardinality(RequiredLeaves(pr)) * ratio[2] >= ratio[1] * Cardinality(Leaves(pr))

\* value_profile::walk: it descends through named children only, and a node
\* without any is a leaf, arrays included; the root never is.
ValueLeaves(pr) ==
  {p \in DOMAIN pr.fields : /\ p # <<>>
                            /\ \A i \in DOMAIN p : p[i] # Elem
                            /\ NamedChildren(pr, p) = {}}
\* LeafValueProfile: what the sidecar keeps of a position.
LeafProfile(stats) ==
  [present |-> stats.present, nulls |-> stats.nulls, types |-> stats.types, mask |-> stats.buckets,
   intOnly |-> stats.intOnly, negZero |-> stats.negZero]
\* build_snapshot: the sidecar, and the content address that leaves the clock out.
BuildSnapshot(schema, candidate, pr, now) ==
  [id     |-> <<schema, GeneralizedCanonical(pr), candidate, pr>>, captured |-> now,
   count  |-> pr.count,
   leaves |-> [p \in ValueLeaves(pr) |-> LeafProfile(pr.fields[p])]]

----------------------------------------------------------------------------
(* api/structural.rs *)

\* rank: the neighbours within a distance, nearest first, ids breaking ties.
\* sketches covers the schemas that have one; place orders the ids.
RankNeighbours(query, sketches, place, maxHamming, limit) ==
  LET d(s) == Hamming(sketches[s], sketches[query])
      near == {s \in DOMAIN sketches : s # query /\ d(s) <= maxHamming}
      ranked == SetToSortSeq(near, LAMBDA a, b : d(a) < d(b) \/ (d(a) = d(b) /\ place[a] < place[b]))
  IN SubSeq(ranked, 1, Min({limit, Len(ranked)}))

----------------------------------------------------------------------------
(* deblob-dlp: redact_value over what serde_json parsed, where the last of two
   equal keys wins.  It returns the copy, the findings so far, and the number
   of the next placeholder. *)

Marker(kind) == [t |-> "marker", kind |-> kind]
Placeholder(n) == "[REDACTED_KEY_" \o ToString(n) \o "]"
KeysOf(d) == {d.fields[i].key : i \in DOMAIN d.fields}
ValueAt(d, k) == d.fields[Max({i \in DOMAIN d.fields : d.fields[i].key = k})].value

Redaction(out, findings, keys, drop) == [out |-> out, findings |-> findings, keys |-> keys, drop |-> drop]
Found(r, n) ==
  [r EXCEPT !.findings = @ + n,
            !.drop = IF @ = "no" /\ r.findings + n > MaxFindings THEN "excessive_findings" ELSE @]

\* A variant that lets a number through whatever the detectors say of it.
Bug_RedactScalar(d, r) ==
  CASE d.t = "string" /\ d.class # "clean" -> [Found(r, 1) EXCEPT !.out = Marker(d.class)]
    [] OTHER -> [r EXCEPT !.out = d]
RedactScalar(d, r) ==
  CASE d.t = "string" /\ d.class # "clean" -> [Found(r, 1) EXCEPT !.out = Marker(d.class)]
    [] d.t = "number" /\ d.class = "secret" -> [Found(r, 1) EXCEPT !.out = Marker("secret")]
    [] OTHER -> [r EXCEPT !.out = d]

\* sensitive_field_name: such a field loses its whole value.
SensitiveFieldName(k) == KeyClass(k) = "name"

RECURSIVE RedactValue(_, _, _)
RedactValue(d, r, depth) ==
  LET one(acc, k) ==
        CASE SensitiveFieldName(k) ->
               LET f == Found(acc, 1)
               IN [f EXCEPT !.out = [x \in DOMAIN f.out \cup {k} |->
                                       IF x = k THEN Marker("name") ELSE f.out[x]]]
          [] OTHER ->
               LET data == KeyClass(k) = "data"
                   f    == IF data THEN [Found(acc, 1) EXCEPT !.keys = @ + 1] ELSE acc
                   name == IF data THEN Placeholder(f.keys) ELSE k
                   sub  == RedactValue(ValueAt(d, k), f, depth + 1)
               IN [sub EXCEPT !.out = [x \in DOMAIN acc.out \cup {name} |->
                                         IF x = name THEN sub.out ELSE acc.out[x]]]
      item(acc, x) == LET sub == RedactValue(x, acc, depth + 1)
                      IN [sub EXCEPT !.out = Append(acc.out, sub.out)]
  IN CASE depth > MaxRedactDepth ->
            [r EXCEPT !.out = [t |-> "null"], !.drop = IF @ = "no" THEN "too_deep" ELSE @]
       [] d.t = "object" ->
            LET w == FoldLeft(one, [r EXCEPT !.out = [x \in {} |-> x]], SetToSeq(KeysOf(d)))
            IN [w EXCEPT !.out = [t |-> "object", fields |-> w.out]]
       [] d.t = "array" ->
            LET w == FoldLeft(item, [r EXCEPT !.out = <<>>], d.items)
            IN [w EXCEPT !.out = [t |-> "array", items |-> w.out]]
       [] OTHER -> RedactScalar(d, r)

Redact(d) == RedactValue(d, Redaction([t |-> "null"], 0, 0, "no"), 0)
============================================================================
