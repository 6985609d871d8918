-------------------------------- MODULE Samples --------------------------------
(***************************************************************************)
(* The payload side of the discovery consumer: every message of one        *)
(* candidate is parsed and merged into its profile (cold lane), and a      *)
(* redacted copy is kept for troubleshooting (sample_capture, the redis    *)
(* sample store).  The topic is read at least once, so a message may be    *)
(* handled again; put_sample is one script, stamped by the server's clock, *)
(* and both its keys carry a time to live.                                 *)
(***************************************************************************)
EXTENDS Documents

CONSTANTS
  Payloads,        \* payloads the topic may carry: [source, size, trailing, doc]
  Offsets,         \* the messages: consecutive naturals
  CaptureSources,  \* [samples] capture_sources
  MaxInput,        \* max_input_bytes
  SampleSize(_),   \* the serialized length of a redacted document
  MaxSample,       \* max_sample_bytes
  MaxPerCandidate, \* SampleStoreOpts::max_per_candidate
  Retention,       \* retention_secs
  KeyTtl,          \* key_ttl_secs
  MaxClock,        \* bound: ticks of the server's clock
  MaxDeliveries    \* bound: times a message is delivered

ASSUME SamplesAssumption ==
  /\ Offsets \subseteq Nat /\ MaxPerCandidate \in Nat \ {0}
  /\ Retention \in Nat /\ KeyTtl \in Nat \ {0} /\ MaxClock \in Nat /\ MaxDeliveries \in Nat \ {0}

VARIABLES
  log,        \* the topic: offset -> payload, extended as it is read
  deliveries, \* offset -> times handled
  profile,    \* the candidate's merged profile
  zset,       \* deblob:samples:z: sample id -> score
  hash,       \* deblob:samples:h: sample id -> redacted document
  expires,    \* when both keys die
  clock       \* the server's TIME
vars == <<log, deliveries, profile, zset, hash, expires, clock>>

NoSamples == [id \in {} |-> 0]
Init ==
  /\ log = [o \in {} |-> CHOOSE p \in Payloads : TRUE]
  /\ deliveries = [o \in Offsets |-> 0]
  /\ profile = Identity
  /\ zset = NoSamples /\ hash = NoSamples
  /\ expires = 0 /\ clock = 0

\* build_sample: nothing on any doubt.  The sample's id is its coordinate.  A
\* payload that serde_json refuses after the bounded parser accepted it is the
\* same as a failed put: no sample.
SourceAllowed(source) == source \in CaptureSources
BuildSample(payload) ==
  LET r == Redact(payload.doc)
      captured == /\ SourceAllowed(payload.source)
                  /\ payload.size <= MaxInput
                  /\ r.drop = "no"
                  /\ SampleSize(r.out) <= MaxSample
  IN IF captured THEN {r.out} ELSE {}

Restricted(f, S) == [x \in (DOMAIN f) \cap S |-> f[x]]

\* PUT_SAMPLE_LUA: add unless present, drop what is too old, then the oldest
\* beyond the maximum (equal scores in the order of their ids).
PutSample(id, doc) ==
  LET fresh == id \notin DOMAIN zset
      z1 == IF fresh THEN [x \in DOMAIN zset \cup {id} |-> IF x = id THEN clock ELSE zset[x]] ELSE zset
      h1 == IF fresh THEN [x \in DOMAIN hash \cup {id} |-> IF x = id THEN doc ELSE hash[x]] ELSE hash
      young == {x \in DOMAIN z1 : z1[x] >= clock - Retention}
      older(x, y) == z1[x] < z1[y] \/ (z1[x] = z1[y] /\ x < y)
      kept == {x \in young : Cardinality({y \in young : older(x, y)}) < MaxPerCandidate}
  IN /\ zset' = Restricted(z1, kept)
     /\ hash' = Restricted(h1, kept)
     /\ expires' = clock + KeyTtl

\* The message is the next of the topic, or one it has read before.
Handle(o, payload) ==
  /\ deliveries[o] < MaxDeliveries
  /\ \/ o \in DOMAIN log /\ log[o] = payload /\ UNCHANGED log
     \/ /\ o \notin DOMAIN log /\ \A q \in Offsets : q < o => q \in DOMAIN log
        /\ log' = [q \in DOMAIN log \cup {o} |-> IF q = o THEN payload ELSE log[q]]
  /\ deliveries' = [deliveries EXCEPT ![o] = @ + 1]
  /\ UNCHANGED clock

\* An unparseable payload is a poison pill: skipped, nothing kept of it.
SkipPoison(o) ==
  \E payload \in Payloads :
    /\ Handle(o, payload)
    /\ IsQuarantined(ParseBounded(payload))
    /\ UNCHANGED <<profile, zset, hash, expires>>

\* handle_discovery_msg: the merge, then the sample; a store that fails
\* costs the sample and nothing else.
Ingest(o) ==
  \E payload \in Payloads :
    LET node == ParseBounded(payload)
    IN /\ Handle(o, payload)
       /\ ~IsQuarantined(node)
       /\ profile' = Merge(profile, Profile(node))
       /\ \/ \E doc \in BuildSample(payload) : PutSample(o, doc)
          \/ UNCHANGED <<zset, hash, expires>>

Tick ==
  /\ clock < MaxClock
  /\ clock' = clock + 1
  /\ IF clock' >= expires THEN zset' = NoSamples /\ hash' = NoSamples ELSE UNCHANGED <<zset, hash>>
  /\ UNCHANGED <<log, deliveries, profile, expires>>

\* list_samples: the newest first, and what has no record is left out.
ListSamples(limit) ==
  LET newest == SetToSortSeq(DOMAIN zset, LAMBDA x, y : zset[x] > zset[y] \/ (zset[x] = zset[y] /\ x > y))
  IN SelectSeq(SubSeq(newest, 1, Min({Max({limit, 1}), Len(newest)})), LAMBDA x : x \in DOMAIN hash)

Next == Tick \/ \E o \in Offsets : SkipPoison(o) \/ Ingest(o)
Spec == Init /\ [][Next]_vars

----------------------------------------------------------------------------
(* Properties *)

\* What a document holds at a position, and how many times over all deliveries.
RECURSIVE Occurrences(_, _)
Occurrences(n, p) ==
  IF p = <<>> THEN <<n>>
  ELSE IF Head(p) = Elem
       THEN IF n.t # "array" THEN <<>>
            ELSE FlattenSeq([i \in DOMAIN n.items |-> Occurrences(n.items[i], Tail(p))])
       ELSE IF n.t = "object" /\ Head(p) \in DOMAIN n.fields THEN Occurrences(n.fields[Head(p)], Tail(p))
       ELSE <<>>
Handled(o) == o \in DOMAIN log /\ ~IsQuarantined(ParseBounded(log[o]))
CountAt(p, Test(_)) ==
  FoldSet(LAMBDA o, n : n + deliveries[o] * Len(SelectSeq(Occurrences(ParseBounded(log[o]), p), Test)),
          0, {o \in Offsets : Handled(o)})

\* The merged profile counts exactly what the handled documents hold at each
\* position, whatever the order and the grouping of the merges (merge.rs: the
\* monoid laws the generalized schema and its optional fields rest on).
ProfileIsTheCensus ==
  /\ profile.count = FoldSet(LAMBDA o, n : n + deliveries[o], 0, {o \in Offsets : Handled(o)})
  /\ \A p \in DOMAIN profile.fields :
       /\ profile.fields[p].present = CountAt(p, LAMBDA n : TRUE)
       /\ \A t \in Types : profile.fields[p].types[t] = CountAt(p, LAMBDA n : n.t = t)
       /\ profile.fields[p].intOnly <=> CountAt(p, LAMBDA n : n.t = "number" /\ ~n.int) = 0
  /\ \A o \in Offsets : Handled(o) => DOMAIN FieldsOf(ParseBounded(log[o])) \subseteq DOMAIN profile.fields

\* The matcher derives a bucket from the shape of a document, promotion from
\* its profile (generalized_shape_summary): for one document both name the same
\* bucket, or a schema would be indexed where nobody looks for it; and the prefix
\* by which the shadow lane scans for neighbours covers it.
OneBucket ==
  \A o \in DOMAIN log :
    LET n == ParseBounded(log[o])
        indexed == BucketKey(GeneralizedSummary(Profile(n)))
    IN ~IsQuarantined(n) =>
         /\ BucketKey(Summarize(ShapeOf(n))) = indexed
         /\ IsPrefix(BandDepthPrefix(Summarize(ShapeOf(n))), indexed)

\* What the bounded parser promises of a document it accepts, wherever in it:
\* nothing is nested too deep, no key or string is too long, and where it
\* looked no key is repeated (parse.rs: every bound is enforced during the walk).
RECURSIVE WithinLimits(_, _)
WithinLimits(d, depth) ==
  CASE d.t = "object" ->
         /\ depth < Limits.depth
         /\ \A i \in DOMAIN d.fields : /\ KeyLength(d.fields[i].key) <= Limits.keyLen
                                       /\ WithinLimits(d.fields[i].value, depth + 1)
    [] d.t = "array"  -> depth < Limits.depth /\ \A i \in DOMAIN d.items : WithinLimits(d.items[i], depth + 1)
    [] d.t = "string" -> d.length <= Limits.stringLen
    [] OTHER -> d.t # "broken"
AcceptedIsBounded ==
  \A o \in DOMAIN log : ~IsQuarantined(ParseBounded(log[o])) => WithinLimits(log[o].doc, 0)

\* No stored sample shows a secret or personal datum, the value of a sensitive
\* field or a key that is itself data (sample_capture: fail closed).
RECURSIVE Clean(_)
Clean(d) ==
  CASE d.t = "object" -> \A k \in DOMAIN d.fields :
                           \/ KeyClass(k) = "clean" /\ Clean(d.fields[k])
                           \/ KeyClass(k) = "name" /\ d.fields[k].t = "marker"
    [] d.t = "array" -> \A i \in DOMAIN d.items : Clean(d.items[i])
    [] d.t = "string" -> d.class = "clean"
    [] d.t = "number" -> d.class # "secret"
    [] OTHER -> TRUE
StoredIsRedacted == \A id \in DOMAIN hash : Clean(hash[id])

\* The set and the hash of a candidate name the same samples, never more than
\* the maximum, and a listing shows as many as it is asked for (samples.rs: one
\* script keeps both).
SamplesAgree ==
  /\ DOMAIN zset = DOMAIN hash
  /\ Cardinality(DOMAIN hash) <= MaxPerCandidate
  /\ \A limit \in 0..MaxPerCandidate :
       Len(ListSamples(limit)) = Min({Max({limit, 1}), Cardinality(DOMAIN hash)})

\* What comes from outside is contained: bounded when it is accepted, clean when
\* it is stored, and gone from both keys of a candidate when it goes.
InputIsContained == AcceptedIsBounded /\ StoredIsRedacted /\ SamplesAgree

\* A field that some document lacked stays optional in every later generalized
\* schema, and a type once seen stays listed.  (Array elements are excepted:
\* one array of two elements makes up for an empty one.)
OptionalForGood ==
  [][\A p \in DOMAIN profile.fields :
       /\ p \in DOMAIN profile'.fields
       /\ TypesAt(profile, p) \subseteq TypesAt(profile', p)
       /\ p # <<>> /\ Last(p) # Elem /\ Optional(profile, p) => Optional(profile', p)]_vars
============================================================================
