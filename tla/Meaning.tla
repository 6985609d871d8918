------------------------------ MODULE Meaning ------------------------------
(***************************************************************************)
(* The pure part of the semantic dimension: what a piece of semantic       *)
(* metadata says once it is canonicalized, which fields of a schema it may *)
(* annotate, how two shapes relate, and how similar two annotations are.   *)
(*                                                                         *)
(* Metadata is a record [event, fields]; fields is a sequence of           *)
(* [path, sem] and sem a record of the six optional attributes.  A byte    *)
(* string of the canonical protocol is represented by the value it         *)
(* encodes: every component of the protocol is tagged or length-prefixed,  *)
(* and every list in it is sorted by a key without duplicates, so the      *)
(* bytes and the value (a set of entries) determine each other.            *)
(***************************************************************************)
EXTENDS Integers, Sequences, FiniteSets, SequencesExt, Functions

CONSTANTS
  None,              \* an attribute that is absent
  Nfc,               \* the function from keys to their NFC normal form
  ControlKeys,       \* keys that hold a NUL or a control character
  Registered,        \* [cfid, event, unit, idns, vocab |-> the known tokens]
  Generic,           \* GENERIC_CFIDS
  IdfMinPopulation,  \* IDF_MIN_POPULATION
  IdfMax,            \* IDF_MAX
  AnchorIdfMin,      \* ANCHOR_IDF_MIN
  CountCap,          \* MAX_FEATURE_COUNT
  MaxCandidates      \* MAX_SIGNATURE_CANDIDATES

Wildcard == [wild |-> TRUE]
Key(k) == [wild |-> FALSE, key |-> k]

----------------------------------------------------------------------------
(* canon.rs: canonical form of metadata *)

\* A path is refused when a key holds a control character, and its keys are
\* replaced by their NFC form.
PathRefused(path) == \E i \in DOMAIN path : ~path[i].wild /\ path[i].key \in ControlKeys
EncodePath(path) ==
  [i \in DOMAIN path |-> IF path[i].wild THEN Wildcard ELSE Key(Nfc[path[i].key])]

\* A number literal is [neg, digits, exp]; trailing zeros move to the exponent
\* and every zero is the same zero.
RECURSIVE StripZeros(_, _)
StripZeros(digits, exp) ==
  IF digits % 10 = 0 THEN StripZeros(digits \div 10, exp + 1)
  ELSE [digits |-> digits, exp |-> exp]
CanonicalDecimal(lit) ==
  IF lit.digits = 0 THEN [neg |-> FALSE, digits |-> 0, exp |-> 0]
  ELSE LET s == StripZeros(lit.digits, lit.exp)
       IN [neg |-> lit.neg, digits |-> s.digits, exp |-> s.exp]

\* The tag of the value's own type comes first: no type is guessed.
TypedValue(v) ==
  IF v.type = "number" THEN <<"number", CanonicalDecimal(v.v)>> ELSE <<v.type, v.v>>
EnumRefused(enum) ==
  \/ \E i \in DOMAIN enum : enum[i].value.type = "number" /\ enum[i].value.v = None
  \/ \E i, j \in DOMAIN enum : i # j /\ TypedValue(enum[i].value) = TypedValue(enum[j].value)
EncodeEnum(enum) == {<<TypedValue(enum[i].value), enum[i].meaning>> : i \in DOMAIN enum}

\* An attribute that says nothing (an empty temporal, an empty enum list) is
\* absent; a field left with no attribute is dropped.
EncodeTemporal(t) ==
  IF t = None \/ (t.kind = None /\ t.epoch = None /\ t.resolution = None) THEN None ELSE t
EncodeFieldSemantics(sem) ==
  [sem EXCEPT !.temporal = EncodeTemporal(sem.temporal),
              !.enum = IF sem.enum = None \/ sem.enum = <<>> THEN {} ELSE EncodeEnum(sem.enum)]
SaysNothing(enc) ==
  /\ enc.cfid = None /\ enc.idns = None /\ enc.unit = None
  /\ enc.scale = None /\ enc.temporal = None /\ enc.enum = {}

NormalizeRefused(md) ==
  \/ \E i \in DOMAIN md.fields : PathRefused(md.fields[i].path)
  \/ \E i, j \in DOMAIN md.fields :
       i # j /\ EncodePath(md.fields[i].path) = EncodePath(md.fields[j].path)
  \/ \E i \in DOMAIN md.fields :
       md.fields[i].sem.enum # None /\ EnumRefused(md.fields[i].sem.enum)

\* canonical_semantic_bytes: the sorted list of surviving entries, as a set.
CanonicalBytes(md) ==
  [event  |-> md.event,
   fields |-> {e \in {<<EncodePath(f.path), EncodeFieldSemantics(f.sem)>> : f \in Range(md.fields)} :
                 ~SaysNothing(e[2])}]

\* sem_ is a hash of the bytes, and metadata that says nothing has none.
SemanticFingerprint(md) ==
  LET b == CanonicalBytes(md)
  IN IF b.event = None /\ b.fields = {} THEN None ELSE b

----------------------------------------------------------------------------
(* vocab.rs and path.rs: what may be asserted of a schema *)

FieldVocabularyKnown(sem) ==
  /\ sem.cfid \in Registered.cfid \cup {None}
  /\ sem.unit \in Registered.unit \cup {None}
  /\ sem.idns \in Registered.idns \cup {None}
  /\ sem.enum # None =>
       \A i \in DOMAIN sem.enum : sem.enum[i].meaning.vocab \in Registered.vocab
ValidateMetadata(md) ==
  /\ md.event \in Registered.event \cup {None}
  /\ \A i \in DOMAIN md.fields : FieldVocabularyKnown(md.fields[i].sem)

\* A schema is [grammar, root].  A canon-v1 node is [t, f, of]: an object has
\* its fields in f, an array the shapes of its elements in of.  A monoid-v1
\* node is [types, children, elem]: children maps keys to nodes, elem holds at
\* most one node.
Under(seg, paths) == {<<seg>>} \cup {<<seg>> \o p : p \in paths}

RECURSIVE WalkShape(_)
WalkShape(n) ==
  CASE n.t = "obj" -> UNION {Under(Key(k), WalkShape(n.f[k])) : k \in DOMAIN n.f}
    [] n.t = "arr" -> Under(Wildcard, UNION {WalkShape(n.of[i]) : i \in DOMAIN n.of})
    [] OTHER       -> {}

RECURSIVE WalkMonoidField(_)
WalkMonoidField(n) ==
  UNION {Under(Key(k), WalkMonoidField(n.children[k])) : k \in DOMAIN n.children}
    \cup UNION {Under(Wildcard, WalkMonoidField(e)) : e \in n.elem}

CanonicalFieldPaths(sch) ==
  IF sch.grammar = "canon" THEN WalkShape(sch.root) ELSE WalkMonoidField(sch.root)
ValidatePaths(md, paths) == \A i \in DOMAIN md.fields : md.fields[i].path \in paths

\* put_semantic's checks, in its order; the answer it gives.
PutRefused(sch, md) ==
  \/ ~ValidateMetadata(md)
  \/ ~ValidatePaths(md, CanonicalFieldPaths(sch))
  \/ NormalizeRefused(md)
  \/ SemanticFingerprint(md) = None

----------------------------------------------------------------------------
(* semantic_drift.rs: the type at every path, and the two diagnostics *)

ShapeAt(n) == [leaf |-> n.t \notin {"obj", "arr"}, types |-> {n.t}]
MonoidShapeAt(n) ==
  [leaf |-> DOMAIN n.children = {} /\ n.elem = {}, types |-> n.types]

\* The paths below a node, each with the shape recorded for it: a set of
\* <<path, rank, shape>>, where the smallest rank wins (the first element of a
\* heterogeneous array).
Prefixed(seg, rank, triples) ==
  {<<<<seg>> \o t[1], <<rank>> \o t[2], t[3]>> : t \in triples}
RECURSIVE WalkTyped(_)
WalkTyped(n) ==
  CASE n.t = "obj" ->
         UNION {{<<<<Key(k)>>, <<0>>, ShapeAt(n.f[k])>>} \cup Prefixed(Key(k), 0, WalkTyped(n.f[k]))
                  : k \in DOMAIN n.f}
    [] n.t = "arr" ->
         UNION {{<<<<Wildcard>>, <<i>>, ShapeAt(n.of[i])>>} \cup Prefixed(Wildcard, i, WalkTyped(n.of[i]))
                  : i \in DOMAIN n.of}
    [] OTHER -> {}
RECURSIVE WalkTypedMonoid(_)
WalkTypedMonoid(n) ==
  UNION {{<<<<Key(k)>>, <<0>>, MonoidShapeAt(n.children[k])>>}
            \cup Prefixed(Key(k), 0, WalkTypedMonoid(n.children[k])) : k \in DOMAIN n.children}
    \cup UNION {{<<<<Wildcard>>, <<0>>, MonoidShapeAt(e)>>}
                   \cup Prefixed(Wildcard, 0, WalkTypedMonoid(e)) : e \in n.elem}

RankBelow(r, s) ==
  \E i \in DOMAIN r : r[i] < s[i] /\ \A j \in 1..(i - 1) : r[j] = s[j]
TypedPathsFor(sch) ==
  LET triples == IF sch.grammar = "canon" THEN WalkTyped(sch.root) ELSE WalkTypedMonoid(sch.root)
  IN [p \in {t[1] : t \in triples} |->
        (CHOOSE t \in triples : t[1] = p /\ \A u \in triples : u[1] = p => ~RankBelow(u[2], t[2]))[3]]
LeafFields(sch) == LET tp == TypedPathsFor(sch) IN {p \in DOMAIN tp : tp[p].leaf}

StructuralRelation(a, b) ==
  LET ta == TypedPathsFor(a)
      tb == TypedPathsFor(b)
      changed == \E p \in DOMAIN ta \cap DOMAIN tb : ta[p] # tb[p]
  IN IF ~changed THEN "compatible"
     ELSE IF DOMAIN ta = DOMAIN tb THEN "identical_paths_changed_types" ELSE "incompatible"

DetectSemanticDrift(prior, priorSem, new, newSem) ==
  /\ priorSem # None /\ newSem # None /\ priorSem # newSem
  /\ StructuralRelation(prior, new) = "compatible"

\* Annotated leaf fields over all leaf fields, as a pair.
Coverage(md, sch) ==
  LET leaves == LeafFields(sch)
  IN [annotated |-> Cardinality({i \in DOMAIN md.fields :
                      md.fields[i].sem.cfid # None /\ md.fields[i].path \in leaves}),
      total |-> Cardinality(leaves)]
AtLeast80(c) == c.total > 0 /\ c.annotated * 5 >= c.total * 4
CollisionStrength(md, a, b) ==
  LET ca == Coverage(md, a)
      cb == Coverage(md, b)
  IN IF md.event # None /\ AtLeast80(ca) /\ AtLeast80(cb) THEN "strong"
     ELSE IF md.event # None /\ ca.annotated > 0 /\ cb.annotated > 0 THEN "medium"
     ELSE "weak"
ClassifySemanticCollision(md, a, b) ==
  [relation |-> StructuralRelation(a, b), strength |-> CollisionStrength(md, a, b),
   review |-> CollisionStrength(md, a, b) # "weak"]
=============================================================================
