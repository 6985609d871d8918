----------------------------- MODULE VaultProofs -----------------------------
(***************************************************************************)
(* Proofs about Vault, for every set of schemas, shapes, families,          *)
(* candidates, buckets and concurrent rebuilds.                             *)
(***************************************************************************)
EXTENDS Vault, TLAPS

\* A partial map keeps its type when a well-typed entry is written.
LEMMA PutType ==
    ASSUME NEW K, NEW V, NEW m, DOMAIN m \subseteq K, m \in [DOMAIN m -> V],
           NEW k \in K, NEW v \in V
    PROVE  /\ DOMAIN Put(m, k, v) \subseteq K
           /\ Put(m, k, v) \in [DOMAIN Put(m, k, v) -> V]
BY DEF Put

\* What the script leaves under the published schema: a schema hash with this
\* call's variants, whose identity fields are those of the first publication.
LEMMA HashFacts ==
    ASSUME TypeOK, NEW q \in Request, WriteHash(q)
    PROVE  /\ Stored' = Stored \union {q.schema}
           /\ Stored' \subseteq Schemas
           /\ schemas' \in [Stored' -> SchemaHash]
           /\ schemas'[q.schema].variants = q.variants
           /\ \A s \in Stored :
                 /\ schemas'[s].canonicalizer = schemas[s].canonicalizer
                 /\ schemas'[s].family = schemas[s].family
                 /\ schemas'[s].version = schemas[s].version
                 /\ s # q.schema => schemas'[s] = schemas[s]
           /\ q.schema \notin Stored =>
                 /\ schemas'[q.schema].family = q.family
                 /\ schemas'[q.schema].version = VersionFor(q)
<1> DEFINE h == IF q.schema \in Stored
                  THEN [schemas[q.schema] EXCEPT !.variants = q.variants]
                  ELSE [canonicalizer |-> q.canonicalizer, family |-> q.family,
                        version |-> VersionFor(q), variants |-> q.variants]
<1>1. VersionFor(q) \in Nat
  BY DEF TypeOK, VersionFor, Request
<1>2. /\ h \in SchemaHash
      /\ h.variants = q.variants
      /\ q.schema \in Stored => /\ h.canonicalizer = schemas[q.schema].canonicalizer
                                /\ h.family = schemas[q.schema].family
                                /\ h.version = schemas[q.schema].version
      /\ q.schema \notin Stored => h.family = q.family /\ h.version = VersionFor(q)
  <2>1. CASE q.schema \in Stored
    <3>1. schemas[q.schema] \in SchemaHash
      BY <2>1 DEF TypeOK
    <3> QED BY <2>1, <3>1 DEF SchemaHash, Request
  <2>2. CASE q.schema \notin Stored
    BY <2>2, <1>1 DEF SchemaHash, Request
  <2> QED BY <2>1, <2>2
<1>3. schemas' = Put(schemas, q.schema, h)
  BY DEF WriteHash
<1>4. q.schema \in Schemas
  BY DEF Request
<1> HIDE DEF h
<1>5. /\ DOMAIN schemas' = DOMAIN schemas \union {q.schema}
      /\ schemas'[q.schema] = h
      /\ \A x \in DOMAIN schemas : x # q.schema => schemas'[x] = schemas[x]
  BY <1>3 DEF Put
<1>6. DOMAIN schemas' \subseteq Schemas /\ schemas' \in [DOMAIN schemas' -> SchemaHash]
  <2>1. DOMAIN schemas \subseteq Schemas /\ schemas \in [DOMAIN schemas -> SchemaHash]
    BY DEF TypeOK, Stored
  <2> QED BY <1>2, <1>3, <1>4, <2>1, PutType
<1> QED BY <1>2, <1>5, <1>6 DEF Stored

\* A fresh publication appends the schema to its family and records the
\* position in the published marker; a republication touches neither.
LEMMA VersionFacts ==
    ASSUME TypeOK, NEW q \in Request, AllocateVersion(q)
    PROVE  /\ versions' \in [Families -> Seq(Schemas)]
           /\ DOMAIN published' = DOMAIN published \union {q.schema}
           /\ published' \in [DOMAIN published' -> Nat]
           /\ published'[q.schema] = VersionFor(q)
           /\ \A s \in DOMAIN published : published'[s] = published[s]
           /\ \A f \in Families : \A n \in 1..Len(versions[f]) :
                 n <= Len(versions'[f]) /\ versions'[f][n] = versions[f][n]
           /\ q.schema \in DOMAIN published => versions' = versions
           /\ q.schema \notin DOMAIN published =>
                 /\ VersionFor(q) = Len(versions[q.family]) + 1
                 /\ Len(versions'[q.family]) = VersionFor(q)
                 /\ versions'[q.family][VersionFor(q)] = q.schema
                 /\ \A f \in Families : f # q.family => versions'[f] = versions[f]
<1>0. q.schema \in Schemas /\ q.family \in Families
  BY DEF Request
<1>1. CASE q.schema \in DOMAIN published
  <2>1. versions' = versions /\ published' = published /\ VersionFor(q) = published[q.schema]
    BY <1>1 DEF AllocateVersion, VersionFor
  <2>2. \A f \in Families : \A n \in 1..Len(versions[f]) : n <= Len(versions[f])
    BY DEF TypeOK
  <2>3. DOMAIN published = DOMAIN published \union {q.schema}
    BY <1>1
  <2>4. versions \in [Families -> Seq(Schemas)] /\ published \in [DOMAIN published -> Nat]
    BY DEF TypeOK
  <2> QED BY <1>1, <2>1, <2>2, <2>3, <2>4
<1>2. CASE q.schema \notin DOMAIN published
  <2>1. /\ VersionFor(q) = Len(versions[q.family]) + 1
        /\ VersionFor(q) \in Nat
    BY <1>0, <1>2 DEF TypeOK, VersionFor
  <2>2. published' = Put(published, q.schema, VersionFor(q))
    BY <1>2 DEF AllocateVersion
  <2>3. versions' = [versions EXCEPT ![q.family] = Append(@, q.schema)]
    BY <1>2 DEF AllocateVersion
  <2>4. versions[q.family] \in Seq(Schemas)
    BY <1>0 DEF TypeOK
  <2>5. /\ versions'[q.family] = Append(versions[q.family], q.schema)
        /\ \A f \in Families : f # q.family => versions'[f] = versions[f]
    BY <1>0, <2>3 DEF TypeOK
  <2>6. /\ versions'[q.family] \in Seq(Schemas)
        /\ Len(versions'[q.family]) = Len(versions[q.family]) + 1
        /\ versions'[q.family][Len(versions[q.family]) + 1] = q.schema
        /\ \A n \in 1..Len(versions[q.family]) :
              versions'[q.family][n] = versions[q.family][n]
    BY <1>0, <2>4, <2>5
  <2>7. versions' \in [Families -> Seq(Schemas)]
    BY <1>0, <2>3, <2>5, <2>6 DEF TypeOK
  <2>8. \A f \in Families : \A n \in 1..Len(versions[f]) :
            n <= Len(versions'[f]) /\ versions'[f][n] = versions[f][n]
    <3>1. \A f \in Families : Len(versions[f]) \in Nat
      BY DEF TypeOK
    <3> QED BY SMTT(30), <1>0, <2>5, <2>6, <3>1
  <2>9. DOMAIN published \subseteq Schemas /\ published \in [DOMAIN published -> Nat]
    BY DEF TypeOK
  <2>10. published' \in [DOMAIN published' -> Nat]
    BY <1>0, <2>1, <2>2, <2>9, PutType
  <2>11. /\ DOMAIN published' = DOMAIN published \union {q.schema}
         /\ published'[q.schema] = VersionFor(q)
         /\ \A s \in DOMAIN published : s # q.schema => published'[s] = published[s]
    BY <2>2 DEF Put
  <2> QED BY <1>2, <2>1, <2>5, <2>6, <2>7, <2>8, <2>10, <2>11
<1> QED BY <1>1, <1>2

\* The script writes an alias that is not there yet and keeps one that is.
LEMMA AliasFacts ==
    ASSUME TypeOK, NEW q \in Request, WriteAlias(q)
    PROVE  /\ DOMAIN alias' = DOMAIN alias \union {q.alias_from}
           /\ DOMAIN alias' \subseteq Candidates
           /\ alias' \in [DOMAIN alias' -> Schemas]
           /\ \A c \in DOMAIN alias : alias'[c] = alias[c]
           /\ q.alias_from \notin DOMAIN alias => alias'[q.alias_from] = q.schema
<1>0. q.alias_from \in Candidates /\ q.schema \in Schemas
  BY DEF Request
<1>1. DOMAIN alias \subseteq Candidates /\ alias \in [DOMAIN alias -> Schemas]
  BY DEF TypeOK
<1>2. CASE q.alias_from \in DOMAIN alias
  BY <1>1, <1>2 DEF WriteAlias
<1>3. CASE q.alias_from \notin DOMAIN alias
  <2>1. alias' = Put(alias, q.alias_from, q.schema)
    BY <1>3 DEF WriteAlias
  <2>2. DOMAIN alias' \subseteq Candidates /\ alias' \in [DOMAIN alias' -> Schemas]
    BY <1>0, <1>1, <2>1, PutType
  <2>3. /\ DOMAIN alias' = DOMAIN alias \union {q.alias_from}
        /\ alias'[q.alias_from] = q.schema
        /\ \A c \in DOMAIN alias : c # q.alias_from => alias'[c] = alias[c]
    BY <2>1 DEF Put
  <2> QED BY <1>3, <2>2, <2>3
<1> QED BY <1>2, <1>3

\* Type correctness of the vault under publications, probes and rebuilds.
THEOREM TypeCorrect == Spec => []TypeOK
<1>1. Init => TypeOK
  BY DEF Init, TypeOK, Stored, Phases, Request
<1>2. TypeOK /\ [Next]_vars => TypeOK'
  <2> SUFFICES ASSUME TypeOK, [Next]_vars PROVE TypeOK'
    OBVIOUS
  <2>1. ASSUME NEW p \in Publishers, NEW q \in Request, PublishCall(p, q) PROVE TypeOK'
    <3>1. DOMAIN calls' \subseteq Publishers /\ calls' \in [DOMAIN calls' -> Request]
      <4>1. calls' = Put(calls, p, q)
        BY <2>1 DEF PublishCall
      <4>2. DOMAIN calls \subseteq Publishers /\ calls \in [DOMAIN calls -> Request]
        BY DEF TypeOK
      <4> QED BY <4>1, <4>2, PutType
    <3> QED BY <2>1, <3>1 DEF TypeOK, PublishCall, store, rebuild, Stored
  <2>2. ASSUME NEW p \in Publishers, PublishRun(p) PROVE TypeOK'
    <3> DEFINE q == calls[p]
    <3>0. q \in Request /\ DOMAIN calls' \subseteq Publishers /\ calls' \in [DOMAIN calls' -> Request]
      BY <2>2 DEF TypeOK, PublishRun, Without
    <3> HIDE DEF q
    <3>1. ASSUME PublishScript(q) PROVE TypeOK'
      <4>1. /\ versions' \in [Families -> Seq(Schemas)]
            /\ DOMAIN published' \subseteq Schemas
            /\ published' \in [DOMAIN published' -> Nat]
        <5>1. q.schema \in Schemas /\ DOMAIN published \subseteq Schemas /\ AllocateVersion(q)
          BY <3>0, <3>1 DEF PublishScript, TypeOK, Request
        <5> QED BY <3>0, <5>1, VersionFacts
      <4>2. /\ Stored \subseteq Stored'
            /\ Stored' \subseteq Schemas
            /\ schemas' \in [Stored' -> SchemaHash]
        BY <3>0, <3>1, HashFacts DEF PublishScript
      <4>3. DOMAIN alias' \subseteq Candidates /\ alias' \in [DOMAIN alias' -> Schemas]
        BY <3>0, <3>1, AliasFacts DEF PublishScript
      <4>4. index' \subseteq Fingerprints \X Schemas /\ listing' \subseteq Schemas
        BY <3>0, <3>1 DEF TypeOK, PublishScript, Members, Request, Fingerprints
      <4> QED BY <2>2, <3>0, <3>1, <4>1, <4>2, <4>3, <4>4 DEF TypeOK, PublishRun, rebuild
    <3>2. ASSUME PublishRefused(q) PROVE TypeOK'
      BY <2>2, <3>0, <3>2 DEF TypeOK, PublishRun, PublishRefused, store, rebuild, Stored
    <3> QED BY <2>2, <3>1, <3>2 DEF PublishRun, q
  <2>3. ASSUME NEW p \in Publishers, PublishLost(p) PROVE TypeOK'
    BY <2>3 DEF TypeOK, PublishLost, Without, store, rebuild, Stored
  <2>4. ASSUME Probe PROVE TypeOK'
    BY <2>4 DEF TypeOK, Probe, store, rebuild, Stored
  <2>5. ASSUME NEW r \in Rebuilders, RebuildStep(r) PROVE TypeOK'
    <3>1. CASE RebuildStart(r)
      BY <3>1 DEF TypeOK, RebuildStart, LiveBuckets, Phases, store, Stored
    <3>2. ASSUME NEW b \in Buckets, DropBucket(r, b) PROVE TypeOK'
      BY <3>2 DEF TypeOK, DropBucket, store, Stored
    <3>3. CASE DropListing(r)
      BY <3>3 DEF TypeOK, DropListing, Phases, store, Stored
    <3>4. ASSUME NEW s \in Schemas, RestoreListing(r, s) PROVE TypeOK'
      BY <3>4 DEF TypeOK, RestoreListing, Phases, store, Stored
    <3>5. ASSUME NEW s \in Schemas, RestoreBucket(r, s) PROVE TypeOK'
      BY <3>5 DEF TypeOK, RestoreBucket, Phases, store, Stored, Fingerprints
    <3>6. ASSUME NEW s \in Schemas, ReadVariants(r, s) PROVE TypeOK'
      <4>1. s \in Stored /\ schemas[s] \in SchemaHash
        BY <3>6 DEF TypeOK, ReadVariants
      <4> QED BY <3>6, <4>1 DEF TypeOK, ReadVariants, SchemaHash, Phases, store, Stored
    <3>7. ASSUME NEW s \in Schemas, NEW fp \in Shapes, RestoreVariant(r, s, fp)
          PROVE  TypeOK'
      BY <3>7 DEF TypeOK, RestoreVariant, store, Stored, Fingerprints
    <3>8. CASE RestoredSchema(r)
      BY <3>8 DEF TypeOK, RestoredSchema, Phases, store, Stored
    <3>9. CASE RebuildDone(r)
      BY <3>9 DEF TypeOK, RebuildDone, Phases, store, Stored
    <3>10. CASE RebuildFails(r)
      BY <3>10 DEF TypeOK, RebuildFails, Phases, store, Stored
    <3> QED BY <2>5, <3>1, <3>2, <3>3, <3>4, <3>5, <3>6, <3>7, <3>8, <3>9, <3>10
            DEF RebuildStep
  <2>6. CASE UNCHANGED vars
    BY <2>6 DEF TypeOK, vars, store, rebuild, Stored
  <2> QED BY <2>1, <2>2, <2>3, <2>4, <2>5, <2>6 DEF Next, Publishing
<1> QED BY <1>1, <1>2, PTL DEF Spec

-----------------------------------------------------------------------------

\* Only the publish script writes the schema store; every other step of Next
\* leaves it as it is.
LEMMA StoreSteps ==
    ASSUME TypeOK, [Next]_vars
    PROVE  \/ \E q \in Request : PublishScript(q)
           \/ UNCHANGED store
<1>1. \A p \in DOMAIN calls : calls[p] \in Request
  BY DEF TypeOK
<1> QED
  BY <1>1
     DEF Next, Publishing, RebuildStep, vars, store, PublishCall, PublishRun, PublishRefused,
         PublishLost, Probe, RebuildStart, DropBucket, DropListing,
         RestoreListing, RestoreBucket, ReadVariants, RestoreVariant,
         RestoredSchema, RebuildDone, RebuildFails

\* VersionsAgree is inductive with TypeOK: a schema enters the hashes, the
\* markers and its family's version list in one transition.
LEMMA VersionsStep ==
    ASSUME TypeOK, VersionsAgree, [Next]_vars
    PROVE  VersionsAgree'
<1>1. ASSUME NEW q \in Request, PublishScript(q) PROVE VersionsAgree'
  <2>0. q.schema \in Schemas /\ q.family \in Families
    BY DEF Request
  <2>1. WriteHash(q) /\ AllocateVersion(q)
    BY <1>1 DEF PublishScript
  <2>2. Stored' = DOMAIN published'
    BY <2>1, HashFacts, VersionFacts DEF VersionsAgree
  <2>3. CASE q.schema \in Stored
    <3>1. versions' = versions /\ Stored' = Stored
      BY <2>1, <2>3, HashFacts, VersionFacts DEF VersionsAgree
    <3>2. \A s \in Stored : /\ schemas'[s].family = schemas[s].family
                            /\ schemas'[s].version = schemas[s].version
                            /\ published'[s] = published[s]
      BY <2>1, <2>3, HashFacts, VersionFacts DEF VersionsAgree
    <3> QED BY <2>2, <3>1, <3>2 DEF VersionsAgree
  <2>4. CASE q.schema \notin Stored
    <3>0. q.schema \notin DOMAIN published
      BY <2>4 DEF VersionsAgree
    <3> DEFINE v == VersionFor(q)
    <3>1. /\ Stored' = Stored \union {q.schema}
          /\ schemas'[q.schema].family = q.family
          /\ schemas'[q.schema].version = v
          /\ \A s \in Stored : /\ schemas'[s].family = schemas[s].family
                               /\ schemas'[s].version = schemas[s].version
      BY <2>1, <2>4, HashFacts
    <3>2. /\ v = Len(versions[q.family]) + 1
          /\ Len(versions'[q.family]) = v
          /\ versions'[q.family][v] = q.schema
          /\ published'[q.schema] = v
          /\ \A f \in Families : f # q.family => versions'[f] = versions[f]
          /\ \A f \in Families : \A n \in 1..Len(versions[f]) :
                n <= Len(versions'[f]) /\ versions'[f][n] = versions[f][n]
          /\ \A s \in Stored : published'[s] = published[s]
      BY <2>1, <3>0, VersionFacts DEF VersionsAgree
    <3>3. Len(versions[q.family]) \in Nat
      BY <2>0 DEF TypeOK
    <3> HIDE DEF v
    <3>4. \A s \in Stored' :
            /\ schemas'[s].version = published'[s]
            /\ schemas'[s].version \in 1..Len(versions'[schemas'[s].family])
            /\ versions'[schemas'[s].family][schemas'[s].version] = s
      <4>1. \A s \in Stored : schemas[s].family \in Families
        BY DEF TypeOK, SchemaHash
      <4>2. \A f \in Families : Len(versions[f]) \in Nat /\ Len(versions'[f]) \in Nat
        BY <2>1, VersionFacts DEF TypeOK
      <4>3. ASSUME NEW s \in Stored
            PROVE  /\ schemas'[s].version = published'[s]
                   /\ schemas'[s].version \in 1..Len(versions'[schemas'[s].family])
                   /\ versions'[schemas'[s].family][schemas'[s].version] = s
        <5>1. /\ schemas[s].version = published[s]
              /\ schemas[s].version \in 1..Len(versions[schemas[s].family])
              /\ versions[schemas[s].family][schemas[s].version] = s
          BY DEF VersionsAgree
        <5> QED BY <3>1, <3>2, <4>1, <4>2, <5>1
      <4>4. /\ schemas'[q.schema].version = published'[q.schema]
            /\ schemas'[q.schema].version \in 1..Len(versions'[schemas'[q.schema].family])
            /\ versions'[schemas'[q.schema].family][schemas'[q.schema].version] = q.schema
        BY <3>1, <3>2, <3>3
      <4> QED BY <3>1, <4>3, <4>4
    <3>5. \A f \in Families : \A n \in 1..Len(versions'[f]) :
            /\ versions'[f][n] \in Stored'
            /\ schemas'[versions'[f][n]].family = f
            /\ schemas'[versions'[f][n]].version = n
      <4> SUFFICES ASSUME NEW f \in Families, NEW n \in 1..Len(versions'[f])
                   PROVE  /\ versions'[f][n] \in Stored'
                          /\ schemas'[versions'[f][n]].family = f
                          /\ schemas'[versions'[f][n]].version = n
        OBVIOUS
      <4>1. CASE n \in 1..Len(versions[f])
        <5>1. versions'[f][n] = versions[f][n]
          BY <3>2, <4>1
        <5>2. /\ versions[f][n] \in Stored
              /\ schemas[versions[f][n]].family = f
              /\ schemas[versions[f][n]].version = n
          BY <4>1 DEF VersionsAgree
        <5> QED BY <3>1, <5>1, <5>2
      <4>2. CASE n \notin 1..Len(versions[f])
        <5>1. f = q.family /\ n = v
          BY <3>2, <3>3, <4>2
        <5> QED BY <3>1, <3>2, <5>1
      <4> QED BY <4>1, <4>2
    <3> QED BY <2>2, <3>4, <3>5 DEF VersionsAgree
  <2> QED BY <2>3, <2>4
<1>2. CASE UNCHANGED store
  BY <1>2 DEF VersionsAgree, store, Stored
<1> QED BY <1>1, <1>2, StoreSteps

\* For every history of publications, retries, refusals, lost calls and
\* rebuilds, a (family, version) pair names one schema and a schema one pair.
THEOREM VersionsUnique == Spec => []VersionsAgree
<1>1. Init => VersionsAgree
  BY DEF Init, VersionsAgree, Stored
<1> QED BY <1>1, VersionsStep, TypeCorrect, PTL DEF Spec

\* What the script writes once is never rewritten or removed: aliases, the
\* identity fields of a schema, and allocated versions.
THEOREM WriteOnce == Spec => AppendOnly
<1> DEFINE A == /\ \A c \in DOMAIN alias : c \in DOMAIN alias' /\ alias'[c] = alias[c]
                /\ \A s \in Stored :
                     /\ s \in Stored'
                     /\ schemas'[s].canonicalizer = schemas[s].canonicalizer
                     /\ schemas'[s].family = schemas[s].family
                     /\ schemas'[s].version = schemas[s].version
                /\ \A f \in Families : \A n \in 1..Len(versions[f]) :
                     n <= Len(versions'[f]) /\ versions'[f][n] = versions[f][n]
<1>1. ASSUME TypeOK, [Next]_vars PROVE [A]_vars
  <2>1. ASSUME NEW q \in Request, PublishScript(q) PROVE A
    <3>1. WriteHash(q) /\ AllocateVersion(q) /\ WriteAlias(q)
      BY <2>1 DEF PublishScript
    <3> QED BY <1>1, <3>1, HashFacts, VersionFacts, AliasFacts
  <2>2. CASE UNCHANGED store
    <3>1. \A f \in Families : \A n \in 1..Len(versions[f]) : n <= Len(versions[f])
      BY <1>1 DEF TypeOK
    <3> QED BY <2>2, <3>1 DEF store, Stored
  <2> QED BY <1>1, <2>1, <2>2, StoreSteps
<1> QED BY <1>1, TypeCorrect, PTL DEF Spec, AppendOnly

-----------------------------------------------------------------------------

\* Every pointer into the schema store has a target, at every moment of every
\* rebuild, finished or not.
THEOREM NoDanglingPointer == Spec => []NothingDangles
<1>1. Init => NothingDangles
  BY DEF Init, NothingDangles, Stored
<1>2. TypeOK /\ NothingDangles /\ [Next]_vars => NothingDangles'
  <2> SUFFICES ASSUME TypeOK, NothingDangles, [Next]_vars PROVE NothingDangles'
    OBVIOUS
  <2>1. ASSUME NEW p \in Publishers, PublishRun(p) PROVE NothingDangles'
    <3> DEFINE q == calls[p]
    <3>0. q \in Request
      BY <2>1 DEF TypeOK, PublishRun
    <3> HIDE DEF q
    <3>1. ASSUME PublishScript(q) PROVE NothingDangles'
      <4>1. Stored' = Stored \union {q.schema}
        BY <3>0, <3>1, HashFacts DEF PublishScript
      <4>2. \A c \in DOMAIN alias' : alias'[c] \in Stored'
        <5>1. /\ DOMAIN alias' = DOMAIN alias \union {q.alias_from}
              /\ \A c \in DOMAIN alias : alias'[c] = alias[c]
              /\ q.alias_from \notin DOMAIN alias => alias'[q.alias_from] = q.schema
          BY <3>0, <3>1, AliasFacts DEF PublishScript
        <5> QED BY <4>1, <5>1 DEF NothingDangles
      <4>3. \A e \in index' : e[2] \in Stored'
        BY <3>1, <4>1 DEF PublishScript, Members, NothingDangles
      <4> QED BY <3>1, <4>1, <4>2, <4>3 DEF PublishScript, NothingDangles
    <3>2. ASSUME PublishRefused(q) PROVE NothingDangles'
      BY <3>2 DEF PublishRefused, NothingDangles, store, Stored
    <3> QED BY <2>1, <3>1, <3>2 DEF PublishRun, q
  <2>2. ASSUME NEW r \in Rebuilders, RebuildStep(r) PROVE NothingDangles'
    <3>1. current[r] \subseteq Stored
      BY DEF TypeOK
    <3>2. /\ UNCHANGED store
          /\ \A e \in index' : e \in index \/ e[2] \in current[r]
          /\ listing' \subseteq listing \union Stored
      BY <2>2 DEF RebuildStep, RebuildStart, DropBucket, DropListing, RestoreListing,
                  RestoreBucket, ReadVariants, RestoreVariant, RestoredSchema,
                  RebuildDone, RebuildFails
    <3> QED BY <3>1, <3>2 DEF NothingDangles, store, Stored
  <2>3. ASSUME UNCHANGED <<store, index, listing>> PROVE NothingDangles'
    BY <2>3 DEF NothingDangles, store, Stored
  <2> QED BY <2>1, <2>2, <2>3
          DEF Next, Publishing, PublishCall, PublishLost, Probe, vars
<1> QED BY <1>1, <1>2, TypeCorrect, PTL DEF Spec

-----------------------------------------------------------------------------
(* The index.  IndexComplete is not inductive: in the middle of a rebuild it *)
(* says nothing.  MissingIsOwed says who will put a missing member back.     *)

IndexInv == RebuildWellFormed /\ MissingIsOwed

\* A publication adds the members of the schema it stores and no rebuild's
\* debt changes, so nothing goes missing.
LEMMA PublishKeepsIndex ==
    ASSUME TypeOK, IndexInv, NEW q \in Request, PublishScript(q), UNCHANGED rebuild
    PROVE  IndexInv'
<1>0. /\ Stored' = Stored \union {q.schema}
      /\ schemas'[q.schema].variants = q.variants
      /\ \A s \in Stored : s # q.schema => schemas'[s] = schemas[s]
  BY HashFacts DEF PublishScript
<1>1. /\ index' = index \union Members(q.schema, q.variants)
      /\ listing' = listing \union {q.schema}
  BY DEF PublishScript
<1>2. RebuildWellFormed'
  BY DEF IndexInv, RebuildWellFormed, rebuild
<1>3. ASSUME NEW s \in Stored' PROVE s \in listing' \/ \E r \in Rebuilders : OwesListing(r, s)'
  BY <1>0, <1>1 DEF IndexInv, MissingIsOwed, OwesListing, rebuild
<1>4. ASSUME NEW s \in Stored', NEW fp \in schemas'[s].variants \union {s}
      PROVE  <<fp, s>> \in index' \/ \E r \in Rebuilders : Owes(r, s, fp)'
  <2>1. CASE s = q.schema
    BY <1>0, <1>1, <2>1 DEF Members
  <2>2. CASE s # q.schema
    <3>1. <<fp, s>> \in index \/ \E r \in Rebuilders : Owes(r, s, fp)
      BY <1>0, <2>2 DEF IndexInv, MissingIsOwed
    <3> QED BY <1>1, <3>1 DEF Owes, rebuild
  <2> QED BY <2>1, <2>2
<1> QED BY <1>2, <1>3, <1>4 DEF IndexInv, MissingIsOwed

\* A step of one rebuild discharges only what it adds, and takes on a debt for
\* everything it may have dropped.
LEMMA RebuildKeepsIndex ==
    ASSUME TypeOK, IndexInv, NEW r \in Rebuilders, RebuildStep(r)
    PROVE  IndexInv'
<1> USE DEF Stored
<1>0. UNCHANGED store
  BY DEF RebuildStep, RebuildStart, DropBucket, DropListing, RestoreListing,
         RestoreBucket, ReadVariants, RestoreVariant, RestoredSchema,
         RebuildDone, RebuildFails
<1>1. RebuildWellFormed'
  <2> SUFFICES ASSUME NEW x \in Rebuilders
               PROVE  /\ \A s, t \in current'[x] : s = t
                      /\ current'[x] # {} => pc'[x] \in {"bucket", "hget", "variants"}
                      /\ toScan'[x] # {} => pc'[x] \notin {"idle", "drop", "failed"}
    BY DEF RebuildWellFormed
  <2>1. /\ \A s, t \in current[x] : s = t
        /\ current[x] # {} => pc[x] \in {"bucket", "hget", "variants"}
        /\ toScan[x] # {} => pc[x] \notin {"idle", "drop", "failed"}
    BY DEF IndexInv, RebuildWellFormed
  <2> QED
    BY <2>1 DEF TypeOK, RebuildStep, RebuildStart, DropBucket, DropListing,
         RestoreListing, RestoreBucket, ReadVariants, RestoreVariant,
         RestoredSchema, RebuildDone, RebuildFails
<1>2. \* The debts of the other rebuilds do not move.
      \A x \in Rebuilders : x # r =>
          /\ pc'[x] = pc[x]
          /\ toScan'[x] = toScan[x]
          /\ current'[x] = current[x]
          /\ toAdd'[x] = toAdd[x]
  BY DEF TypeOK, RebuildStep, RebuildStart, DropBucket, DropListing,
         RestoreListing, RestoreBucket, ReadVariants, RestoreVariant,
         RestoredSchema, RebuildDone, RebuildFails
<1>3. ASSUME NEW s \in Stored
      PROVE  s \in listing' \/ \E x \in Rebuilders : OwesListing(x, s)'
  <2>0. s \in listing \/ \E x \in Rebuilders : OwesListing(x, s)
    BY DEF IndexInv, MissingIsOwed
  <2>1. CASE DropListing(r)
    <3>1. s \in toScan'[r]
      BY <2>1 DEF DropListing, TypeOK
    <3>2. s \notin current'[r]
      BY <2>1 DEF DropListing, IndexInv, RebuildWellFormed
    <3> QED BY <3>1, <3>2 DEF OwesListing
  <2>2. CASE ~DropListing(r)
    <3>1. listing \subseteq listing'
      BY <2>2 DEF RebuildStep, RebuildStart, DropBucket, RestoreListing,
         RestoreBucket, ReadVariants, RestoreVariant, RestoredSchema,
         RebuildDone, RebuildFails
    <3>2. OwesListing(r, s) => OwesListing(r, s)' \/ s \in listing'
      BY <2>2 DEF TypeOK, IndexInv, RebuildWellFormed, OwesListing,
         RebuildStep, RebuildStart, DropBucket, RestoreListing,
         RestoreBucket, ReadVariants, RestoreVariant, RestoredSchema,
         RebuildDone, RebuildFails
    <3> QED BY <1>2, <2>0, <3>1, <3>2 DEF OwesListing
  <2> QED BY <2>1, <2>2
<1>4. ASSUME NEW s \in Stored, NEW fp \in schemas[s].variants \union {s}
      PROVE  <<fp, s>> \in index' \/ \E x \in Rebuilders : Owes(x, s, fp)'
  <2>0. <<fp, s>> \in index \/ \E x \in Rebuilders : Owes(x, s, fp)
    BY DEF IndexInv, MissingIsOwed
  <2>1. CASE pc'[r] \in {"drop", "failed"}
    BY <2>1 DEF Owes
  <2>2. CASE pc'[r] \notin {"drop", "failed"}
    <3>1. index \subseteq index'
      BY <2>2 DEF TypeOK, RebuildStep, RebuildStart, DropBucket, DropListing, RestoreListing,
         RestoreBucket, ReadVariants, RestoreVariant, RestoredSchema,
         RebuildDone, RebuildFails
    <3>2. ASSUME Owes(r, s, fp) PROVE Owes(r, s, fp)' \/ <<fp, s>> \in index'
      <4> USE <2>2, <3>2 DEF Owes, TypeOK, IndexInv, RebuildWellFormed
      <4>1. CASE RebuildStart(r)
        BY <4>1 DEF RebuildStart
      <4>2. ASSUME NEW b \in Buckets, DropBucket(r, b)
            PROVE Owes(r, s, fp)' \/ <<fp, s>> \in index'
        BY <4>2 DEF DropBucket
      <4>3. CASE DropListing(r)
        BY <4>3 DEF DropListing
      <4>4. ASSUME NEW t \in Schemas, RestoreListing(r, t)
            PROVE Owes(r, s, fp)' \/ <<fp, s>> \in index'
        BY <4>4 DEF RestoreListing
      <4>5. ASSUME NEW t \in Schemas, RestoreBucket(r, t)
            PROVE Owes(r, s, fp)' \/ <<fp, s>> \in index'
        BY <4>5 DEF RestoreBucket
      <4>6. ASSUME NEW t \in Schemas, ReadVariants(r, t)
            PROVE Owes(r, s, fp)' \/ <<fp, s>> \in index'
        BY <4>6 DEF ReadVariants
      <4>7. ASSUME NEW t \in Schemas, NEW g \in Shapes, RestoreVariant(r, t, g)
            PROVE Owes(r, s, fp)' \/ <<fp, s>> \in index'
        BY <4>7 DEF RestoreVariant
      <4>8. CASE RestoredSchema(r)
        BY <4>8 DEF RestoredSchema
      <4>9. CASE RebuildDone(r)
        BY <4>9 DEF RebuildDone
      <4>10. CASE RebuildFails(r)
        BY <4>10 DEF RebuildFails
      <4> QED BY <4>1, <4>2, <4>3, <4>4, <4>5, <4>6, <4>7, <4>8, <4>9, <4>10
              DEF RebuildStep
    <3> QED BY <1>2, <2>0, <3>1, <3>2 DEF Owes
  <2> QED BY <2>1, <2>2
<1> QED BY <1>0, <1>1, <1>3, <1>4 DEF IndexInv, MissingIsOwed, store

\* Whatever publications and other rebuilds ran beside it, and whichever of
\* them failed and were run again, once no rebuild is under way or abandoned
\* the index and the listing hold every schema and every recorded variant.
THEOREM IndexRestored == Spec => []IndexComplete
<1>1. Init => IndexInv
  BY DEF Init, IndexInv, RebuildWellFormed, MissingIsOwed, Stored
<1>2. TypeOK /\ IndexInv /\ [Next]_vars => IndexInv'
  <2> SUFFICES ASSUME TypeOK, IndexInv, [Next]_vars PROVE IndexInv'
    OBVIOUS
  <2>1. ASSUME NEW p \in Publishers, PublishRun(p) PROVE IndexInv'
    <3> DEFINE q == calls[p]
    <3>0. q \in Request /\ UNCHANGED rebuild
      BY <2>1 DEF TypeOK, PublishRun
    <3> HIDE DEF q
    <3>1. CASE PublishScript(q)
      BY <3>0, <3>1, PublishKeepsIndex
    <3>2. CASE PublishRefused(q)
      BY <3>0, <3>2 DEF PublishRefused, IndexInv, RebuildWellFormed, MissingIsOwed,
                        Owes, OwesListing, store, rebuild, Stored
    <3> QED BY <2>1, <3>1, <3>2 DEF PublishRun, q
  <2>2. ASSUME NEW r \in Rebuilders, RebuildStep(r) PROVE IndexInv'
    BY <2>2, RebuildKeepsIndex
  <2>3. ASSUME UNCHANGED <<store, index, listing, rebuild>> PROVE IndexInv'
    BY <2>3 DEF IndexInv, RebuildWellFormed, MissingIsOwed, Owes, OwesListing,
                store, rebuild, Stored
  <2> QED BY <2>1, <2>2, <2>3
          DEF Next, Publishing, PublishCall, PublishLost, Probe, vars
<1>3. NothingDangles /\ IndexInv => IndexComplete
  <2> SUFFICES ASSUME NothingDangles, IndexInv, Quiescent
               PROVE  /\ listing = Stored
                      /\ \A s \in Stored : Members(s, schemas[s].variants) \subseteq index
                      /\ VerifyIndex = {}
    BY DEF IndexComplete
  <2>1. \A r \in Rebuilders : pc[r] = "idle" /\ toScan[r] = {}
    BY DEF Quiescent, IndexInv, RebuildWellFormed
  <2>2. \A s \in Stored : s \in listing
    BY <2>1 DEF IndexInv, MissingIsOwed, OwesListing
  <2>3. \A s \in Stored : \A fp \in schemas[s].variants \union {s} : <<fp, s>> \in index
    BY <2>1 DEF IndexInv, MissingIsOwed, Owes
  <2> QED BY <2>2, <2>3 DEF NothingDangles, Members, VerifyIndex
<1> QED BY <1>1, <1>2, <1>3, TypeCorrect, NoDanglingPointer, PTL DEF Spec
=============================================================================
