-------------------------------- MODULE Vault --------------------------------
(***************************************************************************)
(* The schema vault of deblob: the authoritative `deblob:schema:*` hashes,  *)
(* the per-family version counters, the write-once candidate aliases, the   *)
(* disposable structural index and schemas listing, and the persistence     *)
(* health gate in front of publication.                                     *)
(*                                                                          *)
(*   deblob-redis/src/lua.rs       PUBLISH_SCRIPT (one atomic transition)   *)
(*   deblob-redis/src/registry.rs  RedisRegistry::publish, resolve_...      *)
(*   deblob-redis/src/index.rs     rebuild_index, delete_matching, verify   *)
(*   deblob-redis/src/health.rs    HealthGate                               *)
(*                                                                          *)
(* A Lua script and a single Redis command are atomic.  rebuild_index is    *)
(* not: it is a sequence of commands, any of which may fail, running beside *)
(* publications and beside other rebuilds.                                  *)
(*                                                                          *)
(* A fingerprint determines its bucket, so the index is a set of pairs      *)
(* <<fingerprint, schema id>> and a bucket is the part of it that has one   *)
(* BucketOf value.  A schema id is the digest of the generalized shape and  *)
(* is itself a fingerprint: bucket_member is <<s, s>>.                      *)
(***************************************************************************)
EXTENDS Naturals, Sequences

CONSTANTS
    Shapes,          \* digests of the concrete shapes that records have
    Schemas,         \* digests of generalized shapes, a domain of their own
    Canonicalizers,  \* tags of the canonical form (a publisher's build)
    Families,
    Candidates,
    Buckets,
    BucketOf,        \* the structural bucket of a fingerprint (external)
    Publishers,      \* concurrent callers of publish
    Rebuilders       \* concurrent runs of rebuild_index

ASSUME VaultAssumption == BucketOf \in [Shapes \union Schemas -> Buckets]

Fingerprints == Shapes \union Schemas

VARIABLES
    schemas,    \* deblob:schema:<id> hashes, keyed by the ids that exist
    published,  \* deblob:published:<id> markers
    versions,   \* deblob:family:<id>: field v:N is versions[f][N]
    alias,      \* deblob:alias:<cand>
    index,      \* members of all deblob:index:* bucket sets
    listing,    \* deblob:schemas
    healthy,    \* the HealthGate flag
    calls,      \* by publisher: the call that passed the gate, script not yet run
    pc,         \* where each rebuild is
    toDrop,     \* buckets its key scan is still bound to return
    toScan,     \* schemas its schema scan is still bound to return
    current,    \* the schema it is restoring
    toAdd       \* variants of that schema still to be added

store == <<schemas, published, versions, alias>>
rebuild == <<pc, toDrop, toScan, current, toAdd>>
vars == <<store, index, listing, healthy, calls, rebuild>>

Phases == {"idle", "drop", "scan", "bucket", "hget", "variants", "failed"}

SchemaHash == [canonicalizer : Canonicalizers, family : Families,
               version : Nat, variants : SUBSET Shapes]

\* What the caller hands to RedisRegistry::publish.
Request == [schema : Schemas, canonicalizer : Canonicalizers, family : Families,
            alias_from : Candidates, variants : SUBSET Shapes]

Stored == DOMAIN schemas

-----------------------------------------------------------------------------
(* Publication.                                                             *)

Init ==
    /\ schemas = [s \in {} |-> {}]
    /\ published = [s \in {} |-> 0]
    /\ versions = [f \in Families |-> <<>>]
    /\ alias = [c \in {} |-> {}]
    /\ index = {}
    /\ listing = {}
    /\ healthy = TRUE
    /\ calls = [p \in {} |-> {}]
    /\ pc = [r \in Rebuilders |-> "idle"]
    /\ toDrop = [r \in Rebuilders |-> {}]
    /\ toScan = [r \in Rebuilders |-> {}]
    /\ current = [r \in Rebuilders |-> {}]
    /\ toAdd = [r \in Rebuilders |-> {}]

\* A partial map with key k set to v, and without key k.
Put(m, k, v) == [x \in DOMAIN m \union {k} |-> IF x = k THEN v ELSE m[x]]
Without(m, k) == [x \in DOMAIN m \ {k} |-> m[x]]

\* Both refusals are decided before the first write.
Immutability(q) ==
    /\ q.schema \in Stored
    /\ schemas[q.schema].canonicalizer # q.canonicalizer

\* Mutation: an alias that points elsewhere is no reason to refuse.
Bug_AliasConflict(q) == FALSE

AliasConflict(q) ==
    /\ q.alias_from \in DOMAIN alias
    /\ alias[q.alias_from] # q.schema

\* The allocated version: the marker's on a republish, the next one otherwise.
VersionFor(q) ==
    IF q.schema \in DOMAIN published
      THEN published[q.schema]
      ELSE Len(versions[q.family]) + 1

\* Mutation: the counter is bumped on a republish too.
Bug_AllocateVersion(q) ==
    /\ versions' = [versions EXCEPT ![q.family] = Append(@, q.schema)]
    /\ published' = Put(published, q.schema, Len(versions[q.family]) + 1)

AllocateVersion(q) ==
    IF q.schema \in DOMAIN published
      THEN UNCHANGED <<versions, published>>
      ELSE /\ versions' = [versions EXCEPT ![q.family] = Append(@, q.schema)]
           /\ published' = Put(published, q.schema, VersionFor(q))

\* Mutation: a republish rewrites the whole hash.
Bug_WriteHash(q) ==
    schemas' = Put(schemas, q.schema,
                   [canonicalizer |-> q.canonicalizer, family |-> q.family,
                    version |-> VersionFor(q), variants |-> q.variants])

\* The identity fields are written once; `variants` by every call.
WriteHash(q) ==
    schemas' = Put(schemas, q.schema,
                   IF q.schema \in Stored
                     THEN [schemas[q.schema] EXCEPT !.variants = q.variants]
                     ELSE [canonicalizer |-> q.canonicalizer,
                           family |-> q.family,
                           version |-> VersionFor(q),
                           variants |-> q.variants])

WriteAlias(q) ==
    alias' = IF q.alias_from \in DOMAIN alias
               THEN alias
               ELSE Put(alias, q.alias_from, q.schema)

\* Mutation: the two halves of a bucket member are swapped.
Bug_Members(s, vs) == {<<s, fp>> : fp \in vs \union {s}}

Members(s, vs) == {<<fp, s>> : fp \in vs \union {s}}

PublishScript(q) ==
    /\ ~Immutability(q)
    /\ ~AliasConflict(q)
    /\ AllocateVersion(q)
    /\ WriteHash(q)
    /\ WriteAlias(q)
    /\ index' = index \union Members(q.schema, q.variants)
    /\ listing' = listing \union {q.schema}

\* Mutation: the index is written before the refusals are decided.
Bug_PublishRefused(q) ==
    /\ Immutability(q) \/ AliasConflict(q)
    /\ index' = index \union Members(q.schema, q.variants)
    /\ UNCHANGED <<store, listing>>

PublishRefused(q) ==
    /\ Immutability(q) \/ AliasConflict(q)
    /\ UNCHANGED <<store, index, listing>>

\* publish(): the gate is an atomic load, the script a later round trip.
PublishCall(p, q) ==
    /\ p \notin DOMAIN calls
    /\ healthy
    /\ calls' = Put(calls, p, q)
    /\ UNCHANGED <<store, index, listing, healthy, rebuild>>

PublishRun(p) ==
    /\ p \in DOMAIN calls
    /\ calls' = Without(calls, p)
    /\ PublishScript(calls[p]) \/ PublishRefused(calls[p])
    /\ UNCHANGED <<healthy, rebuild>>

\* The round trip fails before the server runs the script.
PublishLost(p) ==
    /\ p \in DOMAIN calls
    /\ calls' = Without(calls, p)
    /\ UNCHANGED <<store, index, listing, healthy, rebuild>>

\* One tick of the background probe: Redis persistence may be found either way.
Probe ==
    /\ healthy' \in BOOLEAN
    /\ healthy' # healthy
    /\ UNCHANGED <<store, index, listing, calls, rebuild>>

-----------------------------------------------------------------------------
(* rebuild_index.  Redis SCAN returns every key that exists from the start  *)
(* of the iteration to its end, may return one that came or went meanwhile, *)
(* and may return a key twice.                                              *)

InBucket(b) == {e \in index : BucketOf[e[1]] = b}
LiveBuckets == {b \in Buckets : InBucket(b) # {}}

RebuildStart(r) ==
    /\ pc[r] \in {"idle", "failed"}
    /\ pc' = [pc EXCEPT ![r] = "drop"]
    /\ toDrop' = [toDrop EXCEPT ![r] = LiveBuckets]
    /\ UNCHANGED <<store, index, listing, healthy, calls, toScan, current, toAdd>>

\* delete_matching: DEL of a bucket key the scan returned.
DropBucket(r, b) ==
    /\ pc[r] = "drop"
    /\ b \in toDrop[r] \union LiveBuckets
    /\ index' = index \ InBucket(b)
    /\ toDrop' = [toDrop EXCEPT ![r] = @ \ {b}]
    /\ UNCHANGED <<store, listing, healthy, calls, pc, toScan, current, toAdd>>

\* Mutation: the schemas to restore are taken from the listing, not by a SCAN.
Bug_DropListing(r) ==
    /\ pc[r] = "drop"
    /\ toDrop[r] = {}
    /\ listing' = {}
    /\ pc' = [pc EXCEPT ![r] = "scan"]
    /\ toScan' = [toScan EXCEPT ![r] = listing]
    /\ UNCHANGED <<store, index, healthy, calls, toDrop, current, toAdd>>

\* DEL deblob:schemas, then the first SCAN of the schema hashes.
DropListing(r) ==
    /\ pc[r] = "drop"
    /\ toDrop[r] = {}
    /\ listing' = {}
    /\ pc' = [pc EXCEPT ![r] = "scan"]
    /\ toScan' = [toScan EXCEPT ![r] = Stored]
    /\ UNCHANGED <<store, index, healthy, calls, toDrop, current, toAdd>>

\* A scanned key: SADD to the listing first ...
RestoreListing(r, s) ==
    /\ pc[r] = "scan"
    /\ s \in Stored
    /\ listing' = listing \union {s}
    /\ current' = [current EXCEPT ![r] = {s}]
    /\ pc' = [pc EXCEPT ![r] = "bucket"]
    /\ UNCHANGED <<store, index, healthy, calls, toDrop, toScan, toAdd>>

\* ... then its own digest into the bucket its hash records ...
RestoreBucket(r, s) ==
    /\ pc[r] = "bucket"
    /\ s \in current[r]
    /\ index' = index \union {<<s, s>>}
    /\ pc' = [pc EXCEPT ![r] = "hget"]
    /\ UNCHANGED <<store, listing, healthy, calls, toDrop, toScan, current, toAdd>>

\* ... then HGET variants ...
ReadVariants(r, s) ==
    /\ pc[r] = "hget"
    /\ s \in current[r]
    /\ toAdd' = [toAdd EXCEPT ![r] = schemas[s].variants]
    /\ pc' = [pc EXCEPT ![r] = "variants"]
    /\ UNCHANGED <<store, index, listing, healthy, calls, toDrop, toScan, current>>

\* ... and one SADD per decoded variant, before the next key.
RestoreVariant(r, s, fp) ==
    /\ pc[r] = "variants"
    /\ s \in current[r]
    /\ fp \in toAdd[r]
    /\ index' = index \union {<<fp, s>>}
    /\ toAdd' = [toAdd EXCEPT ![r] = @ \ {fp}]
    /\ UNCHANGED <<store, listing, healthy, calls, pc, toDrop, toScan, current>>

RestoredSchema(r) ==
    /\ pc[r] = "variants"
    /\ toAdd[r] = {}
    /\ toScan' = [toScan EXCEPT ![r] = @ \ current[r]]
    /\ current' = [current EXCEPT ![r] = {}]
    /\ pc' = [pc EXCEPT ![r] = "scan"]
    /\ UNCHANGED <<store, index, listing, healthy, calls, toDrop, toAdd>>

RebuildDone(r) ==
    /\ pc[r] = "scan"
    /\ toScan[r] = {}
    /\ pc' = [pc EXCEPT ![r] = "idle"]
    /\ UNCHANGED <<store, index, listing, healthy, calls, toDrop, toScan, current, toAdd>>

\* Any command's redis_err returns from rebuild_index (or the process dies).
RebuildFails(r) ==
    /\ pc[r] \notin {"idle", "failed"}
    /\ pc' = [pc EXCEPT ![r] = "failed"]
    /\ toDrop' = [toDrop EXCEPT ![r] = {}]
    /\ toScan' = [toScan EXCEPT ![r] = {}]
    /\ current' = [current EXCEPT ![r] = {}]
    /\ toAdd' = [toAdd EXCEPT ![r] = {}]
    /\ UNCHANGED <<store, index, listing, healthy, calls>>

Publishing ==
    \/ \E p \in Publishers, q \in Request : PublishCall(p, q)
    \/ \E p \in Publishers : PublishRun(p)
    \/ \E p \in Publishers : PublishLost(p)
    \/ Probe

RebuildStep(r) ==
    \/ RebuildStart(r)
    \/ \E b \in Buckets : DropBucket(r, b)
    \/ DropListing(r)
    \/ \E s \in Schemas : RestoreListing(r, s)
    \/ \E s \in Schemas : RestoreBucket(r, s)
    \/ \E s \in Schemas : ReadVariants(r, s)
    \/ \E s \in Schemas, fp \in Shapes : RestoreVariant(r, s, fp)
    \/ RestoredSchema(r)
    \/ RebuildDone(r)
    \/ RebuildFails(r)

Next == Publishing \/ \E r \in Rebuilders : RebuildStep(r)

Spec == Init /\ [][Next]_vars

-----------------------------------------------------------------------------
(* Readers of the vault.                                                    *)

\* verify_index, run while nothing else does: both directions of its sweep.
VerifyIndex ==
    {e \in index : e[2] \notin Stored} \union ({<<s, s>> : s \in Stored} \ index)

Quiescent == \A r \in Rebuilders : pc[r] = "idle"

-----------------------------------------------------------------------------
(* Properties.                                                              *)

\* Every Redis key and every rebuild's local has its type, and a rebuild only
\* restores schemas that have a hash.
TypeOK ==
    /\ Stored \subseteq Schemas
    /\ schemas \in [Stored -> SchemaHash]
    /\ DOMAIN published \subseteq Schemas
    /\ published \in [DOMAIN published -> Nat]
    /\ versions \in [Families -> Seq(Schemas)]
    /\ DOMAIN alias \subseteq Candidates
    /\ alias \in [DOMAIN alias -> Schemas]
    /\ index \subseteq Fingerprints \X Schemas
    /\ listing \subseteq Schemas
    /\ healthy \in BOOLEAN
    /\ DOMAIN calls \subseteq Publishers
    /\ calls \in [DOMAIN calls -> Request]
    /\ pc \in [Rebuilders -> Phases]
    /\ toDrop \in [Rebuilders -> SUBSET Buckets]
    /\ toScan \in [Rebuilders -> SUBSET Stored]
    /\ current \in [Rebuilders -> SUBSET Stored]
    /\ toAdd \in [Rebuilders -> SUBSET Shapes]

\* A (family, version) pair names one schema and a schema has one pair, for
\* ever: the counter, the v:N fields, the published markers and the hashes
\* agree whatever retries and cross-family republications happened.
VersionsAgree ==
    /\ Stored = DOMAIN published
    /\ \A s \in Stored :
          LET h == schemas[s]
          IN  /\ h.version = published[s]
              /\ h.version \in 1..Len(versions[h.family])
              /\ versions[h.family][h.version] = s
    /\ \A f \in Families : \A n \in 1..Len(versions[f]) :
          LET s == versions[f][n]
          IN  s \in Stored /\ schemas[s].family = f /\ schemas[s].version = n

\* Publication is one transition: an alias, an index member or a listing
\* entry never points at a schema that has no hash, also in the middle of a
\* rebuild or after one that died.
NothingDangles ==
    /\ \A c \in DOMAIN alias : alias[c] \in Stored
    /\ \A e \in index : e[2] \in Stored
    /\ listing \subseteq Stored

\* The index is disposable: once every rebuild that was started has finished,
\* it holds every schema's own digest and recorded variants, whatever was
\* published while the rebuilds dropped and refilled it.
IndexComplete ==
    Quiescent =>
        /\ listing = Stored
        /\ \A s \in Stored : Members(s, schemas[s].variants) \subseteq index
        /\ VerifyIndex = {}

\* Why IndexComplete holds: a member that is missing from the index is owed by
\* a rebuild that has yet to scan its schema, or to reach that member of it.
Owes(r, s, fp) ==
    \/ pc[r] \in {"drop", "failed"}
    \/ /\ s \in toScan[r]
       /\ s \in current[r] =>
             IF fp = s THEN pc[r] = "bucket"
                       ELSE pc[r] \in {"bucket", "hget"} \/ fp \in toAdd[r]

OwesListing(r, s) == pc[r] \in {"drop", "failed"} \/ s \in toScan[r] \ current[r]

MissingIsOwed ==
    \A s \in Stored :
        /\ s \in listing \/ \E r \in Rebuilders : OwesListing(r, s)
        /\ \A fp \in schemas[s].variants \union {s} :
              <<fp, s>> \in index \/ \E r \in Rebuilders : Owes(r, s, fp)

\* A rebuild restores one schema at a time, and has none to scan when it is idle.
RebuildWellFormed ==
    \A r \in Rebuilders :
        /\ \A s, t \in current[r] : s = t
        /\ current[r] # {} => pc[r] \in {"bucket", "hget", "variants"}
        /\ toScan[r] # {} => pc[r] \notin {"idle", "drop", "failed"}

\* An alias, a schema's identity fields and an allocated version are never
\* changed or taken back.
AppendOnly ==
    [][/\ \A c \in DOMAIN alias : c \in DOMAIN alias' /\ alias'[c] = alias[c]
       /\ \A s \in Stored :
             /\ s \in Stored'
             /\ schemas'[s].canonicalizer = schemas[s].canonicalizer
             /\ schemas'[s].family = schemas[s].family
             /\ schemas'[s].version = schemas[s].version
       /\ \A f \in Families : \A n \in 1..Len(versions[f]) :
             n <= Len(versions'[f]) /\ versions'[f][n] = versions[f][n]]_vars

=============================================================================
