--------------------------- MODULE SemanticStore ---------------------------
(***************************************************************************)
(* Semantic revisions in Redis: the append-only history of a schema, its   *)
(* mutable active pointer, the reverse index and the feature postings, the *)
(* annotation endpoint that moves them and the rebuild that recomputes     *)
(* them.                                                                   *)
(*                                                                         *)
(* A PUT mints a revision id, runs one script, and then, when it appended, *)
(* runs the two diagnostics over what it reads.  A client may lose the     *)
(* reply of the script and send the same PUT again.  The rebuild is a      *)
(* sequence of separate commands.                                          *)
(***************************************************************************)
EXTENDS Integers, Sequences, FiniteSets

CONSTANTS
  Schemas, Clients,
  NoSem,        \* where there is no sem_
  Metas,        \* the metadata a client may assert
  SemOf,        \* the function from metadata to its sem_ (canonical bytes, hashed)
  KeysOf,       \* the function from metadata to its signature's feature keys
  Allowed,      \* the pairs of a schema and metadata put_semantic lets through
  Priors,       \* the function from a schema to its family's earlier versions
  MaxRevisions, \* bound: revisions minted
  Online        \* whether clients write while a rebuild runs

ASSUME MetaFunctions == DOMAIN SemOf = Metas /\ DOMAIN KeysOf = Metas
ASSUME BoundsAreNatural == MaxRevisions \in Nat /\ Online \in BOOLEAN

Sems == {SemOf[m] : m \in Metas}
Features == UNION {KeysOf[m] : m \in Metas}

ASSUME NoSemIsNone == NoSem \notin Sems
ASSUME PriorsAssumption == \A s \in Schemas : Priors[s] \subseteq Schemas

VARIABLES
  hist,       \* deblob:sem-rev:<sch>:*, in the order the script wrote them
  active,     \* deblob:sem-active:<sch>; etag 0 where there is none
  index,      \* deblob:sem-index:<sem>
  postings,   \* deblob:sem-sig:<feature>
  population, \* deblob:sem-active-schemas
  minted,     \* the revision ids minted so far (UUIDv7: ordered by time)
  seen,       \* the etag of each schema a client last learnt
  put,        \* where a client's PUT stands
  rebuild     \* where the rebuild stands

store == <<hist, active, index, postings, population>>
vars == <<hist, active, index, postings, population, minted, seen, put, rebuild>>

Unannotated == [rev |-> 0, sem |-> NoSem, etag |-> 0, keys |-> {}]
Idle == [at |-> "idle"]

Init ==
  /\ hist = [s \in Schemas |-> <<>>]
  /\ active = [s \in Schemas |-> Unannotated]
  /\ index = [x \in Sems |-> {}]
  /\ postings = [f \in Features |-> {}]
  /\ population = {}
  /\ minted = 0
  /\ seen = [c \in Clients |-> [s \in Schemas |-> 0]]
  /\ put = [c \in Clients |-> Idle]
  /\ rebuild = Idle

\* The revision an id names, and the metadata the pointer stands for.
RevisionOf(s, id) == hist[s][CHOOSE i \in DOMAIN hist[s] : hist[s][i].id = id]
ActiveMeta(s) == RevisionOf(s, active[s].rev).meta

----------------------------------------------------------------------------
(* GET and PUT /schemas/{id}/semantic *)

\* get_semantic: the active assertion and its ETag; 404 where there is none.
GetSemantic(c, s) ==
  /\ put[c] = Idle
  /\ active[s].etag # 0
  /\ seen' = [seen EXCEPT ![c][s] = active[s].etag]
  /\ UNCHANGED <<hist, active, index, postings, population, minted, put, rebuild>>

\* put_semantic up to the script: the request is valid, If-Match carries the
\* etag the client knows (absent stands for 0), the revision id is minted.
PutSemantic(c, s, m, reason) ==
  /\ put[c] = Idle
  /\ <<s, m>> \in Allowed
  /\ minted < MaxRevisions
  /\ minted' = minted + 1
  /\ put' = [put EXCEPT ![c] = [at |-> "script", sch |-> s, meta |-> m, reason |-> reason,
                                id |-> minted + 1, expected |-> seen[c][s]]]
  /\ UNCHANGED <<hist, active, index, postings, population, seen, rebuild>>

\* Mutants: no compare-and-swap; the replay recognised by its metadata as sent
\* and not by its canonical bytes.
Bug_VerdictNoCas(p) ==
  IF active[p.sch].etag # 0 /\ SemOf[ActiveMeta(p.sch)] = SemOf[p.meta] THEN "already_active"
  ELSE IF ~p.reason THEN "missing_reason" ELSE "appended"
Bug_VerdictAsSent(p) ==
  IF active[p.sch].etag # 0 /\ ActiveMeta(p.sch) = p.meta THEN "already_active"
  ELSE IF ~p.reason THEN "missing_reason"
  ELSE IF p.expected # active[p.sch].etag THEN "etag_conflict"
  ELSE "appended"
\* SEM_APPEND_SCRIPT's verdict on a request, in its order.
Verdict(p) ==
  IF active[p.sch].etag # 0 /\ SemOf[ActiveMeta(p.sch)] = SemOf[p.meta] THEN "already_active"
  ELSE IF ~p.reason THEN "missing_reason"
  ELSE IF p.expected # active[p.sch].etag THEN "etag_conflict"
  ELSE "appended"

\* The writes of an append, all in one transition.  The features to unlink are
\* the ones the pointer carries, never recomputed.
UnlinkedKeys(s) == active[s].keys
WriteRevision(p) ==
  hist' = [hist EXCEPT ![p.sch] = Append(@, [id |-> p.id, meta |-> p.meta,
                                             prev |-> active[p.sch].rev])]
AdvancePointer(p) ==
  active' = [active EXCEPT ![p.sch] = [rev |-> p.id, sem |-> SemOf[p.meta],
                                       etag |-> @.etag + 1, keys |-> KeysOf[p.meta]]]
SwapIndex(p) ==
  index' = [x \in Sems |-> IF x = SemOf[p.meta] THEN index[x] \cup {p.sch}
                           ELSE IF x = active[p.sch].sem THEN index[x] \ {p.sch}
                           ELSE index[x]]
\* Mutant: the new features are linked before the old ones are unlinked.
Bug_SwapPostings(p) ==
  postings' = [f \in Features |->
                 IF f \in UnlinkedKeys(p.sch) THEN postings[f] \ {p.sch}
                 ELSE IF f \in KeysOf[p.meta] THEN postings[f] \cup {p.sch}
                 ELSE postings[f]]
SwapPostings(p) ==
  postings' = [f \in Features |->
                 IF f \in KeysOf[p.meta] THEN postings[f] \cup {p.sch}
                 ELSE IF f \in UnlinkedKeys(p.sch) THEN postings[f] \ {p.sch}
                 ELSE postings[f]]
AppendWrites(p) ==
  /\ WriteRevision(p)
  /\ AdvancePointer(p)
  /\ SwapIndex(p)
  /\ SwapPostings(p)
  /\ population' = population \cup {p.sch}

\* What the client is told: the revision and the etag of the same transition.
Reply(p, verdict) ==
  IF verdict = "appended"
    THEN [rev |-> p.id, etag |-> active[p.sch].etag + 1]
    ELSE [rev |-> active[p.sch].rev, etag |-> active[p.sch].etag]

WritersMayRun == Online \/ rebuild = Idle

Append_(c) ==
  LET p == put[c] IN
  /\ p.at = "script"
  /\ WritersMayRun
  /\ Verdict(p) = "appended"
  /\ AppendWrites(p)
  /\ put' = [put EXCEPT ![c] = [at |-> "collisions", sch |-> p.sch, meta |-> p.meta,
                                reply |-> Reply(p, "appended")]]
  /\ seen' = [seen EXCEPT ![c][p.sch] = Reply(p, "appended").etag]
  /\ UNCHANGED <<minted, rebuild>>

\* Idempotent replay: 200 with the revision that is active already.
Replay(c) ==
  LET p == put[c] IN
  /\ p.at = "script"
  /\ Verdict(p) = "already_active"
  /\ put' = [put EXCEPT ![c] = [at |-> "answered", sch |-> p.sch, meta |-> p.meta,
                                reply |-> Reply(p, "already_active")]]
  /\ seen' = [seen EXCEPT ![c][p.sch] = active[p.sch].etag]
  /\ UNCHANGED <<hist, active, index, postings, population, minted, rebuild>>

\* 400 and 409.  The conflict carries the current etag.
Refused(c) ==
  LET p == put[c] IN
  /\ p.at = "script"
  /\ Verdict(p) \in {"missing_reason", "etag_conflict"}
  /\ put' = [put EXCEPT ![c] = Idle]
  /\ seen' = IF Verdict(p) = "etag_conflict"
               THEN [seen EXCEPT ![c][p.sch] = active[p.sch].etag] ELSE seen
  /\ UNCHANGED <<hist, active, index, postings, population, minted, rebuild>>

\* The script runs and its reply is lost: the client knows nothing of it and
\* sends the same request again with a new revision id.
ReplyLost(c) ==
  LET p == put[c] IN
  /\ p.at = "script"
  /\ WritersMayRun
  /\ minted < MaxRevisions
  /\ minted' = minted + 1
  /\ IF Verdict(p) = "appended" THEN AppendWrites(p) ELSE UNCHANGED store
  /\ put' = [put EXCEPT ![c].id = minted + 1]
  /\ UNCHANGED <<seen, rebuild>>

\* scan_semantic_collisions: the reverse index is read, and then the metadata
\* of its first member, for every pair.
ScanCollisions(c) ==
  LET p == put[c] IN
  /\ p.at = "collisions"
  /\ put' = [put EXCEPT ![c] =
       IF Cardinality(index[SemOf[p.meta]]) < 2
         THEN [p EXCEPT !.at = "drift"]
         ELSE [at |-> "metadata", sch |-> p.sch, meta |-> p.meta, reply |-> p.reply,
               members |-> index[SemOf[p.meta]]]]
  /\ UNCHANGED <<hist, active, index, postings, population, minted, seen, rebuild>>
ReadFirstMember(c) ==
  LET p == put[c] IN
  /\ p.at = "metadata"
  /\ \E first \in p.members :
       put' = [put EXCEPT ![c] = [at |-> "drift", sch |-> p.sch, meta |-> p.meta,
                                  reply |-> p.reply, classified |-> active[first].sem]]
  /\ UNCHANGED <<hist, active, index, postings, population, minted, seen, rebuild>>

\* check_family_version_drift for every earlier version of the family: each
\* reads both pointers; nothing but a counter depends on them.
CheckDrift(c) ==
  LET p == put[c] IN
  /\ p.at = "drift"
  /\ put' = [put EXCEPT ![c] = [at |-> "answered", sch |-> p.sch, meta |-> p.meta,
                                reply |-> p.reply,
                                drift |-> {q \in Priors[p.sch] :
                                             /\ active[q].sem # NoSem
                                             /\ active[q].sem # active[p.sch].sem}]]
  /\ UNCHANGED <<hist, active, index, postings, population, minted, seen, rebuild>>

\* The answer, 201 or 200, leaves with the etag the script returned.
Answer(c) ==
  /\ put[c].at = "answered"
  /\ put' = [put EXCEPT ![c] = Idle]
  /\ UNCHANGED <<hist, active, index, postings, population, minted, seen, rebuild>>

----------------------------------------------------------------------------
(* rebuild_semantic_index *)

WritersQuiet == Online \/ \A c \in Clients : put[c].at # "script"

RebuildStart ==
  /\ rebuild = Idle
  /\ WritersQuiet
  /\ rebuild' = [at |-> "drop_index"]
  /\ UNCHANGED <<hist, active, index, postings, population, minted, seen, put>>
DropIndex ==
  /\ rebuild.at = "drop_index"
  /\ index' = [x \in Sems |-> {}]
  /\ rebuild' = [at |-> "drop_postings"]
  /\ UNCHANGED <<hist, active, postings, population, minted, seen, put>>
DropPostings ==
  /\ rebuild.at = "drop_postings"
  /\ postings' = [f \in Features |-> {}]
  /\ rebuild' = [at |-> "drop_population"]
  /\ UNCHANGED <<hist, active, index, population, minted, seen, put>>
DropPopulation ==
  /\ rebuild.at = "drop_population"
  /\ population' = {}
  /\ rebuild' = [at |-> "scan", left |-> {s \in Schemas : active[s].etag # 0}]
  /\ UNCHANGED <<hist, active, index, postings, minted, seen, put>>
\* HMGET sem_id revision_id of the next pointer of the SCAN.
ReadPointer(s) ==
  /\ rebuild.at = "scan"
  /\ s \in rebuild.left
  /\ rebuild' = [at |-> "link", left |-> rebuild.left \ {s}, sch |-> s,
                 sem |-> active[s].sem, rev |-> active[s].rev]
  /\ UNCHANGED <<hist, active, index, postings, population, minted, seen, put>>
LinkIndex ==
  /\ rebuild.at = "link"
  /\ index' = [index EXCEPT ![rebuild.sem] = @ \cup {rebuild.sch}]
  /\ rebuild' = [rebuild EXCEPT !.at = "populate"]
  /\ UNCHANGED <<hist, active, postings, population, minted, seen, put>>
LinkPopulation ==
  /\ rebuild.at = "populate"
  /\ population' = population \cup {rebuild.sch}
  /\ rebuild' = [rebuild EXCEPT !.at = "post"]
  /\ UNCHANGED <<hist, active, index, postings, minted, seen, put>>
\* One SADD per feature of the revision that was read, then the pointer's own
\* list of features is overwritten.
LinkPostings ==
  LET keys == KeysOf[RevisionOf(rebuild.sch, rebuild.rev).meta] IN
  /\ rebuild.at = "post"
  /\ postings' = [f \in Features |-> IF f \in keys THEN postings[f] \cup {rebuild.sch}
                                     ELSE postings[f]]
  /\ rebuild' = [rebuild EXCEPT !.at = "keys"]
  /\ UNCHANGED <<hist, active, index, population, minted, seen, put>>
StoreKeys ==
  /\ rebuild.at = "keys"
  /\ active' = [active EXCEPT ![rebuild.sch].keys =
                  KeysOf[RevisionOf(rebuild.sch, rebuild.rev).meta]]
  /\ rebuild' = [at |-> "scan", left |-> rebuild.left]
  /\ UNCHANGED <<hist, index, postings, population, minted, seen, put>>
RebuildDone ==
  /\ rebuild.at = "scan"
  /\ rebuild.left = {}
  /\ rebuild' = Idle
  /\ UNCHANGED <<hist, active, index, postings, population, minted, seen, put>>

RebuildStep ==
  \/ RebuildStart \/ DropIndex \/ DropPostings \/ DropPopulation
  \/ \E s \in Schemas : ReadPointer(s)
  \/ LinkIndex \/ LinkPopulation \/ LinkPostings \/ StoreKeys \/ RebuildDone

ClientStep(c) ==
  \/ \E s \in Schemas : GetSemantic(c, s)
  \/ \E s \in Schemas, m \in Metas, reason \in BOOLEAN : PutSemantic(c, s, m, reason)
  \/ Append_(c) \/ Replay(c) \/ Refused(c) \/ ReplyLost(c)
  \/ ScanCollisions(c) \/ ReadFirstMember(c) \/ CheckDrift(c) \/ Answer(c)

Next == RebuildStep \/ \E c \in Clients : ClientStep(c)
Spec == Init /\ [][Next]_vars

----------------------------------------------------------------------------
(* Properties *)

\* Between rebuilds the reverse index, the postings and the population say of
\* every schema exactly what its active revision says, and the pointer carries
\* the features that the next append must unlink (SEM_APPEND_SCRIPT swaps them
\* without recomputing; rebuild_semantic_index must leave the same thing).
IndexMirrorsPointers ==
  rebuild = Idle =>
    \A s \in Schemas :
      /\ \A x \in Sems : s \in index[x] <=> active[s].sem = x
      /\ \A f \in Features : s \in postings[f] <=>
           (active[s].etag # 0 /\ f \in KeysOf[ActiveMeta(s)])
      /\ s \in population <=> active[s].etag # 0
      /\ active[s].etag # 0 => active[s].keys = KeysOf[ActiveMeta(s)]

\* The history sorted by revision id, as `revisions` returns it, is the chain
\* of previous_revision_id, and the etag counts it: no client that sends the
\* etag it was told can fork or reorder a history, although ids are minted
\* before the script runs.
HistoryIsAChain ==
  \A s \in Schemas :
    LET h == hist[s] IN
    /\ active[s].etag = Len(h)
    /\ Len(h) > 0 => active[s].rev = h[Len(h)].id
    /\ \A i \in DOMAIN h : h[i].prev = (IF i = 1 THEN 0 ELSE h[i - 1].id)
    /\ \A i, j \in DOMAIN h : i < j => h[i].id < h[j].id

\* The ETag header of an answer and the revision in its body describe the same
\* revision, whatever other clients did since (put_semantic never re-reads).
EtagDescribesBody ==
  \A c \in Clients :
    put[c].at \in {"collisions", "metadata", "drift", "answered"} =>
      hist[put[c].sch][put[c].reply.etag].id = put[c].reply.rev

\* Optimistic concurrency works out for every client: histories do not fork, and
\* what a client was told is a revision of one.
AnswersMatchHistory == HistoryIsAChain /\ EtagDescribesBody

\* A retried PUT whose first reply was lost never appends its assertion twice
\* in a row: an append always changes what the schema means.
EveryRevisionChangesMeaning ==
  \A s \in Schemas : \A i \in 2..Len(hist[s]) :
    SemOf[hist[s][i].meta] # SemOf[hist[s][i - 1].meta]

=============================================================================
