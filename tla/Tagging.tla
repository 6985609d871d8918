------------------------------- MODULE Tagging -------------------------------
(***************************************************************************)
(* How a record gets its tag: the relay's settle-and-sample state in front  *)
(* of the hot matcher, whose LRU cache of shape -> schema is shared with    *)
(* the HTTP proxy and stands in front of the registry's structural index.   *)
(*                                                                          *)
(*   deblob-kafka/src/relay.rs    SettleState::before and after             *)
(*   deblob-match/src/matcher.rs  HotMatcher::classify                      *)
(*                                                                          *)
(* A classification that misses the cache awaits the registry, and other    *)
(* lanes go on meanwhile.  Tombstones and oversized records are routed      *)
(* before any of this (see Relay).                                          *)
(***************************************************************************)
EXTENDS Naturals, Sequences

CONSTANTS
    Sources,
    Allowed,      \* the sources settle-and-sample is enabled for
    SettleAfter,  \* settle_after
    SampleRate,   \* sample_rate
    CounterMax,   \* the largest value of the u32 counters
    Shapes,
    Malformed,    \* a payload that fails parse_bounded
    Schemas,
    Nothing,      \* Option::None
    LruCapacity,
    RelayLane,    \* the relay's loop
    ProxyLanes    \* requests of the HTTP proxy

Lanes == {RelayLane} \union ProxyLanes

ASSUME TaggingAssumption ==
    /\ Allowed \subseteq Sources
    /\ CounterMax \in Nat \ {0}
    /\ SettleAfter \in 0..CounterMax /\ SampleRate \in 0..CounterMax
    /\ LruCapacity \in Nat
    /\ Malformed \notin Shapes /\ Nothing \notin Schemas /\ RelayLane \notin ProxyLanes

VARIABLES
    settle,    \* per_source: SourceSettle
    lru,       \* <<shape, schema>> entries, least recently used first
    resolves,  \* the schemas the structural index has for each shape
    pending,   \* by lane: the classification that awaits the registry
    verdicts,  \* by source: the latest classifications (history)
    skipped,   \* by source: records fast-pathed since the last one (history)
    everHad    \* every <<shape, schema>> the index has had (history)

history == <<verdicts, skipped, everHad>>
taggingVars == <<settle, lru, resolves, pending, history>>

NewSource == [known |-> Nothing, consecutive |-> 0, settled |-> FALSE, since_sample |-> 0]
NotPending == [source |-> Nothing, shape |-> Malformed, drift_check |-> FALSE]

TaggingInit ==
    /\ settle = [s \in Sources |-> NewSource]
    /\ lru = <<>>
    /\ resolves = [x \in Shapes |-> {}]
    /\ pending = [l \in Lanes |-> NotPending]
    /\ verdicts = [s \in Sources |-> <<>>]
    /\ skipped = [s \in Sources |-> 0]
    /\ everHad = {}

-----------------------------------------------------------------------------
(* Settle-and-sample.                                                       *)

Settles(src) == SampleRate > 1 /\ src \in Allowed

\* before: is the next record of a settled source its periodic sample?
Due(src) == settle[src].since_sample + 1 >= SampleRate
FastPaths(src) == Settles(src) /\ settle[src].settled /\ ~Due(src)
DriftCheck(src) == Settles(src) /\ settle[src].settled /\ Due(src)

\* Mutation: something unknown ends the run, and the source stays settled.
Bug_After(s, known, drift_check) ==
    CASE known = Nothing -> [s EXCEPT !.consecutive = 0]
      [] known # Nothing /\ s.known = known /\ drift_check ->
            [s EXCEPT !.consecutive = IF @ = CounterMax THEN @ ELSE @ + 1]
      [] known # Nothing /\ s.known = known /\ ~drift_check ->
            [s EXCEPT !.consecutive = @ + 1, !.settled = @ \/ s.consecutive + 1 >= SettleAfter]
      [] known # Nothing /\ s.known # known ->
            [NewSource EXCEPT !.known = known, !.consecutive = 1]

\* after: what a classification makes of the source's state.
After(s, known, drift_check) ==
    CASE known = Nothing -> NewSource
      [] known # Nothing /\ s.known = known /\ drift_check ->
            [s EXCEPT !.consecutive = IF @ = CounterMax THEN @ ELSE @ + 1]
      [] known # Nothing /\ s.known = known /\ ~drift_check ->
            [s EXCEPT !.consecutive = @ + 1, !.settled = @ \/ s.consecutive + 1 >= SettleAfter]
      [] known # Nothing /\ s.known # known ->
            [NewSource EXCEPT !.known = known, !.consecutive = 1]

\* A settled source has seen at least this many agreeing classifications.
Evidence == IF SettleAfter < 2 THEN 2 ELSE SettleAfter

LastVerdicts(vs, v) ==
    LET all == Append(vs, v)
    IN  IF Len(all) > Evidence THEN Tail(all) ELSE all

\* The verdict on a record, known or Nothing; s is the source's state once
\* before has been called.  Only the relay's lane feeds the settle state.
Classified(l, src, s, known, drift_check) ==
    IF l = RelayLane
      THEN /\ settle' = [settle EXCEPT ![src] = IF Settles(src) THEN After(s, known, drift_check)
                                                               ELSE s]
           /\ verdicts' = [verdicts EXCEPT ![src] = LastVerdicts(@, known)]
           /\ skipped' = [skipped EXCEPT ![src] = 0]
      ELSE UNCHANGED <<settle, verdicts, skipped>>

\* Mutation: the sample counter is never advanced.
Bug_FastPath(src) ==
    /\ pending[RelayLane] = NotPending
    /\ FastPaths(src)
    /\ skipped[src] < CounterMax
    /\ skipped' = [skipped EXCEPT ![src] = @ + 1]
    /\ UNCHANGED <<settle, lru, resolves, pending, verdicts, everHad>>

\* A record of a settled source is tagged with the cached id, unread.
FastPath(src) ==
    /\ pending[RelayLane] = NotPending
    /\ FastPaths(src)
    /\ settle' = [settle EXCEPT ![src].since_sample = @ + 1]
    /\ skipped' = [skipped EXCEPT ![src] = @ + 1]
    /\ UNCHANGED <<lru, resolves, pending, verdicts, everHad>>

-----------------------------------------------------------------------------
(* HotMatcher::classify.                                                    *)

Cached(x) == \E i \in 1..Len(lru) : lru[i][1] = x
Entry(x) == CHOOSE i \in 1..Len(lru) : lru[i][1] = x
CachedId(x) == lru[Entry(x)][2]

\* The cache without the entry of x: a key has one entry at most.
Others(x) ==
    IF Cached(x) THEN SubSeq(lru, 1, Entry(x) - 1) \o SubSeq(lru, Entry(x) + 1, Len(lru))
    ELSE lru

Capacity == IF LruCapacity = 0 THEN 1 ELSE LruCapacity

\* lru.put: the newest entry, at the cost of the oldest.
LruPut(x, id) ==
    LET all == Append(Others(x), <<x, id>>)
    IN  IF Len(all) > Capacity THEN Tail(all) ELSE all

\* A record reaches a lane and is classified as far as the cache goes.
Classify(l, src, payload) ==
    LET drift_check == l = RelayLane /\ DriftCheck(src)
        s == IF drift_check THEN [settle[src] EXCEPT !.since_sample = 0] ELSE settle[src]
    IN  /\ pending[l] = NotPending
        /\ l = RelayLane => ~FastPaths(src)
        /\ \/ /\ payload = Malformed
              /\ Classified(l, src, s, Nothing, drift_check)
              /\ UNCHANGED <<lru, pending>>
           \/ /\ payload # Malformed
              /\ Cached(payload)
              /\ lru' = Append(Others(payload), <<payload, CachedId(payload)>>)
              /\ Classified(l, src, s, CachedId(payload), drift_check)
              /\ UNCHANGED pending
           \/ /\ payload # Malformed
              /\ ~Cached(payload)
              /\ pending' = [pending EXCEPT ![l] = [source |-> src, shape |-> payload,
                                                    drift_check |-> drift_check]]
              /\ settle' = [settle EXCEPT ![src] = s]
              /\ UNCHANGED <<lru, verdicts, skipped>>
        /\ UNCHANGED <<resolves, everHad>>

\* The registry's answer: a hit is cached; a miss makes the record provisional.
Resolved(l, id) ==
    LET c == pending[l]
    IN  /\ c # NotPending
        /\ \/ id \in resolves[c.shape] /\ lru' = LruPut(c.shape, id)
           \/ id = Nothing /\ resolves[c.shape] = {} /\ UNCHANGED lru
        /\ Classified(l, c.source, settle[c.source], id, c.drift_check)
        /\ pending' = [pending EXCEPT ![l] = NotPending]
        /\ UNCHANGED <<resolves, everHad>>

\* Or its failure: unresolved.
Unresolved(l) ==
    LET c == pending[l]
    IN  /\ c # NotPending
        /\ Classified(l, c.source, settle[c.source], Nothing, c.drift_check)
        /\ pending' = [pending EXCEPT ![l] = NotPending]
        /\ UNCHANGED <<lru, resolves, everHad>>

\* The index of a shape changes: a publication adds to it, a rebuild empties
\* and refills it (see Vault).
IndexChanges(x, ids) ==
    /\ resolves' = [resolves EXCEPT ![x] = ids]
    /\ everHad' = everHad \union ({x} \X ids)
    /\ UNCHANGED <<settle, lru, pending, verdicts, skipped>>

TaggingNext ==
    \/ \E src \in Sources : FastPath(src)
    \/ \E l \in Lanes, src \in Sources, payload \in Shapes \union {Malformed} :
          Classify(l, src, payload)
    \/ \E l \in Lanes, id \in Schemas \union {Nothing} : Resolved(l, id)
    \/ \E l \in Lanes : Unresolved(l)
    \/ \E x \in Shapes, ids \in SUBSET Schemas : IndexChanges(x, ids)

TaggingSpec == TaggingInit /\ [][TaggingNext]_taggingVars

-----------------------------------------------------------------------------
(* Properties.                                                              *)

\* A record is tagged unread only after the source's latest SettleAfter
\* classifications, periodic samples among them, all said the same schema.
SettledOnEvidence ==
    \A src \in Sources : settle[src].settled =>
        /\ src \in Allowed
        /\ Len(verdicts[src]) = Evidence
        /\ \A i \in 1..Evidence : verdicts[src][i] = settle[src].known
        /\ settle[src].known # Nothing

\* Drift is noticed within SampleRate records of a settled source, whatever
\* classifications end how in between.
SampledInTime == \A src \in Sources : SampleRate > 1 => skipped[src] < SampleRate

\* A schema id in the cache or in the settle state came out of the index for
\* that shape, whatever was cached, evicted and looked up concurrently.
CachedWasResolved ==
    /\ \A i \in 1..Len(lru) : lru[i] \in everHad
    /\ \A src \in Sources : settle[src].known # Nothing =>
          \E x \in Shapes : <<x, settle[src].known>> \in everHad

\* No record is tagged with a schema id but on the index's word: settled sources
\* rest on a full run of classifications, and those on what the index has said.
TagsFollowTheIndex == SettledOnEvidence /\ CachedWasResolved

=============================================================================
