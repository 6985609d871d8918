--------------------------- MODULE DiscoveryProofs ---------------------------
(***************************************************************************)
(* Proofs about Discovery, for every topic, any number of promoters and     *)
(* families, every policy and commit interval, and any number of failures,  *)
(* restarts, expiries, rejections and reindexes.                            *)
(***************************************************************************)
EXTENDS Discovery, NatFacts, FiniteSetTheorems, TLAPS

-----------------------------------------------------------------------------
(* The consumer's offsets.                                                  *)

\* Everything before the position has been handled, and so has the message
\* whose offset is about to advance; what is committed is not past it.
OffsetInv ==
    /\ position \in Nat \ {0} /\ committed \in Nat \ {0}
    /\ committed <= position
    /\ \A i \in 1..position - 1 : i \in handled
    /\ step = "ack" => position \in handled

\* Promoters, operators, the health probe and the expiry of keys leave the
\* consumer alone.
LEMMA ConsumerFrame ==
    ASSUME Promote \/ Probe \/ (\E c \in CandIds : Reject(c)) \/ Listing \/ Expiry \/ Idle
    PROVE  UNCHANGED consumer
<1>1. CASE Promote
  BY <1>1 DEF Promote, PromoteRead, PromoteCall, PromotePublish, PromoteStage, PromoteFails
<1>2. CASE Probe \/ (\E c \in CandIds : Reject(c)) \/ Idle
  BY <1>2 DEF Probe, Reject, Idle, vars
<1>3. CASE Listing
  BY <1>3 DEF Listing, Mirror, MirrorLost, ListStale, RemoveStale, ReindexAdd, ReindexStart,
     ReindexDrop, ReindexRead, ReindexDone
<1>4. CASE Expiry
  BY <1>4 DEF Expiry, ExpireCandidate, ExpireVariants, ExpireCluster
<1> QED BY SMTT(30), <1>1, <1>2, <1>3, <1>4

\* Every step keeps the offsets behind what has been handled.
LEMMA OffsetStep ==
    ASSUME OffsetInv, [Next]_vars
    PROVE  OffsetInv'
<1>1. ASSUME UNCHANGED consumer PROVE OffsetInv'
  BY <1>1 DEF OffsetInv, consumer
<1>2. CASE SkipMalformed
  BY <1>2 DEF OffsetInv, SkipMalformed
<1>3. CASE LookUp
  BY <1>3 DEF OffsetInv, LookUp
<1>4. CASE ReadCandidate
  BY <1>4 DEF OffsetInv, ReadCandidate
<1>5. CASE Upsert
  BY <1>5 DEF OffsetInv, Upsert
<1>6. CASE SetCluster
  BY <1>6 DEF OffsetInv, SetCluster
<1>7. CASE AddVariant
  BY <1>7 DEF OffsetInv, AddVariant
<1>8. CASE AppendEvidence
  BY <1>8 DEF OffsetInv, AppendEvidence
<1>9. CASE Ack
  <2>1. position' = position + 1 /\ handled' = handled /\ step' = "lookup" /\ position \in handled
    BY <1>9 DEF OffsetInv, Ack
  <2>2. committed' \in {committed, position + 1}
    BY <1>9 DEF Ack
  <2>3. \A i \in 1..position' - 1 : i \in handled'
    <3>1. \A i \in 1..position' - 1 : i \in 1..position - 1 \/ i = position
      BY <2>1 DEF OffsetInv
    <3> QED BY <2>1, <3>1 DEF OffsetInv
  <2> QED BY <2>1, <2>2, <2>3 DEF OffsetInv
<1>10. CASE IngestFails
  BY <1>10 DEF OffsetInv, IngestFails
<1>11. CASE ConsumerFails
  BY <1>11 DEF OffsetInv, ConsumerFails
<1>12. CASE Restart
  <2>1. committed' \in {committed, position} /\ position' = committed' /\ step' = "lookup"
        /\ handled' = handled
    BY <1>12 DEF Restart
  <2>2. committed' \in Nat \ {0} /\ committed' <= position
    BY <2>1 DEF OffsetInv
  <2>3. \A i \in 1..position' - 1 : i \in handled
    <3>1. PICK n \in Nat : n = position' /\ n <= position
      BY <2>1, <2>2
    <3>2. \A i \in 1..n - 1 : i \in 1..position - 1
      <4>1. position \in Nat /\ n <= position
        BY <3>1 DEF OffsetInv
      <4> QED BY <4>1
    <3>3. \A i \in 1..n - 1 : i \in handled
      BY <3>2 DEF OffsetInv
    <3> QED BY <3>1, <3>3
  <2>4. position' \in Nat \ {0} /\ committed' <= position'
    BY <2>1, <2>2
  <2> QED BY <2>1, <2>2, <2>3, <2>4 DEF OffsetInv
<1>13. CASE UNCHANGED vars
  BY <1>1, <1>13 DEF vars
<1> QED
  BY <1>1, <1>2, <1>3, <1>4, <1>5, <1>6, <1>7, <1>8, <1>9, <1>10, <1>11, <1>12, <1>13,
     ConsumerFrame
  DEF Next, Consume

\* discovery_consumer.rs holds a message's offset until its handling returned
\* Ok: whatever fails, is retried or restarted, the committed offset is never
\* past a message that was not handled.
THEOREM OffsetsFollowHandling == Spec => []NoMessageSkipped
<1>1. Init => OffsetInv
  BY DEF Init, OffsetInv
<1>2. OffsetInv /\ [Next]_vars => OffsetInv'
  BY OffsetStep
<1>3. OffsetInv => NoMessageSkipped
  BY DEF OffsetInv, NoMessageSkipped
<1> QED BY <1>1, <1>2, <1>3, PTL DEF Spec

-----------------------------------------------------------------------------
(* Types.                                                                   *)

Record == [profile : SUBSET ShapeSets, count : Nat, state : States, seen : SUBSET Nat]
Working == {"read", "upsert", "cluster", "evidence"}
PromoState == [step : {"idle", "variants", "publish", "stage"}, id : CandIds \union {<<>>},
               record : Record, request : V!Request \union {<<>>}]
ReindexState == [step : {"idle", "drop", "scan"}, toDrop : SUBSET States,
                 toScan : SUBSET CandIds, found : SUBSET (CandIds \X States)]
Budget == [faults : Nat, expiries : Nat, reindexes : Nat, rejects : Nat, events : Nat]

\* The candidates and what belongs to them.
EvidenceOK ==
    /\ DOMAIN cand \subseteq CandIds /\ cand \in [DOMAIN cand -> Record]
    /\ \A c \in DOMAIN cand : cand[c].profile # {}
    /\ listed \in [States -> SUBSET CandIds]
    /\ cluster \in [DOMAIN cluster -> CandIds]
    /\ variants \in [CandIds -> SUBSET RawShapes]

\* The consumer works on a record that parsed, for a candidate.
IngestOK ==
    /\ position \in Nat \ {0}
    /\ ingest \in [target : CandIds \union {<<>>}, record : Record]
    /\ step \in Working => /\ position <= Len(Log) /\ Message.shape # {}
                           /\ ingest.target \in CandIds

\* A promotion that has begun is of a candidate, and its request is its own.
PromoOK ==
    /\ healthy \in BOOLEAN
    /\ promo \in [Promoters -> PromoState]
    /\ \A p \in Promoters :
          /\ promo[p].step # "idle" => promo[p].id \in CandIds /\ promo[p].record.profile # {}
          /\ promo[p].step = "publish" => /\ promo[p].request \in V!Request
                                          /\ promo[p].request.alias_from = promo[p].id

ListingOK ==
    /\ mirrors \subseteq CandIds \X States
    /\ stale \subseteq States \X CandIds
    /\ reindex \in ReindexState

TypeOK == EvidenceOK /\ IngestOK /\ PromoOK /\ ListingOK /\ budget \in Budget

\* A message in hand is one of the topic's, and names a candidate.
LEMMA MessageFacts ==
    ASSUME position \in Nat \ {0}, position <= Len(Log), Message.shape # {}
    PROVE  Message.shape \in ShapeSets /\ CandId(Message) \in CandIds
<1>1. position \in 1..Len(Log)
  BY DiscoveryAssumption
<1>2. Message \in Wellformed
  BY <1>1 DEF Message, Messages, Wellformed
<1> QED BY <1>2 DEF ShapeSets, CandIds

\* get_cluster's first hit, or the record's own id, is a candidate.
LEMMA TargetFacts ==
    ASSUME EvidenceOK, NEW m, CandId(m) \in CandIds
    PROVE  ClusterTarget(m) \in CandIds
<1> DEFINE keys == ReducedFps(m.shape)
           hits == {i \in 1..Len(keys) : <<m.source, keys[i]>> \in DOMAIN cluster}
<1>1. CASE hits = {}
  BY <1>1 DEF ClusterTarget
<1>2. CASE hits # {}
  <2>1. \E i \in hits : \A j \in hits : i <= j
    <3>1. hits \subseteq Nat
      OBVIOUS
    <3> HIDE DEF hits
    <3> QED BY <1>2, <3>1, NatMin
  <2>2. MinField(hits) \in hits
    <3> HIDE DEF hits
    <3> QED BY <2>1 DEF MinField
  <2>3. ClusterTarget(m) = cluster[<<m.source, keys[MinField(hits)]>>]
    BY <1>2 DEF ClusterTarget
  <2>4. <<m.source, keys[MinField(hits)]>> \in DOMAIN cluster
    BY <2>2
  <2> HIDE DEF keys, hits
  <2> QED BY <2>3, <2>4 DEF EvidenceOK
<1> QED BY <1>1, <1>2

\* A fault, an expiry, a reindex or a rejection leaves the bounds naturals, and
\* never gives back what was spent.
LEMMA SpendFacts ==
    ASSUME budget \in Budget, NEW b \in {"faults", "expiries", "reindexes", "rejects"}, Spend(b)
    PROVE  /\ budget' \in Budget
           /\ budget'.expiries <= budget.expiries
           /\ b = "expiries" => budget'.expiries < budget.expiries
<1>0. budget[b] > 0 /\ budget.events > 0
  BY DEF Spend
<1>1. CASE b = "faults"
  <2> DEFINE x == [budget EXCEPT !.faults = @ - 1]
  <2>1. budget.faults > 0
    BY <1>0, <1>1, Zenon
  <2>2. x \in Budget /\ x.events > 0 /\ x.expiries = budget.expiries
    BY <1>0, <2>1 DEF Budget
  <2>3. budget' = [x EXCEPT !.events = @ - 1]
    BY <1>1, Zenon DEF Spend
  <2> HIDE DEF x
  <2> QED BY <1>0, <1>1, <2>2, <2>3 DEF Budget
<1>2. CASE b = "expiries"
  <2> DEFINE x == [budget EXCEPT !.expiries = @ - 1]
  <2>1. budget.expiries > 0
    BY <1>0, <1>2, Zenon
  <2>2. x \in Budget /\ x.events > 0 /\ x.expiries = budget.expiries - 1
    BY <1>0, <2>1 DEF Budget
  <2>3. budget' = [x EXCEPT !.events = @ - 1]
    BY <1>2, Zenon DEF Spend
  <2> HIDE DEF x
  <2> QED BY <1>0, <1>2, <2>2, <2>3 DEF Budget
<1>3. CASE b = "reindexes"
  <2> DEFINE x == [budget EXCEPT !.reindexes = @ - 1]
  <2>1. budget.reindexes > 0
    BY <1>0, <1>3, Zenon
  <2>2. x \in Budget /\ x.events > 0 /\ x.expiries = budget.expiries
    BY <1>0, <2>1 DEF Budget
  <2>3. budget' = [x EXCEPT !.events = @ - 1]
    BY <1>3, Zenon DEF Spend
  <2> HIDE DEF x
  <2> QED BY <1>0, <1>3, <2>2, <2>3 DEF Budget
<1>4. CASE b = "rejects"
  <2> DEFINE x == [budget EXCEPT !.rejects = @ - 1]
  <2>1. budget.rejects > 0
    BY <1>0, <1>4, Zenon
  <2>2. x \in Budget /\ x.events > 0 /\ x.expiries = budget.expiries
    BY <1>0, <2>1 DEF Budget
  <2>3. budget' = [x EXCEPT !.events = @ - 1]
    BY <1>4, Zenon DEF Spend
  <2> HIDE DEF x
  <2> QED BY <1>0, <1>4, <2>2, <2>3 DEF Budget
<1> QED BY <1>1, <1>2, <1>3, <1>4

\* What ingest starts from and ends with is a record.
LEMMA NoRecordFacts == NoRecord \in Record
BY DEF NoRecord, Record, States

\* The record upsert_candidate writes.
LEMMA MergedFacts ==
    ASSUME IngestOK, step = "upsert"
    PROVE  Merged \in Record /\ Merged.profile # {}
<1>1. Message.shape \in ShapeSets
  BY MessageFacts DEF IngestOK, Working
<1>2. ingest.record \in Record /\ position \in Nat
  BY DEF IngestOK
<1> QED BY <1>1, <1>2 DEF Merged, Record

\* The consumer's own steps keep the types.
LEMMA ConsumeTypes ==
    ASSUME TypeOK, OffsetInv, Consume \/ IngestFails \/ ConsumerFails \/ Restart
    PROVE  TypeOK'
<1> USE DEF TypeOK
<1>0. ASSUME UNCHANGED <<healthy, promo, mirrors, stale, reindex>>
      PROVE  PromoOK' /\ ListingOK'
  BY <1>0 DEF PromoOK, ListingOK
<1>1. CASE SkipMalformed
  BY <1>0, <1>1 DEF SkipMalformed, EvidenceOK, IngestOK, Working, evidence
<1>2. CASE LookUp
  <2>1. ClusterTarget(Message) \in CandIds
    BY <1>2, MessageFacts, TargetFacts DEF LookUp, Handling, IngestOK
  <2>2. Message' = Message
    BY <1>2 DEF LookUp, Message
  <2>3. IngestOK'
    BY <1>2, <2>1, <2>2 DEF LookUp, IngestOK, Handling
  <2> QED BY <1>0, <1>2, <2>3 DEF LookUp, EvidenceOK, evidence
<1>3. CASE ReadCandidate
  <2>1. Message' = Message
    BY <1>3 DEF ReadCandidate, Message
  <2>2. IngestOK'
    BY <1>3, <2>1, NoRecordFacts DEF ReadCandidate, IngestOK, Working, EvidenceOK
  <2> QED BY <1>0, <1>3, <2>2 DEF ReadCandidate, EvidenceOK, evidence
<1>4. CASE Upsert
  <2>1. Merged \in Record /\ Merged.profile # {} /\ ingest.target \in CandIds
    BY <1>4, MergedFacts DEF Upsert, IngestOK, Working
  <2>2. Merged.state \in States
    BY <2>1 DEF Record
  <2>3. PICK r : r = Merged
    OBVIOUS
  <2>4. PICK c : c = ingest.target
    OBVIOUS
  <2>5. cand' = Put(cand, c, r) /\ cand \in [DOMAIN cand -> Record] /\ r \in Record
    BY <1>4, <2>1, <2>3, <2>4 DEF Upsert, EvidenceOK
  <2>6. /\ DOMAIN cand' = DOMAIN cand \union {c} /\ cand' \in [DOMAIN cand' -> Record]
        /\ cand'[c] = r /\ \A x \in DOMAIN cand : x # c => cand'[x] = cand[x]
    BY <2>5 DEF Put
  <2>7. /\ DOMAIN cand' \subseteq CandIds
        /\ \A x \in DOMAIN cand' : cand'[x].profile # {}
    BY <2>1, <2>3, <2>4, <2>6 DEF EvidenceOK
  <2>8. listed' = [listed EXCEPT ![r.state] = @ \union {c}]
    BY <1>4, <2>3, <2>4 DEF Upsert
  <2>9. listed' \in [States -> SUBSET CandIds]
    BY <2>1, <2>2, <2>3, <2>4, <2>8 DEF EvidenceOK
  <2>10. EvidenceOK'
    BY <1>4, <2>6, <2>7, <2>9 DEF EvidenceOK, Upsert
  <2>11. Message' = Message
    BY <1>4 DEF Upsert, Message
  <2>12. IngestOK'
    BY <1>4, <2>11, NoRecordFacts DEF Upsert, IngestOK, Working
  <2> QED BY <1>0, <1>4, <2>10, <2>12 DEF Upsert
<1>5. CASE SetCluster
  <2>1. ingest.target \in CandIds
    BY <1>5 DEF SetCluster, IngestOK, Working
  <2>2. PICK k : cluster' = Put(cluster, k, ingest.target)
    BY <1>5 DEF SetCluster
  <2>3. cluster' \in [DOMAIN cluster' -> CandIds]
    BY <2>1, <2>2 DEF EvidenceOK, Put
  <2>4. Message' = Message
    BY <1>5 DEF SetCluster, Message
  <2>5. EvidenceOK'
    BY <1>5, <2>3 DEF EvidenceOK, SetCluster
  <2>6. IngestOK'
    BY <1>5, <2>4 DEF SetCluster, IngestOK
  <2> QED BY <1>0, <1>5, <2>5, <2>6 DEF SetCluster
<1>6. CASE AddVariant
  <2>1. ingest.target \in CandIds /\ Raw(Message.shape) \in RawShapes
    BY <1>6, MessageFacts DEF AddVariant, IngestOK, Working, RawShapes
  <2>2. variants' \in [CandIds -> SUBSET RawShapes]
    BY <1>6, <2>1 DEF AddVariant, EvidenceOK
  <2>3. Message' = Message
    BY <1>6 DEF AddVariant, Message
  <2>4. EvidenceOK'
    BY <1>6, <2>2 DEF EvidenceOK, AddVariant
  <2>5. IngestOK'
    BY <1>6, <2>3 DEF AddVariant, IngestOK, Working
  <2> QED BY <1>0, <1>6, <2>4, <2>5 DEF AddVariant
<1>7. CASE AppendEvidence
  BY <1>0, <1>7 DEF AppendEvidence, EvidenceOK, IngestOK, Working, evidence
<1>8. CASE Ack
  BY <1>0, <1>8, NoRecordFacts DEF Ack, EvidenceOK, IngestOK, Working, evidence
<1>9. CASE IngestFails
  <2>1. budget' \in Budget
    BY <1>9, SpendFacts DEF IngestFails
  <2> QED BY <1>0, <1>9, <2>1, NoRecordFacts DEF IngestFails, EvidenceOK, IngestOK, Working, evidence
<1>10. CASE ConsumerFails
  <2>1. budget' \in Budget
    BY <1>10, SpendFacts DEF ConsumerFails
  <2> QED BY <1>0, <1>10, <2>1 DEF ConsumerFails, EvidenceOK, IngestOK, Working, evidence
<1>11. CASE Restart
  <2>1. budget' \in Budget
    BY <1>11, SpendFacts DEF Restart
  <2>2. position' \in Nat \ {0}
    BY <1>11 DEF Restart, OffsetInv
  <2> QED BY <1>0, <1>11, <2>1, <2>2, NoRecordFacts DEF Restart, EvidenceOK, IngestOK, Working, evidence
<1> QED BY <1>1, <1>2, <1>3, <1>4, <1>5, <1>6, <1>7, <1>8, <1>9, <1>10, <1>11 DEF Consume

\* A promotion has a schema's id to publish under.
LEMMA RequestFacts ==
    ASSUME TypeOK, NEW p \in Promoters, NEW f \in Families, promo[p].step = "variants"
    PROVE  PublishRequest(p, f) \in V!Request /\ PublishRequest(p, f).alias_from = promo[p].id
<1>1. promo[p] \in PromoState /\ promo[p].id \in CandIds /\ promo[p].record.profile # {}
  BY DEF TypeOK, PromoOK
<1>2. promo[p].record.profile \in (SUBSET ShapeSets) \ {{}}
  <2>1. promo[p].record \in Record
    BY <1>1 DEF PromoState
  <2>2. promo[p].record.profile \in SUBSET ShapeSets
    BY <2>1 DEF Record
  <2> QED BY <1>1, <2>2
<1>3. Generalized(promo[p].record.profile) \in SchemaIds
  BY <1>2 DEF SchemaIds
<1>4. variants[promo[p].id] \in SUBSET RawShapes
  BY <1>1 DEF TypeOK, EvidenceOK
<1> QED BY <1>1, <1>3, <1>4 DEF PublishRequest, V!Request

\* SET_STATE_SCRIPT keeps the types.
LEMMA SetStateFacts ==
    ASSUME TypeOK, NEW c \in CandIds, NEW s \in States, SetState(c, s)
    PROVE  /\ DOMAIN cand' = DOMAIN cand /\ cand' \in [DOMAIN cand -> Record]
           /\ \A d \in DOMAIN cand : /\ cand'[d].profile = cand[d].profile
                                     /\ cand'[d].count = cand[d].count
                                     /\ cand'[d].seen = cand[d].seen
                                     /\ d # c => cand'[d] = cand[d]
                                     /\ cand'[d].state \in {cand[d].state, s}
           /\ mirrors' \subseteq CandIds \X States
           /\ mirrors' \subseteq mirrors \union {<<c, s>>} /\ mirrors \subseteq mirrors'
           /\ mirrors' # mirrors => c \in DOMAIN cand
BY DEF TypeOK, EvidenceOK, ListingOK, SetState, Record

\* Promotions keep the types.
LEMMA PromoteTypes ==
    ASSUME TypeOK, Promote
    PROVE  TypeOK'
<1> USE DEF TypeOK
<1>0. PICK p \in Promoters :
        \/ \E c \in CandIds : PromoteRead(p, c)
        \/ \E f \in Families : PromoteCall(p, f)
        \/ PromotePublish(p) \/ PromoteStage(p) \/ PromoteFails(p)
  BY DEF Promote
<1>1. UNCHANGED <<consumer, healthy, listed, cluster, variants, stale, reindex>>
  BY <1>0 DEF PromoteRead, PromoteCall, PromotePublish, PromoteStage, PromoteFails, evidence
<1>2. IngestOK' /\ Message' = Message
  BY <1>1 DEF IngestOK, consumer, Message
<1>3. IdlePromo \in PromoState /\ IdlePromo.step = "idle"
  BY NoRecordFacts DEF IdlePromo, PromoState
<1>4. ASSUME promo' = [promo EXCEPT ![p] = IdlePromo] PROVE PromoOK'
  <2>1. promo' \in [Promoters -> PromoState]
    BY <1>3, <1>4 DEF PromoOK
  <2>2. promo'[p] = IdlePromo /\ \A q \in Promoters : q # p => promo'[q] = promo[q]
    BY <1>4 DEF PromoOK
  <2> QED BY <1>1, <1>3, <2>1, <2>2 DEF PromoOK
<1>5. ASSUME NEW c \in CandIds, PromoteRead(p, c) PROVE TypeOK'
  <2>1. cand[c] \in Record /\ cand[c].profile # {}
    BY <1>5 DEF PromoteRead, EvidenceOK
  <2>2. PICK r : r = [IdlePromo EXCEPT !.step = "variants", !.id = c, !.record = cand[c]]
    OBVIOUS
  <2>3. r \in PromoState /\ r.step = "variants" /\ r.id = c /\ r.record = cand[c]
    BY <1>3, <2>1, <2>2 DEF PromoState
  <2>4. promo' = [promo EXCEPT ![p] = r]
    BY <1>5, <2>2 DEF PromoteRead
  <2>5. promo' \in [Promoters -> PromoState]
        /\ promo'[p] = r /\ \A q \in Promoters : q # p => promo'[q] = promo[q]
    BY <2>3, <2>4 DEF PromoOK
  <2>6. PromoOK'
    BY <1>1, <2>1, <2>3, <2>5 DEF PromoOK
  <2> QED BY <1>2, <1>5, <2>6 DEF PromoteRead, EvidenceOK, ListingOK, evidence
<1>6. ASSUME NEW f \in Families, PromoteCall(p, f) PROVE TypeOK'
  <2>1. PICK r : r = PublishRequest(p, f)
    OBVIOUS
  <2>2. r \in V!Request /\ r.alias_from = promo[p].id
    BY <1>6, <2>1, RequestFacts DEF PromoteCall
  <2>3. promo' = [promo EXCEPT ![p].step = "publish", ![p].request = r]
    BY <1>6, <2>1 DEF PromoteCall
  <2>4. promo' \in [Promoters -> PromoState]
    <3>1. PICK x : x = [promo[p] EXCEPT !.step = "publish", !.request = r]
      OBVIOUS
    <3>2. promo[p] \in PromoState
      BY DEF PromoOK
    <3>3. x \in PromoState
      BY <2>2, <3>1, <3>2 DEF PromoState
    <3>4. promo' = [promo EXCEPT ![p] = x]
      BY <2>3, <3>1 DEF PromoOK
    <3> QED BY <3>3, <3>4 DEF PromoOK
  <2>5. /\ promo'[p].step = "publish" /\ promo'[p].request = r
        /\ promo'[p].id = promo[p].id /\ promo'[p].record = promo[p].record
        /\ \A q \in Promoters : q # p => promo'[q] = promo[q]
    BY <2>2, <2>3 DEF PromoOK, PromoState
  <2>6. promo[p].step = "variants"
    BY <1>6 DEF PromoteCall
  <2>7. PromoOK'
    BY <1>1, <2>2, <2>4, <2>5, <2>6 DEF PromoOK
  <2> QED BY <1>2, <1>6, <2>7 DEF PromoteCall, EvidenceOK, ListingOK, evidence
<1>7. CASE PromotePublish(p)
  <2>1. PromoOK'
    <3>1. CASE promo' = [promo EXCEPT ![p].step = "stage"]
      BY <1>1, <1>7, <3>1 DEF PromotePublish, PromoOK, PromoState
    <3> QED BY <1>4, <1>7, <3>1 DEF PromotePublish
  <2> QED BY <1>2, <1>7, <2>1 DEF PromotePublish, EvidenceOK, ListingOK, evidence
<1>8. CASE PromoteStage(p)
  <2>1. promo[p].id \in CandIds
    BY <1>8 DEF PromoteStage, PromoOK
  <2>2. PICK c \in CandIds : SetState(c, "staged")
    BY <1>8, <2>1 DEF PromoteStage
  <2>3. "staged" \in States
    BY DEF States
  <2>4. /\ DOMAIN cand' = DOMAIN cand /\ cand' \in [DOMAIN cand -> Record]
        /\ \A d \in DOMAIN cand : cand'[d].profile = cand[d].profile
        /\ mirrors' \subseteq CandIds \X States
    BY <2>2, <2>3, SetStateFacts
  <2> QED BY <1>1, <1>2, <1>4, <1>8, <2>4 DEF PromoteStage, EvidenceOK, ListingOK
<1>9. CASE PromoteFails(p)
  <2>1. budget' \in Budget
    BY <1>9, SpendFacts DEF PromoteFails
  <2> QED BY <1>2, <1>4, <1>9, <2>1 DEF PromoteFails, EvidenceOK, ListingOK, evidence
<1> QED BY <1>0, <1>5, <1>6, <1>7, <1>8, <1>9

\* So do operators, list_candidates, the health probe and the expiry of keys.
LEMMA OtherTypes ==
    ASSUME TypeOK,
           Probe \/ (\E c \in CandIds : Reject(c)) \/ Listing \/ Expiry \/ Idle
    PROVE  TypeOK'
<1> USE DEF TypeOK
<1>1. IngestOK' /\ Message' = Message
  BY ConsumerFrame DEF IngestOK, consumer, Message
<1>2. ASSUME UNCHANGED <<promo, healthy>> PROVE PromoOK'
  BY <1>2 DEF PromoOK
<1>3. CASE Probe
  BY <1>1, <1>3, SpendFacts DEF Probe, PromoOK, EvidenceOK, ListingOK, evidence
<1>4. ASSUME NEW c \in CandIds, Reject(c) PROVE TypeOK'
  <2>1. budget' \in Budget /\ "rejected" \in States
    BY <1>4, SpendFacts DEF Reject, States
  <2>2. /\ DOMAIN cand' = DOMAIN cand /\ cand' \in [DOMAIN cand -> Record]
        /\ \A d \in DOMAIN cand : cand'[d].profile = cand[d].profile
        /\ mirrors' \subseteq CandIds \X States
    BY <1>4, <2>1, SetStateFacts DEF Reject
  <2> QED BY <1>1, <1>2, <1>4, <2>1, <2>2 DEF Reject, EvidenceOK, ListingOK
<1>5. CASE Listing
  <2>1. PromoOK'
    BY <1>2, <1>5 DEF Listing, Mirror, MirrorLost, ListStale, RemoveStale, ReindexAdd,
       ReindexStart, ReindexDrop, ReindexRead, ReindexDone
  <2>2. UNCHANGED <<cand, cluster, variants>>
    BY <1>5 DEF Listing, Mirror, MirrorLost, ListStale, RemoveStale, ReindexAdd, ReindexStart,
       ReindexDrop, ReindexRead, ReindexDone, evidence
  <2>3. ASSUME listed' \in [States -> SUBSET CandIds] PROVE EvidenceOK'
    BY <2>2, <2>3 DEF EvidenceOK
  <2>4. ASSUME NEW c \in CandIds, NEW s \in States,
               Mirror(c, s) \/ ReindexAdd(c, s) \/ RemoveStale(s, c)
        PROVE  EvidenceOK' /\ ListingOK' /\ budget' \in Budget
    <3>1. listed' \in [States -> SUBSET CandIds]
      BY <2>4 DEF Mirror, ReindexAdd, RemoveStale, EvidenceOK
    <3>2. ListingOK'
      BY <2>4 DEF Mirror, ReindexAdd, RemoveStale, ListingOK, ReindexState
    <3> QED BY <2>3, <2>4, <3>1, <3>2 DEF Mirror, ReindexAdd, RemoveStale
  <2>5. ASSUME NEW c \in CandIds, NEW s \in States, MirrorLost(c, s) \/ ListStale(s, c)
        PROVE  EvidenceOK' /\ ListingOK' /\ budget' \in Budget
    <3>1. budget' \in Budget
      BY <2>5, SpendFacts DEF MirrorLost, ListStale
    <3>2. EvidenceOK'
      BY <2>5 DEF MirrorLost, ListStale, EvidenceOK, evidence
    <3> QED BY <2>5, <3>1, <3>2 DEF MirrorLost, ListStale, ListingOK
  <2>6. CASE ReindexStart
    <3>1. budget' \in Budget
      BY <2>6, SpendFacts DEF ReindexStart
    <3>2. EvidenceOK'
      BY <2>6 DEF ReindexStart, EvidenceOK, evidence
    <3>3. ListingOK'
      BY <2>6 DEF ReindexStart, ListingOK, ReindexState
    <3> QED BY <1>1, <2>1, <3>1, <3>2, <3>3
  <2>7. ASSUME NEW s \in States, ReindexDrop(s)
        PROVE  EvidenceOK' /\ ListingOK' /\ budget' \in Budget
    <3>1. listed' \in [States -> SUBSET CandIds]
      BY <2>7 DEF ReindexDrop, EvidenceOK
    <3>2. DOMAIN cand \subseteq CandIds
      BY DEF EvidenceOK
    <3>3. ListingOK'
      BY <2>7, <3>2 DEF ReindexDrop, ListingOK, ReindexState
    <3> QED BY <2>3, <2>7, <3>1, <3>3 DEF ReindexDrop
  <2>8. ASSUME NEW c \in CandIds, ReindexRead(c)
        PROVE  EvidenceOK' /\ ListingOK' /\ budget' \in Budget
    <3>1. c \in DOMAIN cand => cand[c].state \in States
      BY DEF EvidenceOK, Record
    <3>2. ListingOK'
      <4>1. PICK f : f = IF c \in DOMAIN cand THEN {<<c, cand[c].state>>} ELSE {}
        OBVIOUS
      <4>2. f \in SUBSET (CandIds \X States)
        BY <3>1, <4>1
      <4>3. reindex' = [reindex EXCEPT !.toScan = @ \ {c}, !.found = f]
        BY <2>8, <4>1 DEF ReindexRead
      <4>4. reindex' \in ReindexState
        BY <4>2, <4>3 DEF ListingOK, ReindexState
      <4> QED BY <2>8, <4>4 DEF ReindexRead, ListingOK
    <3> QED BY <2>8, <3>2 DEF ReindexRead, EvidenceOK, evidence
  <2>9. CASE ReindexDone
    <3>1. ListingOK'
      BY <2>9 DEF ReindexDone, ListingOK, ReindexState, IdleReindex
    <3> QED BY <1>1, <2>1, <2>9, <3>1 DEF ReindexDone, EvidenceOK, evidence
  <2> QED BY <1>1, <1>5, <2>1, <2>4, <2>5, <2>6, <2>7, <2>8, <2>9 DEF Listing
<1>6. CASE Expiry
  <2>1. PromoOK' /\ ListingOK'
    BY <1>2, <1>6 DEF Expiry, ExpireCandidate, ExpireVariants, ExpireCluster, ListingOK
  <2>2. budget' \in Budget
    BY <1>6, SpendFacts DEF Expiry, ExpireCandidate, ExpireVariants, ExpireCluster
  <2>3. EvidenceOK'
    <3>1. ASSUME NEW c \in CandIds, ExpireCandidate(c) PROVE EvidenceOK'
      BY <3>1 DEF ExpireCandidate, EvidenceOK, Without
    <3>2. ASSUME NEW c \in CandIds, ExpireVariants(c) PROVE EvidenceOK'
      BY <3>2 DEF ExpireVariants, EvidenceOK
    <3>3. ASSUME NEW k \in DOMAIN cluster, ExpireCluster(k) PROVE EvidenceOK'
      <4>1. cluster' = [x \in DOMAIN cluster \ {k} |-> cluster[x]]
        BY <3>3 DEF ExpireCluster, Without
      <4>2. cluster' \in [DOMAIN cluster' -> CandIds]
        BY <4>1 DEF EvidenceOK
      <4> QED BY <3>3, <4>2 DEF ExpireCluster, EvidenceOK
    <3> QED BY <1>6, <3>1, <3>2, <3>3 DEF Expiry
  <2> QED BY <1>1, <2>1, <2>2, <2>3
<1>7. CASE Idle
  BY <1>1, <1>2, <1>7 DEF Idle, vars, EvidenceOK, ListingOK, evidence
<1> QED BY <1>3, <1>4, <1>5, <1>6, <1>7

\* Every reachable state has its types, and the offsets behind the handling.
LEMMA TypesHold == Spec => [](TypeOK /\ OffsetInv)
<1>1. Init => TypeOK /\ OffsetInv
  <2> SUFFICES ASSUME Init PROVE TypeOK /\ OffsetInv
    OBVIOUS
  <2>1. EvidenceOK
    BY DEF Init, EvidenceOK, States
  <2>2. IngestOK
    BY NoRecordFacts DEF Init, IngestOK, Working
  <2>3. PromoOK
    BY NoRecordFacts DEF Init, PromoOK, PromoState, IdlePromo
  <2>4. ListingOK
    BY DEF Init, ListingOK, ReindexState, IdleReindex
  <2>5. budget \in Budget
    BY DiscoveryAssumption DEF Init, Budget
  <2> QED BY <2>1, <2>2, <2>3, <2>4, <2>5 DEF TypeOK, OffsetInv, Init
<1>2. TypeOK /\ OffsetInv /\ [Next]_vars => TypeOK' /\ OffsetInv'
  <2> SUFFICES ASSUME TypeOK, OffsetInv, [Next]_vars PROVE TypeOK'
    BY OffsetStep
  <2>1. CASE UNCHANGED vars
    <3>1. EvidenceOK'
      BY <2>1 DEF TypeOK, EvidenceOK, vars, evidence
    <3>2. IngestOK'
      BY <2>1 DEF TypeOK, IngestOK, vars, consumer, Message
    <3> QED BY <2>1, <3>1, <3>2 DEF TypeOK, PromoOK, ListingOK, vars
  <2> QED BY <2>1, ConsumeTypes, PromoteTypes, OtherTypes DEF Next
<1> QED BY <1>1, <1>2, PTL DEF Spec

-----------------------------------------------------------------------------
(* Candidates and their schemas.                                            *)

\* What a publication leaves behind: its schema's hash, and an alias of the
\* candidate to it; no other alias changes.
LEMMA ScriptFacts ==
    ASSUME NEW q, V!PublishScript(q)
    PROVE  /\ DOMAIN schemas' = DOMAIN schemas \union {q.schema}
           /\ q.alias_from \in DOMAIN alias' /\ alias'[q.alias_from] = q.schema
           /\ DOMAIN alias' = DOMAIN alias \union {q.alias_from}
           /\ \A c \in DOMAIN alias : alias'[c] = alias[c]
<1>1. DOMAIN schemas' = DOMAIN schemas \union {q.schema}
  BY DEF V!PublishScript, V!WriteHash, V!Put
<1>2. CASE q.alias_from \in DOMAIN alias
  BY <1>1, <1>2 DEF V!PublishScript, V!WriteAlias, V!AliasConflict
<1>3. CASE q.alias_from \notin DOMAIN alias
  BY <1>1, <1>3 DEF V!PublishScript, V!WriteAlias, V!Put
<1> QED BY <1>2, <1>3

\* Only a promoter's script writes the vault.
LEMMA VaultFrame ==
    ASSUME [Next]_vars
    PROVE  \/ \E p \in Promoters : PromotePublish(p) /\ V!PublishScript(promo[p].request)
           \/ UNCHANGED vault
<1>1. CASE Consume \/ IngestFails \/ ConsumerFails \/ Restart
  BY <1>1 DEF Consume, SkipMalformed, LookUp, ReadCandidate, Upsert, SetCluster, AddVariant,
     AppendEvidence, Ack, IngestFails, ConsumerFails, Restart
<1>2. CASE Probe \/ (\E c \in CandIds : Reject(c)) \/ Idle \/ UNCHANGED vars
  BY <1>2 DEF Probe, Reject, Idle, vars
<1>3. CASE Listing
  BY <1>3 DEF Listing, Mirror, MirrorLost, ListStale, RemoveStale, ReindexAdd, ReindexStart,
     ReindexDrop, ReindexRead, ReindexDone
<1>4. CASE Expiry
  BY <1>4 DEF Expiry, ExpireCandidate, ExpireVariants, ExpireCluster
<1>5. CASE Promote
  <2>1. ASSUME NEW p \in Promoters, PromotePublish(p), V!PublishRefused(promo[p].request)
        PROVE  UNCHANGED vault
    BY <2>1 DEF V!PublishRefused, V!store, vault
  <2> QED BY <1>5, <2>1 DEF Promote, PromoteRead, PromoteCall, PromotePublish, PromoteStage,
             PromoteFails
<1> QED BY <1>1, <1>2, <1>3, <1>4, <1>5 DEF Next

\* policy.rs: the registry's write-once alias prevents a duplicate schema: for
\* any number of promotions that race, fail, repeat or follow an expiry, the
\* schemas of the vault are exactly those the candidates' aliases point at.
THEOREM NoDuplicateSchema == Spec => []OneSchemaPerCandidate
<1>1. Init => OneSchemaPerCandidate
  BY DEF Init, OneSchemaPerCandidate
<1>2. OneSchemaPerCandidate /\ [Next]_vars => OneSchemaPerCandidate'
  <2> SUFFICES ASSUME OneSchemaPerCandidate, [Next]_vars PROVE OneSchemaPerCandidate'
    OBVIOUS
  <2>1. CASE UNCHANGED vault
    BY <2>1 DEF OneSchemaPerCandidate, vault
  <2>2. ASSUME NEW q, V!PublishScript(q) PROVE OneSchemaPerCandidate'
    <3>1. PICK c, s : c = q.alias_from /\ s = q.schema
      OBVIOUS
    <3>2. /\ DOMAIN schemas' = DOMAIN schemas \union {s}
          /\ DOMAIN alias' = DOMAIN alias \union {c} /\ alias'[c] = s
          /\ \A d \in DOMAIN alias : alias'[d] = alias[d]
      BY <2>2, <3>1, ScriptFacts
    <3> QED BY <3>2 DEF OneSchemaPerCandidate
  <2> QED BY <2>1, <2>2, VaultFrame
<1> QED BY <1>1, <1>2, PTL DEF Spec

\* A state of Staged, in a hash or in a copy of one on its way back to it, and
\* a promotion about to set one, stand on an alias.
StagedInv ==
    /\ StagedHasSchema
    /\ \A p \in Promoters : promo[p].step = "stage" => promo[p].id \in DOMAIN alias
    /\ step = "upsert" /\ ingest.record.state = "staged" => ingest.target \in DOMAIN alias

\* Every step keeps the staged candidates on their aliases.
LEMMA StagedStep ==
    ASSUME TypeOK, StagedInv, [Next]_vars
    PROVE  StagedInv'
<1> USE DEF TypeOK
<1>0. DOMAIN alias \subseteq DOMAIN alias'
  BY VaultFrame, ScriptFacts DEF vault
<1>1. ASSUME UNCHANGED <<cand, promo, step, ingest>> PROVE StagedInv'
  BY <1>0, <1>1 DEF StagedInv, StagedHasSchema
<1>2. ASSUME UNCHANGED <<cand, promo>>, step' # "upsert" PROVE StagedInv'
  BY <1>0, <1>2 DEF StagedInv, StagedHasSchema
<1>3. CASE SkipMalformed \/ LookUp \/ SetCluster \/ AddVariant \/ AppendEvidence \/ Ack
  <2>1. UNCHANGED <<cand, promo>> /\ step' # "upsert"
    BY <1>3 DEF SkipMalformed, LookUp, SetCluster, AddVariant, AppendEvidence, Ack, evidence
  <2> QED BY <1>2, <2>1
<1>4. CASE IngestFails \/ ConsumerFails \/ Restart
  BY <1>2, <1>4 DEF IngestFails, ConsumerFails, Restart, evidence
<1>5. CASE ReadCandidate
  <2>1. UNCHANGED <<cand, promo>>
    BY <1>5 DEF ReadCandidate, evidence
  <2>2. ASSUME step' = "upsert", ingest'.record.state = "staged" PROVE ingest'.target \in DOMAIN alias
    <3>1. CASE ingest.target \in DOMAIN cand
      BY <1>5, <2>2, <3>1 DEF ReadCandidate, StagedInv, StagedHasSchema, IngestOK
    <3>2. CASE ingest.target \notin DOMAIN cand
      BY <1>5, <2>2, <3>2 DEF ReadCandidate, NoRecord, IngestOK
    <3> QED BY <3>1, <3>2
  <2> QED BY <1>0, <2>1, <2>2 DEF StagedInv, StagedHasSchema
<1>6. CASE Upsert
  <2>1. PICK r : r = Merged
    OBVIOUS
  <2>2. r.state = ingest.record.state
    BY <2>1 DEF Merged
  <2>3. cand' = Put(cand, ingest.target, r) /\ step = "upsert" /\ step' = "cluster" /\ promo' = promo
    BY <1>6, <2>1 DEF Upsert
  <2>4. StagedHasSchema'
    BY <1>0, <2>2, <2>3 DEF StagedInv, StagedHasSchema, Put
  <2> QED BY <1>0, <2>3, <2>4 DEF StagedInv
<1>7. ASSUME NEW p \in Promoters, NEW c \in CandIds, PromoteRead(p, c) PROVE StagedInv'
  <2>1. promo'[p].step = "variants" /\ \A q \in Promoters : q # p => promo'[q] = promo[q]
    BY <1>7 DEF PromoteRead, IdlePromo, PromoOK
  <2>2. UNCHANGED <<cand, step, ingest>>
    BY <1>7 DEF PromoteRead, evidence, consumer
  <2> QED BY <1>0, <2>1, <2>2 DEF StagedInv, StagedHasSchema
<1>8. ASSUME NEW p \in Promoters, NEW f \in Families, PromoteCall(p, f) PROVE StagedInv'
  <2>1. promo'[p].step = "publish" /\ \A q \in Promoters : q # p => promo'[q] = promo[q]
    BY <1>8 DEF PromoteCall, PromoOK, PromoState
  <2>2. UNCHANGED <<cand, step, ingest>>
    BY <1>8 DEF PromoteCall, evidence, consumer
  <2> QED BY <1>0, <2>1, <2>2 DEF StagedInv, StagedHasSchema
<1>9. ASSUME NEW p \in Promoters, PromotePublish(p) PROVE StagedInv'
  <2>1. UNCHANGED <<cand, step, ingest>>
    BY <1>9 DEF PromotePublish, evidence, consumer
  <2>2. \A q \in Promoters : q # p => promo'[q] = promo[q]
    BY <1>9 DEF PromotePublish, PromoOK
  <2>3. promo'[p].step = "stage" => promo'[p].id \in DOMAIN alias'
    <3>1. CASE V!PublishScript(promo[p].request) /\ promo' = [promo EXCEPT ![p].step = "stage"]
      <4>1. promo[p].request.alias_from = promo[p].id
        BY <1>9 DEF PromotePublish, PromoOK
      <4>2. promo[p].id \in DOMAIN alias'
        BY <3>1, <4>1, ScriptFacts
      <4> QED BY <3>1, <4>2 DEF PromoOK, PromoState
    <3>2. CASE promo' = [promo EXCEPT ![p] = IdlePromo]
      BY <3>2 DEF PromoOK, IdlePromo
    <3> QED BY <1>9, <3>1, <3>2 DEF PromotePublish
  <2> QED BY <1>0, <2>1, <2>2, <2>3 DEF StagedInv, StagedHasSchema
<1>10. ASSUME NEW p \in Promoters, PromoteStage(p) PROVE StagedInv'
  <2>1. promo[p].id \in CandIds /\ promo[p].id \in DOMAIN alias
    BY <1>10 DEF PromoteStage, PromoOK, StagedInv
  <2>2. promo'[p].step = "idle" /\ \A q \in Promoters : q # p => promo'[q] = promo[q]
    BY <1>10 DEF PromoteStage, PromoOK, IdlePromo
  <2>3. UNCHANGED <<step, ingest>>
    BY <1>10 DEF PromoteStage, consumer
  <2>4. PICK c \in CandIds : c = promo[p].id /\ SetState(c, "staged") /\ c \in DOMAIN alias
    BY <1>10, <2>1 DEF PromoteStage
  <2>5. "staged" \in States
    BY DEF States
  <2>6. DOMAIN cand' = DOMAIN cand /\ \A d \in DOMAIN cand : d # c => cand'[d] = cand[d]
    BY <2>4, <2>5, SetStateFacts
  <2>7. StagedHasSchema'
    BY <1>0, <2>4, <2>6 DEF StagedInv, StagedHasSchema
  <2> QED BY <1>0, <2>2, <2>3, <2>7 DEF StagedInv
<1>11. ASSUME NEW p \in Promoters, PromoteFails(p) PROVE StagedInv'
  <2>1. promo'[p].step = "idle" /\ \A q \in Promoters : q # p => promo'[q] = promo[q]
    BY <1>11 DEF PromoteFails, PromoOK, IdlePromo
  <2>2. UNCHANGED <<cand, step, ingest>>
    BY <1>11 DEF PromoteFails, evidence, consumer
  <2> QED BY <1>0, <2>1, <2>2 DEF StagedInv, StagedHasSchema
<1>12. CASE Probe \/ Listing \/ Idle \/ UNCHANGED vars
  <2>1. UNCHANGED <<cand, promo, step, ingest>>
    BY <1>12 DEF Probe, Listing, Mirror, MirrorLost, ListStale, RemoveStale, ReindexAdd,
       ReindexStart, ReindexDrop, ReindexRead, ReindexDone, Idle, vars, evidence, consumer
  <2> QED BY <1>1, <2>1
<1>13. ASSUME NEW c \in CandIds, Reject(c) PROVE StagedInv'
  <2>1. "rejected" \in States
    BY DEF States
  <2>2. DOMAIN cand' = DOMAIN cand /\ \A d \in DOMAIN cand : cand'[d].state \in {cand[d].state, "rejected"}
    BY <1>13, <2>1, SetStateFacts DEF Reject
  <2>3. UNCHANGED <<promo, step, ingest>>
    BY <1>13 DEF Reject, consumer
  <2>4. StagedHasSchema'
    BY <1>0, <2>2 DEF StagedInv, StagedHasSchema
  <2> QED BY <1>0, <2>3, <2>4 DEF StagedInv
<1>14. CASE Expiry
  <2>1. UNCHANGED <<promo, step, ingest>>
    BY <1>14 DEF Expiry, ExpireCandidate, ExpireVariants, ExpireCluster, consumer
  <2>2. DOMAIN cand' \subseteq DOMAIN cand /\ \A d \in DOMAIN cand' : cand'[d] = cand[d]
    BY <1>14 DEF Expiry, ExpireCandidate, ExpireVariants, ExpireCluster, Without
  <2>3. StagedHasSchema'
    BY <1>0, <2>2 DEF StagedInv, StagedHasSchema
  <2> QED BY <1>0, <2>1, <2>3 DEF StagedInv
<1> QED
  BY <1>3, <1>4, <1>5, <1>6, <1>7, <1>8, <1>9, <1>10, <1>11, <1>12, <1>13, <1>14
  DEF Next, Consume, Promote

\* Promoter::promote publishes before it sets the state: a candidate that says
\* it is Staged has an alias to a durable schema, whatever failed or raced.
THEOREM StagedIsDurable == Spec => []StagedHasSchema
<1>1. Init => StagedInv
  BY DEF Init, StagedInv, StagedHasSchema, IdlePromo
<1>2. TypeOK /\ StagedInv /\ [Next]_vars => StagedInv'
  BY StagedStep
<1>3. StagedInv => StagedHasSchema
  BY DEF StagedInv
<1> QED BY <1>1, <1>2, <1>3, TypesHold, PTL DEF Spec

-----------------------------------------------------------------------------
(* What was folded into a candidate.                                        *)

\* A record's profile and count are those of the messages it has seen.
Faithful(r) ==
    /\ r.profile = {Log[i].shape : i \in r.seen}
    /\ IsFiniteSet(r.seen) /\ r.count >= Cardinality(r.seen)

\* So it is for the stored records, and for the copy an ingest works on.
FaithInv ==
    /\ \A c \in DOMAIN cand : Faithful(cand[c])
    /\ step = "upsert" => Faithful(ingest.record)

\* A record merged with one more observation is faithful again.
LEMMA MergedFaithful ==
    ASSUME TypeOK, step = "upsert", Faithful(ingest.record)
    PROVE  Faithful(Merged)
<1>1. PICK r : r = ingest.record
  OBVIOUS
<1>2. Faithful(r) /\ r.count \in Nat /\ r.seen \in SUBSET Nat
  BY <1>1 DEF TypeOK, IngestOK, Record
<1>3. /\ Merged.profile = r.profile \union {Log[position].shape}
      /\ Merged.count = r.count + 1 /\ Merged.seen = r.seen \union {position}
  BY <1>1 DEF Merged, Message
<1>4. /\ IsFiniteSet(r.seen \union {position})
      /\ Cardinality(r.seen \union {position}) \in {Cardinality(r.seen), Cardinality(r.seen) + 1}
      /\ Cardinality(r.seen) \in Nat
  BY <1>2, FS_AddElement, FS_CardinalityType DEF Faithful
<1>5. Merged.count >= Cardinality(Merged.seen)
  BY <1>2, <1>3, <1>4 DEF Faithful
<1>6. Merged.profile = {Log[i].shape : i \in Merged.seen}
  BY <1>2, <1>3 DEF Faithful
<1> QED BY <1>3, <1>4, <1>5, <1>6 DEF Faithful

\* Every step keeps the records faithful.
LEMMA FaithStep ==
    ASSUME TypeOK, FaithInv, [Next]_vars
    PROVE  FaithInv'
<1> USE DEF TypeOK
<1>1. ASSUME /\ DOMAIN cand' \subseteq DOMAIN cand
             /\ \A d \in DOMAIN cand' : /\ cand'[d].profile = cand[d].profile
                                        /\ cand'[d].count = cand[d].count
                                        /\ cand'[d].seen = cand[d].seen,
             UNCHANGED <<step, ingest>> \/ step' # "upsert"
      PROVE  FaithInv'
  <2>1. \A d \in DOMAIN cand' : Faithful(cand'[d])
    BY <1>1 DEF FaithInv, Faithful
  <2>2. step' = "upsert" => Faithful(ingest'.record)
    BY <1>1 DEF FaithInv
  <2> QED BY <2>1, <2>2 DEF FaithInv, Faithful
<1>2. CASE SkipMalformed \/ LookUp \/ SetCluster \/ AddVariant \/ AppendEvidence \/ Ack
  <2>1. cand' = cand /\ step' # "upsert"
    BY <1>2 DEF SkipMalformed, LookUp, SetCluster, AddVariant, AppendEvidence, Ack, evidence
  <2> QED BY <1>1, <2>1
<1>3. CASE IngestFails \/ ConsumerFails \/ Restart
  <2>1. cand' = cand /\ step' # "upsert"
    BY <1>3 DEF IngestFails, ConsumerFails, Restart, evidence
  <2> QED BY <1>1, <2>1
<1>4. CASE ReadCandidate
  <2>1. cand' = cand
    BY <1>4 DEF ReadCandidate, evidence
  <2>2. Faithful(NoRecord)
    BY FS_EmptySet DEF NoRecord, Faithful
  <2>3. step' = "upsert" => ingest'.record = NoRecord \/ \E c \in DOMAIN cand : ingest'.record = cand[c]
    BY <1>4 DEF ReadCandidate, IngestOK
  <2>4. step' = "upsert" => Faithful(ingest'.record)
    BY <2>2, <2>3 DEF FaithInv
  <2> QED BY <2>1, <2>4 DEF FaithInv, Faithful
<1>5. CASE Upsert
  <2>1. PICK r : r = Merged
    OBVIOUS
  <2>2. Faithful(r)
    BY <1>5, <2>1, MergedFaithful DEF Upsert, FaithInv
  <2>3. cand' = Put(cand, ingest.target, r) /\ step' = "cluster"
    BY <1>5, <2>1 DEF Upsert
  <2>4. \A d \in DOMAIN cand' : Faithful(cand'[d])
    BY <2>2, <2>3 DEF FaithInv, Put
  <2> QED BY <2>3, <2>4 DEF FaithInv, Faithful
<1>6. CASE Promote
  <2>1. UNCHANGED <<step, ingest>>
    BY <1>6, ConsumerFrame DEF consumer
  <2>2. ASSUME NEW p \in Promoters, PromoteStage(p) PROVE FaithInv'
    <3>1. promo[p].id \in CandIds /\ "staged" \in States
      BY <2>2 DEF PromoteStage, PromoOK, States
    <3>2. PICK c \in CandIds : SetState(c, "staged")
      BY <2>2, <3>1 DEF PromoteStage
    <3> QED BY <1>1, <2>1, <3>1, <3>2, SetStateFacts
  <2>3. ASSUME NEW p \in Promoters,
               \/ \E c \in CandIds : PromoteRead(p, c)
               \/ \E f \in Families : PromoteCall(p, f)
               \/ PromotePublish(p) \/ PromoteFails(p)
        PROVE  cand' = cand
    BY <2>3 DEF PromoteRead, PromoteCall, PromotePublish, PromoteFails, evidence
  <2> QED BY <1>1, <1>6, <2>1, <2>2, <2>3 DEF Promote
<1>7. ASSUME NEW c \in CandIds, Reject(c) PROVE FaithInv'
  <2>1. "rejected" \in States /\ UNCHANGED <<step, ingest>>
    BY <1>7 DEF States, Reject, consumer
  <2> QED BY <1>1, <1>7, <2>1, SetStateFacts DEF Reject
<1>8. CASE Probe \/ Listing \/ Idle \/ UNCHANGED vars
  <2>1. UNCHANGED <<cand, step, ingest>>
    BY <1>8 DEF Probe, Listing, Mirror, MirrorLost, ListStale, RemoveStale, ReindexAdd,
       ReindexStart, ReindexDrop, ReindexRead, ReindexDone, Idle, vars, evidence, consumer
  <2> QED BY <1>1, <2>1
<1>9. CASE Expiry
  <2>1. UNCHANGED <<step, ingest>>
    BY <1>9, ConsumerFrame DEF consumer
  <2>2. DOMAIN cand' \subseteq DOMAIN cand /\ \A d \in DOMAIN cand' : cand'[d] = cand[d]
    BY <1>9 DEF Expiry, ExpireCandidate, ExpireVariants, ExpireCluster, Without
  <2> QED BY <1>1, <2>1, <2>2
<1> QED BY <1>2, <1>3, <1>4, <1>5, <1>6, <1>7, <1>8, <1>9 DEF Next, Consume

\* ColdLane::ingest reads, merges and writes in three steps, and is retried
\* from the start when one fails: for every topic, a candidate's profile is
\* the fold of the messages counted in it, and none is folded in uncounted.
THEOREM FoldIsFaithful == Spec => []ProfileIsWhatWasSeen
<1>1. Init => FaithInv
  BY DEF Init, FaithInv
<1>2. TypeOK /\ FaithInv /\ [Next]_vars => FaithInv'
  BY FaithStep
<1>3. FaithInv => ProfileIsWhatWasSeen
  BY DEF FaithInv, Faithful, ProfileIsWhatWasSeen
<1> QED BY <1>1, <1>2, <1>3, TypesHold, PTL DEF Spec

-----------------------------------------------------------------------------
(* The listings.                                                            *)

Listed(c) == \E s \in States : c \in listed[s]

\* While nothing has expired, every id in the listings or on its way to them
\* has a hash, so list_candidates has nothing to remove, and a candidate that
\* is not listed is still owed by the rebuild that is running.
UnexpiredInv ==
    /\ stale = {}
    /\ \A s \in States : listed[s] \subseteq DOMAIN cand
    /\ \A m \in mirrors : m[1] \in DOMAIN cand
    /\ \A e \in reindex.found : e[1] \in DOMAIN cand
    /\ \A d, e \in reindex.found : d = e
    /\ \A c \in DOMAIN cand :
          \/ Listed(c) \/ reindex.step = "drop"
          \/ reindex.step = "scan" /\ (c \in reindex.toScan \/ \E s \in States : <<c, s>> \in reindex.found)

ListingInv ==
    /\ budget.expiries <= MaxExpiries
    /\ budget.expiries = MaxExpiries => UnexpiredInv

\* The expiries left never grow, and one that happens takes one.
LEMMA ExpiriesLeft ==
    ASSUME TypeOK, [Next]_vars
    PROVE  /\ budget.expiries \in Nat /\ budget'.expiries \in Nat
           /\ budget'.expiries <= budget.expiries
           /\ (\E c \in CandIds : ExpireCandidate(c)) => budget'.expiries < budget.expiries
<1>1. budget \in Budget
  BY DEF TypeOK
<1>2. \/ UNCHANGED budget
      \/ \E b \in {"faults", "reindexes", "rejects"} : Spend(b)
      \/ \E c \in CandIds : ExpireCandidate(c)
      \/ \E k \in DOMAIN cluster : ExpireCluster(k)
  <2>1. CASE Consume \/ IngestFails \/ ConsumerFails \/ Restart
    BY <2>1 DEF Consume, SkipMalformed, LookUp, ReadCandidate, Upsert, SetCluster, AddVariant,
       AppendEvidence, Ack, IngestFails, ConsumerFails, Restart
  <2>2. CASE Promote
    BY <2>2 DEF Promote, PromoteRead, PromoteCall, PromotePublish, PromoteStage, PromoteFails
  <2>3. CASE Probe \/ (\E c \in CandIds : Reject(c)) \/ Idle \/ UNCHANGED vars
    BY <2>3 DEF Probe, Reject, Idle, vars
  <2>4. CASE Listing
    BY <2>4 DEF Listing, Mirror, MirrorLost, ListStale, RemoveStale, ReindexAdd, ReindexStart,
       ReindexDrop, ReindexRead, ReindexDone
  <2>5. CASE Expiry
    BY <2>5 DEF Expiry, ExpireVariants
  <2> QED BY <2>1, <2>2, <2>3, <2>4, <2>5 DEF Next
<1>3. CASE UNCHANGED budget /\ ~\E c \in CandIds : ExpireCandidate(c)
  BY <1>1, <1>3 DEF Budget
<1>4. CASE ~\E c \in CandIds : ExpireCandidate(c)
  <2>1. ASSUME NEW b \in {"faults", "expiries", "reindexes", "rejects"}, Spend(b)
        PROVE  budget' \in Budget /\ budget'.expiries <= budget.expiries
    BY <1>1, <2>1, SpendFacts
  <2>2. UNCHANGED budget \/ \E b \in {"faults", "expiries", "reindexes", "rejects"} : Spend(b)
    BY <1>2, <1>4 DEF ExpireCluster
  <2> QED BY <1>1, <1>3, <1>4, <2>1, <2>2 DEF Budget
<1>5. CASE \E c \in CandIds : ExpireCandidate(c)
  <2>1. Spend("expiries")
    BY <1>5 DEF ExpireCandidate
  <2>2. budget' \in Budget /\ budget'.expiries < budget.expiries
    BY <1>1, <2>1, SpendFacts
  <2> QED BY <1>1, <2>2 DEF Budget
<1> QED BY <1>4, <1>5

\* A step that expires no candidate keeps the listings whole.
LEMMA UnexpiredStep ==
    ASSUME TypeOK, UnexpiredInv, [Next]_vars, ~\E c \in CandIds : ExpireCandidate(c)
    PROVE  UnexpiredInv'
<1> USE DEF TypeOK
<1>1. ASSUME DOMAIN cand' = DOMAIN cand, UNCHANGED <<listed, stale, reindex>>,
             \A m \in mirrors' : m[1] \in DOMAIN cand
      PROVE  UnexpiredInv'
  BY <1>1 DEF UnexpiredInv, Listed
<1>2. CASE Upsert
  <2>1. PICK c, r : c = ingest.target /\ r = Merged
    OBVIOUS
  <2>2. r.state \in States
    BY <1>2, <2>1, MergedFacts DEF Upsert, Record
  <2>3. DOMAIN cand' = DOMAIN cand \union {c} /\ UNCHANGED <<mirrors, stale, reindex>>
    BY <1>2, <2>1 DEF Upsert, Put
  <2>4. listed' = [listed EXCEPT ![r.state] = @ \union {c}]
    BY <1>2, <2>1 DEF Upsert
  <2>5. /\ \A s \in States : listed[s] \subseteq listed'[s] /\ listed'[s] \subseteq listed[s] \union {c}
        /\ c \in listed'[r.state]
    BY <2>2, <2>4 DEF EvidenceOK
  <2>6. \A d \in DOMAIN cand : Listed(d) => Listed(d)'
    BY <2>5 DEF Listed
  <2>7. Listed(c)'
    BY <2>2, <2>5 DEF Listed
  <2> QED BY <2>3, <2>5, <2>6, <2>7 DEF UnexpiredInv
<1>3. CASE SkipMalformed \/ LookUp \/ ReadCandidate \/ SetCluster \/ AddVariant
             \/ AppendEvidence \/ Ack \/ IngestFails \/ ConsumerFails \/ Restart
  <2>1. UNCHANGED <<cand, listed, stale, reindex, mirrors>>
    BY <1>3 DEF SkipMalformed, LookUp, ReadCandidate, SetCluster, AddVariant, AppendEvidence, Ack,
       IngestFails, ConsumerFails, Restart, evidence
  <2> QED BY <1>1, <2>1 DEF UnexpiredInv
<1>4. CASE Promote
  <2>1. ASSUME NEW p \in Promoters, PromoteStage(p) PROVE UnexpiredInv'
    <3>1. promo[p].id \in CandIds /\ "staged" \in States
      BY <2>1 DEF PromoteStage, PromoOK, States
    <3>2. PICK c \in CandIds : SetState(c, "staged")
      BY <2>1, <3>1 DEF PromoteStage
    <3>3. /\ DOMAIN cand' = DOMAIN cand /\ mirrors' \subseteq mirrors \union {<<c, "staged">>}
          /\ mirrors' # mirrors => c \in DOMAIN cand
      BY <3>1, <3>2, SetStateFacts
    <3>4. \A m \in mirrors' : m[1] \in DOMAIN cand
      BY <3>3 DEF UnexpiredInv
    <3> QED BY <1>1, <2>1, <3>3, <3>4 DEF PromoteStage
  <2>2. ASSUME NEW p \in Promoters,
               \/ \E c \in CandIds : PromoteRead(p, c)
               \/ \E f \in Families : PromoteCall(p, f)
               \/ PromotePublish(p) \/ PromoteFails(p)
        PROVE  UNCHANGED <<cand, listed, stale, reindex, mirrors>>
    BY <2>2 DEF PromoteRead, PromoteCall, PromotePublish, PromoteFails, evidence
  <2> QED BY <1>1, <1>4, <2>1, <2>2 DEF Promote, UnexpiredInv
<1>5. ASSUME NEW c \in CandIds, Reject(c) PROVE UnexpiredInv'
  <2>1. "rejected" \in States
    BY DEF States
  <2>2. /\ DOMAIN cand' = DOMAIN cand /\ mirrors' \subseteq mirrors \union {<<c, "rejected">>}
        /\ mirrors' # mirrors => c \in DOMAIN cand
    BY <1>5, <2>1, SetStateFacts DEF Reject
  <2>3. \A m \in mirrors' : m[1] \in DOMAIN cand
    BY <2>2 DEF UnexpiredInv
  <2> QED BY <1>1, <1>5, <2>2, <2>3 DEF Reject
<1>6. CASE Probe \/ Idle \/ UNCHANGED vars
  <2>1. UNCHANGED <<cand, listed, stale, reindex, mirrors>>
    BY <1>6 DEF Probe, Idle, vars, evidence
  <2> QED BY <1>1, <2>1 DEF UnexpiredInv
<1>7. CASE Expiry
  <2>1. UNCHANGED <<cand, listed, stale, reindex, mirrors>>
    BY <1>7 DEF Expiry, ExpireVariants, ExpireCluster
  <2> QED BY <1>1, <2>1 DEF UnexpiredInv
<1>8. ASSUME NEW c \in CandIds, NEW s \in States, Mirror(c, s) PROVE UnexpiredInv'
  <2>1. c \in DOMAIN cand /\ mirrors' \subseteq mirrors /\ UNCHANGED <<cand, stale, reindex>>
    BY <1>8 DEF Mirror, UnexpiredInv
  <2>2. listed' = [t \in States |-> IF t = s THEN listed[t] \union {c} ELSE listed[t] \ {c}]
    BY <1>8 DEF Mirror
  <2>3. \A d \in DOMAIN cand : Listed(d) => Listed(d)'
    BY <2>2 DEF Listed
  <2>4. \A t \in States : listed'[t] \subseteq DOMAIN cand
    BY <2>1, <2>2 DEF UnexpiredInv
  <2> QED BY <2>1, <2>3, <2>4 DEF UnexpiredInv
<1>9. ASSUME NEW c \in CandIds, NEW s \in States, MirrorLost(c, s) PROVE UnexpiredInv'
  <2>1. UNCHANGED <<cand, listed, stale, reindex>> /\ mirrors' \subseteq mirrors
    BY <1>9 DEF MirrorLost, evidence
  <2> QED BY <1>1, <2>1 DEF UnexpiredInv
<1>10. ASSUME NEW c \in CandIds, NEW s \in States, ListStale(s, c) \/ RemoveStale(s, c)
       PROVE  FALSE
  BY <1>10 DEF ListStale, RemoveStale, UnexpiredInv
<1>11. ASSUME NEW c \in CandIds, NEW s \in States, ReindexAdd(c, s) PROVE UnexpiredInv'
  <2>1. /\ c \in DOMAIN cand /\ \A e \in reindex.found : e = <<c, s>>
        /\ listed' = [listed EXCEPT ![s] = @ \union {c}]
        /\ UNCHANGED <<cand, mirrors, stale>>
    BY <1>11 DEF ReindexAdd, UnexpiredInv
  <2>2. /\ reindex'.step = reindex.step /\ reindex'.toScan = reindex.toScan
        /\ reindex'.found = {}
    BY <1>11 DEF ReindexAdd, ListingOK, ReindexState
  <2>3. \A t \in States : listed[t] \subseteq listed'[t] /\ listed'[t] \subseteq DOMAIN cand
    BY <2>1 DEF EvidenceOK, UnexpiredInv
  <2>4. \A d \in DOMAIN cand : Listed(d) => Listed(d)'
    BY <2>3 DEF Listed
  <2>5. Listed(c)'
    BY <2>1 DEF Listed, EvidenceOK
  <2>6. ASSUME NEW d \in DOMAIN cand, NEW t \in States, <<d, t>> \in reindex.found PROVE Listed(d)'
    BY <2>1, <2>5, <2>6
  <2> QED BY <2>1, <2>2, <2>3, <2>4, <2>6 DEF UnexpiredInv
<1>12. CASE ReindexStart
  <2>1. reindex'.step = "drop" /\ reindex'.found = reindex.found /\ UNCHANGED <<cand, listed, mirrors, stale>>
    BY <1>12 DEF ReindexStart, ListingOK, ReindexState, evidence
  <2> QED BY <2>1 DEF UnexpiredInv
<1>13. ASSUME NEW s \in States, ReindexDrop(s) PROVE UnexpiredInv'
  <2>1. UNCHANGED <<cand, mirrors, stale>> /\ reindex'.found = reindex.found
        /\ (reindex'.step = "drop" \/ (reindex'.step = "scan" /\ reindex'.toScan = DOMAIN cand))
    <3>1. reindex \in ReindexState /\ reindex.step = "drop" /\ UNCHANGED <<cand, mirrors, stale>>
      BY <1>13 DEF ReindexDrop, ListingOK
    <3>2. CASE reindex' = [reindex EXCEPT !.step = "scan", !.toDrop = {}, !.toScan = DOMAIN cand]
      <4>1. PICK d : d = DOMAIN cand
        OBVIOUS
      <4>2. reindex' = [reindex EXCEPT !.step = "scan", !.toDrop = {}, !.toScan = d]
        BY <3>2, <4>1
      <4>3. reindex'.found = reindex.found /\ reindex'.step = "scan" /\ reindex'.toScan = d
        BY <3>1, <4>2 DEF ReindexState
      <4> QED BY <3>1, <4>1, <4>3
    <3>3. CASE reindex' = [reindex EXCEPT !.toDrop = @ \ {s}]
      <4>1. PICK d : reindex' = [reindex EXCEPT !.toDrop = d]
        BY <3>3
      <4>2. reindex'.found = reindex.found /\ reindex'.step = reindex.step
        BY <3>1, <4>1 DEF ReindexState
      <4> QED BY <3>1, <4>2
    <3> QED BY <1>13, <3>1, <3>2, <3>3 DEF ReindexDrop
  <2>2. \A t \in States : listed'[t] \subseteq listed[t]
    BY <1>13 DEF ReindexDrop, EvidenceOK
  <2> QED BY <2>1, <2>2 DEF UnexpiredInv
<1>14. ASSUME NEW c \in CandIds, ReindexRead(c) PROVE UnexpiredInv'
  <2>1. PICK f : f = IF c \in DOMAIN cand THEN {<<c, cand[c].state>>} ELSE {}
    OBVIOUS
  <2>2. reindex' = [reindex EXCEPT !.toScan = @ \ {c}, !.found = f]
        /\ reindex.step = "scan" /\ reindex.found = {}
        /\ UNCHANGED <<cand, listed, mirrors, stale>>
    BY <1>14, <2>1 DEF ReindexRead, evidence
  <2>3. reindex'.step = "scan" /\ reindex'.toScan = reindex.toScan \ {c} /\ reindex'.found = f
    BY <2>2 DEF ListingOK, ReindexState
  <2>4. c \in DOMAIN cand => cand[c].state \in States /\ <<c, cand[c].state>> \in f
    BY <2>1 DEF EvidenceOK, Record
  <2>5. (\A e \in f : e[1] \in DOMAIN cand) /\ \A d, e \in f : d = e
    BY <2>1
  <2>6. \A d \in DOMAIN cand : Listed(d) => Listed(d)'
    BY <2>2 DEF Listed
  <2>7. ASSUME NEW d \in DOMAIN cand
        PROVE  Listed(d)' \/ d \in reindex'.toScan \/ \E s \in States : <<d, s>> \in f
    BY <2>2, <2>3, <2>4, <2>6 DEF UnexpiredInv
  <2> QED BY <2>2, <2>3, <2>5, <2>7 DEF UnexpiredInv
<1>15. CASE ReindexDone
  <2>1. reindex.toScan = {} /\ reindex.found = {} /\ reindex.step = "scan"
        /\ reindex'.found = {} /\ UNCHANGED <<cand, listed, mirrors, stale>>
    BY <1>15 DEF ReindexDone, IdleReindex, evidence
  <2>2. \A d \in DOMAIN cand : Listed(d)
    BY <2>1 DEF UnexpiredInv
  <2>3. \A d \in DOMAIN cand : Listed(d)'
    BY <2>1, <2>2 DEF Listed
  <2> QED BY <2>1, <2>3 DEF UnexpiredInv
<1>16. CASE Listing
  BY <1>8, <1>9, <1>10, <1>11, <1>12, <1>13, <1>14, <1>15, <1>16 DEF Listing
<1> QED BY <1>2, <1>3, <1>4, <1>5, <1>6, <1>7, <1>16 DEF Next, Consume

\* rebuild_candidate_index drops the listings before it rescans the hashes,
\* beside ingests, promotions, rejections and other rebuilds: as long as no
\* key has expired, no candidate is missing from them once they are at rest.
THEOREM NoCandidateUnlisted == Spec => []ListedSomewhere
<1>1. Init => ListingInv
  BY DiscoveryAssumption DEF Init, ListingInv, UnexpiredInv, IdleReindex
<1>2. TypeOK /\ ListingInv /\ [Next]_vars => ListingInv'
  <2> SUFFICES ASSUME TypeOK, ListingInv, [Next]_vars PROVE ListingInv'
    OBVIOUS
  <2>0. PICK n, m : n = budget.expiries /\ m = budget'.expiries
    OBVIOUS
  <2>1. n \in Nat /\ m \in Nat /\ n = budget.expiries /\ m = budget'.expiries /\ m <= n
    BY <2>0, ExpiriesLeft
  <2>2. n <= MaxExpiries /\ MaxExpiries \in Nat
    BY <2>1, DiscoveryAssumption DEF ListingInv
  <2>3. ASSUME m = MaxExpiries PROVE UnexpiredInv'
    <3>1. n = MaxExpiries
      BY <2>1, <2>2, <2>3
    <3>2. ~\E c \in CandIds : ExpireCandidate(c)
      <4>1. (\E c \in CandIds : ExpireCandidate(c)) => m < n
        BY <2>1, ExpiriesLeft
      <4> QED BY <2>1, <2>3, <3>1, <4>1
    <3> QED BY <2>1, <3>1, <3>2, UnexpiredStep DEF ListingInv
  <2> QED BY <2>1, <2>2, <2>3 DEF ListingInv
<1>3. ListingInv => ListedSomewhere
  BY DEF ListingInv, UnexpiredInv, ListedSomewhere, AtRest, Listed
<1> QED BY <1>1, <1>2, <1>3, TypesHold, PTL DEF Spec

-----------------------------------------------------------------------------
(* Promotion implements the vault's publishers.                             *)

\* The vault's calls in flight.
Calls == [p \in InFlight |-> promo[p].request]

\* A step that writes neither the vault nor a promotion between its gate check
\* and its script is no step of the vault.
LEMMA VaultStutter ==
    ASSUME UNCHANGED <<vault, healthy>>,
           \A p \in Promoters : /\ promo'[p].step = "publish" <=> promo[p].step = "publish"
                                /\ promo[p].step = "publish" => promo'[p] = promo[p]
    PROVE  UNCHANGED V!vars
<1>1. Calls' = Calls
  BY DEF Calls, InFlight
<1> QED BY <1>1 DEF V!vars, V!store, V!rebuild, vault, Calls

\* The script ran, or the round trip failed: the call is over.
LEMMA CallEnds ==
    ASSUME NEW p \in Promoters, promo[p].step = "publish", promo'[p].step # "publish",
           \A q \in Promoters : q # p => promo'[q] = promo[q]
    PROVE  p \in DOMAIN Calls /\ Calls[p] = promo[p].request /\ Calls' = V!Without(Calls, p)
BY DEF Calls, InFlight, V!Without

\* Every step of the cold lane is a step of the vault, or none.
LEMMA VaultStep ==
    ASSUME TypeOK, [Next]_vars
    PROVE  [V!Next]_(V!vars)
<1> USE DEF TypeOK
<1>1. ASSUME UNCHANGED <<vault, healthy, promo>> PROVE UNCHANGED V!vars
  BY <1>1, VaultStutter
<1>2. CASE Consume \/ IngestFails \/ ConsumerFails \/ Restart
  BY <1>1, <1>2 DEF Consume, SkipMalformed, LookUp, ReadCandidate, Upsert, SetCluster, AddVariant,
     AppendEvidence, Ack, IngestFails, ConsumerFails, Restart
<1>3. CASE (\E c \in CandIds : Reject(c)) \/ Idle \/ UNCHANGED vars
  BY <1>1, <1>3 DEF Reject, Idle, vars
<1>4. CASE Listing
  <2>1. UNCHANGED <<vault, healthy, promo>>
    BY <1>4 DEF Listing, Mirror, MirrorLost, ListStale, RemoveStale, ReindexAdd, ReindexStart,
       ReindexDrop, ReindexRead, ReindexDone
  <2> QED BY <1>1, <2>1
<1>5. CASE Expiry
  <2>1. UNCHANGED <<vault, healthy, promo>>
    BY <1>5 DEF Expiry, ExpireCandidate, ExpireVariants, ExpireCluster
  <2> QED BY <1>1, <2>1
<1>6. CASE Probe
  <2>1. UNCHANGED <<vault, promo>> /\ healthy' \in BOOLEAN /\ healthy' # healthy
    BY <1>6 DEF Probe, PromoOK
  <2>2. Calls' = Calls
    BY <2>1 DEF Calls, InFlight
  <2>3. V!Probe
    BY <2>1, <2>2 DEF V!Probe, V!store, V!rebuild, vault, Calls
  <2> QED BY <2>3 DEF V!Next, V!Publishing
<1>7. ASSUME NEW p \in Promoters, NEW c \in CandIds, PromoteRead(p, c) PROVE UNCHANGED V!vars
  <2>1. /\ promo[p].step = "idle" /\ promo'[p].step = "variants"
        /\ \A q \in Promoters : q # p => promo'[q] = promo[q]
    BY <1>7 DEF PromoteRead, IdlePromo, PromoOK
  <2> QED BY <1>7, <2>1, VaultStutter DEF PromoteRead
<1>8. ASSUME NEW p \in Promoters, NEW f \in Families, PromoteCall(p, f) PROVE V!Next
  <2>1. PICK r \in V!Request : r = PublishRequest(p, f)
    BY <1>8, RequestFacts DEF PromoteCall
  <2>2. promo' = [promo EXCEPT ![p].step = "publish", ![p].request = r] /\ promo[p].step = "variants"
    BY <1>8, <2>1 DEF PromoteCall
  <2>3. /\ promo'[p].step = "publish" /\ promo'[p].request = r
        /\ \A q \in Promoters : q # p => promo'[q] = promo[q]
    BY <2>2 DEF PromoOK, PromoState
  <2>4. p \notin DOMAIN Calls /\ Calls' = V!Put(Calls, p, r)
    <3>1. p \notin InFlight /\ InFlight' = InFlight \union {p}
      BY <2>2, <2>3 DEF InFlight
    <3>2. \A q \in InFlight : promo'[q].request = promo[q].request
      BY <2>3, <3>1 DEF InFlight
    <3>3. DOMAIN Calls = InFlight /\ \A q \in InFlight : Calls[q] = promo[q].request
      BY DEF Calls
    <3>4. Calls' = [q \in InFlight \union {p} |-> promo'[q].request]
      BY <3>1 DEF Calls
    <3>5. V!Put(Calls, p, r) = [q \in InFlight \union {p} |-> IF q = p THEN r ELSE Calls[q]]
      BY <3>3 DEF V!Put
    <3>6. \A q \in InFlight \union {p} : promo'[q].request = IF q = p THEN r ELSE Calls[q]
      BY <2>3, <3>1, <3>2, <3>3
    <3> QED BY <3>1, <3>3, <3>4, <3>5, <3>6, Zenon
  <2>5. V!PublishCall(p, r)
    BY <1>8, <2>4 DEF PromoteCall, V!PublishCall, V!store, V!rebuild, vault, Calls
  <2> QED BY <2>5 DEF V!Next, V!Publishing
<1>9. ASSUME NEW p \in Promoters, PromotePublish(p) PROVE V!Next
  <2>1. promo[p].step = "publish" /\ promo'[p].step # "publish"
        /\ \A q \in Promoters : q # p => promo'[q] = promo[q]
    BY <1>9 DEF PromotePublish, PromoOK, PromoState, IdlePromo
  <2>2. p \in DOMAIN Calls /\ Calls[p] = promo[p].request /\ Calls' = V!Without(Calls, p)
    BY <2>1, CallEnds
  <2>3. V!PublishScript(Calls[p]) \/ V!PublishRefused(Calls[p])
    BY <1>9, <2>2 DEF PromotePublish
  <2>4. V!PublishRun(p)
    BY <1>9, <2>2, <2>3 DEF PromotePublish, V!PublishRun, V!rebuild, Calls
  <2> QED BY <2>4 DEF V!Next, V!Publishing
<1>10. ASSUME NEW p \in Promoters, PromoteStage(p) PROVE UNCHANGED V!vars
  <2>1. /\ promo[p].step = "stage" /\ promo'[p].step = "idle"
        /\ \A q \in Promoters : q # p => promo'[q] = promo[q]
    BY <1>10 DEF PromoteStage, IdlePromo, PromoOK
  <2> QED BY <1>10, <2>1, VaultStutter DEF PromoteStage
<1>11. ASSUME NEW p \in Promoters, PromoteFails(p) PROVE [V!Next]_(V!vars)
  <2>1. /\ promo'[p].step = "idle"
        /\ \A q \in Promoters : q # p => promo'[q] = promo[q]
    BY <1>11 DEF PromoteFails, IdlePromo, PromoOK
  <2>2. CASE promo[p].step = "publish"
    <3>1. p \in DOMAIN Calls /\ Calls' = V!Without(Calls, p)
      BY <2>1, <2>2, CallEnds
    <3>2. V!PublishLost(p)
      BY <1>11, <3>1 DEF PromoteFails, V!PublishLost, V!store, V!rebuild, vault, Calls
    <3> QED BY <3>2 DEF V!Next, V!Publishing
  <2>3. CASE promo[p].step # "publish"
    BY <1>11, <2>1, <2>3, VaultStutter DEF PromoteFails
  <2> QED BY <2>2, <2>3
<1> QED
  BY <1>2, <1>3, <1>4, <1>5, <1>6, <1>7, <1>8, <1>9, <1>10, <1>11 DEF Next, Promote

\* What the cold lane does to the vault is what the vault's own specification
\* allows its publishers, so what is proved of Vault holds under promotion.
THEOREM PromotionImplementsVault == Spec => PublishesLikeVault
<1>1. Init => V!Init
  <2> SUFFICES ASSUME Init PROVE V!Init
    OBVIOUS
  <2>1. InFlight = {}
    BY DEF Init, InFlight, IdlePromo
  <2>2. [p \in InFlight |-> promo[p].request] = [p \in {} |-> {}]
    BY <2>1
  <2>3. <<>> = [r \in {} |-> "idle"] /\ <<>> = [r \in {} |-> {}]
    OBVIOUS
  <2> QED BY <2>2, <2>3 DEF Init, V!Init
<1>2. TypeOK /\ [Next]_vars => [V!Next]_(V!vars)
  BY VaultStep
<1> QED BY <1>1, <1>2, TypesHold, PTL DEF Spec, PublishesLikeVault, V!Spec

=============================================================================
