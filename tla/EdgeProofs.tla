----------------------------- MODULE EdgeProofs -----------------------------
(***************************************************************************)
(* Proofs about the edge: the settle-and-sample state and the cache in front*)
(* of the structural index (Tagging), the source registry and the display   *)
(* names (Catalogue), and the HTTP ingest proxy (Ingest).                   *)
(***************************************************************************)
EXTENDS Ingest, Tagging, Catalogue, NatFacts, FiniteSetTheorems, TLAPS

-----------------------------------------------------------------------------
(* Tagging: types.                                                          *)

Settle == [known : Schemas \union {Nothing}, consecutive : Nat, settled : BOOLEAN, since_sample : Nat]
Entries == Shapes \X Schemas
Lookup == [source : Sources, shape : Shapes, drift_check : BOOLEAN]

TaggingTypes ==
    /\ settle \in [Sources -> Settle]
    /\ lru \in Seq(Entries)
    /\ resolves \in [Shapes -> SUBSET Schemas]
    /\ pending \in [Lanes -> Lookup \union {NotPending}]
    /\ verdicts \in [Sources -> Seq(Schemas \union {Nothing})]
    /\ skipped \in [Sources -> Nat]
    /\ everHad \subseteq Entries

\* A lane that awaits the registry does so for a record that parsed.
LEMMA PendingFacts ==
    ASSUME TaggingTypes, NEW l \in Lanes, pending[l] # NotPending
    PROVE  /\ pending[l] \in Lookup /\ pending[l].source \in Sources /\ pending[l].shape \in Shapes
           /\ pending[l].drift_check \in BOOLEAN
BY DEF TaggingTypes, Lookup

\* Two runs of cache entries, one behind the other.
LEMMA EntriesConcat ==
    ASSUME NEW a \in Seq(Entries), NEW b \in Seq(Entries)
    PROVE  /\ a \o b \in Seq(Entries) /\ Len(a) \in Nat /\ Len(b) \in Nat
           /\ \A i \in 1..Len(a \o b) : \/ \E j \in 1..Len(a) : (a \o b)[i] = a[j]
                                        \/ \E j \in 1..Len(b) : (a \o b)[i] = b[j]
<1>1. a \o b \in Seq(Entries) /\ Len(a) \in Nat /\ Len(b) \in Nat
  OBVIOUS
<1>2. Len(a \o b) = Len(a) + Len(b)
  OBVIOUS
<1>3. ASSUME NEW i \in 1..Len(a \o b), i <= Len(a) PROVE (a \o b)[i] = a[i] /\ i \in 1..Len(a)
  BY <1>1, <1>2, <1>3
<1>4. ASSUME NEW i \in 1..Len(a \o b), ~(i <= Len(a))
      PROVE  (a \o b)[i] = b[i - Len(a)] /\ i - Len(a) \in 1..Len(b)
  <2>1. i - Len(a) \in 1..Len(b)
    BY <1>1, <1>2, <1>4
  <2> QED BY <1>1, <1>2, <1>4, <2>1
<1> QED BY <1>1, <1>3, <1>4

\* What is left of the cache without one entry was in it.
LEMMA OthersFacts ==
    ASSUME TaggingTypes, NEW x
    PROVE  /\ Others(x) \in Seq(Entries)
           /\ \A i \in 1..Len(Others(x)) : \E j \in 1..Len(lru) : Others(x)[i] = lru[j]
<1>0. lru \in Seq(Entries) /\ Len(lru) \in Nat
  BY DEF TaggingTypes
<1>1. CASE ~Cached(x)
  BY <1>0, <1>1 DEF Others
<1>2. CASE Cached(x)
  <2>1. PICK n \in 1..Len(lru) : n = Entry(x)
    BY <1>2 DEF Cached, Entry
  <2>2. PICK a, b : a = SubSeq(lru, 1, n - 1) /\ b = SubSeq(lru, n + 1, Len(lru))
    OBVIOUS
  <2>3. Others(x) = a \o b
    BY <1>2, <2>1, <2>2 DEF Others
  <2>4. a \in Seq(Entries) /\ Len(a) = n - 1 /\ \A i \in 1..n - 1 : a[i] = lru[i]
    BY <1>0, <2>1, <2>2
  <2>5. b \in Seq(Entries) /\ Len(b) = Len(lru) - n /\ \A i \in 1..Len(lru) - n : b[i] = lru[n + i]
    BY <1>0, <2>1, <2>2
  <2>6. \A i \in 1..Len(a) : \E j \in 1..Len(lru) : a[i] = lru[j]
    BY <1>0, <2>1, <2>4
  <2>7. ASSUME NEW i \in 1..Len(b) PROVE \E j \in 1..Len(lru) : b[i] = lru[j]
    <3>1. n + i \in 1..Len(lru) /\ b[i] = lru[n + i]
      BY <1>0, <2>1, <2>5
    <3> QED BY <3>1
  <2>8. /\ a \o b \in Seq(Entries)
        /\ \A i \in 1..Len(a \o b) : \/ \E j \in 1..Len(a) : (a \o b)[i] = a[j]
                                     \/ \E j \in 1..Len(b) : (a \o b)[i] = b[j]
    BY <2>4, <2>5, EntriesConcat
  <2>9. PICK c : c = a \o b
    OBVIOUS
  <2>10. /\ c \in Seq(Entries)
         /\ \A i \in 1..Len(c) : (\E j \in 1..Len(a) : c[i] = a[j]) \/ (\E j \in 1..Len(b) : c[i] = b[j])
    BY <2>8, <2>9, Zenon
  <2>11. ASSUME NEW i \in 1..Len(c) PROVE \E j \in 1..Len(lru) : c[i] = lru[j]
    <3>1. CASE \E j \in 1..Len(a) : c[i] = a[j]
      BY <2>6, <3>1, Zenon
    <3>2. CASE \E j \in 1..Len(b) : c[i] = b[j]
      BY <2>7, <3>2, Zenon
    <3> QED BY <2>10, <3>1, <3>2
  <2> QED BY <2>3, <2>9, <2>10, <2>11
<1> QED BY <1>1, <1>2

\* A hit's schema is the one its entry holds.
LEMMA CachedFacts ==
    ASSUME TaggingTypes, NEW x, Cached(x)
    PROVE  \E j \in 1..Len(lru) : lru[j] = <<x, CachedId(x)>> /\ lru[j] \in Entries
<1>1. PICK n \in 1..Len(lru) : n = Entry(x) /\ lru[n][1] = x
  BY DEF Cached, Entry
<1>2. lru[n] \in Entries
  BY <1>1 DEF TaggingTypes
<1> QED BY <1>1, <1>2 DEF CachedId, Entries

-----------------------------------------------------------------------------
(* Tagging: a source's run of agreeing classifications.                     *)

\* The run the settle state claims is the end of the verdicts, as far back as
\* they are kept; a source is settled on a full run only.
RunOf(s, vs) ==
    /\ Len(vs) <= Evidence
    /\ s.known = Nothing => ~s.settled
    /\ s.known # Nothing => s.consecutive >= 1
    /\ s.settled => s.consecutive >= Evidence
    /\ \A i \in 1..Evidence : i <= s.consecutive => i <= Len(vs) /\ vs[Len(vs) + 1 - i] = s.known

\* The constants' bounds, as the proofs use them.
LEMMA EvidenceFacts ==
    Evidence \in Nat /\ Evidence >= 2 /\ Evidence >= SettleAfter /\ SettleAfter \in Nat /\ SampleRate \in Nat
<1>1. SettleAfter \in Nat /\ SampleRate \in Nat
  BY TaggingAssumption
<1> QED BY <1>1 DEF Evidence

\* The history keeps the latest verdicts, in order.
LEMMA LastVerdictsFacts ==
    ASSUME NEW vs \in Seq(Schemas \union {Nothing}), Len(vs) <= Evidence,
           NEW v \in Schemas \union {Nothing}
    PROVE  LET ws == LastVerdicts(vs, v)
           IN  /\ ws \in Seq(Schemas \union {Nothing}) /\ Len(ws) <= Evidence /\ Len(ws) >= 1
               /\ ws[Len(ws)] = v
               /\ \A i \in 2..Evidence : i - 1 <= Len(vs) =>
                     i <= Len(ws) /\ ws[Len(ws) + 1 - i] = vs[Len(vs) + 1 - (i - 1)]
<1> DEFINE Verdict == Schemas \union {Nothing}
           all == Append(vs, v)
<1>1. Len(vs) \in Nat /\ Evidence \in Nat /\ Evidence >= 2
  BY EvidenceFacts
<1>2. /\ all \in Seq(Verdict) /\ Len(all) = Len(vs) + 1 /\ all[Len(vs) + 1] = v
      /\ \A i \in 1..Len(vs) : all[i] = vs[i]
  OBVIOUS
<1>3. CASE Len(all) > Evidence
  <2>1. LastVerdicts(vs, v) = Tail(all)
    BY <1>3 DEF LastVerdicts
  <2>2. PICK ws : ws = Tail(all)
    OBVIOUS
  <2> HIDE DEF all, Verdict
  <2>3. /\ ws \in Seq(Verdict) /\ Len(ws) = Len(vs) /\ \A i \in 1..Len(vs) : ws[i] = all[i + 1]
    BY <1>1, <1>2, <2>2
  <2>4. Len(vs) = Evidence
    BY <1>1, <1>2, <1>3
  <2>5. ws[Len(ws)] = v
    BY <1>1, <1>2, <2>3, <2>4
  <2>6. ASSUME NEW i \in 2..Evidence, i - 1 <= Len(vs)
        PROVE  i <= Len(ws) /\ ws[Len(ws) + 1 - i] = vs[Len(vs) + 1 - (i - 1)]
    <3>1. Len(vs) + 1 - i \in 1..Len(vs) /\ Len(vs) + 1 - (i - 1) = (Len(vs) + 1 - i) + 1
          /\ (Len(vs) + 1 - i) + 1 \in 1..Len(vs)
      BY <1>1, <2>4
    <3>2. ws[Len(vs) + 1 - i] = all[(Len(vs) + 1 - i) + 1]
      BY <2>3, <3>1
    <3> QED BY <1>1, <1>2, <2>3, <2>4, <3>1, <3>2
  <2> QED BY <1>1, <2>1, <2>2, <2>3, <2>4, <2>5, <2>6 DEF Verdict
<1>4. CASE ~(Len(all) > Evidence)
  <2>1. LastVerdicts(vs, v) = all
    BY <1>4 DEF LastVerdicts
  <2> HIDE DEF all
  <2>2. ASSUME NEW i \in 2..Evidence, i - 1 <= Len(vs)
        PROVE  i <= Len(all) /\ all[Len(all) + 1 - i] = vs[Len(vs) + 1 - (i - 1)]
    <3>1. Len(all) + 1 - i \in 1..Len(vs) /\ Len(vs) + 1 - (i - 1) = Len(all) + 1 - i
      BY <1>1, <1>2, <2>2
    <3> QED BY <1>1, <1>2, <2>2, <3>1
  <2> QED BY <1>1, <1>2, <1>4, <2>1, <2>2
<1> QED BY <1>3, <1>4

\* after() keeps a run a run.
LEMMA AfterFacts ==
    ASSUME NEW s \in Settle, NEW vs \in Seq(Schemas \union {Nothing}), RunOf(s, vs),
           NEW known \in Schemas \union {Nothing}, NEW drift_check \in BOOLEAN
    PROVE  /\ After(s, known, drift_check) \in Settle
           /\ RunOf(After(s, known, drift_check), LastVerdicts(vs, known))
           /\ After(s, known, drift_check).known \in {known, Nothing}
<1>1. PICK ws : ws = LastVerdicts(vs, known)
  OBVIOUS
<1>2. Len(vs) \in Nat /\ Len(vs) <= Evidence
  BY DEF RunOf
<1>3. /\ ws \in Seq(Schemas \union {Nothing}) /\ Len(ws) <= Evidence /\ Len(ws) >= 1
      /\ ws[Len(ws)] = known
      /\ \A i \in 2..Evidence : i - 1 <= Len(vs) =>
            i <= Len(ws) /\ ws[Len(ws) + 1 - i] = vs[Len(vs) + 1 - (i - 1)]
  BY <1>1, <1>2, LastVerdictsFacts
<1>4. Len(ws) \in Nat /\ Evidence \in Nat /\ Evidence >= 2 /\ Evidence >= SettleAfter /\ SettleAfter \in Nat
  BY <1>3, EvidenceFacts
<1>5. ASSUME NEW t \in Settle, t.known = known, known # Nothing, t.consecutive = 1, ~t.settled
      PROVE  RunOf(t, ws)
  BY <1>3, <1>4, <1>5 DEF RunOf, Settle
<1>6. ASSUME NEW t \in Settle, t.known = known, s.known = known, known # Nothing,
             t.consecutive >= s.consecutive, t.consecutive <= s.consecutive + 1,
             t.settled => \/ s.settled
                          \/ t.consecutive = s.consecutive + 1 /\ t.consecutive >= SettleAfter
      PROVE  RunOf(t, ws)
  <2>1. s.consecutive \in Nat /\ t.consecutive \in Nat /\ s.consecutive >= 1
        /\ s.settled \in BOOLEAN /\ t.settled \in BOOLEAN
    BY <1>6 DEF RunOf, Settle
  <2>2. t.settled => t.consecutive >= Evidence
    <3>1. CASE s.settled
      BY <1>4, <1>6, <2>1, <3>1 DEF RunOf
    <3>2. CASE ~s.settled
      BY <1>6, <2>1, <3>2 DEF Evidence
    <3> QED BY <3>1, <3>2
  <2>3. ASSUME NEW i \in 1..Evidence, i <= t.consecutive
        PROVE  i <= Len(ws) /\ ws[Len(ws) + 1 - i] = known
    <3>1. CASE i = 1
      BY <1>3, <1>4, <3>1
    <3>2. CASE i # 1
      <4>1. i \in 2..Evidence /\ i - 1 \in 1..Evidence /\ i - 1 <= s.consecutive
        BY <1>4, <1>6, <2>1, <2>3, <3>2
      <4>2. i - 1 <= Len(vs) /\ vs[Len(vs) + 1 - (i - 1)] = s.known
        BY <4>1 DEF RunOf
      <4> QED BY <1>3, <1>6, <4>1, <4>2
    <3> QED BY <3>1, <3>2
  <2> QED BY <1>3, <1>6, <2>1, <2>2, <2>3 DEF RunOf
<1>7. CASE known = Nothing
  <2>1. After(s, known, drift_check) = NewSource
    BY <1>7 DEF After
  <2> QED BY <1>1, <1>3, <1>4, <2>1 DEF RunOf, NewSource, Settle
<1>8. CASE known # Nothing /\ s.known = known /\ drift_check
  <2>1. PICK n : n = IF s.consecutive = CounterMax THEN s.consecutive ELSE s.consecutive + 1
    OBVIOUS
  <2>2. After(s, known, drift_check) = [s EXCEPT !.consecutive = n]
    BY <1>8, <2>1 DEF After
  <2>3. n \in Nat /\ n >= s.consecutive /\ n <= s.consecutive + 1
    BY <2>1 DEF Settle
  <2>4. PICK t : t = After(s, known, drift_check)
    OBVIOUS
  <2>5. t \in Settle /\ t.known = s.known /\ t.settled = s.settled /\ t.consecutive = n
    BY <2>2, <2>3, <2>4 DEF Settle
  <2>6. RunOf(t, ws)
    BY <1>6, <1>8, <2>3, <2>5
  <2> QED BY <1>1, <1>8, <2>4, <2>5, <2>6
<1>9. CASE known # Nothing /\ s.known = known /\ ~drift_check
  <2>1. PICK b : b = (s.settled \/ s.consecutive + 1 >= SettleAfter)
    OBVIOUS
  <2>2. s.consecutive \in Nat /\ s.settled \in BOOLEAN /\ b \in BOOLEAN
    BY <2>1 DEF Settle
  <2>3. PICK t : t = After(s, known, drift_check)
    OBVIOUS
  <2>4. t = [s EXCEPT !.consecutive = s.consecutive + 1, !.settled = b]
    <3>1. After(s, known, drift_check)
            = [s EXCEPT !.consecutive = @ + 1, !.settled = @ \/ s.consecutive + 1 >= SettleAfter]
      BY <1>9 DEF After
    <3> QED BY <2>1, <2>3, <3>1, Zenon
  <2>5. t \in Settle /\ t.known = s.known /\ t.settled = b /\ t.consecutive = s.consecutive + 1
    <3>1. PICK x : x = [s EXCEPT !.consecutive = s.consecutive + 1]
      OBVIOUS
    <3>2. x \in Settle /\ x.known = s.known /\ x.consecutive = s.consecutive + 1
      BY <2>2, <3>1 DEF Settle
    <3>3. t = [x EXCEPT !.settled = b]
      BY <2>4, <3>1
    <3>4. t \in Settle
      BY <2>2, <3>2, <3>3 DEF Settle
    <3>5. t.settled = b
      BY <3>2, <3>3, Zenon DEF Settle
    <3> QED BY <3>2, <3>3, <3>4, <3>5 DEF Settle
  <2>6. RunOf(t, ws)
    BY <1>6, <1>9, <2>1, <2>2, <2>5
  <2> QED BY <1>1, <1>9, <2>3, <2>5, <2>6
<1>10. CASE known # Nothing /\ s.known # known
  <2>1. After(s, known, drift_check) = [NewSource EXCEPT !.known = known, !.consecutive = 1]
    BY <1>10 DEF After
  <2>2. PICK t : t = After(s, known, drift_check)
    OBVIOUS
  <2>3. t \in Settle /\ t.known = known /\ t.consecutive = 1 /\ ~t.settled
    <3>1. t = [known |-> known, consecutive |-> 1, settled |-> FALSE, since_sample |-> 0]
      BY <2>1, <2>2 DEF NewSource
    <3>2. t \in Settle
      BY <3>1 DEF Settle
    <3>3. t.known = known /\ t.consecutive = 1 /\ ~t.settled
      BY <3>1, Zenon
    <3> QED BY <3>2, <3>3
  <2>4. RunOf(t, ws)
    BY <1>5, <1>10, <2>3
  <2> QED BY <1>1, <2>2, <2>3, <2>4
<1> QED BY <1>7, <1>8, <1>9, <1>10

-----------------------------------------------------------------------------
(* Tagging: the invariant.                                                  *)

\* A schema id that some shape resolved to at some time.
Backed(id) == id # Nothing => \E x \in Shapes : <<x, id>> \in everHad

\* A settle state that rests on the verdicts and on the index.
Rests(src) ==
    /\ RunOf(settle[src], verdicts[src])
    /\ ~Settles(src) => settle[src] = NewSource
    /\ Backed(settle[src].known)

\* The relay's lane is about to classify a record of the source.
Awaited(src) == pending[RelayLane] # NotPending /\ pending[RelayLane].source = src

\* The sample counter is not behind the records that went by unread, but while
\* the record that resets it is being looked up.
Counted(src) ==
    /\ SampleRate > 1 => skipped[src] < SampleRate
    /\ ~Awaited(src) => skipped[src] <= settle[src].since_sample

TagInv ==
    /\ \A x \in Shapes : \A id \in resolves[x] : <<x, id>> \in everHad
    /\ \A i \in 1..Len(lru) : lru[i] \in everHad
    /\ \A src \in Sources : Rests(src) /\ Counted(src)

\* What a verdict does to the settle states, whichever lane it is for.
LEMMA ClassifiedFacts ==
    ASSUME TaggingTypes, TagInv, UNCHANGED everHad, NEW l \in Lanes, NEW src \in Sources, NEW s \in Settle,
           RunOf(s, verdicts[src]), ~Settles(src) => s = NewSource, Backed(s.known),
           NEW known \in Schemas \union {Nothing}, Backed(known), NEW drift_check \in BOOLEAN,
           Classified(l, src, s, known, drift_check)
    PROVE  /\ settle' \in [Sources -> Settle] /\ skipped' \in [Sources -> Nat]
           /\ verdicts' \in [Sources -> Seq(Schemas \union {Nothing})]
           /\ \A q \in Sources : Rests(q)'
           /\ l = RelayLane => skipped'[src] = 0
           /\ \A q \in Sources : l # RelayLane \/ q # src =>
                 skipped'[q] = skipped[q] /\ settle'[q] = settle[q]
<1> USE DEF TaggingTypes
<1>1. CASE l # RelayLane
  <2>1. UNCHANGED <<settle, verdicts, skipped>>
    BY <1>1 DEF Classified
  <2> QED BY <1>1, <2>1 DEF TagInv, Rests, Backed, RunOf
<1>2. CASE l = RelayLane
  <2>1. PICK t : t = IF Settles(src) THEN After(s, known, drift_check) ELSE s
    OBVIOUS
  <2>2. PICK vs : vs = verdicts[src]
    OBVIOUS
  <2>3. PICK ws : ws = LastVerdicts(vs, known)
    OBVIOUS
  <2>4. vs \in Seq(Schemas \union {Nothing}) /\ Len(vs) <= Evidence /\ RunOf(s, vs)
    BY <2>2 DEF RunOf
  <2>5. ws \in Seq(Schemas \union {Nothing}) /\ Len(ws) <= Evidence
    BY <2>3, <2>4, LastVerdictsFacts
  <2>6. t \in Settle /\ RunOf(t, ws) /\ (~Settles(src) => t = NewSource) /\ Backed(t.known)
    <3>1. CASE Settles(src)
      <4>1. t \in Settle /\ RunOf(t, ws) /\ t.known \in {known, Nothing}
        BY <2>1, <2>3, <2>4, <3>1, AfterFacts
      <4> QED BY <3>1, <4>1 DEF Backed
    <3>2. CASE ~Settles(src)
      <4>1. t = NewSource
        BY <2>1, <3>2
      <4>2. RunOf(t, ws)
        BY <2>5, <4>1, EvidenceFacts DEF RunOf, NewSource
      <4> QED BY <2>1, <3>2, <4>1, <4>2
    <3> QED BY <3>1, <3>2
  <2>7. settle' = [settle EXCEPT ![src] = t] /\ skipped' = [skipped EXCEPT ![src] = 0]
        /\ verdicts' = [verdicts EXCEPT ![src] = ws]
    BY <1>2, <2>1, <2>2, <2>3 DEF Classified
  <2>8. /\ settle'[src] = t /\ verdicts'[src] = ws /\ skipped'[src] = 0
        /\ \A q \in Sources : q # src => /\ settle'[q] = settle[q] /\ skipped'[q] = skipped[q]
                                         /\ verdicts'[q] = verdicts[q]
    BY <2>7
  <2>9. /\ settle' \in [Sources -> Settle] /\ skipped' \in [Sources -> Nat]
        /\ verdicts' \in [Sources -> Seq(Schemas \union {Nothing})]
    BY <2>5, <2>6, <2>7
  <2>10. ASSUME NEW q \in Sources PROVE Rests(q)'
    <3>1. \A id : Backed(id)' <=> Backed(id)
      BY DEF Backed
    <3>2. CASE q = src
      BY <2>6, <2>8, <3>1, <3>2 DEF Rests, RunOf, Backed, Settles
    <3>3. CASE q # src
      BY ZenonT(40), <2>8, <3>1, <3>3 DEF TagInv, Rests, RunOf, Backed, Settles
    <3> QED BY <3>2, <3>3
  <2> QED BY <1>2, <2>8, <2>9, <2>10
<1> QED BY <1>1, <1>2

\* A new entry behind others that were resolved, and the newest of them.
LEMMA NewestFacts ==
    ASSUME NEW o \in Seq(Entries), \A i \in 1..Len(o) : o[i] \in everHad,
           NEW e \in Entries, e \in everHad
    PROVE  /\ Append(o, e) \in Seq(Entries) /\ Tail(Append(o, e)) \in Seq(Entries)
           /\ \A i \in 1..Len(Append(o, e)) : Append(o, e)[i] \in everHad
           /\ \A i \in 1..Len(Tail(Append(o, e))) : Tail(Append(o, e))[i] \in everHad
<1>1. PICK a : a = Append(o, e)
  OBVIOUS
<1>2. Len(o) \in Nat /\ a \in Seq(Entries) /\ Len(a) = Len(o) + 1 /\ a[Len(o) + 1] = e
  BY <1>1
<1>3. \A i \in 1..Len(o) : a[i] = o[i]
  BY <1>1
<1>4. ASSUME NEW i \in 1..Len(a) PROVE a[i] \in everHad
  <2>1. CASE i = Len(o) + 1
    BY <1>2, <2>1
  <2>2. CASE i # Len(o) + 1
    <3>1. i \in 1..Len(o)
      BY <1>2, <2>2
    <3> QED BY <1>3, <3>1
  <2> QED BY <2>1, <2>2
<1>5. PICK t : t = Tail(a)
  OBVIOUS
<1>6. t \in Seq(Entries) /\ Len(t) = Len(o) /\ \A i \in 1..Len(o) : t[i] = a[i + 1]
  BY <1>2, <1>5
<1>7. \A i \in 1..Len(t) : t[i] \in everHad
  BY <1>2, <1>4, <1>6
<1> QED BY <1>1, <1>2, <1>4, <1>5, <1>6, <1>7

\* Every step keeps the types and the invariant.
LEMMA TagStep ==
    ASSUME TaggingTypes, TagInv, [TaggingNext]_taggingVars
    PROVE  TaggingTypes' /\ TagInv'
<1> USE DEF TaggingTypes
<1>0. RelayLane \in Lanes
  BY DEF Lanes
<1>1. ASSUME NEW src \in Sources, FastPath(src) PROVE TaggingTypes' /\ TagInv'
  <2>1. settle' = [settle EXCEPT ![src].since_sample = @ + 1] /\ skipped' = [skipped EXCEPT ![src] = @ + 1]
        /\ UNCHANGED <<lru, resolves, pending, verdicts, everHad>> /\ pending[RelayLane] = NotPending
    BY <1>1 DEF FastPath
  <2>2. PICK t : t = [settle[src] EXCEPT !.since_sample = @ + 1]
    OBVIOUS
  <2>3. /\ t \in Settle /\ t.known = settle[src].known /\ t.settled = settle[src].settled
        /\ t.consecutive = settle[src].consecutive /\ t.since_sample = settle[src].since_sample + 1
    <3>1. settle[src] \in Settle
      OBVIOUS
    <3>2. PICK n \in Nat : n = settle[src].since_sample + 1
      BY <3>1 DEF Settle
    <3>3. t = [settle[src] EXCEPT !.since_sample = n]
      BY <2>2, <3>2
    <3> QED BY <3>1, <3>2, <3>3 DEF Settle
  <2>4. settle' \in [Sources -> Settle] /\ settle'[src] = t /\ \A q \in Sources : q # src => settle'[q] = settle[q]
    <3>1. settle' = [settle EXCEPT ![src] = t]
      BY <2>1, <2>2
    <3> QED BY <2>3, <3>1
  <2>5. skipped' \in [Sources -> Nat] /\ skipped'[src] = skipped[src] + 1
        /\ \A q \in Sources : q # src => skipped'[q] = skipped[q]
    BY <2>1
  <2>6. settle[src].since_sample + 1 < SampleRate /\ Settles(src)
    <3>1. ~(settle[src].since_sample + 1 >= SampleRate) /\ Settles(src)
      BY <1>1 DEF FastPath, FastPaths, Due
    <3>2. settle[src].since_sample \in Nat
      BY DEF Settle
    <3> QED BY <3>1, <3>2, EvidenceFacts
  <2>7. skipped[src] <= settle[src].since_sample
    BY <2>1 DEF TagInv, Counted, Awaited
  <2>8. ASSUME NEW q \in Sources PROVE Rests(q)' /\ Counted(q)'
    <3>1. CASE q # src
      BY <2>1, <2>4, <2>5, <3>1 DEF TagInv, Rests, Counted, Awaited, RunOf, Backed, Settles
    <3>2. CASE q = src
      <4>1. Rests(src)'
        <5>1. RunOf(t, verdicts[src]) /\ Backed(t.known)
          BY <2>3 DEF TagInv, Rests, RunOf
        <5> QED BY <2>1, <2>4, <2>6, <5>1 DEF Rests, RunOf, Backed, Settles
      <4>2. t.since_sample \in Nat /\ settle[src].since_sample \in Nat
        BY <2>3 DEF Settle
      <4>3. skipped[src] + 1 <= t.since_sample /\ skipped[src] + 1 < SampleRate
        BY <2>3, <2>6, <2>7, <4>2, EvidenceFacts
      <4> QED BY <2>4, <2>5, <3>2, <4>1, <4>3 DEF Counted
    <3> QED BY <3>1, <3>2
  <2> QED BY <2>1, <2>4, <2>5, <2>8 DEF TagInv
<1>2. ASSUME NEW l \in Lanes, NEW src \in Sources, NEW known \in Schemas \union {Nothing},
             NEW s \in Settle, NEW drift_check \in BOOLEAN,
             RunOf(s, verdicts[src]), ~Settles(src) => s = NewSource, Backed(s.known), Backed(known),
             Classified(l, src, s, known, drift_check),
             pending' = [pending EXCEPT ![l] = NotPending] \/ (UNCHANGED pending /\ pending[l] = NotPending),
             l = RelayLane /\ pending[l] # NotPending => pending[l].source = src,
             lru' \in Seq(Entries), \A i \in 1..Len(lru') : lru'[i] \in everHad,
             UNCHANGED <<resolves, everHad>>
      PROVE  TaggingTypes' /\ TagInv'
  <2>1. /\ settle' \in [Sources -> Settle] /\ skipped' \in [Sources -> Nat]
        /\ verdicts' \in [Sources -> Seq(Schemas \union {Nothing})]
        /\ \A q \in Sources : Rests(q)'
        /\ l = RelayLane => skipped'[src] = 0
        /\ \A q \in Sources : l # RelayLane \/ q # src =>
              skipped'[q] = skipped[q] /\ settle'[q] = settle[q]
    BY <1>2, ClassifiedFacts
  <2>2. pending' \in [Lanes -> Lookup \union {NotPending}]
    BY <1>2
  <2>3. ASSUME NEW q \in Sources PROVE Counted(q)'
    <3>1. CASE l = RelayLane /\ q = src
      <4>1. settle'[q] \in Settle
        BY <2>1
      <4>2. settle'[q].since_sample \in Nat
        BY <4>1 DEF Settle
      <4> QED BY <2>1, <3>1, <4>2, EvidenceFacts DEF Counted
    <3>2. CASE l # RelayLane \/ q # src
      <4>1. skipped'[q] = skipped[q] /\ settle'[q] = settle[q]
        BY <2>1, <3>2
      <4>2. Awaited(q) => Awaited(q)'
        <5>1. CASE l # RelayLane
          BY <1>0, <1>2, <5>1 DEF Awaited
        <5>2. CASE l = RelayLane
          BY <1>2, <3>2, <5>2 DEF Awaited
        <5> QED BY <5>1, <5>2
      <4> QED BY <4>1, <4>2 DEF TagInv, Counted
    <3> QED BY <3>1, <3>2
  <2> QED BY <1>2, <2>1, <2>2, <2>3 DEF TagInv
<1>3. ASSUME NEW l \in Lanes, NEW src \in Sources, NEW payload \in Shapes \union {Malformed},
             Classify(l, src, payload)
      PROVE  TaggingTypes' /\ TagInv'
  <2>1. PICK d : d = (l = RelayLane /\ DriftCheck(src))
    OBVIOUS
  <2>2. d \in BOOLEAN
    BY <2>1
  <2>3. PICK s : s = IF d THEN [settle[src] EXCEPT !.since_sample = 0] ELSE settle[src]
    OBVIOUS
  <2>4. /\ s \in Settle /\ s.known = settle[src].known /\ s.settled = settle[src].settled
        /\ s.consecutive = settle[src].consecutive
    <3>1. settle[src] \in Settle
      OBVIOUS
    <3>2. CASE d
      <4>1. s = [settle[src] EXCEPT !.since_sample = 0]
        BY <2>3, <3>2
      <4> QED BY <3>1, <4>1 DEF Settle
    <3>3. CASE ~d
      BY <2>3, <3>1, <3>3
    <3> QED BY <2>2, <3>2, <3>3
  <2>5. ~Settles(src) => s = NewSource
    <3>1. ~Settles(src) => ~d
      BY <2>1 DEF DriftCheck
    <3>2. ~Settles(src) => settle[src] = NewSource
      BY DEF TagInv, Rests
    <3> QED BY <2>3, <3>1, <3>2
  <2>6. RunOf(s, verdicts[src]) /\ Backed(s.known)
    BY <2>4 DEF TagInv, Rests, RunOf
  <2>7. pending[l] = NotPending /\ UNCHANGED <<resolves, everHad>>
    BY <1>3 DEF Classify
  <2>8. \/ payload = Malformed /\ Classified(l, src, s, Nothing, d) /\ UNCHANGED <<lru, pending>>
        \/ /\ payload # Malformed /\ Cached(payload)
           /\ lru' = Append(Others(payload), <<payload, CachedId(payload)>>)
           /\ Classified(l, src, s, CachedId(payload), d) /\ UNCHANGED pending
        \/ /\ payload # Malformed /\ ~Cached(payload)
           /\ pending' = [pending EXCEPT ![l] = [source |-> src, shape |-> payload, drift_check |-> d]]
           /\ settle' = [settle EXCEPT ![src] = s]
           /\ UNCHANGED <<lru, verdicts, skipped>>
    BY <1>3, <2>1, <2>3, Zenon DEF Classify
  <2>9. CASE payload = Malformed /\ Classified(l, src, s, Nothing, d) /\ UNCHANGED <<lru, pending>>
    <3>1. Backed(Nothing) /\ Nothing \in Schemas \union {Nothing}
      BY DEF Backed
    <3>2. lru' \in Seq(Entries) /\ \A i \in 1..Len(lru') : lru'[i] \in everHad
      BY <2>9 DEF TagInv
    <3> QED BY <1>2, <2>2, <2>4, <2>5, <2>6, <2>7, <2>9, <3>1, <3>2
  <2>10. CASE /\ payload # Malformed /\ Cached(payload)
              /\ lru' = Append(Others(payload), <<payload, CachedId(payload)>>)
              /\ Classified(l, src, s, CachedId(payload), d) /\ UNCHANGED pending
    <3>1. PICK id : id = CachedId(payload)
      OBVIOUS
    <3>2. <<payload, id>> \in everHad /\ <<payload, id>> \in Entries
      BY <2>10, <3>1, CachedFacts DEF TagInv
    <3>3. id \in Schemas /\ Backed(id)
      BY <3>2 DEF Entries, Backed
    <3>4. PICK o : o = Others(payload)
      OBVIOUS
    <3>5. o \in Seq(Entries) /\ \A i \in 1..Len(o) : o[i] \in everHad
      BY <3>4, OthersFacts DEF TagInv
    <3>6. lru' = Append(o, <<payload, id>>)
      BY <2>10, <3>1, <3>4
    <3>7. lru' \in Seq(Entries) /\ \A i \in 1..Len(lru') : lru'[i] \in everHad
      BY <3>2, <3>5, <3>6, NewestFacts
    <3> QED BY <1>2, <2>2, <2>4, <2>5, <2>6, <2>7, <2>10, <3>1, <3>3, <3>7
  <2>11. CASE /\ payload # Malformed /\ ~Cached(payload)
              /\ pending' = [pending EXCEPT ![l] = [source |-> src, shape |-> payload, drift_check |-> d]]
              /\ settle' = [settle EXCEPT ![src] = s]
              /\ UNCHANGED <<lru, verdicts, skipped>>
    <3>1. PICK c : c = [source |-> src, shape |-> payload, drift_check |-> d]
      OBVIOUS
    <3>2. c \in Lookup /\ c # NotPending /\ c.source = src
      <4>1. payload \in Shapes
        BY <2>11
      <4>2. c \in Lookup /\ c.source = src /\ c.shape = payload
        BY <2>2, <3>1, <4>1 DEF Lookup
      <4>3. NotPending.shape = Malformed
        BY DEF NotPending
      <4> QED BY <2>11, <4>2, <4>3
    <3>3. pending' = [pending EXCEPT ![l] = c] /\ pending' \in [Lanes -> Lookup \union {NotPending}]
      BY <2>11, <3>1, <3>2
    <3>4. settle' \in [Sources -> Settle] /\ settle'[src] = s /\ \A q \in Sources : q # src => settle'[q] = settle[q]
      BY <2>4, <2>11
    <3>5. ASSUME NEW q \in Sources PROVE Rests(q)'
      BY <2>4, <2>5, <2>6, <2>7, <2>11, <3>4 DEF TagInv, Rests, RunOf, Backed, Settles
    <3>6. ASSUME NEW q \in Sources PROVE Counted(q)'
      <4>1. CASE q # src \/ l # RelayLane
        <5>1. settle'[q] = settle[q]
          BY <2>1, <2>3, <3>4, <4>1
        <5>2. Awaited(q) => Awaited(q)'
          BY <1>0, <2>7, <3>3, <4>1 DEF Awaited
        <5> QED BY <2>11, <5>1, <5>2 DEF TagInv, Counted
      <4>2. CASE q = src /\ l = RelayLane
        <5>1. Awaited(q)'
          BY <3>2, <3>3, <4>2 DEF Awaited
        <5> QED BY <2>11, <5>1 DEF TagInv, Counted
      <4> QED BY <4>1, <4>2
    <3> QED BY <2>7, <2>11, <3>3, <3>4, <3>5, <3>6 DEF TagInv
  <2> QED BY <2>8, <2>9, <2>10, <2>11
<1>4. ASSUME NEW l \in Lanes, NEW id \in Schemas \union {Nothing}, Resolved(l, id)
      PROVE  TaggingTypes' /\ TagInv'
  <2>1. PICK c : c = pending[l]
    OBVIOUS
  <2>2. c # NotPending /\ c.source \in Sources /\ c.shape \in Shapes /\ c.drift_check \in BOOLEAN
    BY <1>4, <2>1, PendingFacts DEF Resolved
  <2>3. settle[c.source] \in Settle /\ Rests(c.source)
    BY <2>2 DEF TagInv
  <2>4. Classified(l, c.source, settle[c.source], id, c.drift_check)
        /\ pending' = [pending EXCEPT ![l] = NotPending] /\ UNCHANGED <<resolves, everHad>>
    BY <1>4, <2>1 DEF Resolved
  <2>5. CASE id \in resolves[c.shape] /\ lru' = LruPut(c.shape, id)
    <3>1. <<c.shape, id>> \in everHad /\ id \in Schemas /\ <<c.shape, id>> \in Entries
      BY <2>2, <2>5 DEF TagInv, Entries
    <3>2. PICK o : o = Others(c.shape)
      OBVIOUS
    <3>3. o \in Seq(Entries) /\ \A i \in 1..Len(o) : o[i] \in everHad
      BY <3>2, OthersFacts DEF TagInv
    <3>4. PICK e : e = <<c.shape, id>>
      OBVIOUS
    <3>5. lru' = Tail(Append(o, e)) \/ lru' = Append(o, e)
      BY <2>5, <3>2, <3>4 DEF LruPut
    <3>6. lru' \in Seq(Entries) /\ \A i \in 1..Len(lru') : lru'[i] \in everHad
      BY <3>1, <3>3, <3>4, <3>5, NewestFacts
    <3>7. Backed(id)
      BY <2>2, <3>1 DEF Backed
    <3> QED BY <1>2, <2>1, <2>2, <2>3, <2>4, <3>6, <3>7 DEF Rests
  <2>6. CASE id = Nothing /\ UNCHANGED lru
    <3>1. Backed(id)
      BY <2>6 DEF Backed
    <3>2. lru' \in Seq(Entries) /\ \A i \in 1..Len(lru') : lru'[i] \in everHad
      BY <2>6 DEF TagInv
    <3> QED BY <1>2, <2>1, <2>2, <2>3, <2>4, <3>1, <3>2 DEF Rests
  <2> QED BY <1>4, <2>1, <2>5, <2>6 DEF Resolved
<1>5. ASSUME NEW l \in Lanes, Unresolved(l) PROVE TaggingTypes' /\ TagInv'
  <2>1. PICK c : c = pending[l]
    OBVIOUS
  <2>2. c # NotPending /\ c.source \in Sources /\ c.drift_check \in BOOLEAN
    BY <1>5, <2>1, PendingFacts DEF Unresolved
  <2>3. settle[c.source] \in Settle /\ Rests(c.source)
    BY <2>2 DEF TagInv
  <2>4. Classified(l, c.source, settle[c.source], Nothing, c.drift_check)
        /\ pending' = [pending EXCEPT ![l] = NotPending] /\ UNCHANGED <<lru, resolves, everHad>>
    BY <1>5, <2>1 DEF Unresolved
  <2>5. Backed(Nothing) /\ Nothing \in Schemas \union {Nothing}
    BY DEF Backed
  <2>6. lru' \in Seq(Entries) /\ \A i \in 1..Len(lru') : lru'[i] \in everHad
    BY <2>4 DEF TagInv
  <2> QED BY <1>2, <2>1, <2>2, <2>3, <2>4, <2>5, <2>6 DEF Rests
<1>6. ASSUME NEW x \in Shapes, NEW ids \in SUBSET Schemas, IndexChanges(x, ids)
      PROVE  TaggingTypes' /\ TagInv'
  <2>1. resolves' = [resolves EXCEPT ![x] = ids] /\ everHad' = everHad \union ({x} \X ids)
        /\ UNCHANGED <<settle, lru, pending, verdicts, skipped>>
    BY <1>6 DEF IndexChanges
  <2>2. resolves' \in [Shapes -> SUBSET Schemas] /\ everHad' \subseteq Entries /\ everHad \subseteq everHad'
    BY <2>1 DEF Entries
  <2>3. \A y \in Shapes : \A id \in resolves'[y] : <<y, id>> \in everHad'
    BY <2>1 DEF TagInv
  <2>4. \A q \in Sources : Rests(q)'
    BY <2>1, <2>2 DEF TagInv, Rests, RunOf, Backed, Settles
  <2>5. \A q \in Sources : Counted(q)'
    BY <2>1 DEF TagInv, Counted, Awaited
  <2> QED BY <2>1, <2>2, <2>3, <2>4, <2>5 DEF TagInv
<1>7. CASE UNCHANGED taggingVars
  BY <1>7 DEF taggingVars, history, TagInv, Rests, Counted, Awaited, RunOf, Backed, Settles
<1> QED BY <1>1, <1>3, <1>4, <1>5, <1>6, <1>7 DEF TaggingNext

\* What the tagging lanes start with.
LEMMA TagStart ==
    ASSUME TaggingInit
    PROVE  TaggingTypes /\ TagInv
<1>1. NewSource \in Settle
  BY DEF NewSource, Settle
<1>2. TaggingTypes
  BY <1>1 DEF TaggingInit, TaggingTypes
<1>3. ASSUME NEW src \in Sources PROVE Rests(src) /\ Counted(src)
  BY EvidenceFacts DEF TaggingInit, Rests, Counted, RunOf, Backed, NewSource
<1> QED BY <1>2, <1>3 DEF TaggingInit, TagInv

\* Every reachable state of the lanes has its types and the invariant.
LEMMA TagHolds == TaggingSpec => [](TaggingTypes /\ TagInv)
<1>1. TaggingInit => TaggingTypes /\ TagInv
  BY TagStart
<1>2. TaggingTypes /\ TagInv /\ [TaggingNext]_taggingVars => TaggingTypes' /\ TagInv'
  BY TagStep
<1> QED BY <1>1, <1>2, PTL DEF TaggingSpec

\* SettleState and HotMatcher: for any number of sources, lanes and records, a
\* record is tagged unread only on a full run of agreeing classifications, and
\* every id in the cache or the settle state came out of the index.
THEOREM TagsAreTheIndexs == TaggingSpec => []TagsFollowTheIndex
<1>1. TaggingTypes /\ TagInv => TagsFollowTheIndex
  <2> SUFFICES ASSUME TaggingTypes, TagInv PROVE TagsFollowTheIndex
    OBVIOUS
  <2>1. ASSUME NEW src \in Sources, settle[src].settled
        PROVE  /\ src \in Allowed /\ Len(verdicts[src]) = Evidence
               /\ \A i \in 1..Evidence : verdicts[src][i] = settle[src].known
               /\ settle[src].known # Nothing
    <3>1. RunOf(settle[src], verdicts[src]) /\ (~Settles(src) => settle[src] = NewSource)
      BY DEF TagInv, Rests
    <3>2. src \in Allowed
      BY <2>1, <3>1 DEF NewSource, Settles
    <3>3. PICK n, vs, k : n = settle[src].consecutive /\ vs = verdicts[src] /\ k = settle[src].known
      OBVIOUS
    <3>4. n \in Nat /\ n >= Evidence /\ Len(vs) \in Nat /\ Len(vs) <= Evidence
      BY <2>1, <3>1, <3>3 DEF RunOf, TaggingTypes, Settle
    <3>5. \A i \in 1..Evidence : i <= Len(vs) /\ vs[Len(vs) + 1 - i] = k
      <4>1. \A i \in 1..Evidence : i <= n => i <= Len(vs) /\ vs[Len(vs) + 1 - i] = k
        BY <3>1, <3>3 DEF RunOf
      <4> QED BY <3>4, <4>1, EvidenceFacts
    <3>6. Len(vs) = Evidence
      BY <3>4, <3>5, EvidenceFacts
    <3>7. ASSUME NEW i \in 1..Evidence PROVE vs[i] = k
      <4>1. Len(vs) + 1 - i \in 1..Evidence /\ Len(vs) + 1 - (Len(vs) + 1 - i) = i
        BY <3>6, EvidenceFacts
      <4> QED BY <3>5, <4>1
    <3>8. k # Nothing
      BY <2>1, <3>1, <3>3 DEF RunOf
    <3> QED BY <3>2, <3>3, <3>6, <3>7, <3>8
  <2>2. SettledOnEvidence
    BY <2>1 DEF SettledOnEvidence
  <2>3. CachedWasResolved
    BY DEF CachedWasResolved, TagInv, Rests, Backed
  <2> QED BY <2>2, <2>3 DEF TagsFollowTheIndex
<1> QED BY <1>1, TagHolds, PTL

\* relay.rs promises that drift is noticed within sample_rate records: no more
\* than that go by unread between two classifications of a settled source.
THEOREM SamplesAreInTime == TaggingSpec => []SampledInTime
<1>1. TagInv => SampledInTime
  BY DEF TagInv, Counted, SampledInTime
<1> QED BY <1>1, TagHolds, PTL

-----------------------------------------------------------------------------
(* Catalogue: display names.                                                *)

NamesSpec == NamesInit /\ [][NamesNext]_nameVars

\* SET_NAME_SCRIPT decides in Redis, not on what the namer read: for any number
\* of schemas and namers, a human name is only ever replaced by a human name.
THEOREM HumanNamesStand == NamesSpec => HumanNameStands
<1> DEFINE Kept == \A x \in NamedSchemas : names[x] = "human" => names'[x] = "human"
           Named == names \in [NamedSchemas -> {"none", "human", "slm", "heuristic"}]
<1>1. NamesInit => Named
  BY DEF NamesInit, Unnamed
<1>2. ASSUME Named, NEW x, NEW source \in {"human", "slm", "heuristic"}, SET_NAME_SCRIPT(x, source)
      PROVE  Named' /\ Kept
  BY <1>2 DEF SET_NAME_SCRIPT
<1>3. Named /\ [NamesNext]_nameVars => Named' /\ [Kept]_names
  <2> SUFFICES ASSUME Named, [NamesNext]_nameVars PROVE Named' /\ (Kept \/ UNCHANGED names)
    OBVIOUS
  <2>1. ASSUME NEW x \in NamedSchemas, HumanNames(x) PROVE Named' /\ Kept
    BY <1>2, <2>1 DEF HumanNames
  <2>2. ASSUME NEW n \in Namers, NEW source \in {"slm", "heuristic"}, NamerWrites(n, source)
        PROVE  Named' /\ Kept
    BY <1>2, <2>2 DEF NamerWrites
  <2>3. ASSUME NEW n \in Namers, NEW x \in NamedSchemas, NamerReads(n, x)
        PROVE  Named' /\ UNCHANGED names
    BY <2>3 DEF NamerReads
  <2>4. CASE UNCHANGED nameVars
    BY <2>4 DEF nameVars
  <2> QED BY <2>1, <2>2, <2>3, <2>4 DEF NamesNext
<1> QED BY <1>1, <1>3, PTL DEF NamesSpec, HumanNameStands

-----------------------------------------------------------------------------
(* Catalogue: reconcile.                                                    *)

SourcesSpec == SourcesInit /\ [][SourcesNext]_sourceVars

Phases == {"idle", "scan1", "scan2", "scan3", "register", "write", "done"}
Window == [first : Nat, last : Nat]
Request == [pc : Phases, latest : [SourceIds -> Nat], todo : SUBSET SourceIds,
            at : SUBSET SourceIds, read : Window, since : [Cands -> Nat]]
CandState == [state : {"absent", "provisional", "staged", "rejected"}, last : Nat]

SourceTypes ==
    /\ now \in Nat
    /\ cands \in [Cands -> CandState]
    /\ sources \in [SourceIds -> Window]
    /\ recon \in [Reconcilers -> Request]
    /\ \A c \in Cands : cands[c].last <= now
    /\ \A c \in Cands : cands[c].state = "absent" => cands[c].last = 0
    /\ \A s \in SourceIds : sources[s].first <= sources[s].last
    /\ \A r \in Reconcilers : recon[r].read.first <= recon[r].read.last

\* How a request x carries what it had to find of candidate c: the candidate
\* is still ahead of the scan, or in what the scan found, or registered.
Carries(x, c) ==
    LET t == x.since[c]
        s == SourceOf[c]
    IN  /\ x.pc = "scan1" => cands[c].last >= t
        /\ x.pc = "scan2" => \/ x.latest[s] >= t
                             \/ cands[c].state \in {"staged", "rejected"} /\ cands[c].last >= t
        /\ x.pc = "scan3" => \/ x.latest[s] >= t
                             \/ cands[c].state = "rejected" /\ cands[c].last >= t
        /\ x.pc \in {"register", "write"} =>
              /\ x.latest[s] >= t
              /\ s \in x.todo \/ sources[s].last >= t \/ (x.pc = "write" /\ s \in x.at)
        /\ x.pc = "done" => sources[s].last >= t

\* What is asked of request r for candidate c: it runs alone until it is done,
\* and once it is, no other request writes back a window it read before.
Owing(r, c) ==
    recon[r].since[c] > 0 =>
        /\ cands[c].state # "absent"
        /\ Active(r) => \A q \in Reconcilers : Active(q) => q = r
        /\ Carries(recon[r], c)
        /\ recon[r].pc = "done" =>
              \A q \in Reconcilers : recon[q].pc = "write" /\ SourceOf[c] \in recon[q].at =>
                                        recon[q].read.last >= recon[r].since[c]

SourceInv == \A r \in Reconcilers, c \in Cands : Owing(r, c)

\* The greatest and the least of a few naturals.
LEMMA MaxFacts ==
    ASSUME NEW S, S \subseteq Nat, S # {}, NEW b \in Nat, \A x \in S : x <= b
    PROVE  Max(S) \in S /\ \A x \in S : x <= Max(S)
<1>1. \E m \in S : \A t \in S : m >= t
  BY NatMax
<1>2. Max(S) \in S /\ \A t \in S : Max(S) >= t
  BY <1>1 DEF Max
<1> QED BY <1>2

\* The merged window is a window, and reaches as far as either part.
LEMMA MergedWindow ==
    ASSUME NEW read \in Window, read.first <= read.last, NEW observed \in Nat
    PROVE  /\ Merged(read, observed) \in Window
           /\ Merged(read, observed).first <= Merged(read, observed).last
           /\ Merged(read, observed).last >= read.last
           /\ Merged(read, observed).last >= observed
<1>0. read.first \in Nat /\ read.last \in Nat
  BY DEF Window
<1>1. CASE read = Unregistered
  BY <1>0, <1>1 DEF Merged, Unregistered, Window
<1>2. CASE read # Unregistered
  <2>1. PICK m : m = Max({read.last, observed})
    OBVIOUS
  <2>2. m \in {read.last, observed} /\ read.last <= m /\ observed <= m
    BY <1>0, <2>1, MaxFacts
  <2>3. PICK n : n = Min({read.first, observed})
    OBVIOUS
  <2>4. n \in {read.first, observed} /\ n <= read.first /\ n <= observed
    <3>1. \E k \in {read.first, observed} : \A j \in {read.first, observed} : k <= j
      BY <1>0, NatMin
    <3> QED BY <2>3, <3>1 DEF Min
  <2>5. Merged(read, observed) = [first |-> n, last |-> m]
    BY <1>2, <2>1, <2>3 DEF Merged
  <2> QED BY <1>0, <2>2, <2>4, <2>5 DEF Window
<1> QED BY <1>1, <1>2

\* A listing's fold keeps what was found, and finds what it lists.
LEMMA LatestFacts ==
    ASSUME SourceTypes, NEW latest \in [SourceIds -> Nat], NEW state
    PROVE  /\ Latest(latest, state) \in [SourceIds -> Nat]
           /\ \A s \in SourceIds : Latest(latest, state)[s] >= latest[s]
           /\ \A c \in Cands : cands[c].state = state => Latest(latest, state)[SourceOf[c]] >= cands[c].last
<1> DEFINE Of(s) == {latest[s]} \cup {cands[c].last : c \in {d \in Cands : SourceOf[d] = s
                                                                           /\ cands[d].state = state}}
<1>1. ASSUME NEW s \in SourceIds PROVE Max(Of(s)) \in Of(s) /\ \A x \in Of(s) : x <= Max(Of(s))
  <2>1. latest[s] \in Nat /\ now \in Nat /\ latest[s] + now \in Nat
    BY DEF SourceTypes
  <2>2. \A c \in Cands : cands[c].last \in Nat /\ cands[c].last <= latest[s] + now
    BY <2>1 DEF SourceTypes, CandState
  <2>3. Of(s) \subseteq Nat /\ Of(s) # {} /\ \A x \in Of(s) : x <= latest[s] + now
    BY <2>1, <2>2
  <2> HIDE DEF Of
  <2> QED BY <2>1, <2>3, MaxFacts
<1>2. \A s \in SourceIds : Of(s) \subseteq Nat
  BY DEF SourceTypes, CandState
<1>3. Latest(latest, state) = [s \in SourceIds |-> Max(Of(s))]
  BY DEF Latest
<1>4. \A s \in SourceIds : latest[s] \in Of(s)
  OBVIOUS
<1>5. \A c \in Cands : SourceOf[c] \in SourceIds /\ (cands[c].state = state => cands[c].last \in Of(SourceOf[c]))
  BY DEF SourceIds
<1> HIDE DEF Of
<1>6. \A s \in SourceIds : Max(Of(s)) \in Nat
  BY <1>1, <1>2
<1>7. \A c \in Cands : cands[c].last \in Nat
  BY DEF SourceTypes, CandState
<1> QED BY <1>1, <1>3, <1>4, <1>5, <1>6, <1>7

\* A request of its type, field by field.
LEMMA RequestTypes ==
    ASSUME SourceTypes, NEW r \in Reconcilers
    PROVE  /\ recon[r] \in Request /\ recon[r].pc \in Phases /\ recon[r].latest \in [SourceIds -> Nat]
           /\ recon[r].todo \subseteq SourceIds /\ recon[r].at \subseteq SourceIds
           /\ recon[r].read \in Window /\ recon[r].since \in [Cands -> Nat]
BY DEF SourceTypes, Request

\* What a request starts from.
LEMMA NewRequestFacts ==
    /\ NewRequest \in Request /\ NewRequest.pc = "idle" /\ NewRequest.read.first <= NewRequest.read.last
    /\ \A c \in Cands : NewRequest.since[c] = 0
BY DEF NewRequest, Request, Phases, Window, Unregistered

\* A step of request r alone keeps the obligations of the others, as long as it
\* neither begins, nor writes, nor reads a window it may write back later.
LEMMA OthersOwing ==
    ASSUME SourceTypes, SourceTypes', SourceInv, NEW r \in Reconcilers, UNCHANGED <<cands, sources>>,
           \A q \in Reconcilers : q # r => recon'[q] = recon[q],
           Active(r)' => Active(r),
           recon'[r].pc = "write" =>
              \A s \in recon'[r].at : s \in SourceIds => recon'[r].read.last >= sources[s].last
    PROVE  \A q \in Reconcilers, c \in Cands : q # r => Owing(q, c)'
<1> SUFFICES ASSUME NEW q \in Reconcilers, NEW c \in Cands, q # r, recon[q].since[c] > 0
             PROVE  Owing(q, c)'
  BY DEF Owing
<1>1. Owing(q, c) /\ recon'[q] = recon[q] /\ SourceOf[c] \in SourceIds
  BY DEF SourceInv, SourceIds
<1>2. Active(q)' => \A p \in Reconcilers : Active(p)' => p = q
  BY <1>1 DEF Owing, Active
<1>3. Carries(recon[q], c)'
  BY <1>1 DEF Owing, Carries
<1>4. ASSUME recon[q].pc = "done", NEW p \in Reconcilers, recon'[p].pc = "write", SourceOf[c] \in recon'[p].at
      PROVE  recon'[p].read.last >= recon[q].since[c]
  <2>1. CASE p # r
    BY <1>1, <1>4, <2>1 DEF Owing
  <2>2. CASE p = r
    <3>1. sources[SourceOf[c]].last >= recon[q].since[c]
      BY <1>1, <1>4 DEF Owing, Carries
    <3>2. recon'[r].read.last >= sources[SourceOf[c]].last
      BY <1>1, <1>4, <2>2
    <3>3. recon'[r].read.last \in Nat /\ sources[SourceOf[c]].last \in Nat /\ recon[q].since[c] \in Nat
      <4>1. recon'[r] \in Request
        BY DEF SourceTypes
      <4>2. recon'[r].read \in Window
        BY <4>1 DEF Request
      <4> QED BY <1>1, <4>2, RequestTypes DEF SourceTypes, Window
    <3> QED BY <2>2, <3>1, <3>2, <3>3
  <2> QED BY <2>1, <2>2
<1> QED BY <1>1, <1>2, <1>3, <1>4 DEF Owing

\* Candidates are sighted, decided and expire: the requests keep up.
LEMMA CandidateStep ==
    ASSUME SourceTypes, SourceInv, NEW c \in Cands,
           Sight(c) \/ Expire(c) \/ \E state \in {"staged", "rejected"} : Decide(c, state)
    PROVE  SourceTypes' /\ SourceInv'
<1> USE DEF SourceTypes
<1>0. cands[c] \in CandState /\ \A d \in Cands : cands[d].last \in Nat
  BY DEF CandState
<1>1. ASSUME UNCHANGED <<now, sources, recon>>, cands' \in [Cands -> CandState],
             \A d \in Cands : d # c => cands'[d] = cands[d],
             cands[c].state # "absent" => cands'[c].last >= cands[c].last,
             cands'[c].state # "absent", cands'[c].last <= now,
             cands[c].state \in {"staged", "rejected"} => cands'[c].state = cands[c].state
      PROVE  SourceTypes' /\ SourceInv'
  <2>1. SourceTypes'
    <3>1. \A d \in Cands : cands'[d].last <= now
      BY <1>1
    <3> QED BY <1>1, <3>1
  <2>2. ASSUME NEW r \in Reconcilers, NEW d \in Cands, recon[r].since[d] > 0 PROVE Owing(r, d)'
    <3>1. Owing(r, d)
      BY DEF SourceInv
    <3>2. CASE d # c
      BY <1>1, <3>1, <3>2 DEF Owing, Carries, Active
    <3>3. CASE d = c
      <4>1. cands'[c].last \in Nat /\ cands[c].last \in Nat /\ recon[r].since[c] \in Nat
        <5>1. cands'[c] \in CandState
          BY <1>1
        <5> QED BY <1>0, <5>1, RequestTypes DEF CandState
      <4>2. cands[c].state # "absent" /\ cands'[c].last >= cands[c].last
        BY <1>1, <2>2, <3>1, <3>3 DEF Owing
      <4>3. Carries(recon[r], c)'
        BY <1>1, <2>2, <3>1, <3>3, <4>1, <4>2 DEF Owing, Carries
      <4> QED BY <1>1, <2>2, <3>1, <3>3, <4>3 DEF Owing, Active
    <3> QED BY <3>2, <3>3
  <2> QED BY <1>1, <2>1, <2>2 DEF SourceInv, Owing
<1>2. CASE Sight(c)
  <2>1. cands' = [cands EXCEPT ![c] = [state |-> "provisional", last |-> now]]
        /\ cands[c].state \in {"absent", "provisional"} /\ UNCHANGED <<now, sources, recon>>
    BY <1>2 DEF Sight
  <2>2. cands' \in [Cands -> CandState]
    BY <2>1 DEF CandState
  <2> QED BY <1>0, <1>1, <2>1, <2>2
<1>3. ASSUME NEW state \in {"staged", "rejected"}, Decide(c, state) PROVE SourceTypes' /\ SourceInv'
  <2>1. cands' = [cands EXCEPT ![c].state = state] /\ cands[c].state = "provisional"
        /\ UNCHANGED <<now, sources, recon>>
    BY <1>3 DEF Decide
  <2>2. PICK x : x = [cands[c] EXCEPT !.state = state]
    OBVIOUS
  <2>3. x \in CandState /\ x.state = state /\ x.last = cands[c].last
    BY <1>0, <2>2 DEF CandState
  <2>4. cands' = [cands EXCEPT ![c] = x]
    BY <2>1, <2>2
  <2>5. cands' \in [Cands -> CandState] /\ cands'[c] = x /\ \A d \in Cands : d # c => cands'[d] = cands[d]
    BY <2>3, <2>4
  <2> QED BY <1>0, <1>1, <2>1, <2>3, <2>5
<1>4. CASE Expire(c)
  <2>1. cands' = [cands EXCEPT ![c] = [state |-> "absent", last |-> 0]] /\ UNCHANGED <<now, sources>>
        /\ recon' = [r \in Reconcilers |-> [recon[r] EXCEPT !.since[c] = 0]]
    BY <1>4 DEF Expire
  <2>2. cands' \in [Cands -> CandState] /\ cands'[c].last = 0 /\ \A d \in Cands : d # c => cands'[d] = cands[d]
    BY <2>1 DEF CandState
  <2>3. ASSUME NEW r \in Reconcilers
        PROVE  /\ recon'[r] \in Request /\ recon'[r].pc = recon[r].pc /\ recon'[r].latest = recon[r].latest
               /\ recon'[r].todo = recon[r].todo /\ recon'[r].at = recon[r].at
               /\ recon'[r].read = recon[r].read
               /\ recon'[r].since[c] = 0
               /\ \A d \in Cands : d # c => recon'[r].since[d] = recon[r].since[d]
    <3>1. PICK f : f = [recon[r].since EXCEPT ![c] = 0]
      OBVIOUS
    <3>2. f \in [Cands -> Nat] /\ f[c] = 0 /\ \A d \in Cands : d # c => f[d] = recon[r].since[d]
      BY <3>1, RequestTypes
    <3>3. recon'[r] = [recon[r] EXCEPT !.since = f]
      BY <2>1, <3>1
    <3> QED BY <3>2, <3>3, RequestTypes DEF Request
  <2>4. recon' \in [Reconcilers -> Request]
    BY <2>1, <2>3
  <2>5. SourceTypes'
    <3>1. \A d \in Cands : cands'[d].last <= now'
      <4>1. now' = now /\ 0 <= now
        BY <2>1
      <4> QED BY <2>2, <4>1
    <3>2. \A r \in Reconcilers : recon'[r].read.first <= recon'[r].read.last
      BY <2>3
    <3> QED BY <2>1, <2>2, <2>4, <3>1, <3>2
  <2>6. ASSUME NEW r \in Reconcilers, NEW d \in Cands, d # c, recon[r].since[d] > 0 PROVE Owing(r, d)'
    <3>1. Owing(r, d)
      BY DEF SourceInv
    <3>2. Carries(recon[r], d)'
      BY <2>1, <2>2, <2>3, <2>6, <3>1 DEF Owing, Carries
    <3>3. Active(r)' => \A q \in Reconcilers : Active(q)' => q = r
      BY <2>3, <2>6, <3>1 DEF Owing, Active
    <3>4. recon'[r].pc = "done" =>
             \A q \in Reconcilers : recon'[q].pc = "write" /\ SourceOf[d] \in recon'[q].at =>
                                       recon'[q].read.last >= recon'[r].since[d]
      BY <2>3, <2>6, <3>1 DEF Owing
    <3> QED BY <2>2, <2>6, <3>1, <3>2, <3>3, <3>4 DEF Owing
  <2>7. ASSUME NEW r \in Reconcilers, NEW d \in Cands PROVE Owing(r, d)'
    <3>1. CASE d = c
      BY <2>3, <3>1 DEF Owing
    <3>2. CASE d # c
      BY <2>3, <2>6, <3>2 DEF Owing
    <3> QED BY <3>1, <3>2
  <2> QED BY <2>5, <2>7 DEF SourceInv
<1> QED BY <1>2, <1>3, <1>4

\* The listings of reconcile are scanned in the order candidates move through
\* them, so what was ahead of the scan is found.
LEMMA ListStep ==
    ASSUME SourceTypes, SourceInv, NEW r \in Reconcilers, ListCandidates(r)
    PROVE  SourceTypes' /\ SourceInv'
<1> USE DEF SourceTypes
<1>0. recon[r].pc \in {"scan1", "scan2", "scan3"} /\ UNCHANGED <<now, cands, sources>>
  BY DEF ListCandidates, ScanStep
<1>1. PICK x, f : x = recon[r] /\ f = x.since
  OBVIOUS
<1>2. PICK state, pc :
        /\ \/ x.pc = "scan1" /\ state = "provisional" /\ pc = "scan2"
           \/ x.pc = "scan2" /\ state = "staged" /\ pc = "scan3"
           \/ x.pc = "scan3" /\ state = "rejected" /\ pc = "register"
        /\ recon' = [recon EXCEPT ![r].latest = Latest(x.latest, state), ![r].pc = pc,
                                  ![r].todo = {s \in SourceIds : Latest(x.latest, state)[s] # 0}]
  <2>1. PICK n : n = ScanStep[x.pc]
    OBVIOUS
  <2>2. PICK state, pc : state = Scan[n] /\ pc = IF n = 1 THEN "scan2" ELSE IF n = 2 THEN "scan3" ELSE "register"
    OBVIOUS
  <2>3. recon' = [recon EXCEPT ![r].latest = Latest(x.latest, state), ![r].pc = pc,
                               ![r].todo = {s \in SourceIds : Latest(x.latest, state)[s] # 0}]
    BY <1>1, <2>1, <2>2, Zenon DEF ListCandidates
  <2>4. \/ x.pc = "scan1" /\ state = "provisional" /\ pc = "scan2"
        \/ x.pc = "scan2" /\ state = "staged" /\ pc = "scan3"
        \/ x.pc = "scan3" /\ state = "rejected" /\ pc = "register"
    BY <1>0, <1>1, <2>1, <2>2 DEF ScanStep, Scan
  <2> QED BY <2>3, <2>4
<1>3. PICK l : l = Latest(x.latest, state)
  OBVIOUS
<1>4. /\ l \in [SourceIds -> Nat] /\ \A s \in SourceIds : l[s] >= x.latest[s]
      /\ \A c \in Cands : cands[c].state = state => l[SourceOf[c]] >= cands[c].last
  BY <1>1, <1>3, LatestFacts, RequestTypes
<1>5. PICK t : t = {s \in SourceIds : l[s] # 0}
  OBVIOUS
<1>6. PICK y : y = [x EXCEPT !.latest = l, !.pc = pc, !.todo = t]
  OBVIOUS
<1>7. /\ y \in Request /\ y.pc = pc /\ y.latest = l /\ y.todo = t /\ y.at = x.at
      /\ y.read = x.read /\ y.since = f
  <2>1. pc \in Phases /\ t \subseteq SourceIds /\ x \in Request
    BY <1>1, <1>2, <1>5 DEF Phases
  <2> QED BY <1>1, <1>4, <1>6, <2>1 DEF Request
<1>8. recon' = [recon EXCEPT ![r] = y]
  BY <1>1, <1>2, <1>3, <1>5, <1>6
<1>9. recon'[r] = y /\ \A q \in Reconcilers : q # r => recon'[q] = recon[q]
  BY <1>8
<1>10. SourceTypes'
  <2>1. recon' \in [Reconcilers -> Request]
    BY <1>7, <1>8
  <2>2. \A q \in Reconcilers : recon'[q].read.first <= recon'[q].read.last
    BY <1>1, <1>7, <1>9
  <2> QED BY <1>0, <2>1, <2>2
<1>11. Active(r) /\ recon'[r].pc # "write"
  BY <1>1, <1>2, <1>7, <1>9 DEF Active
<1>12. \A q \in Reconcilers, c \in Cands : q # r => Owing(q, c)'
  BY <1>0, <1>9, <1>10, <1>11, OthersOwing
<1>13. ASSUME NEW c \in Cands, f[c] > 0 PROVE Owing(r, c)'
  <2>1. Owing(r, c) /\ SourceOf[c] \in SourceIds
    BY DEF SourceInv, SourceIds
  <2>2. cands[c].state # "absent" /\ Carries(x, c) /\ \A q \in Reconcilers : Active(q) => q = r
    BY <1>1, <1>11, <1>13, <2>1 DEF Owing
  <2>3. f[c] \in Nat /\ cands[c].last \in Nat /\ x.latest[SourceOf[c]] \in Nat /\ l[SourceOf[c]] \in Nat
        /\ cands[c].state \in {"absent", "provisional", "staged", "rejected"}
    BY <1>1, <1>4, <2>1, RequestTypes DEF CandState
  <2>4. l[SourceOf[c]] >= x.latest[SourceOf[c]]
        /\ (cands[c].state = state => l[SourceOf[c]] >= cands[c].last)
    BY <1>4, <2>1
  <2>5. Carries(y, c)
    <3>1. CASE x.pc = "scan1"
      BY <1>1, <1>2, <1>7, <2>2, <2>3, <2>4, <3>1 DEF Carries
    <3>2. CASE x.pc = "scan2"
      BY <1>1, <1>2, <1>7, <2>2, <2>3, <2>4, <3>2 DEF Carries
    <3>3. CASE x.pc = "scan3"
      <4>1. l[SourceOf[c]] >= f[c]
        BY <1>1, <1>2, <2>2, <2>3, <2>4, <3>3 DEF Carries
      <4>2. SourceOf[c] \in t
        BY <1>5, <1>13, <2>1, <2>3, <4>1
      <4>3. pc = "register"
        BY <1>2, <3>3
      <4> QED BY <1>7, <4>1, <4>2, <4>3 DEF Carries
    <3> QED BY <1>0, <1>1, <3>1, <3>2, <3>3
  <2>6. Carries(recon[r], c)'
    BY <1>0, <1>9, <2>5 DEF Carries
  <2>7. \A q \in Reconcilers : Active(q)' => q = r
    BY <1>9, <2>2 DEF Active
  <2>8. recon'[r].pc # "done"
    BY <1>2, <1>7, <1>9
  <2> QED BY <1>0, <2>2, <2>6, <2>7, <2>8 DEF Owing
<1>14. \A c \in Cands : Owing(r, c)'
  BY <1>7, <1>9, <1>13 DEF Owing
<1> QED BY <1>10, <1>12, <1>14 DEF SourceInv

\* register_source, one source at a time: the read, and the later write.
LEMMA RegisterStep ==
    ASSUME SourceTypes, SourceInv, NEW r \in Reconcilers, RegisterRead(r) \/ RegisterWrite(r)
    PROVE  SourceTypes' /\ SourceInv'
<1> USE DEF SourceTypes
<1>0. PICK x, f : x = recon[r] /\ f = x.since
  OBVIOUS
<1>1. /\ x \in Request /\ x.latest \in [SourceIds -> Nat] /\ x.todo \subseteq SourceIds
      /\ x.at \subseteq SourceIds /\ x.read \in Window /\ f \in [Cands -> Nat]
  BY <1>0, RequestTypes
<1>2. x.pc \in {"register", "write"} /\ Active(r)
  BY <1>0 DEF RegisterRead, RegisterWrite, Active
<1>3. ASSUME NEW c \in Cands, f[c] > 0
      PROVE  /\ cands[c].state # "absent" /\ Carries(x, c) /\ SourceOf[c] \in SourceIds
             /\ \A q \in Reconcilers : Active(q) => q = r
  <2>1. Owing(r, c)
    BY DEF SourceInv
  <2> QED BY <1>0, <1>2, <1>3, <2>1 DEF Owing, SourceIds
<1>4. ASSUME NEW y \in Request, recon' = [recon EXCEPT ![r] = y], y.since = f, y.read.first <= y.read.last,
             UNCHANGED <<now, cands>>, sources' \in [SourceIds -> Window],
             \A s \in SourceIds : sources'[s].first <= sources'[s].last,
             y.pc \in {"register", "write", "done"},
             \A q \in Reconcilers, c \in Cands : q # r => Owing(q, c)',
             \A c \in Cands : f[c] > 0 => Carries(y, c)'
      PROVE  SourceTypes' /\ SourceInv'
  <2>1. recon'[r] = y /\ \A q \in Reconcilers : q # r => recon'[q] = recon[q]
    BY <1>4
  <2>2. SourceTypes'
    <3>1. recon' \in [Reconcilers -> Request]
      BY <1>4
    <3>2. \A q \in Reconcilers : recon'[q].read.first <= recon'[q].read.last
      BY <1>4, <2>1
    <3> QED BY <1>4, <3>1, <3>2
  <2>3. ASSUME NEW c \in Cands, f[c] > 0 PROVE Owing(r, c)'
    <3>1. Carries(recon[r], c)'
      BY <1>4, <2>1, <2>3 DEF Carries
    <3>2. \A q \in Reconcilers : Active(q)' => q = r
      BY <1>3, <2>1, <2>3 DEF Active
    <3>3. recon'[r].pc = "done" => \A q \in Reconcilers : recon'[q].pc # "write"
      BY <2>1, <3>2 DEF Active
    <3> QED BY <1>3, <1>4, <2>3, <3>1, <3>2, <3>3 DEF Owing
  <2>4. \A c \in Cands : Owing(r, c)'
    BY <1>4, <2>1, <2>3 DEF Owing
  <2> QED BY <1>4, <2>2, <2>4 DEF SourceInv
<1>5. CASE RegisterRead(r)
  <2>0. x.pc = "register" /\ UNCHANGED <<now, cands, sources>>
    BY <1>0, <1>5 DEF RegisterRead
  <2>1. CASE x.todo = {}
    <3>1. PICK y : y = [x EXCEPT !.pc = "done", !.latest = NewRequest.latest]
      OBVIOUS
    <3>2. recon' = [recon EXCEPT ![r] = y]
      BY <1>0, <1>5, <2>1, <3>1 DEF RegisterRead
    <3>3. y \in Request /\ y.pc = "done" /\ y.since = f /\ y.read = x.read
      <4>1. NewRequest.latest \in [SourceIds -> Nat]
        BY NewRequestFacts DEF Request
      <4>2. PICK l \in [SourceIds -> Nat] : l = NewRequest.latest
        BY <4>1
      <4>3. y = [x EXCEPT !.pc = "done", !.latest = l]
        BY <3>1, <4>2
      <4> QED BY <1>0, <1>1, <4>3 DEF Request, Phases
    <3>4. recon'[r] = y /\ \A q \in Reconcilers : q # r => recon'[q] = recon[q]
      BY <3>2
    <3>5. recon' \in [Reconcilers -> Request]
      BY <3>2, <3>3
    <3>6. \A q \in Reconcilers : recon'[q].read.first <= recon'[q].read.last
      BY <1>0, <3>3, <3>4
    <3>7. SourceTypes'
      BY <2>0, <3>5, <3>6
    <3>8. \A q \in Reconcilers, c \in Cands : q # r => Owing(q, c)'
      BY <1>2, <2>0, <3>3, <3>4, <3>7, OthersOwing DEF Active
    <3>9. ASSUME NEW c \in Cands, f[c] > 0 PROVE Carries(y, c)'
      <4>1. sources[SourceOf[c]].last >= f[c]
        BY <1>0, <1>3, <2>0, <2>1, <3>9 DEF Carries
      <4> QED BY <2>0, <3>3, <4>1 DEF Carries
    <3> QED BY <1>4, <2>0, <3>2, <3>3, <3>6, <3>4, <3>8, <3>9
  <2>2. CASE x.todo # {}
    <3>1. PICK s \in x.todo : recon' = [recon EXCEPT ![r].pc = "write", ![r].at = {s}, ![r].todo = @ \ {s},
                                                   ![r].read = sources[s]]
      BY <1>0, <1>5, <2>2 DEF RegisterRead
    <3>2. PICK w, t : w = sources[s] /\ t = x.todo \ {s}
      OBVIOUS
    <3>3. w \in Window /\ w.first <= w.last /\ s \in SourceIds /\ t \subseteq SourceIds
      BY <1>1, <3>2
    <3>4. PICK y : y = [x EXCEPT !.pc = "write", !.at = {s}, !.todo = t, !.read = w]
      OBVIOUS
    <3>5. recon' = [recon EXCEPT ![r] = y]
      BY <1>0, <3>1, <3>2, <3>4
    <3>6. /\ y \in Request /\ y.pc = "write" /\ y.since = f /\ y.read = w /\ y.at = {s} /\ y.todo = t
          /\ y.latest = x.latest
      <4>1. {s} \in SUBSET SourceIds
        BY <3>3
      <4> QED BY <1>0, <1>1, <3>3, <3>4, <4>1 DEF Request, Phases
    <3>7. recon'[r] = y /\ \A q \in Reconcilers : q # r => recon'[q] = recon[q]
      BY <3>5
    <3>8. recon' \in [Reconcilers -> Request]
      BY <3>5, <3>6
    <3>9. \A q \in Reconcilers : recon'[q].read.first <= recon'[q].read.last
      BY <3>3, <3>6, <3>7
    <3>10. SourceTypes'
      BY <2>0, <3>8, <3>9
    <3>11. \A q \in Reconcilers, c \in Cands : q # r => Owing(q, c)'
      <4>1. \A z \in recon'[r].at : recon'[r].read.last >= sources[z].last
        <5>1. w.last >= w.last
          BY <3>3 DEF Window
        <5> QED BY <3>2, <3>6, <3>7, <5>1
      <4> QED BY <1>2, <2>0, <3>7, <3>10, <4>1, OthersOwing
    <3>12. ASSUME NEW c \in Cands, f[c] > 0 PROVE Carries(y, c)'
      <4>1. x.latest[SourceOf[c]] >= f[c] /\ (SourceOf[c] \in x.todo \/ sources[SourceOf[c]].last >= f[c])
        BY <1>0, <1>3, <2>0, <3>12 DEF Carries
      <4> QED BY <2>0, <3>2, <3>6, <4>1 DEF Carries
    <3> QED BY <1>4, <2>0, <3>3, <3>5, <3>6, <3>9, <3>7, <3>11, <3>12
  <2> QED BY <2>1, <2>2
<1>6. CASE RegisterWrite(r)
  <2>0. x.pc = "write" /\ UNCHANGED <<now, cands>>
    BY <1>0, <1>6 DEF RegisterWrite
  <2>1. sources' = [s \in SourceIds |-> IF s \in x.at THEN Merged(x.read, x.latest[s]) ELSE sources[s]]
    BY <1>0, <1>6 DEF RegisterWrite
  <2>2. ASSUME NEW s \in SourceIds
        PROVE  /\ sources'[s] \in Window /\ sources'[s].first <= sources'[s].last
               /\ s \notin x.at => sources'[s] = sources[s]
               /\ s \in x.at => sources'[s].last >= x.read.last /\ sources'[s].last >= x.latest[s]
    <3>1. x.read.first <= x.read.last /\ x.latest[s] \in Nat
      BY <1>0, <1>1
    <3>2. CASE s \in x.at
      <4>1. sources'[s] = Merged(x.read, x.latest[s])
        BY <2>1, <3>2
      <4> QED BY <1>1, <3>1, <3>2, <4>1, MergedWindow
    <3>3. CASE s \notin x.at
      BY <2>1, <3>3
    <3> QED BY <3>2, <3>3
  <2>3. sources' \in [SourceIds -> Window] /\ \A s \in SourceIds : sources'[s].first <= sources'[s].last
    BY <2>1, <2>2
  <2>4. PICK y : y = [x EXCEPT !.pc = "register", !.at = {}, !.read = Unregistered]
    OBVIOUS
  <2>5. recon' = [recon EXCEPT ![r] = y]
    BY <1>0, <1>6, <2>4 DEF RegisterWrite
  <2>6. /\ y \in Request /\ y.pc = "register" /\ y.since = f /\ y.read = Unregistered
        /\ y.todo = x.todo /\ y.latest = x.latest
    <3>1. Unregistered \in Window
      BY DEF Unregistered, Window
    <3> QED BY <1>0, <1>1, <2>4, <3>1 DEF Request, Phases
  <2>7. y.read.first <= y.read.last
    BY <2>6 DEF Unregistered
  <2>8. recon'[r] = y /\ \A q \in Reconcilers : q # r => recon'[q] = recon[q]
    BY <2>5
  <2>9. ASSUME NEW q \in Reconcilers, NEW c \in Cands, q # r, recon[q].since[c] > 0 PROVE Owing(q, c)'
    <3>1. Owing(q, c) /\ recon'[q] = recon[q] /\ SourceOf[c] \in SourceIds
      BY <2>8, <2>9 DEF SourceInv, SourceIds
    <3>2. ~Active(q)
      BY <1>2, <2>9, <3>1 DEF Owing
    <3>3. /\ recon[q].since[c] \in Nat /\ x.read.last \in Nat
          /\ sources'[SourceOf[c]].last \in Nat /\ sources[SourceOf[c]].last \in Nat
      BY <1>1, <2>3, <3>1, RequestTypes DEF Window
    <3>4. recon[q].pc = "done" => sources'[SourceOf[c]].last >= recon[q].since[c]
      <4>1. CASE SourceOf[c] \in x.at
        <5>1. recon[q].pc = "done" => x.read.last >= recon[q].since[c]
          BY <1>0, <2>0, <2>9, <3>1, <4>1 DEF Owing
        <5>2. sources'[SourceOf[c]].last >= x.read.last
          BY <2>2, <3>1, <4>1
        <5> QED BY <3>3, <5>1, <5>2
      <4>2. CASE SourceOf[c] \notin x.at
        BY <2>2, <2>9, <3>1, <4>2 DEF Owing, Carries
      <4> QED BY <4>1, <4>2
    <3>5. Carries(recon[q], c)'
      BY <3>1, <3>2, <3>4 DEF Carries, Active
    <3>6. recon[q].pc = "done" =>
             \A p \in Reconcilers : recon'[p].pc = "write" /\ SourceOf[c] \in recon'[p].at =>
                                       recon'[p].read.last >= recon[q].since[c]
      BY <2>6, <2>8, <2>9, <3>1 DEF Owing
    <3>7. ~Active(q)'
      BY <3>1, <3>2 DEF Active
    <3> QED BY <2>0, <2>9, <3>1, <3>5, <3>6, <3>7 DEF Owing
  <2>10. \A q \in Reconcilers, c \in Cands : q # r => Owing(q, c)'
    BY <2>8, <2>9 DEF Owing
  <2>11. ASSUME NEW c \in Cands, f[c] > 0 PROVE Carries(y, c)'
    <3>1. x.latest[SourceOf[c]] >= f[c] /\ SourceOf[c] \in SourceIds
          /\ (SourceOf[c] \in x.todo \/ sources[SourceOf[c]].last >= f[c] \/ SourceOf[c] \in x.at)
      BY <1>0, <1>3, <2>0, <2>11 DEF Carries
    <3>2. f[c] \in Nat /\ x.latest[SourceOf[c]] \in Nat /\ sources'[SourceOf[c]].last \in Nat
      BY <1>1, <2>3, <3>1 DEF Window
    <3>3. SourceOf[c] \in x.todo \/ sources'[SourceOf[c]].last >= f[c]
      BY <2>2, <3>1, <3>2
    <3> QED BY <2>6, <3>1, <3>3 DEF Carries
  <2> QED BY <1>4, <2>0, <2>3, <2>5, <2>6, <2>7, <2>10, <2>11
<1> QED BY <1>5, <1>6

\* A request begins; those under way lose what they were promised alone.
LEMMA BeginStep ==
    ASSUME SourceTypes, SourceInv, NEW r \in Reconcilers, Reconcile(r)
    PROVE  SourceTypes' /\ SourceInv'
<1> USE DEF SourceTypes
<1>0. UNCHANGED <<now, cands, sources>> /\ recon[r].pc = "idle"
  BY DEF Reconcile
<1>1. PICK others : others = {q \in Reconcilers \ {r} : Active(q)}
  OBVIOUS
<1>2. PICK f : f = [c \in Cands |-> IF others = {} THEN cands[c].last ELSE 0]
  OBVIOUS
<1>3. f \in [Cands -> Nat] /\ \A c \in Cands : f[c] > 0 => others = {} /\ f[c] = cands[c].last
  BY <1>2 DEF CandState
<1>4. PICK y : y = [NewRequest EXCEPT !.pc = "scan1", !.since = f]
  OBVIOUS
<1>5. y \in Request /\ y.pc = "scan1" /\ y.since = f /\ y.read.first <= y.read.last
  BY <1>3, <1>4, NewRequestFacts DEF Request, Phases
<1>6. recon' = [q \in Reconcilers |-> IF q = r THEN y
                  ELSE IF q \in others THEN [recon[q] EXCEPT !.since = NewRequest.since] ELSE recon[q]]
  BY <1>1, <1>2, <1>4, Zenon DEF Reconcile
<1>7. PICK zero \in [Cands -> Nat] : zero = NewRequest.since /\ \A c \in Cands : zero[c] = 0
  BY NewRequestFacts DEF Request
<1>8. recon'[r] = y
  BY <1>6
<1>9. ASSUME NEW q \in Reconcilers, q # r
      PROVE  /\ recon'[q] \in Request /\ recon'[q].pc = recon[q].pc /\ recon'[q].at = recon[q].at
             /\ recon'[q].read = recon[q].read
             /\ q \in others => \A c \in Cands : recon'[q].since[c] = 0
             /\ q \notin others => recon'[q] = recon[q]
  <2>1. CASE q \in others
    <3>1. recon'[q] = [recon[q] EXCEPT !.since = zero]
      BY <1>6, <1>7, <1>9, <2>1
    <3> QED BY <1>7, <2>1, <3>1, RequestTypes DEF Request
  <2>2. CASE q \notin others
    BY <1>6, <1>9, <2>2
  <2> QED BY <2>1, <2>2
<1>10. SourceTypes'
  <2>1. recon' \in [Reconcilers -> Request]
    BY <1>5, <1>6, <1>8, <1>9
  <2>2. \A q \in Reconcilers : recon'[q].read.first <= recon'[q].read.last
    BY <1>5, <1>8, <1>9
  <2> QED BY <1>0, <2>1, <2>2
<1>11. ASSUME NEW c \in Cands, f[c] > 0 PROVE Owing(r, c)'
  <2>1. others = {} /\ f[c] = cands[c].last /\ cands[c].last \in Nat
    BY <1>3, <1>11 DEF CandState
  <2>2. \A q \in Reconcilers : Active(q)' => q = r
    BY <1>1, <1>9, <2>1 DEF Active
  <2>3. Carries(recon[r], c)'
    BY <1>0, <1>5, <1>8, <2>1 DEF Carries
  <2>4. cands[c].state # "absent"
    BY <1>11, <2>1
  <2> QED BY <1>0, <1>5, <1>8, <2>2, <2>3, <2>4 DEF Owing
<1>12. ASSUME NEW q \in Reconcilers, NEW c \in Cands, q # r, recon'[q].since[c] > 0 PROVE Owing(q, c)'
  <2>1. q \notin others /\ recon'[q] = recon[q] /\ Owing(q, c)
    BY <1>9, <1>12 DEF SourceInv
  <2>2. ~Active(q)
    BY <1>1, <1>12, <2>1
  <2>3. ~Active(q)'
    BY <2>1, <2>2 DEF Active
  <2>4. Carries(recon[q], c)'
    BY <1>0, <1>12, <2>1 DEF Owing, Carries
  <2>5. recon[q].pc = "done" =>
           \A p \in Reconcilers : recon'[p].pc = "write" /\ SourceOf[c] \in recon'[p].at =>
                                     recon'[p].read.last >= recon[q].since[c]
    BY <1>5, <1>8, <1>9, <1>12, <2>1 DEF Owing
  <2> QED BY <1>0, <1>12, <2>1, <2>3, <2>4, <2>5 DEF Owing
<1>13. ASSUME NEW q \in Reconcilers, NEW c \in Cands PROVE Owing(q, c)'
  <2>1. CASE q = r
    BY <1>5, <1>8, <1>11, <2>1 DEF Owing
  <2>2. CASE q # r
    BY <1>12, <2>2 DEF Owing
  <2> QED BY <2>1, <2>2
<1> QED BY <1>10, <1>13 DEF SourceInv

\* Every step keeps what a reconcile was to find.
LEMMA SourceStep ==
    ASSUME SourceTypes, SourceInv, [SourcesNext]_sourceVars
    PROVE  SourceTypes' /\ SourceInv'
<1>1. CASE Tick
  <2>1. now' = now + 1 /\ UNCHANGED <<cands, sources, recon>>
    BY <1>1 DEF Tick
  <2>2. \A c \in Cands : cands[c].last <= now + 1
    BY DEF SourceTypes, CandState
  <2>3. SourceTypes'
    BY <2>1, <2>2 DEF SourceTypes
  <2> QED BY <2>1, <2>3 DEF SourceInv, Owing, Carries, Active
<1>2. ASSUME NEW r \in Reconcilers, ReconcileFails(r) PROVE SourceTypes' /\ SourceInv'
  <2>1. recon' = [recon EXCEPT ![r] = NewRequest] /\ UNCHANGED <<now, cands, sources>> /\ Active(r)
    BY <1>2 DEF ReconcileFails
  <2>2. recon'[r] = NewRequest /\ \A q \in Reconcilers : q # r => recon'[q] = recon[q]
    BY <2>1 DEF SourceTypes
  <2>3. recon' \in [Reconcilers -> Request]
    BY <2>1, NewRequestFacts DEF SourceTypes
  <2>4. \A q \in Reconcilers : recon'[q].read.first <= recon'[q].read.last
    BY <2>2, NewRequestFacts DEF SourceTypes
  <2>5. SourceTypes'
    BY <2>1, <2>3, <2>4 DEF SourceTypes
  <2>6. \A q \in Reconcilers, c \in Cands : q # r => Owing(q, c)'
    BY <2>1, <2>2, <2>5, NewRequestFacts, OthersOwing
  <2>7. \A c \in Cands : Owing(r, c)'
    BY <2>2, NewRequestFacts DEF Owing
  <2> QED BY <2>5, <2>6, <2>7 DEF SourceInv
<1>3. CASE UNCHANGED sourceVars
  BY <1>3 DEF sourceVars, SourceTypes, SourceInv, Owing, Carries, Active
<1> QED BY <1>1, <1>2, <1>3, CandidateStep, ListStep, RegisterStep, BeginStep DEF SourcesNext

\* POST /sources/reconcile lists three states one after the other and merges
\* each source's window in two round trips: for any number of candidates and of
\* requests, one that no other overlapped has registered every sighting that
\* preceded it, and later ones never take that back.
THEOREM ReconcileIsComplete == SourcesSpec => []ReconcileCatchesUp
<1>1. SourcesInit => SourceTypes /\ SourceInv
  <2> SUFFICES ASSUME SourcesInit PROVE SourceTypes /\ SourceInv
    OBVIOUS
  <2>1. SourceTypes
    BY NewRequestFacts DEF SourcesInit, SourceTypes, CandState, Window, Unregistered
  <2>2. SourceInv
    BY NewRequestFacts DEF SourcesInit, SourceInv, Owing
  <2> QED BY <2>1, <2>2
<1>2. SourceTypes /\ SourceInv /\ [SourcesNext]_sourceVars => SourceTypes' /\ SourceInv'
  BY SourceStep
<1>3. SourceTypes /\ SourceInv => ReconcileCatchesUp
  <2> SUFFICES ASSUME SourceTypes, SourceInv PROVE ReconcileCatchesUp
    OBVIOUS
  <2>1. ASSUME NEW r \in Reconcilers, recon[r].pc = "done", NEW c \in Cands
        PROVE  sources[SourceOf[c]].last >= recon[r].since[c]
    <3>1. recon[r].since[c] \in Nat /\ sources[SourceOf[c]].last \in Nat
      BY RequestTypes DEF SourceTypes, Window, SourceIds
    <3>2. recon[r].since[c] > 0 => sources[SourceOf[c]].last >= recon[r].since[c]
      BY <2>1 DEF SourceInv, Owing, Carries
    <3> QED BY <3>1, <3>2
  <2> QED BY <2>1 DEF ReconcileCatchesUp, SourceTypes
<1> QED BY <1>1, <1>2, <1>3, PTL DEF SourcesSpec

-----------------------------------------------------------------------------
(* Ingest: the headers that are forwarded.                                  *)

\* What the producer wrote under a reserved name is gone, the proxy's own tag is there,
\* and the producer's idempotency key is kept.
LEMMA ForwardFacts ==
    ASSUME NEW h, NEW ref, NEW fresh, NEW f, f = ForwardHeaders(h, ref, fresh)
    PROVE  /\ f["deblob-schema-id"] = <<ref>>
           /\ DOMAIN f \cap Reserved = {"deblob-schema-id", "deblob-origin"}
           /\ "idempotency-key" \in DOMAIN h => f["idempotency-key"] = h["idempotency-key"]
           /\ "authorization" \in DOMAIN f =>
                /\ IngestToken = NoToken /\ "authorization" \in DOMAIN h
                /\ f["authorization"] = h["authorization"]
<1>1. PICK s : s = strip_reserved_and_hop_by_hop(h)
  OBVIOUS
<1>2. DOMAIN s = DOMAIN h \cap (DOMAIN h \ (Reserved \cup HopByHop)) /\ \A n \in DOMAIN s : s[n] = h[n]
  BY <1>1 DEF strip_reserved_and_hop_by_hop, Restrict
<1>3. PICK k : k = IF IngestToken # NoToken THEN Restrict(s, DOMAIN s \ {"authorization"}) ELSE s
  OBVIOUS
<1>4. /\ DOMAIN k \subseteq DOMAIN s /\ \A n \in DOMAIN k : k[n] = s[n]
      /\ \A n \in DOMAIN s : n # "authorization" => n \in DOMAIN k
      /\ IngestToken # NoToken => "authorization" \notin DOMAIN k
  BY <1>3 DEF Restrict
<1>5. PICK a : a = Inserted(k, "deblob-schema-id", ref)
  OBVIOUS
<1>6. PICK b : b = Inserted(a, "deblob-origin", fresh)
  OBVIOUS
<1>7. /\ DOMAIN a = DOMAIN k \cup {"deblob-schema-id"} /\ a["deblob-schema-id"] = <<ref>>
      /\ \A n \in DOMAIN k : n # "deblob-schema-id" => a[n] = k[n]
  BY <1>5 DEF Inserted
<1>8. /\ DOMAIN b = DOMAIN a \cup {"deblob-origin"}
      /\ \A n \in DOMAIN a : n # "deblob-origin" => b[n] = a[n]
  BY <1>6 DEF Inserted
<1>9. f = ensure_idempotency_key(b, fresh)
  BY <1>1, <1>3, <1>5, <1>6 DEF ForwardHeaders, with_tag
<1>10. /\ DOMAIN f = DOMAIN b \cup {"idempotency-key"}
       /\ \A n \in DOMAIN b : f[n] = b[n]
  <2>1. CASE Has(b, "idempotency-key")
    BY <1>9, <2>1 DEF ensure_idempotency_key, Has
  <2>2. CASE ~Has(b, "idempotency-key")
    <3>1. f = Inserted(b, "idempotency-key", fresh)
      BY <1>9, <2>2 DEF ensure_idempotency_key
    <3> QED BY <2>2, <3>1 DEF Has, Inserted
  <2> QED BY <2>1, <2>2
<1>11. f["deblob-schema-id"] = <<ref>>
  BY <1>7, <1>8, <1>10
<1>12. DOMAIN f \cap Reserved = {"deblob-schema-id", "deblob-origin"}
  BY <1>2, <1>4, <1>7, <1>8, <1>10 DEF Reserved
<1>13. ASSUME "idempotency-key" \in DOMAIN h PROVE f["idempotency-key"] = h["idempotency-key"]
  <2>1. "idempotency-key" \in DOMAIN s /\ "idempotency-key" \in DOMAIN k
    BY <1>2, <1>4, <1>13 DEF Reserved, HopByHop
  <2> QED BY <1>2, <1>4, <1>7, <1>8, <1>10, <2>1
<1>14. ASSUME "authorization" \in DOMAIN f
       PROVE  /\ IngestToken = NoToken /\ "authorization" \in DOMAIN h
              /\ f["authorization"] = h["authorization"]
  <2>1. "authorization" \in DOMAIN k
    BY <1>7, <1>8, <1>10, <1>14
  <2> QED BY <1>2, <1>4, <1>7, <1>8, <1>10, <2>1
<1> QED BY <1>11, <1>12, <1>13, <1>14

-----------------------------------------------------------------------------
(* Ingest: the invariant.                                                   *)

ConnState == [pc : {"closed", "head", "body", "join"}, enqueue : {"pending", "done"},
              forward : {Accepted, 200, 502, 504}]
Sent == wire \cup received
Messages == outbox \cup topic

IngestTypes ==
    /\ request \in Postings /\ attempt \in [Producers -> Nat]
    /\ conn \in [Producers -> ConnState] /\ answers \in [Producers -> Seq(Nat)]
    /\ life \in Nat /\ offset \in Nat
    /\ \A x \in Sent \cup Messages : x.producer \in Producers /\ x.attempt \in Nat
    /\ \A m \in Messages : m.life \in Nat /\ m.offset \in Nat

\* One answer for every attempt that is over.
Answered(p) ==
    /\ conn[p].pc = "closed" => Len(answers[p]) = attempt[p]
    /\ conn[p].pc # "closed" => Len(answers[p]) + 1 = attempt[p]

\* A trace of the current attempt exists only from the join on.
Admitted(x) ==
    /\ x.attempt <= attempt[x.producer]
    /\ x.attempt = attempt[x.producer] /\ conn[x.producer].pc # "closed" => conn[x.producer].pc = "join"
    /\ StatusOf(x) \notin Refusals

\* The proxy rewrote the headers.
Rewritten(f) ==
    \E kind \in {"known", "provisional", UnresolvedTag} :
        f.headers = ForwardHeaders(request[f.producer].headers, Ref(kind, request[f.producer].shape),
                                   <<"generated", f.producer, f.attempt>>)

\* A cursor is below the counter of its process.
Numbered(m) == m.life <= life /\ (m.life = life => m.offset < offset)

OneWrite(a) ==
    Has(request[a.producer].headers, "idempotency-key") =>
        a = [producer |-> a.producer, key |-> Head(request[a.producer].headers["idempotency-key"])]

IngestInv ==
    /\ \A p \in Producers : Answered(p)
    /\ \A x \in Sent \cup Messages : Admitted(x)
    /\ \A f \in Sent : Rewritten(f)
    /\ \A m \in Messages : Numbered(m)
    /\ EvidenceIsOfARequest
    /\ \A a \in applied : OneWrite(a)

\* Nothing is sent, and no counter moves.
LEMMA TracesStay ==
    ASSUME IngestInv, UNCHANGED <<request, life, offset, outbox, topic, wire, received, applied>>
    PROVE  /\ (\A f \in Sent : Rewritten(f))' /\ (\A m \in Messages : Numbered(m))'
           /\ EvidenceIsOfARequest' /\ (\A a \in applied : OneWrite(a))'
<1>1. (\A f \in Sent : Rewritten(f))' /\ (\A m \in Messages : Numbered(m))'
  BY DEF IngestInv, Sent, Messages, Rewritten, Numbered
<1>2. EvidenceIsOfARequest'
  BY DEF IngestInv, EvidenceIsOfARequest
<1>3. (\A a \in applied : OneWrite(a))'
  BY DEF IngestInv, OneWrite
<1> QED BY <1>1, <1>2, <1>3

\* An attempt is answered; a refusal only where nothing has been sent.
LEMMA AnswerStep ==
    ASSUME IngestTypes, IngestInv, NEW p \in Producers, NEW status \in Nat, conn[p].pc # "closed",
           conn[p].pc = "join" => status \notin Refusals, Answer(p, status),
           UNCHANGED <<request, attempt, life, offset, outbox, topic, wire, received, applied>>
    PROVE  IngestTypes' /\ IngestInv'
<1>1. Idle \in ConnState /\ Idle.pc = "closed"
  BY DEF Idle, ConnState
<1>2. conn' = [conn EXCEPT ![p] = Idle] /\ answers' = [answers EXCEPT ![p] = Append(answers[p], status)]
  BY DEF Answer
<1>3. PICK n \in Nat, s \in Seq(Nat) : s = answers[p] /\ Len(s) = n /\ attempt[p] = n + 1 /\ attempt[p] \in Nat
  BY DEF IngestTypes, IngestInv, Answered
<1>4. PICK t : t = Append(s, status)
  OBVIOUS
<1>5. t \in Seq(Nat) /\ Len(t) = n + 1 /\ DOMAIN t = 1..(n + 1) /\ t[n + 1] = status /\ DOMAIN s = 1..n /\ \A i \in 1..n : t[i] = s[i]
  BY <1>3, <1>4
<1>6. /\ answers'[p] = t /\ conn'[p] = Idle
      /\ \A q \in Producers : q # p => answers'[q] = answers[q] /\ conn'[q] = conn[q]
  BY <1>2, <1>3, <1>4 DEF IngestTypes
<1>7. IngestTypes'
  <2>1. conn' \in [Producers -> ConnState] /\ answers' \in [Producers -> Seq(Nat)]
    BY <1>1, <1>2, <1>3, <1>4, <1>5 DEF IngestTypes
  <2> QED BY <2>1 DEF IngestTypes, Sent, Messages
<1>8. ASSUME NEW q \in Producers PROVE Answered(q)'
  <2>1. CASE q = p
    BY <1>1, <1>3, <1>5, <1>6, <2>1 DEF Answered
  <2>2. CASE q # p
    BY <1>6, <2>2 DEF Answered, IngestInv
  <2> QED BY <2>1, <2>2
<1>9. ASSUME NEW x \in Sent \cup Messages PROVE Admitted(x)'
  <2>1. x.producer \in Producers /\ x.attempt \in Nat /\ Admitted(x)
    BY DEF IngestTypes, IngestInv
  <2>2. CASE x.producer # p
    BY <1>6, <2>1, <2>2 DEF Admitted, StatusOf
  <2>3. CASE x.producer = p
    <3>1. x.attempt <= n + 1 /\ conn'[p].pc = "closed"
      BY <1>1, <1>3, <1>6, <2>1, <2>3 DEF Admitted
    <3>2. StatusOf(x)' = IF x.attempt \in 1..(n + 1) THEN t[x.attempt] ELSE Accepted
      BY <1>5, <1>6, <2>3 DEF StatusOf
    <3>3. StatusOf(x) = IF x.attempt \in 1..n THEN s[x.attempt] ELSE Accepted
      BY <1>3, <1>5, <2>3 DEF StatusOf
    <3>4. CASE x.attempt \in 1..n
      <4>1. StatusOf(x)' = StatusOf(x)
        BY <1>5, <3>2, <3>3, <3>4
      <4> QED BY <1>3, <2>1, <2>3, <3>1, <4>1 DEF Admitted
    <3>5. CASE x.attempt = n + 1
      <4>1. conn[p].pc = "join" /\ StatusOf(x)' = status
        BY <1>3, <1>5, <2>1, <2>3, <3>2, <3>5 DEF Admitted
      <4> QED BY <1>3, <2>1, <2>3, <3>1, <4>1 DEF Admitted
    <3>6. CASE x.attempt = 0
      <4>1. StatusOf(x)' = StatusOf(x)
        BY <3>2, <3>3, <3>6
      <4> QED BY <1>3, <2>1, <2>3, <3>1, <4>1 DEF Admitted
    <3> QED BY <2>1, <3>1, <3>4, <3>5, <3>6
  <2> QED BY <2>2, <2>3
<1>10. (\A x \in Sent \cup Messages : Admitted(x))'
  BY <1>9 DEF Sent, Messages, Admitted, StatusOf
<1> QED BY <1>7, <1>8, <1>10, TracesStay DEF IngestInv

\* A connection that is open stays open: what had been sent is still of its attempt.
LEMMA AdmittedStays ==
    ASSUME IngestTypes, NEW p \in Producers, NEW y \in ConnState, conn' = [conn EXCEPT ![p] = y],
           conn[p].pc # "closed", conn[p].pc = "join" => y.pc = "join", UNCHANGED <<attempt, answers>>,
           NEW x, x.producer \in Producers, Admitted(x)
    PROVE  Admitted(x)'
<1>1. conn'[p] = y /\ \A q \in Producers : q # p => conn'[q] = conn[q]
  BY DEF IngestTypes
<1>2. StatusOf(x)' = StatusOf(x)
  BY DEF StatusOf
<1> QED BY <1>1, <1>2 DEF Admitted

\* ... and the attempt has no answer yet.
LEMMA ConnStep ==
    ASSUME IngestTypes, IngestInv, NEW p \in Producers, NEW y \in ConnState, conn' = [conn EXCEPT ![p] = y],
           conn[p].pc # "closed", y.pc # "closed", UNCHANGED <<request, attempt, answers>>,
           life' \in Nat, offset' \in Nat,
           \A x \in Sent' \cup Messages' : x.producer \in Producers /\ x.attempt \in Nat,
           \A m \in Messages' : m.life \in Nat /\ m.offset \in Nat,
           (\A x \in Sent \cup Messages : Admitted(x))',
           (\A f \in Sent : Rewritten(f))', (\A m \in Messages : Numbered(m))',
           EvidenceIsOfARequest', (\A a \in applied : OneWrite(a))'
    PROVE  IngestTypes' /\ IngestInv'
<1>1. conn' \in [Producers -> ConnState] /\ conn'[p] = y /\ \A q \in Producers : q # p => conn'[q] = conn[q]
  BY DEF IngestTypes
<1>2. IngestTypes'
  BY <1>1 DEF IngestTypes
<1>3. (\A q \in Producers : Answered(q))'
  BY <1>1 DEF Answered, IngestInv
<1> QED BY <1>2, <1>3 DEF IngestInv

\* A step of an open connection that sends nothing and answers nothing.
MovesOn(p, y) ==
    /\ conn' = [conn EXCEPT ![p] = y] /\ conn[p].pc # "closed" /\ y.pc # "closed"
    /\ conn[p].pc = "join" => y.pc = "join"
    /\ UNCHANGED <<request, attempt, answers, life, offset, outbox, topic, wire, received, applied>>

\* It changes nothing of what is known.
LEMMA QuietStep ==
    ASSUME IngestTypes, IngestInv, NEW p \in Producers, NEW y \in ConnState, MovesOn(p, y)
    PROVE  IngestTypes' /\ IngestInv'
<1>0. /\ conn' = [conn EXCEPT ![p] = y] /\ conn[p].pc # "closed" /\ y.pc # "closed"
      /\ conn[p].pc = "join" => y.pc = "join"
      /\ UNCHANGED <<request, attempt, answers, life, offset, outbox, topic, wire, received, applied>>
  BY DEF MovesOn
<1>1. Sent' = Sent /\ Messages' = Messages
  BY <1>0 DEF Sent, Messages
<1>2. \A x \in Sent \cup Messages : x.producer \in Producers /\ x.attempt \in Nat /\ Admitted(x)
  BY DEF IngestTypes, IngestInv
<1>3. \A x \in Sent' \cup Messages' : Admitted(x)'
  BY <1>0, <1>1, <1>2, AdmittedStays
<1>4. (\A x \in Sent \cup Messages : Admitted(x))'
  BY <1>0, <1>3 DEF Admitted, StatusOf
<1>5. life' \in Nat /\ offset' \in Nat /\ \A m \in Messages' : m.life \in Nat /\ m.offset \in Nat
  BY <1>0, <1>1 DEF IngestTypes
<1> QED BY <1>0, <1>1, <1>2, <1>4, <1>5, TracesStay, ConnStep

\* The forward of an admitted body and its discovery message: the first traces of this
\* attempt, the message with the next cursor.
LEMMA ForwardStep ==
    ASSUME IngestTypes, IngestInv, NEW p \in Producers, conn[p].pc = "body",
           NEW kind \in {"known", "provisional", UnresolvedTag},
           Forward(p, Ref(kind, request[p].shape)), UNCHANGED <<request, attempt, life, topic, received, applied>>
    PROVE  IngestTypes' /\ IngestInv'
<1>1. PICK ref, k : ref = Ref(kind, request[p].shape) /\ k = attempt[p]
  OBVIOUS
<1>2. PICK f : f = [producer |-> p, attempt |-> k,
                    headers |-> ForwardHeaders(request[p].headers, ref, <<"generated", p, k>>)]
  OBVIOUS
<1>3. PICK new : new = Enqueued(p, ref)
  OBVIOUS
<1>4. PICK m : m = [producer |-> p, attempt |-> k, ref |-> ref, life |-> life, offset |-> offset]
  OBVIOUS
<1>5. k \in Nat /\ life \in Nat /\ offset \in Nat /\ Len(answers[p]) \in Nat /\ Len(answers[p]) + 1 = k
      /\ DOMAIN answers[p] = 1..Len(answers[p])
  BY <1>1 DEF IngestTypes, IngestInv, Answered
<1>6. /\ new = {} \/ (new = {m} /\ ref.kind = "provisional")
      /\ Cardinality(new) = IF new = {} THEN 0 ELSE 1
  <2>1. new = {} \/ (new = {m} /\ ref.kind = "provisional")
    BY <1>1, <1>3, <1>4 DEF Enqueued
  <2> QED BY <2>1, FS_EmptySet, FS_Singleton
<1>7. PICK y : y = [pc |-> "join", forward |-> Accepted, enqueue |-> IF new = {} THEN "done" ELSE "pending"]
  OBVIOUS
<1>8. y \in ConnState /\ y.pc = "join"
  BY <1>7 DEF ConnState
<1>9. /\ wire' = wire \cup {f} /\ outbox' = outbox \cup new /\ offset' = offset + Cardinality(new)
      /\ conn' = [conn EXCEPT ![p] = y] /\ UNCHANGED answers
  BY <1>1, <1>2, <1>3, <1>7 DEF Forward
<1>10. Sent' = Sent \cup {f} /\ Messages' = Messages \cup new
  BY <1>9 DEF Sent, Messages
<1>11. /\ \A x \in Sent \cup Messages : x.producer \in Producers /\ x.attempt \in Nat /\ Admitted(x)
       /\ \A x \in {f} \cup new : x.producer = p /\ x.attempt = k
  BY <1>2, <1>4, <1>6 DEF IngestTypes, IngestInv
<1>12. \A x \in Sent' \cup Messages' : x.producer \in Producers /\ x.attempt \in Nat
  BY <1>5, <1>10, <1>11
<1>13. \A x \in Sent \cup Messages : Admitted(x)'
  BY <1>8, <1>9, <1>11, AdmittedStays
<1>14. \A x \in {f} \cup new : Admitted(x)'
  <2> TAKE x \in {f} \cup new
  <2>1. StatusOf(x)' = Accepted
    BY <1>5, <1>9, <1>11 DEF StatusOf
  <2>2. conn'[p].pc = "join"
    BY <1>8, <1>9 DEF IngestTypes
  <2> QED BY <1>1, <1>5, <1>11, <2>1, <2>2 DEF Admitted, Accepted, Refusals
<1>15. (\A x \in Sent \cup Messages : Admitted(x))'
  BY <1>10, <1>13, <1>14 DEF Admitted, StatusOf
<1>16. (\A g \in Sent : Rewritten(g))'
  <2>1. Rewritten(f)
    BY <1>1, <1>2 DEF Rewritten
  <2> QED BY <1>10, <2>1 DEF IngestInv, Rewritten
<1>17. offset' \in Nat /\ offset <= offset' /\ (new # {} => offset < offset')
  BY <1>5, <1>6, <1>9
<1>18. \A n \in Messages : n.life \in Nat /\ n.offset \in Nat /\ n.life <= life /\ (n.life = life => n.offset < offset)
  BY DEF IngestTypes, IngestInv, Numbered
<1>19. \A n \in new : n.life = life /\ n.offset = offset
  BY <1>4, <1>6
<1>20. /\ \A n \in Messages' : n.life \in Nat /\ n.offset \in Nat
       /\ \A n \in Messages' : n.life <= life /\ (n.life = life => n.offset < offset')
  <2>1. \A n \in new : n.life \in Nat /\ n.offset \in Nat /\ n.life <= life /\ n.offset < offset'
    BY <1>5, <1>17, <1>19
  <2>2. \A n \in Messages : n.life = life => n.offset < offset'
    BY <1>5, <1>17, <1>18
  <2> QED BY <1>10, <1>18, <2>1, <2>2
<1>21. (\A n \in Messages : Numbered(n))'
  BY <1>20 DEF Numbered
<1>22. EvidenceIsOfARequest'
  <2>1. /\ \A n \in Messages : n.ref.kind = "provisional" /\ \E g \in Sent : g.producer = n.producer /\ g.attempt = n.attempt
        /\ \A n, o \in Messages : n # o =>
             /\ <<n.producer, n.attempt>> # <<o.producer, o.attempt>>
             /\ <<n.life, n.offset>> # <<o.life, o.offset>>
    BY DEF IngestInv, EvidenceIsOfARequest, Sent, Messages
  <2>2. \A n \in new : n.ref.kind = "provisional" /\ \E g \in Sent' : g.producer = n.producer /\ g.attempt = n.attempt
    BY <1>2, <1>4, <1>6, <1>10
  <2>3. \A n \in Messages, o \in new :
             /\ <<n.producer, n.attempt>> # <<o.producer, o.attempt>>
             /\ <<n.life, n.offset>> # <<o.life, o.offset>>
    <3> TAKE n \in Messages, o \in new
    <3>1. n.producer = p => n.attempt # k
      BY <1>1, <1>11 DEF Admitted
    <3>2. n.life = life => n.offset # offset
      BY <1>5, <1>18
    <3> QED BY <1>11, <1>19, <3>1, <3>2
  <2>4. \A n, o \in new : n = o
    BY <1>6
  <2> QED BY <1>10, <2>1, <2>2, <2>3, <2>4 DEF EvidenceIsOfARequest, Sent, Messages
<1>23. (\A a \in applied : OneWrite(a))'
  BY DEF IngestInv, OneWrite
<1> QED BY <1>5, <1>8, <1>9, <1>12, <1>15, <1>16, <1>17, <1>20, <1>21, <1>22, <1>23, ConnStep

\* The steps of one request.
LEMMA RequestStep ==
    ASSUME IngestTypes, IngestInv, NEW p \in Producers,
           \/ HeadArrives(p) \/ HeaderReadTimeout(p) \/ BodyArrives(p) \/ EnqueueTimeout(p) \/ Respond(p)
           \/ RequestTimeout(p) \/ Disconnect(p) \/ \E status \in {200, 502, 504} : ForwardEnds(p, status)
    PROVE  IngestTypes' /\ IngestInv'
<1>0. PICK x \in ConnState : x = conn[p]
  BY DEF IngestTypes
<1>1. ASSUME NEW status \in Nat, x.pc # "closed", x.pc = "join" => status \notin Refusals, Answer(p, status),
             UNCHANGED <<request, attempt, life, offset, outbox, topic, wire, received, applied>>
      PROVE  IngestTypes' /\ IngestInv'
  BY <1>0, <1>1, AnswerStep
<1>3. CASE HeadArrives(p)
  <2>1. x.pc = "head" /\ UNCHANGED <<request, attempt, life, offset, outbox, topic, wire, received, applied>>
    BY <1>0, <1>3 DEF HeadArrives, processVars, upstreamVars
  <2>2. PICK status \in Nat : status = Refusal(request[p])
    BY DEF Refusal, Accepted
  <2>3. CASE status = Accepted
    <3>1. PICK y : y = [x EXCEPT !.pc = "body"]
      OBVIOUS
    <3>2. y \in ConnState /\ y.pc = "body"
      BY <3>1 DEF ConnState
    <3>3. conn' = [conn EXCEPT ![p] = y] /\ UNCHANGED answers
      BY <1>0, <1>3, <2>2, <2>3, <3>1 DEF HeadArrives
    <3> QED BY <1>0, <2>1, <3>2, <3>3, QuietStep DEF MovesOn
  <2>4. CASE status # Accepted
    <3>1. Answer(p, status)
      BY <1>3, <2>2, <2>4 DEF HeadArrives
    <3> QED BY <1>1, <2>1, <3>1
  <2> QED BY <2>3, <2>4
<1>4. CASE HeaderReadTimeout(p) \/ RequestTimeout(p) \/ Disconnect(p)
  <2>1. PICK status \in {Lost, 408} : Answer(p, status)
    BY <1>4 DEF HeaderReadTimeout, RequestTimeout, Disconnect
  <2>2. status \in Nat /\ status \notin Refusals
    BY <2>1 DEF Lost, Refusals
  <2>3. x.pc # "closed" /\ UNCHANGED <<request, attempt, life, offset, outbox, topic, wire, received, applied>>
    BY <1>0, <1>4 DEF HeaderReadTimeout, RequestTimeout, Disconnect, processVars, upstreamVars
  <2> QED BY <1>1, <2>1, <2>2, <2>3
<1>5. CASE Respond(p)
  <2>1. PICK status \in {200, 502, 504} : Answer(p, status)
    BY <1>0, <1>5 DEF Respond, ConnState
  <2>2. status \in Nat /\ status \notin Refusals
    BY <2>1 DEF Refusals
  <2>3. x.pc # "closed" /\ UNCHANGED <<request, attempt, life, offset, outbox, topic, wire, received, applied>>
    BY <1>0, <1>5 DEF Respond, processVars, upstreamVars
  <2> QED BY <1>1, <2>1, <2>2, <2>3
<1>6. CASE EnqueueTimeout(p)
  <2>1. PICK y : y = [x EXCEPT !.enqueue = "done"]
    OBVIOUS
  <2>2. y \in ConnState /\ y.pc = x.pc
    BY <2>1 DEF ConnState
  <2>3. /\ conn' = [conn EXCEPT ![p] = y] /\ x.pc = "join"
        /\ UNCHANGED <<request, attempt, answers, life, offset, outbox, topic, wire, received, applied>>
    BY <1>0, <1>6, <2>1 DEF EnqueueTimeout, processVars, upstreamVars
  <2>4. y.pc = "join" /\ x.pc # "closed" /\ y.pc # "closed"
    BY <2>2, <2>3
  <2> QED BY <1>0, <2>2, <2>3, <2>4, QuietStep DEF MovesOn
<1>7. ASSUME NEW status \in {200, 502, 504}, ForwardEnds(p, status) PROVE IngestTypes' /\ IngestInv'
  <2>1. PICK y : y = [x EXCEPT !.forward = status]
    BY ZenonT(40)
  <2>2. y \in ConnState /\ y.pc = x.pc
    BY <2>1 DEF ConnState
  <2>3. /\ conn' = [conn EXCEPT ![p] = y] /\ x.pc = "join"
        /\ UNCHANGED <<request, attempt, answers, life, offset, outbox, topic, wire, received, applied>>
    BY <1>0, <1>7, <2>1 DEF ForwardEnds, processVars, upstreamVars
  <2>4. y.pc = "join" /\ x.pc # "closed" /\ y.pc # "closed"
    BY <2>2, <2>3
  <2> QED BY ZenonT(40), <1>0, <2>2, <2>3, <2>4, QuietStep DEF MovesOn
<1>8. CASE BodyArrives(p)
  <2>1. x.pc = "body" /\ UNCHANGED <<request, attempt, life, topic, received, applied>>
    BY <1>0, <1>8 DEF BodyArrives, upstreamVars
  <2>2. CASE \E status \in {413, 422, 502} : Answer(p, status) /\ UNCHANGED <<wire, outbox, offset>>
    BY <1>1, <2>1, <2>2
  <2>3. CASE \E ref \in Classifications(request[p].shape) : ref.kind # MalformedBody /\ Forward(p, ref)
    <3>1. PICK kind \in {"known", "provisional", UnresolvedTag} : Forward(p, Ref(kind, request[p].shape))
      BY <2>3 DEF Classifications, Ref
    <3> QED BY <1>0, <2>1, <3>1, ForwardStep
  <2> QED BY <1>8, <2>2, <2>3 DEF BodyArrives
<1> QED BY <1>3, <1>4, <1>5, <1>6, <1>7, <1>8

\* A new attempt: whatever has been sent is of an earlier one.
LEMMA PostStep ==
    ASSUME IngestTypes, IngestInv, NEW p \in Producers, Post(p)
    PROVE  IngestTypes' /\ IngestInv'
<1>1. PICK x \in ConnState, k \in Nat : x = conn[p] /\ k = attempt[p] /\ x.pc = "closed" /\ Len(answers[p]) = k
  BY DEF IngestTypes, IngestInv, Answered, Post
<1>2. PICK y : y = [x EXCEPT !.pc = "head"]
  OBVIOUS
<1>3. y \in ConnState /\ y.pc = "head"
  BY <1>2 DEF ConnState
<1>4. PICK n \in Nat : n = k + 1
  OBVIOUS
<1>5. /\ conn' = [conn EXCEPT ![p] = y] /\ attempt' = [attempt EXCEPT ![p] = n]
      /\ UNCHANGED <<request, answers, life, offset, outbox, topic, wire, received, applied>>
  BY <1>1, <1>2, <1>4 DEF Post, processVars, upstreamVars
<1>6. /\ conn' \in [Producers -> ConnState] /\ attempt' \in [Producers -> Nat]
      /\ conn'[p] = y /\ attempt'[p] = n
      /\ \A q \in Producers : q # p => conn'[q] = conn[q] /\ attempt'[q] = attempt[q]
  BY <1>3, <1>5 DEF IngestTypes
<1>7. IngestTypes'
  BY <1>5, <1>6 DEF IngestTypes, Sent, Messages
<1>8. (\A q \in Producers : Answered(q))'
  <2> SUFFICES ASSUME NEW q \in Producers PROVE Answered(q)'
    BY DEF Answered
  <2>1. CASE q = p
    BY <1>1, <1>3, <1>4, <1>5, <1>6, <2>1 DEF Answered
  <2>2. CASE q # p
    BY <1>5, <1>6, <2>2 DEF Answered, IngestInv
  <2> QED BY <2>1, <2>2
<1>9. ASSUME NEW x2 \in Sent \cup Messages PROVE Admitted(x2)'
  <2>1. x2.producer \in Producers /\ x2.attempt \in Nat /\ Admitted(x2) /\ StatusOf(x2)' = StatusOf(x2)
    BY <1>5 DEF IngestTypes, IngestInv, StatusOf
  <2>2. CASE x2.producer = p
    <3>1. x2.attempt <= n /\ x2.attempt # n
      BY <1>1, <1>4, <2>1, <2>2 DEF Admitted
    <3> QED BY <1>6, <2>1, <2>2, <3>1 DEF Admitted
  <2>3. CASE x2.producer # p
    BY <1>6, <2>1, <2>3 DEF Admitted
  <2> QED BY <2>2, <2>3
<1>10. (\A x2 \in Sent \cup Messages : Admitted(x2))'
  BY <1>5, <1>9 DEF Sent, Messages, Admitted, StatusOf
<1> QED BY <1>5, <1>7, <1>8, <1>10, TracesStay DEF IngestInv

\* The process ends at once: every open connection ends without an answer.
LEMMA CrashStep ==
    ASSUME IngestTypes, IngestInv, Crash
    PROVE  IngestTypes' /\ IngestInv'
<1>1. /\ conn' = [p \in Producers |-> Idle]
      /\ answers' = [p \in Producers |-> IF conn[p].pc = "closed" THEN answers[p] ELSE Append(answers[p], Lost)]
      /\ outbox' = {} /\ UNCHANGED <<request, attempt, life, offset, topic, wire, received, applied>>
  BY DEF Crash, upstreamVars
<1>2. Idle \in ConnState /\ Idle.pc = "closed"
  BY DEF Idle, ConnState
<1>3. ASSUME NEW p \in Producers
      PROVE  /\ answers'[p] \in Seq(Nat) /\ Len(answers'[p]) = attempt[p] /\ conn'[p] = Idle
             /\ \A i \in DOMAIN answers'[p] :
                  answers'[p][i] = Lost \/ (i \in DOMAIN answers[p] /\ answers'[p][i] = answers[p][i])
  <2>1. answers[p] \in Seq(Nat) /\ attempt[p] \in Nat /\ Answered(p) /\ conn'[p] = Idle
    BY <1>1 DEF IngestTypes, IngestInv
  <2>2. CASE conn[p].pc = "closed"
    BY <1>1, <2>1, <2>2 DEF Answered
  <2>3. CASE conn[p].pc # "closed"
    <3>1. PICK s \in Seq(Nat), n \in Nat : s = answers[p] /\ Len(s) = n /\ n + 1 = attempt[p]
      BY <2>1, <2>3 DEF Answered
    <3>2. PICK l \in Nat : l = Lost
      BY DEF Lost
    <3>3. PICK t : t = Append(s, l)
      OBVIOUS
    <3>4. t \in Seq(Nat) /\ Len(t) = n + 1 /\ \A i \in DOMAIN t : t[i] = l \/ (i \in DOMAIN s /\ t[i] = s[i])
      BY <3>1, <3>3
    <3>5. answers'[p] = t
      BY <1>1, <2>3, <3>1, <3>2, <3>3
    <3> QED BY <2>1, <3>1, <3>2, <3>4, <3>5
  <2> QED BY <2>2, <2>3
<1>4. Sent' = Sent /\ Messages' \subseteq Messages
  BY <1>1 DEF Sent, Messages
<1>5. IngestTypes'
  <2>1. conn' \in [Producers -> ConnState] /\ answers' \in [Producers -> Seq(Nat)]
    BY <1>1, <1>2, <1>3
  <2> QED BY <1>1, <1>4, <2>1 DEF IngestTypes
<1>6. (\A q \in Producers : Answered(q))'
  BY <1>1, <1>2, <1>3 DEF Answered
<1>7. ASSUME NEW x \in Sent \cup Messages PROVE Admitted(x)'
  <2>1. x.producer \in Producers /\ x.attempt \in Nat /\ Admitted(x)
    BY DEF IngestTypes, IngestInv
  <2>2. StatusOf(x)' \in {StatusOf(x), Lost, Accepted}
    BY <1>3, <2>1 DEF StatusOf
  <2>3. StatusOf(x)' \notin Refusals
    BY <2>1, <2>2 DEF Admitted, Lost, Accepted, Refusals
  <2>4. conn'[x.producer].pc = "closed"
    BY <1>2, <1>3, <2>1
  <2> QED BY <1>1, <2>1, <2>3, <2>4 DEF Admitted
<1>8. (\A x \in Sent \cup Messages : Admitted(x))'
  BY <1>4, <1>7 DEF Admitted, StatusOf
<1>9. (\A f \in Sent : Rewritten(f))' /\ (\A m \in Messages : Numbered(m))' /\ (\A a \in applied : OneWrite(a))'
  BY <1>1, <1>4 DEF IngestInv, Rewritten, Numbered, OneWrite
<1>10. EvidenceIsOfARequest'
  BY <1>1, <1>4 DEF IngestInv, EvidenceIsOfARequest, Sent, Messages
<1> QED BY <1>5, <1>6, <1>8, <1>9, <1>10 DEF IngestInv

\* The listener and the broker's end of it: connections stay as they are, and no
\* message appears that was not there.
LEMMA ListenerStep ==
    ASSUME IngestTypes, IngestInv, Start \/ Shutdown \/ Drain \/ Restart
    PROVE  IngestTypes' /\ IngestInv'
<1>1. UNCHANGED <<request, attempt, conn, answers, topic, wire, received, applied>> /\ outbox' \subseteq outbox
  BY DEF Start, Shutdown, Drain, Restart, taskVars, upstreamVars
<1>2. Sent' = Sent /\ Messages' \subseteq Messages
  BY <1>1 DEF Sent, Messages
<1>3. life \in Nat /\ offset \in Nat /\ \A m \in Messages : m.life \in Nat /\ m.offset \in Nat
  BY DEF IngestTypes
<1>4. UNCHANGED <<life, offset>> \/ (life' = life + 1 /\ offset' = 0)
  BY DEF Start, Shutdown, Drain, Restart
<1>5. life' \in Nat /\ offset' \in Nat
  BY <1>3, <1>4
<1>6. ASSUME NEW m \in Messages PROVE m.life <= life' /\ (m.life = life' => m.offset < offset')
  <2>1. m.life \in Nat /\ m.offset \in Nat /\ m.life <= life /\ (m.life = life => m.offset < offset)
    BY <1>3 DEF IngestInv, Numbered
  <2>2. CASE UNCHANGED <<life, offset>>
    BY <2>1, <2>2
  <2>3. CASE life' = life + 1 /\ offset' = 0
    <3>1. PICK l \in Nat : l = life + 1
      BY <1>3
    <3>2. m.life <= l /\ m.life # l
      BY <1>3, <2>1, <3>1
    <3> QED BY <2>3, <3>1, <3>2
  <2> QED BY <1>4, <2>2, <2>3
<1>7. IngestTypes'
  BY <1>1, <1>2, <1>5 DEF IngestTypes
<1>8. (\A q \in Producers : Answered(q))' /\ (\A x \in Sent \cup Messages : Admitted(x))'
  BY <1>1, <1>2 DEF IngestInv, Answered, Admitted, StatusOf
<1>9. (\A m \in Messages : Numbered(m))'
  BY <1>2, <1>6 DEF Numbered
<1>10. (\A f \in Sent : Rewritten(f))' /\ (\A a \in applied : OneWrite(a))'
  BY <1>1, <1>2 DEF IngestInv, Rewritten, OneWrite
<1>11. EvidenceIsOfARequest'
  BY <1>1, <1>2 DEF IngestInv, EvidenceIsOfARequest, Sent, Messages
<1> QED BY <1>7, <1>8, <1>9, <1>10, <1>11 DEF IngestInv

\* A message leaves the queue for the topic, or is lost; who waits hears of it.
LEMMA DeliveryStep ==
    ASSUME IngestTypes, IngestInv, NEW m \in outbox, Delivery(m)
    PROVE  IngestTypes' /\ IngestInv'
<1>1. /\ outbox' \subseteq outbox /\ topic' \in {topic, topic \cup {m}}
      /\ UNCHANGED <<request, attempt, answers, life, offset, wire, received, applied>>
  BY DEF Delivery, processVars, upstreamVars
<1>2. Sent' = Sent /\ Messages' \subseteq Messages
  BY <1>1 DEF Sent, Messages
<1>3. PICK p \in Producers : p = m.producer
  BY DEF IngestTypes, Messages
<1>4. PICK y : y = [conn[p] EXCEPT !.enqueue = "done"]
  OBVIOUS
<1>5. y \in ConnState /\ y.pc = conn[p].pc
  <2>1. conn[p] \in ConnState
    BY DEF IngestTypes
  <2> QED BY <1>4, <2>1 DEF ConnState
<1>6. UNCHANGED conn \/ conn' = [conn EXCEPT ![p] = y]
  BY <1>3, <1>4 DEF Delivery
<1>7. conn' \in [Producers -> ConnState] /\ \A q \in Producers : conn'[q].pc = conn[q].pc
  BY <1>5, <1>6 DEF IngestTypes
<1>8. IngestTypes'
  BY <1>1, <1>2, <1>7 DEF IngestTypes
<1>9. (\A q \in Producers : Answered(q))'
  BY <1>1, <1>7 DEF IngestInv, Answered
<1>10. (\A x \in Sent \cup Messages : Admitted(x))'
  <2>1. \A x \in Sent \cup Messages : x.producer \in Producers /\ Admitted(x)
    BY DEF IngestTypes, IngestInv
  <2> QED BY <1>1, <1>2, <1>7, <2>1 DEF Admitted, StatusOf
<1>11. (\A f \in Sent : Rewritten(f))' /\ (\A n \in Messages : Numbered(n))' /\ (\A a \in applied : OneWrite(a))'
  BY <1>1, <1>2 DEF IngestInv, Rewritten, Numbered, OneWrite
<1>12. EvidenceIsOfARequest'
  BY <1>1, <1>2 DEF IngestInv, EvidenceIsOfARequest, Sent, Messages
<1> QED BY <1>8, <1>9, <1>10, <1>11, <1>12 DEF IngestInv

\* The upstream performs a write under the key the producer gave, if it gave one.
LEMMA UpstreamStep ==
    ASSUME IngestTypes, IngestInv, NEW f \in wire, UpstreamReceives(f)
    PROVE  IngestTypes' /\ IngestInv'
<1>1. /\ wire' = wire \ {f} /\ received' = received \cup {f}
      /\ UNCHANGED <<request, attempt, conn, answers, life, offset, outbox, topic>>
  BY DEF UpstreamReceives, taskVars, processVars
<1>2. Sent' = Sent /\ Messages' = Messages
  BY <1>1 DEF Sent, Messages
<1>3. PICK a : a = [producer |-> f.producer, key |-> KeyOf(f)]
  OBVIOUS
<1>4. applied' \subseteq applied \cup {a}
  BY <1>3 DEF UpstreamReceives
<1>5. OneWrite(a)
  <2>1. PICK h : h = request[f.producer].headers
    OBVIOUS
  <2>2. Rewritten(f)
    BY DEF IngestInv, Sent
  <2>3. PICK r, fresh, g : g = f.headers /\ g = ForwardHeaders(h, r, fresh)
    BY <2>1, <2>2 DEF Rewritten
  <2>4. "idempotency-key" \in DOMAIN h => g["idempotency-key"] = h["idempotency-key"]
    BY <2>3, ForwardFacts
  <2>5. "idempotency-key" \in DOMAIN h => f.headers["idempotency-key"] = h["idempotency-key"]
    BY <2>3, <2>4
  <2>6. a.producer = f.producer /\ a.key = Head(f.headers["idempotency-key"])
    BY <1>3 DEF KeyOf
  <2> QED BY <1>3, <2>1, <2>5, <2>6 DEF OneWrite, Has
<1>6. (\A b \in applied : OneWrite(b))'
  BY <1>1, <1>4, <1>5 DEF IngestInv, OneWrite
<1>7. IngestTypes'
  BY <1>1, <1>2 DEF IngestTypes
<1>8. (\A q \in Producers : Answered(q))' /\ (\A x \in Sent \cup Messages : Admitted(x))'
  BY <1>1, <1>2 DEF IngestInv, Answered, Admitted, StatusOf
<1>9. (\A g \in Sent : Rewritten(g))' /\ (\A n \in Messages : Numbered(n))'
  BY <1>1, <1>2 DEF IngestInv, Rewritten, Numbered
<1>10. EvidenceIsOfARequest'
  BY <1>1, <1>2 DEF IngestInv, EvidenceIsOfARequest, Sent, Messages
<1> QED BY <1>6, <1>7, <1>8, <1>9, <1>10 DEF IngestInv

\* Nothing has been posted.
LEMMA IngestBegins ==
    ASSUME Init
    PROVE  IngestTypes /\ IngestInv
<1>1. Idle \in ConnState /\ Idle.pc = "closed"
  BY DEF Idle, ConnState
<1>2. IngestTypes
  <2>1. answers \in [Producers -> Seq(Nat)]
    BY DEF Init
  <2> QED BY <1>1, <2>1 DEF Init, IngestTypes, Sent, Messages
<1>3. \A p \in Producers : Answered(p)
  BY <1>1 DEF Init, Answered
<1> QED BY <1>2, <1>3 DEF Init, IngestInv, Sent, Messages, EvidenceIsOfARequest

\* Every step keeps the invariant.
LEMMA IngestStep ==
    ASSUME IngestTypes, IngestInv, [Next]_vars
    PROVE  IngestTypes' /\ IngestInv'
<1>1. CASE Start \/ Shutdown \/ Drain \/ Restart
  BY <1>1, ListenerStep
<1>2. CASE Crash
  BY <1>2, CrashStep
<1>3. ASSUME NEW p \in Producers, Post(p) PROVE IngestTypes' /\ IngestInv'
  BY <1>3, PostStep
<1>4. ASSUME NEW p \in Producers,
             \/ HeadArrives(p) \/ HeaderReadTimeout(p) \/ BodyArrives(p) \/ EnqueueTimeout(p)
             \/ Respond(p) \/ RequestTimeout(p) \/ Disconnect(p)
             \/ \E status \in {200, 502, 504} : ForwardEnds(p, status)
      PROVE  IngestTypes' /\ IngestInv'
  BY <1>4, RequestStep
<1>5. ASSUME NEW m \in outbox, Delivery(m) PROVE IngestTypes' /\ IngestInv'
  BY <1>5, DeliveryStep
<1>6. ASSUME NEW f \in wire, UpstreamReceives(f) PROVE IngestTypes' /\ IngestInv'
  BY <1>6, UpstreamStep
<1>7. CASE UNCHANGED vars
  <2>1. UNCHANGED <<request, attempt, conn, answers, life, offset, outbox, topic, wire, received, applied>>
    BY <1>7 DEF vars, taskVars, processVars, upstreamVars
  <2>2. Sent' = Sent /\ Messages' = Messages
    BY <2>1 DEF Sent, Messages
  <2>3. IngestTypes'
    BY <2>2, <2>1 DEF IngestTypes
  <2>4. (\A p \in Producers : Answered(p))' /\ (\A x \in Sent \cup Messages : Admitted(x))'
    BY <2>2, <2>1 DEF IngestInv, Answered, Admitted, StatusOf
  <2> QED BY <2>1, <2>3, <2>4, TracesStay DEF IngestInv
<1> QED BY <1>1, <1>2, <1>3, <1>4, <1>5, <1>6, <1>7 DEF Next

\* What is on the wire carries the proxy's tag and no credential for the proxy.
LEMMA TaggedOnce ==
    ASSUME IngestTypes, NEW f \in Sent, Rewritten(f)
    PROVE  /\ Len(f.headers["deblob-schema-id"]) = 1
           /\ Head(f.headers["deblob-schema-id"]) \in [kind : {"known", "provisional", UnresolvedTag},
                                                        shape : {request[f.producer].shape}]
           /\ DOMAIN f.headers \cap Reserved = {"deblob-schema-id", "deblob-origin"}
           /\ IngestToken \notin Range(Values(f.headers, "authorization"))
<1>1. PICK h : h = request[f.producer].headers
  OBVIOUS
<1>2. PICK kind \in {"known", "provisional", UnresolvedTag} :
         f.headers = ForwardHeaders(h, Ref(kind, request[f.producer].shape), <<"generated", f.producer, f.attempt>>)
  BY <1>1 DEF Rewritten
<1>3. PICK r : r = Ref(kind, request[f.producer].shape)
  OBVIOUS
<1>4. PICK fresh, g : g = f.headers /\ g = ForwardHeaders(h, r, fresh)
  BY <1>2, <1>3
<1>5. /\ g["deblob-schema-id"] = <<r>>
      /\ DOMAIN g \cap Reserved = {"deblob-schema-id", "deblob-origin"}
      /\ "authorization" \in DOMAIN g =>
           /\ IngestToken = NoToken /\ "authorization" \in DOMAIN h
           /\ g["authorization"] = h["authorization"]
  BY <1>4, ForwardFacts
<1>6. /\ f.headers["deblob-schema-id"] = <<r>>
      /\ DOMAIN f.headers \cap Reserved = {"deblob-schema-id", "deblob-origin"}
      /\ "authorization" \in DOMAIN f.headers =>
           /\ IngestToken = NoToken /\ "authorization" \in DOMAIN h
           /\ f.headers["authorization"] = h["authorization"]
  BY <1>4, <1>5, Zenon
<1>7. r \in [kind : {"known", "provisional", UnresolvedTag}, shape : {request[f.producer].shape}]
  BY <1>2, <1>3 DEF Ref
<1>8. Len(<<r>>) = 1 /\ Head(<<r>>) = r
  OBVIOUS
<1>9. IngestToken \notin Range(Values(f.headers, "authorization"))
  <2>1. CASE "authorization" \in DOMAIN f.headers
    <3>1. Values(f.headers, "authorization") = Values(h, "authorization") /\ IngestToken = NoToken
      BY <1>6, <2>1 DEF Values, Has
    <3>2. request \in Postings /\ f.producer \in Producers
      BY DEF IngestTypes
    <3> QED BY <1>1, <3>1, <3>2, TokenAssumption
  <2>2. CASE "authorization" \notin DOMAIN f.headers
    BY <2>2 DEF Values, Has, Range
  <2> QED BY <2>1, <2>2
<1> QED BY <1>3, <1>6, <1>7, <1>8, <1>9

\* Whatever reached the upstream or the discovery topic is of a request the proxy admitted,
\* as the proxy rewrote it: for any number of overlapping requests, cut short at any await,
\* repeated, and answered after the process that took them has crashed.
THEOREM TracesAreAdmitted == Spec => []TracesAreOfARequest
<1>1. Init => IngestTypes /\ IngestInv
  BY IngestBegins
<1>2. IngestTypes /\ IngestInv /\ [Next]_vars => IngestTypes' /\ IngestInv'
  BY IngestStep
<1>3. IngestTypes /\ IngestInv => TracesAreOfARequest
  <2>1. SUFFICES ASSUME IngestTypes, IngestInv PROVE TracesAreOfARequest
    OBVIOUS
  <2>2. RefusedLeavesNoTrace
    BY <2>1 DEF IngestInv, Admitted, RefusedLeavesNoTrace, Sent, Messages
  <2>3. UpstreamSeesOurTag
    BY <2>1, TaggedOnce DEF IngestInv, UpstreamSeesOurTag, Sent
  <2> QED BY <2>1, <2>2, <2>3 DEF IngestInv, TracesAreOfARequest
<1> QED BY <1>1, <1>2, <1>3, PTL DEF Spec

\* A producer that repeats its own idempotency key has its write performed at most once.
THEOREM KeyedWriteOnce == Spec => []KeyedWritesApplyOnce
<1>1. Init => IngestTypes /\ IngestInv
  BY IngestBegins
<1>2. IngestTypes /\ IngestInv /\ [Next]_vars => IngestTypes' /\ IngestInv'
  BY IngestStep
<1>3. IngestInv => KeyedWritesApplyOnce
  <2>1. SUFFICES ASSUME IngestInv, NEW p \in Producers, Has(request[p].headers, "idempotency-key")
                 PROVE  Cardinality({a \in applied : a.producer = p}) <= 1
    BY DEF KeyedWritesApplyOnce
  <2>2. PICK w : w = [producer |-> p, key |-> Head(request[p].headers["idempotency-key"])]
    OBVIOUS
  <2>3. PICK writes : writes = {a \in applied : a.producer = p}
    OBVIOUS
  <2>4. writes \subseteq {w}
    BY <2>1, <2>2, <2>3 DEF IngestInv, OneWrite
  <2>5. writes = {} \/ writes = {w}
    BY <2>4
  <2>6. Cardinality({}) = 0 /\ Cardinality({w}) = 1
    BY FS_EmptySet, FS_Singleton
  <2> QED BY <2>3, <2>5, <2>6
<1> QED BY <1>1, <1>2, <1>3, PTL DEF Spec

=============================================================================
