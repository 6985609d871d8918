-------------------------- MODULE SemanticProofs --------------------------
(***************************************************************************)
(* Proofs about the semantic store, for any number of schemas, clients and *)
(* revisions and any metadata: the compare-and-swap of SEM_APPEND_SCRIPT   *)
(* keeps every history a chain although ids are minted before it runs, a   *)
(* revision always changes what its schema means, and without writers the  *)
(* rebuild leaves the index that the appends keep.                         *)
(***************************************************************************)
EXTENDS SemanticStore, TLAPS

Revision == [id : Nat, meta : Metas, prev : Nat]
Pointer == [rev : Nat, sem : Sems \cup {NoSem}, etag : Nat, keys : SUBSET Features]
Request == [at : {"script"}, sch : Schemas, meta : Metas, reason : BOOLEAN, id : Nat, expected : Nat]
Told == [rev : Nat, etag : Nat]
Replied == [at : {"collisions", "drift", "answered"}, sch : Schemas, meta : Metas, reply : Told]
Listed == [at : {"metadata"}, sch : Schemas, meta : Metas, reply : Told, members : SUBSET Schemas]
Classified == [at : {"drift"}, sch : Schemas, meta : Metas, reply : Told, classified : Sems \cup {NoSem}]
Compared == [at : {"answered"}, sch : Schemas, meta : Metas, reply : Told, drift : SUBSET Schemas]
PutState == {Idle} \cup Request \cup Replied \cup Listed \cup Classified \cup Compared
Answering == {"collisions", "metadata", "drift", "answered"}

TypeInv ==
  /\ hist \in [Schemas -> Seq(Revision)]
  /\ active \in [Schemas -> Pointer]
  /\ index \in [Sems -> SUBSET Schemas]
  /\ minted \in Nat
  /\ seen \in [Clients -> [Schemas -> Nat]]
  /\ put \in [Clients -> PutState]

\* The history as the pointer and its last revision tell it.
ChainOf(h, a) ==
  /\ a.etag = Len(h)
  /\ Len(h) = 0 => a.rev = 0 /\ a.sem = NoSem
  /\ Len(h) > 0 => a.rev = h[Len(h)].id /\ a.sem = SemOf[h[Len(h)].meta]
  /\ \A i \in 1..Len(h) : h[i].prev = (IF i = 1 THEN 0 ELSE h[i - 1].id)
  /\ \A i, j \in 1..Len(h) : i < j => h[i].id < h[j].id
  /\ \A i \in 1..Len(h) : h[i].id <= minted
  /\ \A i \in 2..Len(h) : SemOf[h[i].meta] # SemOf[h[i - 1].meta]

\* A request under way carries an id above all the revisions it has seen; an
\* answer under way names a revision by its place in the history.
Pending(p) ==
  /\ p.at = "script" => /\ p.expected <= Len(hist[p.sch]) /\ p.id <= minted
                        /\ \A i \in 1..p.expected : hist[p.sch][i].id < p.id
  /\ p.at \in Answering => /\ p.reply.etag \in 1..Len(hist[p.sch])
                           /\ hist[p.sch][p.reply.etag].id = p.reply.rev

HistInv ==
  /\ \A s \in Schemas : ChainOf(hist[s], active[s])
  /\ \A c \in Clients : Pending(put[c])
  /\ \A c \in Clients, s \in Schemas : seen[c][s] <= Len(hist[s])

\* What the state of a request is by where it stands.
LEMMA PutFacts ==
  ASSUME NEW p \in PutState
  PROVE  /\ p.at = "script" => p \in Request
         /\ p.at = "collisions" => p \in Replied
         /\ p.at = "metadata" => p \in Listed
         /\ p.at \in Answering => p.sch \in Schemas /\ p.meta \in Metas /\ p.reply \in Told
         /\ p.at \in Answering \cup {"script", "idle"}
         /\ p.at = "idle" => p = Idle
<1>1. CASE p = Idle
  BY <1>1 DEF Idle, Answering
<1>2. CASE p \in Request
  BY <1>2 DEF Request, Answering
<1>3. CASE p \in Replied
  BY <1>3 DEF Replied, Answering
<1>4. CASE p \in Listed
  BY <1>4 DEF Listed, Answering
<1>5. CASE p \in Classified
  BY <1>5 DEF Classified, Answering
<1>6. CASE p \in Compared
  BY <1>6 DEF Compared, Answering
<1> QED BY <1>1, <1>2, <1>3, <1>4, <1>5, <1>6 DEF PutState

\* The last revision is the one the pointer names.
LEMMA ActiveIsLast ==
  ASSUME TypeInv, HistInv, NEW s \in Schemas, Len(hist[s]) > 0
  PROVE  /\ RevisionOf(s, active[s].rev) = hist[s][Len(hist[s])]
         /\ ActiveMeta(s) = hist[s][Len(hist[s])].meta
         /\ ActiveMeta(s) \in Metas
         /\ active[s].sem = SemOf[ActiveMeta(s)]
<1>1. PICK h \in Seq(Revision) : h = hist[s]
  BY DEF TypeInv
<1>2. Len(h) \in Nat /\ Len(h) > 0 /\ DOMAIN h = 1..Len(h) /\ \A i \in 1..Len(h) : h[i] \in Revision
  BY <1>1
<1>3. ChainOf(h, active[s])
  BY <1>1 DEF HistInv
<1>4. PICK r : r = active[s].rev
  OBVIOUS
<1>5. PICK n \in Nat : n = Len(h) /\ n > 0 /\ r = h[n].id
                        /\ \A i, j \in 1..n : i < j => h[i].id < h[j].id
  BY <1>2, <1>3, <1>4 DEF ChainOf
<1>6. ASSUME NEW i \in DOMAIN h PROVE h[i].id = r <=> i = n
  <2>1. i \in 1..n /\ n \in 1..n /\ h[i].id \in Nat /\ h[n].id \in Nat
    BY <1>2, <1>5 DEF Revision
  <2>2. i # n => h[i].id < h[n].id
    BY <1>5, <2>1
  <2> QED BY <1>5, <2>1, <2>2
<1>7. (CHOOSE i \in DOMAIN h : h[i].id = r) = n
  <2>1. n \in DOMAIN h
    BY <1>2, <1>5
  <2>2. \E i \in DOMAIN h : h[i].id = r
    BY <1>6, <2>1
  <2>3. PICK k : k = (CHOOSE i \in DOMAIN h : h[i].id = r)
    OBVIOUS
  <2>4. k \in DOMAIN h /\ h[k].id = r
    BY <2>2, <2>3
  <2> QED BY <1>6, <2>3, <2>4
<1>8. RevisionOf(s, active[s].rev) = h[Len(h)]
  BY <1>1, <1>4, <1>5, <1>7 DEF RevisionOf
<1> QED BY SMTT(30), <1>1, <1>2, <1>3, <1>8 DEF ActiveMeta, ChainOf, Revision

\* No step takes a revision away.
Grown == \A s \in Schemas :
  Len(hist[s]) <= Len(hist'[s]) /\ \A i \in 1..Len(hist[s]) : hist'[s][i] = hist[s][i]

\* What was promised of a request survives what others append.
LEMMA PendingStays ==
  ASSUME TypeInv, TypeInv', Grown, minted <= minted', NEW q \in PutState, Pending(q)
  PROVE  Pending(q)'
<1>1. CASE q.at = "script"
  <2>1. q \in Request
    BY <1>1, PutFacts
  <2>2. q.sch \in Schemas /\ q.id \in Nat /\ q.expected \in Nat /\ minted \in Nat /\ minted' \in Nat
    BY <2>1 DEF Request, TypeInv
  <2>3. PICK n, m : n = Len(hist[q.sch]) /\ m = Len(hist'[q.sch])
    OBVIOUS
  <2>4. n \in Nat /\ m \in Nat /\ n <= m
    BY <2>2, <2>3 DEF TypeInv, Grown
  <2>5. q.expected <= n /\ q.id <= minted /\ \A i \in 1..q.expected : hist[q.sch][i].id < q.id
    BY <1>1, <2>3 DEF Pending
  <2>6. q.expected <= m /\ q.id <= minted'
    BY <2>2, <2>4, <2>5
  <2>7. \A i \in 1..q.expected : hist'[q.sch][i] = hist[q.sch][i]
    BY <2>2, <2>3, <2>4, <2>5 DEF Grown
  <2> QED BY <1>1, <2>3, <2>5, <2>6, <2>7 DEF Pending, Answering
<1>2. CASE q.at \in Answering
  <2>1. q.sch \in Schemas /\ q.reply \in Told
    BY <1>2, PutFacts
  <2>2. q.reply.etag \in 1..Len(hist[q.sch]) /\ hist[q.sch][q.reply.etag].id = q.reply.rev
    BY <1>2 DEF Pending
  <2>3. Len(hist[q.sch]) \in Nat /\ Len(hist'[q.sch]) \in Nat
    BY <2>1 DEF TypeInv
  <2>4. Len(hist[q.sch]) <= Len(hist'[q.sch]) /\ hist'[q.sch][q.reply.etag] = hist[q.sch][q.reply.etag]
    BY <2>1, <2>2 DEF Grown
  <2> QED BY <1>2, <2>2, <2>3, <2>4 DEF Pending, Answering
<1>3. CASE q.at = "idle"
  BY <1>3 DEF Pending, Answering
<1> QED BY <1>1, <1>2, <1>3, PutFacts DEF Answering

\* A chain takes one more revision with a new id and a new meaning.
LEMMA ChainGrows ==
  ASSUME NEW h \in Seq(Revision), NEW a \in Pointer, ChainOf(h, a), minted \in Nat, minted' \in Nat,
         minted <= minted', NEW r \in Revision, NEW b \in Pointer,
         r.prev = a.rev, r.id <= minted, \A i \in 1..Len(h) : h[i].id < r.id,
         Len(h) > 0 => SemOf[h[Len(h)].meta] # SemOf[r.meta],
         b.rev = r.id, b.sem = SemOf[r.meta], b.etag = a.etag + 1
  PROVE  /\ ChainOf(Append(h, r), b)' /\ Append(h, r) \in Seq(Revision)
         /\ Len(Append(h, r)) = Len(h) + 1 /\ Append(h, r)[Len(h) + 1] = r
         /\ \A i \in 1..Len(h) : Append(h, r)[i] = h[i]
<1>1. PICK n \in Nat : n = Len(h)
  OBVIOUS
<1>2. PICK g : g = Append(h, r)
  OBVIOUS
<1>3. g \in Seq(Revision) /\ Len(g) = n + 1 /\ g[n + 1] = r /\ \A i \in 1..n : g[i] = h[i]
  BY <1>1, <1>2
<1>4. \A i \in 1..n : h[i] \in Revision /\ h[i].id \in Nat
  <2>1. \A i \in 1..n : h[i] \in Revision
    BY <1>1
  <2> QED BY <2>1 DEF Revision
<1>5. r.id \in Nat /\ \A i \in 1..n : h[i].id < r.id /\ h[i].id <= minted
  BY <1>1 DEF ChainOf, Revision
<1>6. \A i \in 1..n + 1 : g[i].prev = (IF i = 1 THEN 0 ELSE g[i - 1].id)
  <2>1. ASSUME NEW i \in 1..n PROVE g[i].prev = (IF i = 1 THEN 0 ELSE g[i - 1].id)
    <3>1. g[i].prev = (IF i = 1 THEN 0 ELSE h[i - 1].id)
      BY <1>1, <1>3 DEF ChainOf
    <3>2. i # 1 => i - 1 \in 1..n
      OBVIOUS
    <3> QED BY <1>3, <3>1, <3>2
  <2>2. g[n + 1].prev = (IF n + 1 = 1 THEN 0 ELSE g[n + 1 - 1].id)
    <3>1. CASE n = 0
      BY <1>1, <1>3, <3>1 DEF ChainOf
    <3>2. CASE n # 0
      BY <1>1, <1>3, <3>2 DEF ChainOf
    <3> QED BY <3>1, <3>2
  <2> QED BY <2>1, <2>2
<1>7. \A i, j \in 1..n + 1 : i < j => g[i].id < g[j].id
  <2> SUFFICES ASSUME NEW i \in 1..n + 1, NEW j \in 1..n + 1, i < j PROVE g[i].id < g[j].id
    OBVIOUS
  <2>1. i \in 1..n /\ (j \in 1..n \/ j = n + 1)
    OBVIOUS
  <2>2. j \in 1..n => h[i].id < h[j].id
    BY <1>1, <2>1 DEF ChainOf
  <2> QED BY <1>3, <1>5, <2>1, <2>2
<1>8. \A i \in 1..n + 1 : g[i].id <= minted'
  <2> SUFFICES ASSUME NEW i \in 1..n + 1 PROVE g[i].id <= minted'
    OBVIOUS
  <2>1. i \in 1..n \/ i = n + 1
    OBVIOUS
  <2>2. g[i].id \in Nat /\ g[i].id <= minted
    BY <1>3, <1>4, <1>5, <2>1
  <2> QED BY <2>2
<1>9. \A i \in 2..n + 1 : SemOf[g[i].meta] # SemOf[g[i - 1].meta]
  <2> SUFFICES ASSUME NEW i \in 2..n + 1 PROVE SemOf[g[i].meta] # SemOf[g[i - 1].meta]
    OBVIOUS
  <2>1. i - 1 \in 1..n /\ (i \in 2..n \/ i = n + 1)
    OBVIOUS
  <2>2. CASE i \in 2..n
    <3>1. SemOf[h[i].meta] # SemOf[h[i - 1].meta]
      BY <1>1, <2>2 DEF ChainOf
    <3>2. i \in 1..n /\ i - 1 \in 1..n
      BY <2>1, <2>2
    <3>3. g[i] = h[i] /\ g[i - 1] = h[i - 1]
      BY <1>3, <3>2
    <3> QED BY <3>1, <3>3
  <2>3. CASE i = n + 1
    BY <1>1, <1>3, <2>1, <2>3
  <2> QED BY <2>1, <2>2, <2>3
<1>10. b.etag = n + 1
  BY <1>1 DEF ChainOf, Pointer
<1>11. ChainOf(g, b)'
  BY <1>3, <1>6, <1>7, <1>8, <1>9, <1>10 DEF ChainOf
<1> QED BY <1>1, <1>2, <1>3, <1>11

\* SEM_APPEND_SCRIPT, when it appends, makes a longer chain of the same kind.
LEMMA AppendKeepsChains ==
  ASSUME TypeInv, HistInv, NEW p \in Request, Pending(p), Verdict(p) = "appended", AppendWrites(p),
         minted' \in Nat, minted <= minted'
  PROVE  /\ hist' \in [Schemas -> Seq(Revision)] /\ active' \in [Schemas -> Pointer]
         /\ \A s \in Schemas : ChainOf(hist[s], active[s])'
         /\ Grown
         /\ Len(hist'[p.sch]) = Len(hist[p.sch]) + 1
         /\ hist'[p.sch][Len(hist[p.sch]) + 1].id = p.id
         /\ active[p.sch].etag = Len(hist[p.sch])
         /\ \A s \in Schemas \ {p.sch} : hist'[s] = hist[s] /\ active'[s] = active[s]
         /\ active'[p.sch] = [rev |-> p.id, sem |-> SemOf[p.meta],
                              etag |-> active[p.sch].etag + 1, keys |-> KeysOf[p.meta]]
         /\ hist'[p.sch][Len(hist'[p.sch])].meta = p.meta
         /\ index' \in [Sems -> SUBSET Schemas]
<1>1. p.sch \in Schemas /\ p.meta \in Metas /\ p.id \in Nat /\ p.expected \in Nat /\ p.at = "script"
  BY DEF Request
<1>2. PICK h, a, r : h = hist[p.sch] /\ a = active[p.sch]
                     /\ r = [id |-> p.id, meta |-> p.meta, prev |-> active[p.sch].rev]
  OBVIOUS
<1>3. h \in Seq(Revision) /\ a \in Pointer /\ ChainOf(h, a) /\ Len(h) \in Nat
  BY <1>1, <1>2 DEF TypeInv, HistInv
<1>4. PICK b : b = [rev |-> p.id, sem |-> SemOf[p.meta], etag |-> a.etag + 1, keys |-> KeysOf[p.meta]]
  OBVIOUS
<1>5. r \in Revision /\ b \in Pointer /\ a.etag \in Nat /\ a.etag = Len(h)
  BY <1>1, <1>2, <1>3, <1>4 DEF Revision, Pointer, Sems, Features, ChainOf
<1>6. hist' = [hist EXCEPT ![p.sch] = Append(h, r)] /\ active' = [active EXCEPT ![p.sch] = b]
  BY <1>1, <1>2, <1>4 DEF AppendWrites, WriteRevision, AdvancePointer, TypeInv
<1>7. p.expected = Len(h) /\ (a.etag # 0 => SemOf[ActiveMeta(p.sch)] # SemOf[p.meta])
  BY <1>2, <1>5 DEF Verdict
<1>8. \A i \in 1..Len(h) : h[i].id < r.id
  BY <1>1, <1>2, <1>7 DEF Pending
<1>9. Len(h) > 0 => SemOf[h[Len(h)].meta] # SemOf[r.meta]
  BY <1>1, <1>2, <1>3, <1>5, <1>7, ActiveIsLast
<1>10. r.id <= minted
  BY <1>1, <1>2 DEF Pending
<1>11. minted \in Nat
  BY DEF TypeInv
<1>12. /\ ChainOf(Append(h, r), b)' /\ Append(h, r) \in Seq(Revision)
       /\ Len(Append(h, r)) = Len(h) + 1 /\ Append(h, r)[Len(h) + 1] = r
       /\ \A i \in 1..Len(h) : Append(h, r)[i] = h[i]
  <2>1. r.prev = a.rev /\ b.rev = r.id /\ b.sem = SemOf[r.meta] /\ b.etag = a.etag + 1
    BY <1>2, <1>4
  <2> QED BY <1>3, <1>5, <1>8, <1>9, <1>10, <1>11, <2>1, ChainGrows
<1>13. PICK g : g = Append(h, r)
  OBVIOUS
<1>14. hist' = [hist EXCEPT ![p.sch] = g] /\ g \in Seq(Revision) /\ Len(g) = Len(h) + 1 /\ g[Len(h) + 1] = r
       /\ ChainOf(g, b)' /\ \A i \in 1..Len(h) : g[i] = h[i]
  BY <1>6, <1>12, <1>13
<1>15. hist' \in [Schemas -> Seq(Revision)] /\ active' \in [Schemas -> Pointer]
       /\ hist'[p.sch] = g /\ active'[p.sch] = b
       /\ \A s \in Schemas \ {p.sch} : hist'[s] = hist[s] /\ active'[s] = active[s]
  BY <1>1, <1>5, <1>6, <1>14 DEF TypeInv
<1>16. ASSUME NEW s \in Schemas PROVE ChainOf(hist[s], active[s])'
  <2>1. CASE s = p.sch
    BY <1>14, <1>15, <2>1 DEF ChainOf
  <2>2. CASE s # p.sch
    <3>1. PICK x, y : x = hist[s] /\ y = active[s]
      OBVIOUS
    <3>2. x \in Seq(Revision) /\ ChainOf(x, y) /\ \A i \in 1..Len(x) : x[i].id \in Nat
      <4>1. x \in Seq(Revision) /\ ChainOf(x, y)
        BY <3>1 DEF HistInv, TypeInv
      <4>2. \A i \in 1..Len(x) : x[i] \in Revision
        BY <4>1
      <4> QED BY <4>1, <4>2 DEF Revision
    <3>3. \A i \in 1..Len(x) : x[i].id <= minted'
      BY <1>11, <3>2 DEF ChainOf
    <3>4. ChainOf(x, y)'
      BY <3>2, <3>3 DEF ChainOf
    <3> QED BY SMTT(30), <1>15, <2>2, <3>1, <3>4 DEF ChainOf
  <2> QED BY <2>1, <2>2
<1>17. Grown
  <2>1. \A s \in Schemas : Len(hist[s]) \in Nat
    BY DEF TypeInv
  <2> QED BY <1>2, <1>3, <1>14, <1>15, <2>1 DEF Grown
<1>18. index' \in [Sems -> SUBSET Schemas]
  BY <1>1 DEF AppendWrites, SwapIndex, TypeInv
<1> QED BY <1>1, <1>2, <1>4, <1>5, <1>14, <1>15, <1>16, <1>17, <1>18

\* A step that writes no revision, whatever ids it mints and features it stores.
LEMMA ChainsStay ==
  ASSUME TypeInv, HistInv, hist' = hist, minted' \in Nat, minted <= minted',
         \A s \in Schemas : /\ active'[s].rev = active[s].rev /\ active'[s].sem = active[s].sem
                            /\ active'[s].etag = active[s].etag
  PROVE  Grown /\ \A s \in Schemas : ChainOf(hist[s], active[s])'
<1>1. Grown
  <2>1. \A s \in Schemas : Len(hist[s]) \in Nat
    BY DEF TypeInv
  <2> QED BY <2>1 DEF Grown
<1>2. ASSUME NEW s \in Schemas PROVE ChainOf(hist[s], active[s])'
  <2>1. PICK h : h = hist[s]
    OBVIOUS
  <2>2. h \in Seq(Revision) /\ ChainOf(h, active[s]) /\ minted \in Nat
    BY <2>1 DEF HistInv, TypeInv
  <2>3. \A i \in 1..Len(h) : h[i] \in Revision
    BY <2>2
  <2>4. \A i \in 1..Len(h) : h[i].id <= minted'
    BY <2>2, <2>3 DEF ChainOf, Revision
  <2> QED BY <2>1, <2>2, <2>4 DEF ChainOf
<1> QED BY <1>1, <1>2

\* A client's step: its own request moves, the histories grow.
LEMMA ClientMoves ==
  ASSUME TypeInv, HistInv, NEW c \in Clients, NEW q \in PutState, put' = [put EXCEPT ![c] = q],
         hist' \in [Schemas -> Seq(Revision)], active' \in [Schemas -> Pointer],
         index' \in [Sems -> SUBSET Schemas], minted' \in Nat, minted <= minted', Grown, \A s \in Schemas : ChainOf(hist[s], active[s])',
         seen' \in [Clients -> [Schemas -> Nat]],
         \A d \in Clients, s \in Schemas : seen'[d][s] <= Len(hist'[s]),
         Pending(q)'
  PROVE  TypeInv' /\ HistInv'
<1>1. TypeInv'
  BY DEF TypeInv
<1>2. ASSUME NEW d \in Clients PROVE Pending(put[d])'
  <2>1. CASE d = c
    <3>1. put'[d] = q
      BY <2>1 DEF TypeInv
    <3> QED BY <3>1 DEF Pending
  <2>2. CASE d # c
    <3>1. PICK x : x = put[d]
      OBVIOUS
    <3>2. x \in PutState /\ Pending(x) /\ put'[d] = x
      BY <2>2, <3>1 DEF TypeInv, HistInv
    <3>3. Pending(x)'
      BY <1>1, <3>2, PendingStays
    <3> QED BY <3>2, <3>3 DEF Pending
  <2> QED BY <2>1, <2>2
<1> QED BY <1>1, <1>2 DEF HistInv

\* What a client learns is bounded by the history it learns of.
LEMMA Learns ==
  ASSUME TypeInv, HistInv, Grown, hist' \in [Schemas -> Seq(Revision)],
         NEW c \in Clients, NEW s \in Schemas, NEW n \in Nat, n <= Len(hist'[s]),
         seen' = [seen EXCEPT ![c][s] = n] \/ seen' = seen
  PROVE  /\ seen' \in [Clients -> [Schemas -> Nat]]
         /\ \A d \in Clients, t \in Schemas : seen'[d][t] <= Len(hist'[t])
<1>1. \A d \in Clients, t \in Schemas : seen[d][t] \in Nat /\ Len(hist[t]) \in Nat /\ Len(hist'[t]) \in Nat
  BY DEF TypeInv
<1>2. \A d \in Clients, t \in Schemas : seen[d][t] <= Len(hist'[t])
  <2> TAKE d \in Clients, t \in Schemas
  <2>1. seen[d][t] <= Len(hist[t]) /\ Len(hist[t]) <= Len(hist'[t])
    BY DEF HistInv, Grown
  <2> QED BY <1>1, <2>1
<1>3. CASE seen' = seen
  BY <1>2, <1>3 DEF TypeInv
<1>4. CASE seen' = [seen EXCEPT ![c][s] = n]
  <2>1. PICK f : f = [seen[c] EXCEPT ![s] = n]
    OBVIOUS
  <2>2. seen[c] \in [Schemas -> Nat]
    BY DEF TypeInv
  <2>3. f \in [Schemas -> Nat] /\ f[s] = n /\ \A t \in Schemas : t # s => f[t] = seen[c][t]
    BY <2>1, <2>2
  <2>4. seen' = [seen EXCEPT ![c] = f]
    BY <1>4, <2>1
  <2>5. seen' \in [Clients -> [Schemas -> Nat]] /\ seen'[c] = f /\ \A d \in Clients : d # c => seen'[d] = seen[d]
    BY <2>3, <2>4 DEF TypeInv
  <2>6. ASSUME NEW d \in Clients, NEW t \in Schemas PROVE seen'[d][t] <= Len(hist'[t])
    BY <1>2, <2>3, <2>5
  <2> QED BY <2>5, <2>6
<1> QED BY <1>3, <1>4

\* Every step of a client keeps the histories.
LEMMA ClientKeepsHistory ==
  ASSUME TypeInv, HistInv, NEW c \in Clients, ClientStep(c)
  PROVE  TypeInv' /\ HistInv'
<1>0. PICK p \in PutState : p = put[c]
  BY DEF TypeInv
<1>1. Pending(p) /\ minted \in Nat
  BY <1>0 DEF HistInv, TypeInv
<1>2. hist \in [Schemas -> Seq(Revision)] /\ active \in [Schemas -> Pointer]
      /\ \A s \in Schemas : /\ active[s].etag \in Nat /\ active[s].rev \in Nat
                            /\ active[s].etag = Len(hist[s])
                            /\ active[s].etag > 0 => active[s].rev = hist[s][active[s].etag].id
  BY DEF TypeInv, HistInv, ChainOf, Pointer
<1>3. ASSUME UNCHANGED <<hist, active, index, minted>>
      PROVE  /\ Grown /\ \A s \in Schemas : ChainOf(hist[s], active[s])'
             /\ hist' \in [Schemas -> Seq(Revision)] /\ active' \in [Schemas -> Pointer]
             /\ index' \in [Sems -> SUBSET Schemas] /\ minted' \in Nat /\ minted <= minted'
  BY <1>1, <1>2, <1>3, ChainsStay DEF TypeInv
<1>4. ASSUME NEW s \in Schemas, GetSemantic(c, s) PROVE TypeInv' /\ HistInv'
  <2>1. put' = [put EXCEPT ![c] = p] /\ UNCHANGED <<hist, active, index, minted>>
        /\ seen' = [seen EXCEPT ![c][s] = active[s].etag]
    BY <1>0, <1>4 DEF GetSemantic, TypeInv
  <2>2. PICK n \in Nat : n = active[s].etag
    BY <1>2
  <2>3. seen' = [seen EXCEPT ![c][s] = n] /\ n <= Len(hist'[s])
    BY <1>2, <2>1, <2>2
  <2>4. Pending(p)'
    BY <1>1, <2>1 DEF Pending
  <2> QED BY <1>3, <2>1, <2>3, <2>4, ClientMoves, Learns
<1>5. ASSUME NEW s \in Schemas, NEW m \in Metas, NEW reason \in BOOLEAN, PutSemantic(c, s, m, reason)
      PROVE  TypeInv' /\ HistInv'
  <2>1. PICK e \in Nat : e = seen[c][s] /\ e <= Len(hist[s])
    BY DEF TypeInv, HistInv
  <2>2. PICK q : q = [at |-> "script", sch |-> s, meta |-> m, reason |-> reason,
                      id |-> minted + 1, expected |-> e]
    OBVIOUS
  <2>3. put' = [put EXCEPT ![c] = q] /\ UNCHANGED <<hist, active, index, seen>> /\ minted' = minted + 1
    BY <1>5, <2>1, <2>2, Zenon DEF PutSemantic
  <2>4. q \in Request
    BY <1>1, <2>2 DEF Request
  <2>5. q.at = "script" /\ q.sch = s /\ q.id = minted + 1 /\ q.expected = e
    BY <2>2
  <2>6. minted' \in Nat /\ minted <= minted'
    BY <1>1, <2>3
  <2>7. Grown /\ \A t \in Schemas : ChainOf(hist[t], active[t])'
    BY <2>3, <2>6, ChainsStay
  <2>8. \A i \in 1..e : hist[s][i].id < minted + 1
    <3>1. PICK h \in Seq(Revision) : h = hist[s] /\ ChainOf(h, active[s]) /\ e <= Len(h)
      BY <2>1 DEF TypeInv, HistInv
    <3>2. \A i \in 1..e : i \in 1..Len(h)
      BY <2>1, <3>1
    <3>3. \A i \in 1..Len(h) : h[i] \in Revision
      BY <3>1
    <3>4. \A i \in 1..Len(h) : h[i].id \in Nat /\ h[i].id <= minted
      BY <3>1, <3>3 DEF ChainOf, Revision
    <3> QED BY <1>1, <3>1, <3>2, <3>4
  <2>9. Pending(q)'
    BY <1>1, <2>1, <2>3, <2>5, <2>8 DEF Pending, Answering
  <2>10. seen' \in [Clients -> [Schemas -> Nat]] /\ \A d \in Clients, t \in Schemas : seen'[d][t] <= Len(hist'[t])
    BY <2>3 DEF TypeInv, HistInv
  <2>11. q \in PutState
    BY <2>4 DEF PutState
  <2>12. index' \in [Sems -> SUBSET Schemas]
    BY <2>3 DEF TypeInv
  <2> QED BY <1>2, <2>3, <2>6, <2>7, <2>9, <2>10, <2>11, <2>12, ClientMoves
<1>6. CASE Append_(c)
  <2>1. p.at = "script" /\ Verdict(p) = "appended" /\ AppendWrites(p) /\ UNCHANGED minted
    BY <1>0, <1>6 DEF Append_
  <2>2. p \in Request
    BY <2>1, PutFacts
  <2>3. p.sch \in Schemas /\ p.meta \in Metas /\ p.id \in Nat
    BY <2>2 DEF Request
  <2>4. PICK n \in Nat : n = active[p.sch].etag + 1
    BY <1>2, <2>3
  <2>5. PICK q : q = [at |-> "collisions", sch |-> p.sch, meta |-> p.meta, reply |-> [rev |-> p.id, etag |-> n]]
    OBVIOUS
  <2>6. put' = [put EXCEPT ![c] = q] /\ seen' = [seen EXCEPT ![c][p.sch] = n]
    BY <1>0, <1>6, <2>4, <2>5 DEF Append_, Reply
  <2>7. minted' \in Nat /\ minted <= minted'
    BY <1>1, <2>1
  <2>8. /\ hist' \in [Schemas -> Seq(Revision)] /\ active' \in [Schemas -> Pointer]
        /\ \A s \in Schemas : ChainOf(hist[s], active[s])'
        /\ Grown
        /\ Len(hist'[p.sch]) = Len(hist[p.sch]) + 1
        /\ hist'[p.sch][Len(hist[p.sch]) + 1].id = p.id
        /\ active[p.sch].etag = Len(hist[p.sch])
        /\ index' \in [Sems -> SUBSET Schemas]
    BY <1>1, <2>1, <2>2, <2>7, AppendKeepsChains
  <2>9. n = Len(hist'[p.sch]) /\ n \in 1..Len(hist'[p.sch]) /\ hist'[p.sch][n].id = p.id
    BY <1>2, <2>3, <2>4, <2>8
  <2>10. q \in Replied /\ q.at = "collisions" /\ q.sch = p.sch /\ q.reply.etag = n /\ q.reply.rev = p.id
    BY <2>3, <2>5 DEF Replied, Told
  <2>11. Pending(q)'
    BY <2>9, <2>10 DEF Pending
  <2>12. q \in PutState /\ n <= Len(hist'[p.sch])
    BY <2>9, <2>10 DEF PutState
  <2>13. /\ seen' \in [Clients -> [Schemas -> Nat]]
         /\ \A d \in Clients, t \in Schemas : seen'[d][t] <= Len(hist'[t])
    BY <2>3, <2>6, <2>8, <2>12, Learns
  <2> QED BY <2>6, <2>7, <2>8, <2>11, <2>12, <2>13, ClientMoves
<1>7. CASE Replay(c)
  <2>1. p.at = "script" /\ Verdict(p) = "already_active" /\ UNCHANGED <<hist, active, index, minted>>
    BY <1>0, <1>7 DEF Replay
  <2>2. p \in Request
    BY <2>1, PutFacts
  <2>3. p.sch \in Schemas /\ p.meta \in Metas
    BY <2>2 DEF Request
  <2>4. PICK n \in Nat, r \in Nat : n = active[p.sch].etag /\ r = active[p.sch].rev
    BY <1>2, <2>3
  <2>5. PICK q : q = [at |-> "answered", sch |-> p.sch, meta |-> p.meta, reply |-> [rev |-> r, etag |-> n]]
    OBVIOUS
  <2>6. put' = [put EXCEPT ![c] = q] /\ seen' = [seen EXCEPT ![c][p.sch] = n]
    BY <1>0, <1>7, <2>4, <2>5 DEF Replay, Reply
  <2>7. n # 0
    BY <2>1, <2>4 DEF Verdict
  <2>8. n = Len(hist'[p.sch]) /\ n \in 1..Len(hist'[p.sch]) /\ hist'[p.sch][n].id = r
    <3>1. hist' = hist /\ n = Len(hist[p.sch]) /\ n > 0
      BY <1>2, <2>1, <2>3, <2>4, <2>7
    <3>2. hist[p.sch][n].id = r
      BY <1>2, <2>3, <2>4, <3>1
    <3> QED BY <3>1, <3>2
  <2>9. q \in Replied /\ q.at = "answered" /\ q.sch = p.sch /\ q.reply.etag = n /\ q.reply.rev = r
    BY <2>3, <2>5 DEF Replied, Told
  <2>10. Pending(q)'
    BY <2>8, <2>9 DEF Pending
  <2>11. q \in PutState /\ n <= Len(hist'[p.sch])
    BY <2>8, <2>9 DEF PutState
  <2>12. /\ seen' \in [Clients -> [Schemas -> Nat]]
         /\ \A d \in Clients, t \in Schemas : seen'[d][t] <= Len(hist'[t])
    BY <1>3, <2>1, <2>3, <2>6, <2>11, Learns
  <2> QED BY <1>3, <2>1, <2>6, <2>10, <2>11, <2>12, ClientMoves
<1>8. CASE Refused(c)
  <2>1. p.at = "script" /\ UNCHANGED <<hist, active, index, minted>> /\ put' = [put EXCEPT ![c] = Idle]
        /\ (seen' = [seen EXCEPT ![c][p.sch] = active[p.sch].etag] \/ seen' = seen)
    BY <1>0, <1>8 DEF Refused
  <2>2. p.sch \in Schemas
    BY <2>1, PutFacts DEF Request
  <2>3. PICK n \in Nat : n = active[p.sch].etag
    BY <1>2, <2>2
  <2>4. n <= Len(hist'[p.sch])
    BY <1>2, <2>1, <2>2, <2>3
  <2>5. seen' = [seen EXCEPT ![c][p.sch] = n] \/ seen' = seen
    BY <2>1, <2>3
  <2>6. /\ seen' \in [Clients -> [Schemas -> Nat]]
        /\ \A d \in Clients, t \in Schemas : seen'[d][t] <= Len(hist'[t])
    BY <1>3, <2>1, <2>2, <2>4, <2>5, Learns
  <2>7. Idle \in PutState /\ Pending(Idle)'
    BY DEF PutState, Pending, Idle, Answering
  <2> QED BY <1>3, <2>1, <2>6, <2>7, ClientMoves
<1>9. CASE ReplyLost(c)
  <2>1. /\ p.at = "script" /\ minted' = minted + 1 /\ UNCHANGED seen
        /\ IF Verdict(p) = "appended" THEN AppendWrites(p) ELSE UNCHANGED store
    BY <1>0, <1>9 DEF ReplyLost
  <2>2. p \in Request
    BY <2>1, PutFacts
  <2>3. PICK n \in Nat : n = minted + 1
    BY <1>1
  <2>4. PICK q : q = [p EXCEPT !.id = n]
    OBVIOUS
  <2>5. put' = [put EXCEPT ![c] = q]
    BY <1>0, <1>9, <2>3, <2>4 DEF ReplyLost
  <2>6. q \in Request /\ q.at = "script" /\ q.sch = p.sch /\ q.id = n /\ q.expected = p.expected
    BY <2>2, <2>3, <2>4 DEF Request
  <2>7. p.sch \in Schemas /\ p.expected \in Nat /\ p.id \in Nat
    BY <2>2 DEF Request
  <2>8. minted' \in Nat /\ minted <= minted'
    BY <1>1, <2>1
  <2>9. /\ hist' \in [Schemas -> Seq(Revision)] /\ active' \in [Schemas -> Pointer]
        /\ \A s \in Schemas : ChainOf(hist[s], active[s])'
        /\ Grown /\ index' \in [Sems -> SUBSET Schemas]
    <3>1. CASE Verdict(p) = "appended"
      BY <1>1, <2>1, <2>2, <2>8, <3>1, AppendKeepsChains
    <3>2. CASE Verdict(p) # "appended"
      <4>1. UNCHANGED <<hist, active, index>>
        BY <2>1, <3>2 DEF store
      <4> QED BY <1>2, <2>8, <4>1, ChainsStay DEF TypeInv
    <3> QED BY <3>1, <3>2
  <2>10. q \in PutState
    BY <2>6 DEF PutState
  <2>11. /\ seen' \in [Clients -> [Schemas -> Nat]]
         /\ \A d \in Clients, t \in Schemas : seen'[d][t] <= Len(hist'[t])
    <3>1. seen[c][p.sch] \in Nat /\ Len(hist[p.sch]) \in Nat /\ Len(hist'[p.sch]) \in Nat
          /\ seen[c][p.sch] <= Len(hist[p.sch]) /\ Len(hist[p.sch]) <= Len(hist'[p.sch])
      BY <2>7, <2>9 DEF TypeInv, HistInv, Grown
    <3>2. PICK e \in Nat : e = seen[c][p.sch] /\ e <= Len(hist'[p.sch])
      BY <3>1
    <3> QED BY <2>1, <2>7, <2>9, <3>2, Learns
  <2>12. Pending(q)'
    <3>1. /\ p.expected <= Len(hist[p.sch]) /\ p.id <= minted
          /\ \A i \in 1..p.expected : hist[p.sch][i].id < p.id
      BY <1>1, <2>1 DEF Pending
    <3>2. Len(hist[p.sch]) \in Nat /\ Len(hist'[p.sch]) \in Nat /\ Len(hist[p.sch]) <= Len(hist'[p.sch])
      BY <2>7, <2>9 DEF TypeInv, Grown
    <3>3. \A i \in 1..p.expected : hist'[p.sch][i] = hist[p.sch][i] /\ i \in 1..Len(hist[p.sch])
      BY <2>7, <2>9, <3>1, <3>2 DEF Grown
    <3>4. ASSUME NEW i \in 1..p.expected PROVE hist'[p.sch][i].id < n
      <4>1. hist[p.sch][i] \in Revision
        BY <2>7, <3>3 DEF TypeInv
      <4>2. hist[p.sch][i].id \in Nat /\ hist[p.sch][i].id < p.id
        BY <3>1, <4>1 DEF Revision
      <4> QED BY <1>1, <2>3, <2>7, <3>1, <3>3, <4>2
    <3>5. p.expected <= Len(hist'[p.sch])
      BY <2>7, <3>1, <3>2
    <3> QED BY <1>1, <2>1, <2>3, <2>6, <3>4, <3>5 DEF Pending, Answering
  <2> QED BY <2>5, <2>8, <2>9, <2>10, <2>11, <2>12, ClientMoves
<1>10. ASSUME NEW q \in PutState, put' = [put EXCEPT ![c] = q], p.at \in Answering,
              UNCHANGED <<hist, active, index, minted, seen>>,
              q = Idle \/ (q.at \in Answering /\ q.sch = p.sch /\ q.reply = p.reply)
       PROVE  TypeInv' /\ HistInv'
  <2>1. Pending(q)'
    <3>1. CASE q = Idle
      BY <3>1 DEF Pending, Idle, Answering
    <3>2. CASE q.at \in Answering /\ q.sch = p.sch /\ q.reply = p.reply
      BY <1>1, <1>10, <3>2 DEF Pending, Answering
    <3> QED BY <1>10, <3>1, <3>2
  <2>2. seen' \in [Clients -> [Schemas -> Nat]] /\ \A d \in Clients, t \in Schemas : seen'[d][t] <= Len(hist'[t])
    BY <1>10 DEF TypeInv, HistInv
  <2> QED BY <1>3, <1>10, <2>1, <2>2, ClientMoves
<1>11. CASE ScanCollisions(c)
  <2>1. p.at = "collisions" /\ UNCHANGED <<hist, active, index, minted, seen>>
    BY <1>0, <1>11 DEF ScanCollisions
  <2>2. p \in Replied /\ p.sch \in Schemas /\ p.meta \in Metas /\ p.reply \in Told
    BY <2>1, PutFacts DEF Answering
  <2>3. PICK few : few = [p EXCEPT !.at = "drift"]
    OBVIOUS
  <2>31. few \in Replied /\ few.at = "drift" /\ few.sch = p.sch /\ few.reply = p.reply
    BY <2>2, <2>3 DEF Replied
  <2>4. PICK many : many = [at |-> "metadata", sch |-> p.sch, meta |-> p.meta, reply |-> p.reply,
                            members |-> index[SemOf[p.meta]]]
    OBVIOUS
  <2>5. many \in Listed /\ many.at = "metadata" /\ many.sch = p.sch /\ many.reply = p.reply
    <3>1. index[SemOf[p.meta]] \subseteq Schemas
      BY <2>2 DEF TypeInv, Sems
    <3> QED BY <2>2, <2>4, <3>1 DEF Listed
  <2>6. put' = [put EXCEPT ![c] = few] \/ put' = [put EXCEPT ![c] = many]
    BY <1>0, <1>11, <2>3, <2>4 DEF ScanCollisions
  <2>7. few \in PutState /\ many \in PutState
    BY <2>31, <2>5 DEF PutState
  <2> QED BY <1>10, <2>1, <2>31, <2>5, <2>6, <2>7 DEF Answering
<1>12. CASE ReadFirstMember(c)
  <2>1. PICK first \in p.members :
          put' = [put EXCEPT ![c] = [at |-> "drift", sch |-> p.sch, meta |-> p.meta,
                                     reply |-> p.reply, classified |-> active[first].sem]]
    BY <1>0, <1>12 DEF ReadFirstMember
  <2>2. p.at = "metadata" /\ UNCHANGED <<hist, active, index, minted, seen>>
    BY <1>0, <1>12 DEF ReadFirstMember
  <2>3. p \in Listed /\ p.sch \in Schemas /\ p.meta \in Metas /\ p.reply \in Told
    BY <2>2, PutFacts DEF Answering
  <2>4. PICK x \in Sems \cup {NoSem} : x = active[first].sem
    BY <1>2, <2>1, <2>3 DEF Listed, Pointer
  <2>5. PICK q : q = [at |-> "drift", sch |-> p.sch, meta |-> p.meta, reply |-> p.reply, classified |-> x]
    OBVIOUS
  <2>6. q \in Classified /\ q.at = "drift" /\ q.sch = p.sch /\ q.reply = p.reply
    BY <2>3, <2>4, <2>5 DEF Classified
  <2>7. put' = [put EXCEPT ![c] = q] /\ q \in PutState
    BY <2>1, <2>4, <2>5, <2>6 DEF PutState
  <2> QED BY <1>10, <2>2, <2>6, <2>7 DEF Answering
<1>13. CASE CheckDrift(c)
  <2>1. p.at = "drift" /\ UNCHANGED <<hist, active, index, minted, seen>>
    BY <1>0, <1>13 DEF CheckDrift
  <2>2. p.sch \in Schemas /\ p.meta \in Metas /\ p.reply \in Told
    BY <2>1, PutFacts DEF Answering
  <2>3. PICK d : d = {x \in Priors[p.sch] : active[x].sem # NoSem /\ active[x].sem # active[p.sch].sem}
    OBVIOUS
  <2>4. PICK q : q = [at |-> "answered", sch |-> p.sch, meta |-> p.meta, reply |-> p.reply, drift |-> d]
    OBVIOUS
  <2>5. d \subseteq Schemas
    BY <2>2, <2>3, PriorsAssumption
  <2>6. q \in Compared /\ q.at = "answered" /\ q.sch = p.sch /\ q.reply = p.reply
    BY <2>2, <2>4, <2>5 DEF Compared
  <2>7. put' = [put EXCEPT ![c] = q] /\ q \in PutState
    <3>1. put' = [put EXCEPT ![c] = q]
      BY <1>0, <1>13, <2>3, <2>4 DEF CheckDrift
    <3> QED BY <2>6, <3>1 DEF PutState
  <2> QED BY <1>10, <2>1, <2>6, <2>7 DEF Answering
<1>14. CASE Answer(c)
  <2>1. p.at \in Answering /\ UNCHANGED <<hist, active, index, minted, seen>> /\ put' = [put EXCEPT ![c] = Idle]
    BY <1>0, <1>14 DEF Answer, Answering
  <2> QED BY <1>10, <2>1 DEF PutState
<1> QED BY <1>4, <1>5, <1>6, <1>7, <1>8, <1>9, <1>11, <1>12, <1>13, <1>14 DEF ClientStep

\* A client's step touches the rebuild not at all and the histories only by an append.
LEMMA ClientGrows ==
  ASSUME TypeInv, HistInv, NEW c \in Clients, ClientStep(c)
  PROVE  Grown /\ rebuild' = rebuild
<1>1. rebuild' = rebuild
  BY DEF ClientStep, GetSemantic, PutSemantic, Append_, Replay, Refused, ReplyLost, ScanCollisions,
         ReadFirstMember, CheckDrift, Answer
<1>2. PICK p \in PutState : p = put[c]
  BY DEF TypeInv
<1>3. hist' = hist => Grown
  <2>1. \A s \in Schemas : Len(hist[s]) \in Nat
    BY DEF TypeInv
  <2> QED BY <2>1 DEF Grown
<1>4. hist' = hist \/ (p.at = "script" /\ Verdict(p) = "appended" /\ AppendWrites(p))
  <2>1. CASE Append_(c)
    BY <1>2, <2>1 DEF Append_
  <2>2. CASE ReplyLost(c)
    BY <1>2, <2>2 DEF ReplyLost, store
  <2> QED BY <2>1, <2>2 DEF ClientStep, GetSemantic, PutSemantic, Replay, Refused, ScanCollisions,
            ReadFirstMember, CheckDrift, Answer
<1>5. minted' \in Nat /\ minted <= minted'
  <2>1. minted' = minted \/ minted' = minted + 1
    BY DEF ClientStep, GetSemantic, PutSemantic, Append_, Replay, Refused, ReplyLost, ScanCollisions,
           ReadFirstMember, CheckDrift, Answer
  <2> QED BY <2>1 DEF TypeInv
<1>6. Pending(p)
  BY <1>2 DEF HistInv
<1>7. CASE p.at = "script" /\ Verdict(p) = "appended" /\ AppendWrites(p)
  <2>1. p \in Request
    BY <1>7, PutFacts
  <2> QED BY <1>1, <1>5, <1>6, <1>7, <2>1, AppendKeepsChains
<1> QED BY <1>1, <1>3, <1>4, <1>7

Linking == {"link", "populate", "post", "keys"}
Dropping == {"drop_index", "drop_postings", "drop_population"}
Scanning == [at : {"scan"}, left : SUBSET Schemas]
Relinking == [at : Linking, left : SUBSET Schemas, sch : Schemas, sem : Sems, rev : Nat]
RebuildState == [at : Dropping \cup {"idle"}] \cup Scanning \cup Relinking

\* The rebuild walks over annotated schemas and holds a revision of one.
RebuildInv ==
  /\ rebuild \in RebuildState
  /\ rebuild.at \in Linking \cup {"scan"} => \A s \in rebuild.left : Len(hist[s]) > 0
  /\ rebuild.at \in Linking => \E i \in 1..Len(hist[rebuild.sch]) : hist[rebuild.sch][i].id = rebuild.rev

\* What the state of the rebuild is by where it stands.
LEMMA RebuildFacts ==
  ASSUME RebuildInv
  PROVE  /\ rebuild.at = "scan" => rebuild \in Scanning
         /\ rebuild.at \in Linking => rebuild \in Relinking
         /\ rebuild.at \in Dropping \cup Linking \cup {"idle", "scan"}
<1>1. CASE rebuild \in [at : Dropping \cup {"idle"}]
  BY <1>1 DEF Dropping, Linking
<1>2. CASE rebuild \in Scanning
  BY <1>2 DEF Scanning, Linking
<1>3. CASE rebuild \in Relinking
  BY <1>3 DEF Relinking, Linking
<1> QED BY <1>1, <1>2, <1>3 DEF RebuildInv, RebuildState

\* Histories that grow leave the rebuild what it holds.
LEMMA RebuildStays ==
  ASSUME TypeInv, TypeInv', Grown, RebuildInv, rebuild' = rebuild
  PROVE  RebuildInv'
<1>1. ASSUME NEW s \in Schemas
      PROVE  /\ Len(hist[s]) \in Nat /\ Len(hist'[s]) \in Nat /\ Len(hist[s]) <= Len(hist'[s])
             /\ \A i \in 1..Len(hist[s]) : i \in 1..Len(hist'[s]) /\ hist'[s][i] = hist[s][i]
  <2>1. Len(hist[s]) \in Nat /\ Len(hist'[s]) \in Nat
    BY DEF TypeInv
  <2> QED BY <2>1 DEF Grown
<1>2. ASSUME rebuild.at \in Linking \cup {"scan"} PROVE \A s \in rebuild.left : Len(hist'[s]) > 0
  <2>1. \A s \in rebuild.left : s \in Schemas /\ Len(hist[s]) > 0
    BY <1>2, RebuildFacts DEF RebuildInv, Scanning, Relinking
  <2> QED BY <1>1, <2>1
<1>3. ASSUME rebuild.at \in Linking
      PROVE  \E i \in 1..Len(hist'[rebuild.sch]) : hist'[rebuild.sch][i].id = rebuild.rev
  <2>1. rebuild.sch \in Schemas
    BY <1>3, RebuildFacts DEF Relinking
  <2>2. PICK i \in 1..Len(hist[rebuild.sch]) : hist[rebuild.sch][i].id = rebuild.rev
    BY <1>3 DEF RebuildInv
  <2> QED BY <1>1, <2>1, <2>2
<1> QED BY <1>2, <1>3 DEF RebuildInv

\* A step of the rebuild writes no history, whoever writes meanwhile.
LEMMA RebuildKeepsHistory ==
  ASSUME TypeInv, HistInv, RebuildInv, RebuildStep
  PROVE  TypeInv' /\ HistInv' /\ RebuildInv'
<1>1. UNCHANGED <<hist, minted, seen, put>>
  BY DEF RebuildStep, RebuildStart, DropIndex, DropPostings, DropPopulation, ReadPointer, LinkIndex,
         LinkPopulation, LinkPostings, StoreKeys, RebuildDone
<1>2. active' \in [Schemas -> Pointer]
      /\ \A s \in Schemas : /\ active'[s].rev = active[s].rev /\ active'[s].sem = active[s].sem
                            /\ active'[s].etag = active[s].etag
  <2>1. CASE StoreKeys
    <3>1. rebuild.at = "keys" /\ rebuild \in Relinking /\ rebuild.sch \in Schemas
      BY <2>1, RebuildFacts DEF StoreKeys, Linking, Relinking
    <3>2. PICK h \in Seq(Revision), s \in Schemas, r \in Nat :
            h = hist[s] /\ s = rebuild.sch /\ r = rebuild.rev
      BY <3>1 DEF TypeInv, Relinking
    <3>3. \E i \in DOMAIN h : h[i].id = r
      BY <3>1, <3>2 DEF RebuildInv, Linking
    <3>4. PICK k : k = (CHOOSE i \in DOMAIN h : h[i].id = r)
      OBVIOUS
    <3>5. k \in DOMAIN h
      BY <3>3, <3>4
    <3>6. h[k] \in Revision
      BY <3>5
    <3>7. RevisionOf(s, r) = h[k]
      BY <3>2, <3>4 DEF RevisionOf
    <3>8. PICK keys \in SUBSET Features : keys = KeysOf[RevisionOf(s, r).meta]
      BY <3>6, <3>7 DEF Revision, Features
    <3>9. PICK y : y = [active[s] EXCEPT !.keys = keys]
      OBVIOUS
    <3>10. active' = [active EXCEPT ![s] = y]
      BY <2>1, <3>2, <3>8, <3>9 DEF StoreKeys
    <3>11. active[s] \in Pointer
      BY DEF TypeInv
    <3>12. y \in Pointer /\ y.rev = active[s].rev /\ y.sem = active[s].sem /\ y.etag = active[s].etag
      BY <3>9, <3>11 DEF Pointer
    <3> QED BY <3>10, <3>12 DEF TypeInv
  <2>2. CASE UNCHANGED active
    BY <2>2 DEF TypeInv
  <2> QED BY <2>1, <2>2 DEF RebuildStep, RebuildStart, DropIndex, DropPostings, DropPopulation, ReadPointer,
            LinkIndex, LinkPopulation, LinkPostings, RebuildDone
<1>3. index' \in [Sems -> SUBSET Schemas]
  <2>1. CASE LinkIndex
    <3>1. rebuild.at \in Linking
      BY <2>1 DEF LinkIndex, Linking
    <3>2. rebuild.sem \in Sems /\ rebuild.sch \in Schemas
      BY <3>1, RebuildFacts DEF Relinking
    <3> QED BY <2>1, <3>2 DEF LinkIndex, TypeInv
  <2>2. CASE DropIndex
    BY <2>2 DEF DropIndex
  <2>3. CASE UNCHANGED index
    BY <2>3 DEF TypeInv
  <2> QED BY <2>1, <2>2, <2>3 DEF RebuildStep, RebuildStart, DropPostings, DropPopulation, ReadPointer,
            LinkPopulation, LinkPostings, StoreKeys, RebuildDone
<1>4. Grown /\ \A s \in Schemas : ChainOf(hist[s], active[s])'
  <2>1. minted \in Nat /\ minted' \in Nat /\ minted <= minted'
    BY <1>1 DEF TypeInv
  <2> QED BY <1>1, <1>2, <2>1, ChainsStay
<1>5. TypeInv'
  BY <1>1, <1>2, <1>3 DEF TypeInv
<1>6. HistInv'
  <2>1. \A c \in Clients : Pending(put[c])'
    BY <1>1 DEF HistInv, Pending
  <2> QED BY <1>1, <1>4, <2>1 DEF HistInv
<1>7. RebuildInv'
  <2>1. ASSUME NEW a \in Dropping \cup {"idle"}, rebuild' = [at |-> a] PROVE RebuildInv'
    BY <2>1 DEF RebuildInv, RebuildState, Dropping, Linking
  <2>2. ASSUME NEW left \in SUBSET Schemas, rebuild' = [at |-> "scan", left |-> left],
               \A s \in left : Len(hist[s]) > 0
        PROVE  RebuildInv'
    BY <1>1, <2>2 DEF RebuildInv, RebuildState, Scanning, Linking
  <2>3. ASSUME NEW a \in Linking, rebuild.at \in Linking, rebuild' = [rebuild EXCEPT !.at = a]
        PROVE  RebuildInv'
    <3>1. rebuild \in Relinking
      BY <2>3, RebuildFacts
    <3>2. rebuild' \in Relinking /\ rebuild'.at = a /\ rebuild'.left = rebuild.left
          /\ rebuild'.sch = rebuild.sch /\ rebuild'.rev = rebuild.rev
      BY <2>3, <3>1 DEF Relinking
    <3> QED BY <1>1, <2>3, <3>2 DEF RebuildInv, RebuildState
  <2>4. CASE RebuildStart \/ DropIndex \/ DropPostings \/ RebuildDone
    BY <2>1, <2>4 DEF RebuildStart, DropIndex, DropPostings, RebuildDone, Idle, Dropping
  <2>5. CASE DropPopulation
    <3>1. PICK left \in SUBSET Schemas : left = {s \in Schemas : active[s].etag # 0}
      OBVIOUS
    <3>2. \A s \in left : Len(hist[s]) > 0
      BY <3>1 DEF HistInv, ChainOf, TypeInv
    <3> QED BY <2>2, <2>5, <3>1, <3>2 DEF DropPopulation
  <2>6. ASSUME NEW s \in Schemas, ReadPointer(s) PROVE RebuildInv'
    <3>1. rebuild \in Scanning /\ s \in rebuild.left /\ rebuild.at = "scan"
      BY <2>6, RebuildFacts DEF ReadPointer
    <3>2. PICK left \in SUBSET Schemas : left = rebuild.left \ {s}
      BY <3>1 DEF Scanning
    <3>3. Len(hist[s]) > 0 /\ \A t \in left : Len(hist[t]) > 0
      BY <3>1, <3>2 DEF RebuildInv
    <3>4. PICK h \in Seq(Revision) : h = hist[s] /\ ChainOf(h, active[s]) /\ active[s] \in Pointer
      BY DEF TypeInv, HistInv
    <3>5. Len(h) \in 1..Len(h) /\ h[Len(h)] \in Revision
      BY <3>3, <3>4
    <3>6. PICK x \in Sems, r \in Nat : x = active[s].sem /\ r = active[s].rev
      BY <3>3, <3>4, <3>5 DEF ChainOf, Pointer, Revision, Sems
    <3>7. h[Len(h)].id = r
      BY <3>3, <3>4, <3>6 DEF ChainOf
    <3>8. rebuild' = [at |-> "link", left |-> left, sch |-> s, sem |-> x, rev |-> r]
      BY <2>6, <3>2, <3>6 DEF ReadPointer
    <3>9. rebuild' \in Relinking /\ rebuild'.at = "link" /\ rebuild'.left = left /\ rebuild'.sch = s /\ rebuild'.rev = r
      BY <3>8 DEF Relinking, Linking
    <3> QED BY <1>1, <3>3, <3>4, <3>5, <3>7, <3>9 DEF RebuildInv, RebuildState
  <2>7. CASE LinkIndex \/ LinkPopulation \/ LinkPostings
    BY <2>3, <2>7 DEF LinkIndex, LinkPopulation, LinkPostings, Linking
  <2>8. CASE StoreKeys
    <3>1. rebuild.at = "keys" /\ rebuild' = [at |-> "scan", left |-> rebuild.left]
      BY <2>8 DEF StoreKeys
    <3>2. rebuild.left \in SUBSET Schemas
      BY <3>1, RebuildFacts DEF Linking, Relinking
    <3>3. \A s \in rebuild.left : Len(hist[s]) > 0
      BY <3>1 DEF RebuildInv, Linking
    <3> QED BY <2>2, <3>1, <3>2, <3>3
  <2> QED BY <2>4, <2>5, <2>6, <2>7, <2>8 DEF RebuildStep
<1> QED BY <1>5, <1>6, <1>7

\* Types, histories and the rebuild's place hold together, online or offline.
LEMMA HistoryStep ==
  ASSUME TypeInv, HistInv, RebuildInv, [Next]_vars
  PROVE  TypeInv' /\ HistInv' /\ RebuildInv'
<1>1. ASSUME NEW c \in Clients, ClientStep(c) PROVE TypeInv' /\ HistInv' /\ RebuildInv'
  BY <1>1, ClientKeepsHistory, ClientGrows, RebuildStays
<1>2. CASE UNCHANGED vars
  BY <1>2 DEF vars, TypeInv, HistInv, ChainOf, Pending, RebuildInv
<1> QED BY <1>1, <1>2, RebuildKeepsHistory DEF Next

\* At the start every schema has no revision and nothing is under way.
LEMMA HistoryInit ==
  ASSUME Init
  PROVE  TypeInv /\ HistInv /\ RebuildInv
<1>1. \A s \in Schemas : hist[s] = <<>> /\ active[s] = Unannotated
  BY DEF Init
<1>2. Unannotated \in Pointer /\ Unannotated.rev = 0 /\ Unannotated.sem = NoSem /\ Unannotated.etag = 0
  BY DEF Unannotated, Pointer
<1>3. TypeInv
  BY <1>2 DEF Init, TypeInv, PutState
<1>4. \A s \in Schemas : ChainOf(hist[s], active[s])
  BY <1>1, <1>2 DEF ChainOf
<1>5. \A c \in Clients : Pending(put[c])
  BY DEF Init, Pending, Idle, Answering
<1>6. \A c \in Clients, s \in Schemas : seen[c][s] <= Len(hist[s])
  BY DEF Init
<1>7. RebuildInv
  BY DEF Init, RebuildInv, RebuildState, Idle, Linking, Dropping
<1> QED BY <1>3, <1>4, <1>5, <1>6, <1>7 DEF HistInv

\* Optimistic concurrency works out for any number of clients that mint their
\* revision ids before SEM_APPEND_SCRIPT compares their etag, lose its replies and
\* retry, and whether or not a rebuild runs meanwhile: histories are chains in the
\* order of their ids, and every answer names the revision its etag counts.
THEOREM HistoriesNeverFork == Spec => []AnswersMatchHistory
<1>1. Spec => [](TypeInv /\ HistInv /\ RebuildInv)
  BY HistoryInit, HistoryStep, PTL DEF Spec
<1>2. TypeInv /\ HistInv => AnswersMatchHistory
  <2> SUFFICES ASSUME TypeInv, HistInv PROVE AnswersMatchHistory
    OBVIOUS
  <2>1. HistoryIsAChain
    <3>1. \A s \in Schemas : DOMAIN hist[s] = 1..Len(hist[s])
      BY DEF TypeInv
    <3> QED BY SMTT(30), <3>1 DEF HistoryIsAChain, HistInv, ChainOf
  <2>2. EtagDescribesBody
    BY DEF EtagDescribesBody, HistInv, Pending, Answering
  <2> QED BY <2>1, <2>2 DEF AnswersMatchHistory
<1> QED BY <1>1, <1>2, PTL

\* A PUT whose reply was lost may be sent again any number of times, by any number
\* of clients: SEM_APPEND_SCRIPT recognises it by its canonical bytes, and no two
\* successive revisions mean the same.
THEOREM RevisionsChangeMeaning == Spec => []EveryRevisionChangesMeaning
<1>1. Spec => [](TypeInv /\ HistInv /\ RebuildInv)
  BY HistoryInit, HistoryStep, PTL DEF Spec
<1>2. HistInv => EveryRevisionChangesMeaning
  BY DEF HistInv, ChainOf, EveryRevisionChangesMeaning
<1> QED BY <1>1, <1>2, PTL

-----------------------------------------------------------------------------
(* The rebuild while no client writes.                                     *)

LastMeta(s) == hist[s][Len(hist[s])].meta

\* What the rebuild has taken out of each structure and not put back yet.
Left(s) == rebuild.at \in Linking \cup {"scan"} /\ s \in rebuild.left
Unindexed(s) ==
  \/ rebuild.at \in {"drop_postings", "drop_population"} \/ Left(s)
  \/ (rebuild.at = "link" /\ s = rebuild.sch)
Unposted(s) ==
  \/ rebuild.at = "drop_population" \/ Left(s)
  \/ (rebuild.at \in {"link", "populate", "post"} /\ s = rebuild.sch)
Unpopulated(s) == Left(s) \/ (rebuild.at \in {"link", "populate"} /\ s = rebuild.sch)

MirrorOf(s) ==
  /\ \A x \in Sems : s \in index[x] <=> (~Unindexed(s) /\ active[s].sem = x)
  /\ \A f \in Features : s \in postings[f] <=>
       (~Unposted(s) /\ active[s].etag # 0 /\ f \in KeysOf[LastMeta(s)])
  /\ s \in population <=> (~Unpopulated(s) /\ active[s].etag # 0)
  /\ active[s].etag # 0 => active[s].keys = KeysOf[LastMeta(s)]

\* The rebuild still holds what the pointer says: nobody moved it.
HeldInv == rebuild.at \in Linking =>
  /\ rebuild.sch \notin rebuild.left /\ Len(hist[rebuild.sch]) > 0
  /\ rebuild.sem = active[rebuild.sch].sem /\ rebuild.rev = active[rebuild.sch].rev

MirrorInv ==
  /\ postings \in [Features -> SUBSET Schemas] /\ population \in SUBSET Schemas
  /\ \A s \in Schemas : MirrorOf(s)
  /\ HeldInv

\* SEM_APPEND_SCRIPT moves the schema in every structure at once.
LEMMA AppendKeepsMirror ==
  ASSUME TypeInv, HistInv, RebuildInv, MirrorInv, rebuild = Idle, rebuild' = rebuild,
         NEW p \in Request, Pending(p), Verdict(p) = "appended", AppendWrites(p),
         minted' \in Nat, minted <= minted'
  PROVE  MirrorInv'
<1>1. p.sch \in Schemas /\ p.meta \in Metas
  BY DEF Request
<1>2. rebuild.at = "idle"
  BY DEF Idle
<1>3. \A s \in Schemas : /\ ~Unindexed(s) /\ ~Unposted(s) /\ ~Unpopulated(s)
                         /\ ~Unindexed(s)' /\ ~Unposted(s)' /\ ~Unpopulated(s)'
  BY <1>2 DEF Unindexed, Unposted, Unpopulated, Left, Linking
<1>4. /\ hist' \in [Schemas -> Seq(Revision)]
      /\ \A s \in Schemas \ {p.sch} : hist'[s] = hist[s] /\ active'[s] = active[s]
      /\ active'[p.sch] = [rev |-> p.id, sem |-> SemOf[p.meta],
                           etag |-> active[p.sch].etag + 1, keys |-> KeysOf[p.meta]]
      /\ hist'[p.sch][Len(hist'[p.sch])].meta = p.meta
  BY AppendKeepsChains
<1>5. active[p.sch].etag \in Nat
  BY <1>1 DEF TypeInv, Pointer
<1>6. /\ active'[p.sch].sem = SemOf[p.meta] /\ active'[p.sch].etag # 0 /\ active'[p.sch].keys = KeysOf[p.meta]
      /\ LastMeta(p.sch)' = p.meta
  BY <1>4, <1>5 DEF LastMeta
<1>7. /\ index' = [x \in Sems |-> IF x = SemOf[p.meta] THEN index[x] \cup {p.sch}
                                  ELSE IF x = active[p.sch].sem THEN index[x] \ {p.sch} ELSE index[x]]
      /\ postings' = [f \in Features |-> IF f \in KeysOf[p.meta] THEN postings[f] \cup {p.sch}
                                         ELSE IF f \in active[p.sch].keys THEN postings[f] \ {p.sch}
                                         ELSE postings[f]]
      /\ population' = population \cup {p.sch}
  BY DEF AppendWrites, SwapIndex, SwapPostings, UnlinkedKeys
<1>8. postings' \in [Features -> SUBSET Schemas] /\ population' \in SUBSET Schemas
  BY <1>1, <1>7 DEF MirrorInv
<1>9. ASSUME NEW s \in Schemas, s # p.sch PROVE MirrorOf(s)'
  <2>1. MirrorOf(s) /\ LastMeta(s)' = LastMeta(s) /\ active'[s] = active[s]
    BY <1>4, <1>9 DEF MirrorInv, LastMeta
  <2>2. \A x \in Sems : s \in index'[x] <=> s \in index[x]
    BY <1>7, <1>9
  <2>3. \A f \in Features : s \in postings'[f] <=> s \in postings[f]
    BY <1>7, <1>9
  <2>4. s \in population' <=> s \in population
    BY <1>7, <1>9
  <2> QED BY <1>3, <2>1, <2>2, <2>3, <2>4 DEF MirrorOf
<1>10. MirrorOf(p.sch)'
  <2>1. MirrorOf(p.sch)
    BY <1>1 DEF MirrorInv
  <2>2. \A x \in Sems : p.sch \in index'[x] <=> x = SemOf[p.meta]
    BY <1>1, <1>3, <1>7, <2>1 DEF MirrorOf
  <2>3. active[p.sch].etag # 0 => active[p.sch].keys = KeysOf[LastMeta(p.sch)]
    BY <2>1 DEF MirrorOf
  <2>4. \A f \in Features : p.sch \in postings'[f] <=> f \in KeysOf[p.meta]
    BY <1>1, <1>3, <1>7, <2>1, <2>3 DEF MirrorOf
  <2>5. p.sch \in population'
    BY <1>7
  <2> QED BY <1>1, <1>3, <1>6, <2>2, <2>4, <2>5 DEF MirrorOf
<1>11. HeldInv'
  BY <1>2 DEF HeldInv, Linking
<1> QED BY <1>8, <1>9, <1>10, <1>11 DEF MirrorInv

\* Every other step of a client leaves the store alone.
LEMMA ClientKeepsMirror ==
  ASSUME Online = FALSE, TypeInv, HistInv, RebuildInv, MirrorInv, NEW c \in Clients, ClientStep(c)
  PROVE  MirrorInv'
<1>1. rebuild' = rebuild
  BY ClientGrows
<1>2. PICK p \in PutState : p = put[c]
  BY DEF TypeInv
<1>3. Pending(p)
  BY <1>2 DEF HistInv
<1>4. UNCHANGED store \/ (p.at = "script" /\ Verdict(p) = "appended" /\ AppendWrites(p) /\ rebuild = Idle)
  <2>1. CASE Append_(c)
    BY <1>2, <2>1 DEF Append_, WritersMayRun
  <2>2. CASE ReplyLost(c)
    BY <1>2, <2>2 DEF ReplyLost, WritersMayRun
  <2> QED BY <2>1, <2>2 DEF ClientStep, GetSemantic, PutSemantic, Replay, Refused, ScanCollisions,
            ReadFirstMember, CheckDrift, Answer, store
<1>5. minted' \in Nat /\ minted <= minted'
  <2>1. minted' = minted \/ minted' = minted + 1
    BY DEF ClientStep, GetSemantic, PutSemantic, Append_, Replay, Refused, ReplyLost, ScanCollisions,
           ReadFirstMember, CheckDrift, Answer
  <2> QED BY <2>1 DEF TypeInv
<1>6. CASE UNCHANGED store
  BY <1>1, <1>6 DEF store, MirrorInv, MirrorOf, HeldInv, LastMeta, Unindexed, Unposted, Unpopulated, Left
<1>7. CASE p.at = "script" /\ Verdict(p) = "appended" /\ AppendWrites(p) /\ rebuild = Idle
  <2>1. p \in Request
    BY <1>7, PutFacts
  <2> QED BY <1>1, <1>3, <1>5, <1>7, <2>1, AppendKeepsMirror
<1> QED BY <1>4, <1>6, <1>7

\* Each command of the rebuild keeps account of what it has taken out.
LEMMA RebuildKeepsMirror ==
  ASSUME TypeInv, HistInv, RebuildInv, MirrorInv, RebuildStep
  PROVE  MirrorInv'
<1>0. hist' = hist /\ \A s \in Schemas : LastMeta(s)' = LastMeta(s)
  BY DEF RebuildStep, RebuildStart, DropIndex, DropPostings, DropPopulation, ReadPointer, LinkIndex,
         LinkPopulation, LinkPostings, StoreKeys, RebuildDone, LastMeta
<1>1. /\ postings \in [Features -> SUBSET Schemas] /\ population \in SUBSET Schemas
      /\ \A s \in Schemas : MirrorOf(s)
  BY DEF MirrorInv
<1>2. CASE RebuildStart
  <2>1. rebuild.at = "idle" /\ rebuild'.at = "drop_index" /\ UNCHANGED <<active, index, postings, population>>
    BY <1>2 DEF RebuildStart, Idle
  <2> QED BY <1>0, <1>1, <2>1 DEF MirrorInv, MirrorOf, HeldInv, Unindexed, Unposted, Unpopulated, Left, Linking
<1>3. CASE DropIndex
  <2>1. rebuild.at = "drop_index" /\ rebuild'.at = "drop_postings" /\ UNCHANGED <<active, postings, population>>
        /\ index' = [x \in Sems |-> {}]
    BY <1>3 DEF DropIndex
  <2> QED BY <1>0, <1>1, <2>1 DEF MirrorInv, MirrorOf, HeldInv, Unindexed, Unposted, Unpopulated, Left, Linking
<1>4. CASE DropPostings
  <2>1. rebuild.at = "drop_postings" /\ rebuild'.at = "drop_population" /\ UNCHANGED <<active, index, population>>
        /\ postings' = [f \in Features |-> {}]
    BY <1>4 DEF DropPostings
  <2> QED BY <1>0, <1>1, <2>1 DEF MirrorInv, MirrorOf, HeldInv, Unindexed, Unposted, Unpopulated, Left, Linking
<1>5. CASE DropPopulation
  <2>1. /\ rebuild.at = "drop_population" /\ rebuild'.at = "scan" /\ UNCHANGED <<active, index, postings>>
        /\ population' = {} /\ rebuild'.left = {s \in Schemas : active[s].etag # 0}
    BY <1>5 DEF DropPopulation
  <2>2. ASSUME NEW s \in Schemas PROVE MirrorOf(s)'
    <3>1. active[s].etag = 0 => active[s].sem \notin Sems
      BY NoSemIsNone DEF HistInv, ChainOf, TypeInv
    <3>2. MirrorOf(s)
      BY <1>1
    <3>3. (Left(s)' <=> active[s].etag # 0) /\ rebuild'.at = "scan"
      BY <2>1 DEF Left
    <3> QED BY <1>0, <2>1, <3>1, <3>2, <3>3 DEF MirrorOf, Unindexed, Unposted, Unpopulated
  <2> QED BY <1>1, <2>1, <2>2 DEF MirrorInv, HeldInv, Linking
<1>6. ASSUME NEW t \in Schemas, ReadPointer(t) PROVE MirrorInv'
  <2>1. /\ rebuild.at = "scan" /\ rebuild'.at = "link" /\ UNCHANGED <<active, index, postings, population>>
        /\ rebuild'.left = rebuild.left \ {t} /\ rebuild'.sch = t /\ t \in rebuild.left
        /\ rebuild'.sem = active[t].sem /\ rebuild'.rev = active[t].rev
    BY <1>6 DEF ReadPointer
  <2>2. Len(hist[t]) > 0
    BY <2>1 DEF RebuildInv
  <2>3. HeldInv'
    BY <1>0, <2>1, <2>2 DEF HeldInv
  <2>4. ASSUME NEW s \in Schemas
        PROVE  (Unindexed(s)' <=> Unindexed(s)) /\ (Unposted(s)' <=> Unposted(s)) /\ (Unpopulated(s)' <=> Unpopulated(s))
    BY <2>1 DEF Unindexed, Unposted, Unpopulated, Left, Linking
  <2> QED BY <1>0, <1>1, <2>1, <2>3, <2>4 DEF MirrorInv, MirrorOf
<1>7. ASSUME rebuild.at \in Linking
      PROVE  /\ rebuild.sch \in Schemas /\ rebuild.sem \in Sems /\ rebuild.sem = active[rebuild.sch].sem
             /\ rebuild.sch \notin rebuild.left /\ active[rebuild.sch].etag # 0
             /\ KeysOf[RevisionOf(rebuild.sch, rebuild.rev).meta] = KeysOf[LastMeta(rebuild.sch)]
  <2>1. rebuild.sch \in Schemas /\ rebuild.sem \in Sems
    BY <1>7, RebuildFacts DEF Relinking
  <2>2. /\ rebuild.sem = active[rebuild.sch].sem /\ rebuild.rev = active[rebuild.sch].rev
        /\ rebuild.sch \notin rebuild.left /\ Len(hist[rebuild.sch]) > 0
    BY <1>7 DEF MirrorInv, HeldInv
  <2>3. RevisionOf(rebuild.sch, rebuild.rev) = hist[rebuild.sch][Len(hist[rebuild.sch])]
    BY <2>1, <2>2, ActiveIsLast
  <2>4. active[rebuild.sch].etag = Len(hist[rebuild.sch])
    BY <2>1 DEF HistInv, ChainOf
  <2> QED BY <2>1, <2>2, <2>3, <2>4 DEF LastMeta
<1>8. ASSUME NEW a \in Linking, rebuild.at \in Linking, rebuild' = [rebuild EXCEPT !.at = a], UNCHANGED active
      PROVE  /\ HeldInv' /\ rebuild'.at = a /\ rebuild'.sch = rebuild.sch /\ rebuild'.left = rebuild.left
  <2>1. rebuild \in Relinking
    BY <1>8, RebuildFacts
  <2>2. rebuild'.at = a /\ rebuild'.sch = rebuild.sch /\ rebuild'.left = rebuild.left
        /\ rebuild'.sem = rebuild.sem /\ rebuild'.rev = rebuild.rev
    BY <1>8, <2>1 DEF Relinking
  <2> QED BY <1>0, <1>8, <2>2 DEF MirrorInv, HeldInv
<1>9. CASE LinkIndex
  <2>1. /\ rebuild.at = "link" /\ rebuild' = [rebuild EXCEPT !.at = "populate"]
        /\ UNCHANGED <<active, postings, population>>
        /\ index' = [index EXCEPT ![rebuild.sem] = @ \cup {rebuild.sch}]
    BY <1>9 DEF LinkIndex
  <2>2. HeldInv' /\ rebuild'.at = "populate" /\ rebuild'.sch = rebuild.sch /\ rebuild'.left = rebuild.left
    BY <1>8, <2>1 DEF Linking
  <2>3. PICK t \in Schemas, y \in Sems : t = rebuild.sch /\ y = rebuild.sem /\ y = active[t].sem /\ t \notin rebuild.left
    BY <1>7, <2>1 DEF Linking
  <2>4. ASSUME NEW s \in Schemas PROVE MirrorOf(s)'
    <3>1. /\ Unindexed(s)' <=> (Unindexed(s) /\ s # t)
          /\ (Unposted(s)' <=> Unposted(s)) /\ (Unpopulated(s)' <=> Unpopulated(s)) /\ Unindexed(t)
      BY <2>1, <2>2, <2>3 DEF Unindexed, Unposted, Unpopulated, Left, Linking
    <3>2. \A x \in Sems : s \in index'[x] <=> (s \in index[x] \/ (s = t /\ x = y))
      BY <2>1, <2>3 DEF TypeInv
    <3>3. MirrorOf(s) /\ MirrorOf(t)
      BY <1>1
    <3>4. \A x \in Sems : s \in index'[x] <=> (~Unindexed(s)' /\ active[s].sem = x)
      BY <2>3, <3>1, <3>2, <3>3 DEF MirrorOf
    <3> QED BY <1>0, <2>1, <3>1, <3>3, <3>4 DEF MirrorOf
  <2> QED BY <1>1, <2>1, <2>2, <2>4 DEF MirrorInv
<1>10. CASE LinkPopulation
  <2>1. /\ rebuild.at = "populate" /\ rebuild' = [rebuild EXCEPT !.at = "post"]
        /\ UNCHANGED <<active, postings, index>> /\ population' = population \cup {rebuild.sch}
    BY <1>10 DEF LinkPopulation
  <2>2. HeldInv' /\ rebuild'.at = "post" /\ rebuild'.sch = rebuild.sch /\ rebuild'.left = rebuild.left
    BY <1>8, <2>1 DEF Linking
  <2>3. PICK t \in Schemas : t = rebuild.sch /\ t \notin rebuild.left /\ active[t].etag # 0
    BY <1>7, <2>1 DEF Linking
  <2>4. ASSUME NEW s \in Schemas PROVE MirrorOf(s)'
    <3>1. /\ Unpopulated(s)' <=> (Unpopulated(s) /\ s # t)
          /\ (Unposted(s)' <=> Unposted(s)) /\ (Unindexed(s)' <=> Unindexed(s))
      BY <2>1, <2>2, <2>3 DEF Unindexed, Unposted, Unpopulated, Left, Linking
    <3>2. MirrorOf(s)
      BY <1>1
    <3> QED BY <1>0, <2>1, <2>3, <3>1, <3>2 DEF MirrorOf
  <2> QED BY <1>1, <2>1, <2>2, <2>3, <2>4 DEF MirrorInv
<1>11. CASE LinkPostings
  <2>1. PICK keys : keys = KeysOf[RevisionOf(rebuild.sch, rebuild.rev).meta]
    OBVIOUS
  <2>2. /\ rebuild.at = "post" /\ rebuild' = [rebuild EXCEPT !.at = "keys"]
        /\ UNCHANGED <<active, population, index>>
        /\ postings' = [f \in Features |-> IF f \in keys THEN postings[f] \cup {rebuild.sch} ELSE postings[f]]
    BY <1>11, <2>1 DEF LinkPostings
  <2>3. HeldInv' /\ rebuild'.at = "keys" /\ rebuild'.sch = rebuild.sch /\ rebuild'.left = rebuild.left
    BY <1>8, <2>2 DEF Linking
  <2>4. PICK t \in Schemas : t = rebuild.sch /\ t \notin rebuild.left /\ active[t].etag # 0 /\ keys = KeysOf[LastMeta(t)]
    BY <1>7, <2>1, <2>2 DEF Linking
  <2>5. ASSUME NEW s \in Schemas PROVE MirrorOf(s)'
    <3>1. /\ Unposted(s)' <=> (Unposted(s) /\ s # t)
          /\ (Unpopulated(s)' <=> Unpopulated(s)) /\ (Unindexed(s)' <=> Unindexed(s)) /\ Unposted(t)
      BY <2>2, <2>3, <2>4 DEF Unindexed, Unposted, Unpopulated, Left, Linking
    <3>2. MirrorOf(s)
      BY <1>1
    <3>3. \A f \in Features : s \in postings'[f] <=>
             (~Unposted(s)' /\ active[s].etag # 0 /\ f \in KeysOf[LastMeta(s)])
      BY <1>1, <2>2, <2>4, <3>1, <3>2 DEF MirrorOf
    <3> QED BY <1>0, <2>2, <3>1, <3>2, <3>3 DEF MirrorOf
  <2>6. postings' \in [Features -> SUBSET Schemas]
    BY <1>1, <2>2, <2>4
  <2> QED BY <1>1, <2>2, <2>3, <2>5, <2>6 DEF MirrorInv
<1>12. CASE StoreKeys
  <2>1. PICK keys : keys = KeysOf[RevisionOf(rebuild.sch, rebuild.rev).meta]
    OBVIOUS
  <2>2. /\ rebuild.at = "keys" /\ rebuild'.at = "scan" /\ rebuild'.left = rebuild.left
        /\ UNCHANGED <<index, postings, population>> /\ active' = [active EXCEPT ![rebuild.sch].keys = keys]
    BY <1>12, <2>1 DEF StoreKeys
  <2>3. PICK t \in Schemas : t = rebuild.sch /\ t \notin rebuild.left /\ keys = KeysOf[LastMeta(t)]
    BY <1>7, <2>1, <2>2 DEF Linking
  <2>4. \A s \in Schemas : /\ active'[s].sem = active[s].sem /\ active'[s].etag = active[s].etag
                           /\ active'[s].keys = IF s = t THEN keys ELSE active[s].keys
    <3>1. PICK y : y = [active[t] EXCEPT !.keys = keys]
      OBVIOUS
    <3>2. active' = [active EXCEPT ![t] = y]
      BY <2>2, <2>3, <3>1
    <3>3. active[t] \in Pointer
      BY DEF TypeInv
    <3>4. y.sem = active[t].sem /\ y.etag = active[t].etag /\ y.keys = keys
      BY <3>1, <3>3 DEF Pointer
    <3> QED BY <3>2, <3>4 DEF TypeInv
  <2>5. ASSUME NEW s \in Schemas PROVE MirrorOf(s)'
    <3>1. (Unposted(s)' <=> Unposted(s)) /\ (Unpopulated(s)' <=> Unpopulated(s)) /\ (Unindexed(s)' <=> Unindexed(s))
      BY <2>2 DEF Unindexed, Unposted, Unpopulated, Left, Linking
    <3>2. MirrorOf(s)
      BY <1>1
    <3> QED BY <1>0, <2>2, <2>3, <2>4, <3>1, <3>2 DEF MirrorOf
  <2> QED BY <1>1, <2>2, <2>5 DEF MirrorInv, HeldInv, Linking
<1>13. CASE RebuildDone
  <2>1. rebuild.at = "scan" /\ rebuild.left = {} /\ rebuild'.at = "idle" /\ UNCHANGED <<active, index, postings, population>>
    BY <1>13 DEF RebuildDone, Idle
  <2> QED BY <1>0, <1>1, <2>1 DEF MirrorInv, MirrorOf, HeldInv, Unindexed, Unposted, Unpopulated, Left, Linking
<1> QED BY <1>2, <1>3, <1>4, <1>5, <1>6, <1>9, <1>10, <1>11, <1>12, <1>13 DEF RebuildStep

\* As long as no client writes while a rebuild runs (rebuild_semantic_index is for
\* an operator), every state without one has an index, postings and a population
\* that say what the active revisions say, for any number of schemas, revisions and
\* rebuilds; the last revision is found by its id although ids are minted early.
THEOREM IndexFollowsPointers ==
  ASSUME Online = FALSE
  PROVE  Spec => []IndexMirrorsPointers
<1>1. Init => TypeInv /\ HistInv /\ RebuildInv /\ MirrorInv
  <2> SUFFICES ASSUME Init PROVE TypeInv /\ HistInv /\ RebuildInv /\ MirrorInv
    OBVIOUS
  <2>1. rebuild.at = "idle" /\ \A s \in Schemas : active[s].etag = 0 /\ active[s].sem = NoSem
    BY DEF Init, Idle, Unannotated
  <2>2. \A s \in Schemas : MirrorOf(s)
    BY <2>1, NoSemIsNone DEF Init, MirrorOf
  <2>3. HeldInv
    BY <2>1 DEF HeldInv, Linking
  <2>4. postings \in [Features -> SUBSET Schemas] /\ population \in SUBSET Schemas
    BY DEF Init
  <2> QED BY <2>2, <2>3, <2>4, HistoryInit DEF MirrorInv
<1>2. TypeInv /\ HistInv /\ RebuildInv /\ MirrorInv /\ [Next]_vars
        => (TypeInv /\ HistInv /\ RebuildInv /\ MirrorInv)'
  <2> SUFFICES ASSUME TypeInv, HistInv, RebuildInv, MirrorInv, [Next]_vars PROVE MirrorInv'
    BY HistoryStep
  <2>1. CASE UNCHANGED vars
    BY <2>1 DEF vars, MirrorInv, MirrorOf, HeldInv, LastMeta, Unindexed, Unposted, Unpopulated, Left
  <2> QED BY <2>1, ClientKeepsMirror, RebuildKeepsMirror DEF Next
<1>3. TypeInv /\ HistInv /\ RebuildInv /\ MirrorInv => IndexMirrorsPointers
  <2> SUFFICES ASSUME TypeInv, HistInv, RebuildInv, MirrorInv, rebuild = Idle, NEW s \in Schemas
               PROVE  /\ \A x \in Sems : s \in index[x] <=> active[s].sem = x
                      /\ \A f \in Features : s \in postings[f] <=>
                           (active[s].etag # 0 /\ f \in KeysOf[ActiveMeta(s)])
                      /\ s \in population <=> active[s].etag # 0
                      /\ active[s].etag # 0 => active[s].keys = KeysOf[ActiveMeta(s)]
    BY DEF IndexMirrorsPointers
  <2>1. ~Unindexed(s) /\ ~Unposted(s) /\ ~Unpopulated(s)
    BY DEF Idle, Unindexed, Unposted, Unpopulated, Left, Linking
  <2>2. active[s].etag # 0 => ActiveMeta(s) = LastMeta(s)
    <3>1. active[s].etag = Len(hist[s]) /\ Len(hist[s]) \in Nat
      BY DEF HistInv, ChainOf, TypeInv
    <3> QED BY <3>1, ActiveIsLast DEF LastMeta
  <2>3. MirrorOf(s)
    BY DEF MirrorInv
  <2> QED BY <2>1, <2>2, <2>3 DEF MirrorOf
<1> QED BY <1>1, <1>2, <1>3, PTL DEF Spec

=============================================================================
