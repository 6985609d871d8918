----------------------------- MODULE RelayProofs -----------------------------
(***************************************************************************)
(* Proofs about Relay, for every set of relays and partitions, every log,   *)
(* every batch size and any number of crashes, revocations, expulsions and  *)
(* aborted transactions.                                                    *)
(***************************************************************************)
EXTENDS Relay, NatFacts, TLAPS

-----------------------------------------------------------------------------
(* Types.                                                                   *)

Topics == {"tagged", "quarantine", "discovery"}
Offsets == Nat \ {0}
Budget == [restarts : Nat, revokes : Nat, expels : Nat, aborts : Nat, faults : Nat]
Message == [topic : Topics, partition : Partitions, offset : Offsets]

TypeOK ==
    /\ out \in Seq(Message)
    /\ committed \in [Partitions -> Offsets]
    /\ owner \in [Partitions -> Relays \union {NoOne}]
    /\ phase \in [Relays -> Stopped \union {"recv", "produce", "commit"}]
    /\ assigned \in [Relays -> SUBSET Partitions]
    /\ position \in [Relays -> [Partitions -> Offsets]]
    /\ batch \in [Relays -> Seq(Partitions \X Offsets)]
    /\ done \in [Relays -> Nat]
    /\ txn \in [Relays -> Seq(Message)]
    /\ stale \in [Relays -> BOOLEAN]
    /\ budget \in Budget

\* The messages of one record, as run_transaction_body produces them.
Sent(route, p, o) ==
    [i \in 1..Len(route) |-> [topic |-> route[i], partition |-> p, offset |-> o]]

\* The messages of ms that come out of record o of partition p.
VisibleIn(ms, p, o) ==
    \E j \in 1..Len(ms) :
        ms[j].topic \in Outputs /\ ms[j].partition = p /\ ms[j].offset = o

AsTagged(m) == [m EXCEPT !.topic = "tagged"]

\* Every discovery message is followed by its record's tag.
Paired(ms) ==
    \A i \in 1..Len(ms) : ms[i].topic = "discovery" =>
        i < Len(ms) /\ ms[i + 1] = AsTagged(ms[i])

\* Whatever its kind, a record is sent as one tagged or quarantined message,
\* with at most one discovery message before it.
LEMMA SentFacts ==
    ASSUME NEW kind \in Kinds, NEW route \in Routes(kind), NEW p \in Partitions, NEW o \in Offsets
    PROVE  /\ Sent(route, p, o) \in Seq(Message)
           /\ VisibleIn(Sent(route, p, o), p, o)
           /\ Paired(Sent(route, p, o))
<1>1. route \in {<<"tagged">>, <<"quarantine">>, <<"discovery", "tagged">>}
  BY DEF Kinds, Routes
<1>2. CASE route = <<"tagged">>
  BY <1>2 DEF Sent, VisibleIn, Paired, AsTagged, Message, Topics, Outputs
<1>3. CASE route = <<"quarantine">>
  BY <1>3 DEF Sent, VisibleIn, Paired, AsTagged, Message, Topics, Outputs
<1>4. CASE route = <<"discovery", "tagged">>
  BY <1>4 DEF Sent, VisibleIn, Paired, AsTagged, Message, Topics, Outputs
<1> QED BY <1>1, <1>2, <1>3, <1>4

\* The messages of two sequences, one behind the other.
LEMMA ConcatFacts ==
    ASSUME NEW ms \in Seq(Message), NEW ns \in Seq(Message)
    PROVE  /\ ms \o ns \in Seq(Message)
           /\ Len(ms \o ns) = Len(ms) + Len(ns) /\ Len(ms) \in Nat /\ Len(ns) \in Nat
           /\ \A i \in 1..Len(ms) : (ms \o ns)[i] = ms[i]
           /\ \A i \in 1..Len(ns) : (ms \o ns)[Len(ms) + i] = ns[i]
<1>1. ms \o ns \in Seq(Message) /\ Len(ms) \in Nat /\ Len(ns) \in Nat
  OBVIOUS
<1>2. Len(ms \o ns) = Len(ms) + Len(ns)
  OBVIOUS
<1>3. ASSUME NEW i \in 1..Len(ms) PROVE (ms \o ns)[i] = ms[i]
  OBVIOUS
<1>4. ASSUME NEW i \in 1..Len(ns) PROVE (ms \o ns)[Len(ms) + i] = ns[i]
  OBVIOUS
<1> QED BY <1>1, <1>2, <1>3, <1>4

\* What is visible in a part is visible in the whole.
LEMMA VisibleConcat ==
    ASSUME NEW ms \in Seq(Message), NEW ns \in Seq(Message), NEW p, NEW o
    PROVE  VisibleIn(ms \o ns, p, o) <=> VisibleIn(ms, p, o) \/ VisibleIn(ns, p, o)
<1>1. /\ Len(ms \o ns) = Len(ms) + Len(ns) /\ Len(ms) \in Nat /\ Len(ns) \in Nat
      /\ \A i \in 1..Len(ms) : (ms \o ns)[i] = ms[i]
      /\ \A i \in 1..Len(ns) : (ms \o ns)[Len(ms) + i] = ns[i]
  BY ConcatFacts
<1>2. ASSUME VisibleIn(ms \o ns, p, o) PROVE VisibleIn(ms, p, o) \/ VisibleIn(ns, p, o)
  <2>1. PICK j \in 1..Len(ms \o ns) :
          /\ (ms \o ns)[j].topic \in Outputs
          /\ (ms \o ns)[j].partition = p /\ (ms \o ns)[j].offset = o
    BY <1>2 DEF VisibleIn
  <2>2. CASE j <= Len(ms)
    BY <1>1, <2>1, <2>2 DEF VisibleIn
  <2>3. CASE j > Len(ms)
    <3>1. j - Len(ms) \in 1..Len(ns) /\ (ms \o ns)[j] = ns[j - Len(ms)]
      BY <1>1, <2>3
    <3> QED BY <2>1, <3>1 DEF VisibleIn
  <2> QED BY <1>1, <2>2, <2>3
<1>3. ASSUME VisibleIn(ms, p, o) PROVE VisibleIn(ms \o ns, p, o)
  BY <1>1, <1>3 DEF VisibleIn
<1>4. ASSUME VisibleIn(ns, p, o) PROVE VisibleIn(ms \o ns, p, o)
  <2>1. PICK j \in 1..Len(ns) : ns[j].topic \in Outputs /\ ns[j].partition = p /\ ns[j].offset = o
    BY <1>4 DEF VisibleIn
  <2>2. Len(ms) + j \in 1..Len(ms \o ns) /\ (ms \o ns)[Len(ms) + j] = ns[j]
    BY <1>1
  <2> QED BY <2>1, <2>2 DEF VisibleIn
<1> QED BY <1>2, <1>3, <1>4

\* Paired sequences can be put one behind the other.
LEMMA PairedConcat ==
    ASSUME NEW ms \in Seq(Message), NEW ns \in Seq(Message), Paired(ms), Paired(ns)
    PROVE  Paired(ms \o ns)
<1>1. /\ Len(ms \o ns) = Len(ms) + Len(ns) /\ Len(ms) \in Nat /\ Len(ns) \in Nat
      /\ \A i \in 1..Len(ms) : (ms \o ns)[i] = ms[i]
      /\ \A i \in 1..Len(ns) : (ms \o ns)[Len(ms) + i] = ns[i]
  BY ConcatFacts
<1> SUFFICES ASSUME NEW i \in 1..Len(ms \o ns), (ms \o ns)[i].topic = "discovery"
             PROVE  /\ i < Len(ms \o ns)
                    /\ (ms \o ns)[i + 1] = AsTagged((ms \o ns)[i])
  BY DEF Paired
<1>2. CASE i <= Len(ms)
  <2>1. i \in 1..Len(ms) /\ (ms \o ns)[i] = ms[i]
    BY <1>1, <1>2
  <2>2. i < Len(ms) /\ ms[i + 1] = AsTagged(ms[i])
    BY <2>1 DEF Paired
  <2>3. i + 1 \in 1..Len(ms)
    BY <1>1, <2>2
  <2> QED BY <1>1, <2>1, <2>2, <2>3
<1>3. CASE i > Len(ms)
  <2>1. PICK j \in 1..Len(ns) : i = Len(ms) + j
    BY <1>1, <1>3
  <2>2. (ms \o ns)[i] = ns[j]
    BY <1>1, <2>1
  <2>3. j < Len(ns) /\ ns[j + 1] = AsTagged(ns[j])
    BY <2>2 DEF Paired
  <2>4. j + 1 \in 1..Len(ns) /\ Len(ms) + (j + 1) = i + 1
    BY <1>1, <2>1, <2>3
  <2>5. (ms \o ns)[i + 1] = ns[j + 1]
    BY <1>1, <2>4
  <2>6. i < Len(ms \o ns)
    BY <1>1, <2>1, <2>3
  <2> QED BY <2>2, <2>3, <2>5, <2>6
<1>4. i <= Len(ms) \/ i > Len(ms)
  BY <1>1
<1> QED BY <1>2, <1>3, <1>4

-----------------------------------------------------------------------------
(* A relay's open transaction says what its batch says, as far as the batch *)
(* has been enqueued.                                                       *)

TxnOK(r) ==
    /\ Paired(txn[r])
    /\ done[r] <= Len(batch[r])
    /\ \A i \in 1..done[r] : VisibleIn(txn[r], batch[r][i][1], batch[r][i][2])
    /\ phase[r] = "commit" => done[r] = Len(batch[r])
    /\ \A i \in 1..Len(batch[r]) : batch[r][i][2] <= Len(Log[batch[r][i][1]])

TxnInv == \A r \in Relays : TxnOK(r)

\* A fault leaves the bounds naturals, and never gives back what was spent.
LEMMA SpendFacts ==
    ASSUME TypeOK, NEW b \in {"restarts", "revokes", "expels", "aborts"}, Spend(b)
    PROVE  /\ budget' \in Budget
           /\ budget'.aborts <= budget.aborts /\ budget'.expels <= budget.expels
           /\ b = "aborts" => budget'.aborts < budget.aborts
           /\ b = "expels" => budget'.expels < budget.expels
<1>0. budget \in Budget /\ budget[b] > 0 /\ budget.faults > 0
  BY DEF TypeOK, Spend
<1>1. CASE b = "restarts"
  <2> DEFINE x == [budget EXCEPT !.restarts = @ - 1]
  <2>1. budget.restarts > 0
    BY <1>0, <1>1, Zenon
  <2>2. x \in Budget /\ x.faults > 0 /\ x.aborts = budget.aborts /\ x.expels = budget.expels
    BY <1>0, <2>1 DEF Budget
  <2>3. budget' = [x EXCEPT !.faults = @ - 1]
    BY <1>1, Zenon DEF Spend
  <2> HIDE DEF x
  <2> QED BY <1>0, <1>1, <2>2, <2>3 DEF Budget
<1>2. CASE b = "revokes"
  <2> DEFINE x == [budget EXCEPT !.revokes = @ - 1]
  <2>1. budget.revokes > 0
    BY <1>0, <1>2, Zenon
  <2>2. x \in Budget /\ x.faults > 0 /\ x.aborts = budget.aborts /\ x.expels = budget.expels
    BY <1>0, <2>1 DEF Budget
  <2>3. budget' = [x EXCEPT !.faults = @ - 1]
    BY <1>2, Zenon DEF Spend
  <2> HIDE DEF x
  <2> QED BY <1>0, <1>2, <2>2, <2>3 DEF Budget
<1>3. CASE b = "expels"
  <2> DEFINE x == [budget EXCEPT !.expels = @ - 1]
  <2>1. budget.expels > 0
    BY <1>0, <1>3, Zenon
  <2>2. x \in Budget /\ x.faults > 0 /\ x.aborts = budget.aborts /\ x.expels = budget.expels - 1
    BY <1>0, <2>1 DEF Budget
  <2>3. budget' = [x EXCEPT !.faults = @ - 1]
    BY <1>3, Zenon DEF Spend
  <2> HIDE DEF x
  <2> QED BY <1>0, <1>3, <2>2, <2>3 DEF Budget
<1>4. CASE b = "aborts"
  <2> DEFINE x == [budget EXCEPT !.aborts = @ - 1]
  <2>1. budget.aborts > 0
    BY <1>0, <1>4, Zenon
  <2>2. x \in Budget /\ x.faults > 0 /\ x.aborts = budget.aborts - 1 /\ x.expels = budget.expels
    BY <1>0, <2>1 DEF Budget
  <2>3. budget' = [x EXCEPT !.faults = @ - 1]
    BY <1>4, Zenon DEF Spend
  <2> HIDE DEF x
  <2> QED BY <1>0, <1>4, <2>2, <2>3 DEF Budget
<1> QED BY <1>1, <1>2, <1>3, <1>4

\* max_offsets: one past a record of the batch, and past all of the partition's.
LEMMA NextOffsetFacts ==
    ASSUME TypeOK, TxnInv, NEW r \in Relays, NEW p \in Partitions, p \in Touched(r)
    PROVE  /\ NextOffset(r, p) \in Offsets
           /\ \E i \in 1..Len(batch[r]) : batch[r][i] = <<p, NextOffset(r, p) - 1>>
           /\ \A i \in 1..Len(batch[r]) : batch[r][i][1] = p => batch[r][i][2] < NextOffset(r, p)
<1> DEFINE J == {j \in 1..Len(batch[r]) : batch[r][j][1] = p}
           T == {batch[r][i][2] : i \in J}
<1>0. \A i \in 1..Len(batch[r]) : batch[r][i] \in Partitions \X Offsets
  BY DEF TypeOK
<1>1. T \subseteq Nat
  BY <1>0 DEF Offsets
<1>2. PICK k \in J : TRUE
  BY DEF Touched
<1>3. \A t \in T : t <= Len(Log[p])
  BY DEF TxnInv, TxnOK
<1>4. Len(Log[p]) \in Nat
  BY RelayAssumption
<1>5. batch[r][k][2] \in T
  BY <1>2
<1>6. \E m \in T : \A t \in T : t <= m
  <2> HIDE DEF T
  <2> QED BY <1>1, <1>3, <1>4, <1>5, NatMax
<1> DEFINE m == CHOOSE x \in T : \A t \in T : t <= x
<1>7. m \in T /\ \A t \in T : t <= m
  <2> HIDE DEF T
  <2> QED BY <1>6
<1>8. NextOffset(r, p) = 1 + m
  BY DEF NextOffset
<1> HIDE DEF m
<1>9. PICK i \in J : m = batch[r][i][2]
  BY <1>7
<1>10. batch[r][i] = <<p, m>> /\ m \in Offsets
  BY <1>0, <1>9
<1>11. (1 + m) - 1 = m /\ 1 + m \in Offsets
  BY <1>10 DEF Offsets
<1>12. \A t \in T : t < 1 + m
  <2> HIDE DEF T
  <2> QED BY <1>1, <1>7, <1>10 DEF Offsets
<1> QED BY <1>8, <1>9, <1>10, <1>11, <1>12

\* Enqueue appends what one record of the batch is sent as.
LEMMA EnqueueFacts ==
    ASSUME TypeOK, TxnInv, NEW r \in Relays, Enqueue(r)
    PROVE  \E ms \in Seq(Message) :
              /\ txn' = [txn EXCEPT ![r] = @ \o ms]
              /\ Paired(ms)
              /\ VisibleIn(ms, Current(r)[1], Current(r)[2])
              /\ \A j \in 1..Len(ms) : ms[j].partition = Current(r)[1] /\ ms[j].offset = Current(r)[2]
<1> DEFINE p == Current(r)[1]
           o == Current(r)[2]
<1>1. done[r] + 1 \in 1..Len(batch[r])
  BY DEF Enqueue, TypeOK
<1>2. p \in Partitions /\ o \in Offsets /\ o <= Len(Log[p])
  <2>1. Current(r) \in Partitions \X Offsets
    BY <1>1 DEF TypeOK, Current
  <2>2. o <= Len(Log[p])
    BY <1>1 DEF TxnInv, TxnOK, Current
  <2> QED BY <2>1, <2>2
<1>3. Log[p][o] \in Kinds
  BY <1>2, RelayAssumption DEF Offsets
<1>4. PICK route \in Routes(Log[p][o]) : txn' = [txn EXCEPT ![r] = @ \o Sent(route, p, o)]
  BY DEF Enqueue, Sent
<1>5. \A j \in 1..Len(Sent(route, p, o)) :
          Sent(route, p, o)[j].partition = p /\ Sent(route, p, o)[j].offset = o
  <2>1. route \in {<<"tagged">>, <<"quarantine">>, <<"discovery", "tagged">>}
    BY <1>3, <1>4 DEF Kinds, Routes
  <2> QED BY <2>1 DEF Sent
<1> HIDE DEF p, o
<1>6. /\ Sent(route, p, o) \in Seq(Message)
      /\ VisibleIn(Sent(route, p, o), p, o)
      /\ Paired(Sent(route, p, o))
  BY <1>2, <1>3, SentFacts
<1> QED BY <1>4, <1>5, <1>6 DEF p, o

\* Every step keeps the types.
LEMMA TypeStep ==
    ASSUME TypeOK, TxnInv, [Next]_vars
    PROVE  TypeOK'
<1>1. ASSUME NEW r \in Relays, Start(r) PROVE TypeOK'
  BY <1>1 DEF TypeOK, Start
<1>2. ASSUME NEW r \in Relays, NEW how \in Stopped, Exit(r, how) PROVE TypeOK'
  <2>1. budget' \in Budget
    BY <1>2, SpendFacts DEF Exit
  <2> QED BY <1>2, <2>1 DEF TypeOK, Exit
<1>3. ASSUME NEW p \in Partitions, Evict(p) PROVE TypeOK'
  BY <1>3 DEF TypeOK, Evict
<1>4. ASSUME NEW r \in Relays, NEW p \in Partitions, Assign(r, p) PROVE TypeOK'
  BY <1>4 DEF TypeOK, Assign
<1>5. ASSUME NEW r \in Relays, NEW p \in Partitions, Revoke(r, p) PROVE TypeOK'
  <2>1. budget' \in Budget
    BY <1>5, SpendFacts DEF Revoke
  <2> QED BY <1>5, <2>1 DEF TypeOK, Revoke
<1>6. ASSUME NEW r \in Relays, Expel(r) PROVE TypeOK'
  <2>1. budget' \in Budget
    BY <1>6, SpendFacts DEF Expel
  <2> QED BY <1>6, <2>1 DEF TypeOK, Expel
<1>7. ASSUME NEW r \in Relays, Rejoin(r) PROVE TypeOK'
  BY <1>7 DEF TypeOK, Rejoin
<1>8. ASSUME NEW r \in Relays, NEW p \in Partitions, Recv(r, p) PROVE TypeOK'
  <2>1. /\ position[r][p] \in Offsets /\ position[r][p] + 1 \in Offsets
        /\ batch[r] \in Seq(Partitions \X Offsets)
    BY SMTT(30) DEF TypeOK, Offsets
  <2>2. Append(batch[r], <<p, position[r][p]>>) \in Seq(Partitions \X Offsets)
    BY <2>1
  <2> QED BY <1>8, <2>1, <2>2 DEF TypeOK, Recv
<1>9. ASSUME NEW r \in Relays, Begin(r) PROVE TypeOK'
  BY <1>9 DEF TypeOK, Begin, group
<1>10. ASSUME NEW r \in Relays, Enqueue(r) PROVE TypeOK'
  <2>1. PICK ms \in Seq(Message) : txn' = [txn EXCEPT ![r] = @ \o ms]
    BY <1>10, EnqueueFacts
  <2>2. txn[r] \o ms \in Seq(Message)
    BY DEF TypeOK
  <2>3. txn' \in [Relays -> Seq(Message)]
    BY <2>1, <2>2 DEF TypeOK
  <2>4. done' \in [Relays -> Nat]
    BY <1>10 DEF TypeOK, Enqueue
  <2>5. UNCHANGED <<out, committed, group, phase, batch, budget>>
    BY <1>10 DEF Enqueue
  <2> QED BY <2>3, <2>4, <2>5 DEF TypeOK, group
<1>11. ASSUME NEW r \in Relays, Abort(r) PROVE TypeOK'
  <2>1. budget' \in Budget
    BY <1>11, SpendFacts DEF Abort
  <2> QED BY <1>11, <2>1 DEF TypeOK, Abort, Aborted, group
<1>12. ASSUME NEW r \in Relays, SendOffsets(r) PROVE TypeOK'
  <2>1. CASE stale[r]
    <3>1. Aborted(r) /\ UNCHANGED budget
      BY <1>12, <2>1 DEF SendOffsets
    <3> QED BY <3>1 DEF TypeOK, Aborted, group
  <2>2. CASE ~stale[r]
    <3>1. /\ phase' = [phase EXCEPT ![r] = "commit"]
          /\ UNCHANGED <<out, committed, group, batch, done, txn, budget>>
      BY <1>12, <2>2 DEF SendOffsets
    <3> QED BY <3>1 DEF TypeOK, group
  <2> QED BY <2>1, <2>2
<1>13. ASSUME NEW r \in Relays, Commit(r) PROVE TypeOK'
  <2>1. \A p \in Partitions : p \in Touched(r) => NextOffset(r, p) \in Offsets
    BY NextOffsetFacts
  <2>2. committed' \in [Partitions -> Offsets]
    BY <1>13, <2>1 DEF TypeOK, Commit
  <2>3. out' \in Seq(Message)
    BY <1>13 DEF TypeOK, Commit
  <2> QED BY <1>13, <2>2, <2>3 DEF TypeOK, Commit, group
<1>14. ASSUME UNCHANGED vars PROVE TypeOK'
  BY <1>14 DEF TypeOK, vars, group
<1> QED
  BY <1>1, <1>2, <1>3, <1>4, <1>5, <1>6, <1>7, <1>8, <1>9, <1>10, <1>11, <1>12, <1>13, <1>14
  DEF Next, Loop, Membership, Faults, Idle

-----------------------------------------------------------------------------
(* Transactions say what their batches say.                                 *)

\* A relay whose batch and transaction are left alone keeps its promise.
LEMMA TxnFrame ==
    ASSUME TypeOK, NEW r \in Relays, TxnOK(r),
           txn'[r] = txn[r], batch'[r] = batch[r], done'[r] = done[r],
           phase'[r] = "commit" => done[r] = Len(batch[r])
    PROVE  TxnOK(r)'
BY DEF TxnOK

\* So does one that drops both.
LEMMA TxnEmpty ==
    ASSUME NEW r \in Relays, txn'[r] = <<>>, batch'[r] = <<>>, done'[r] = 0
    PROVE  TxnOK(r)'
<1>1. Paired(<<>>)
  BY DEF Paired
<1> QED BY <1>1 DEF TxnOK

\* Every step keeps the promise of every relay.
LEMMA TxnStep ==
    ASSUME TypeOK, TxnInv, [Next]_vars
    PROVE  TxnInv'
<1> SUFFICES ASSUME NEW q \in Relays PROVE TxnOK(q)'
  BY DEF TxnInv
<1>0. TxnOK(q)
  BY DEF TxnInv
<1> DEFINE Same == /\ txn'[q] = txn[q] /\ batch'[q] = batch[q] /\ done'[q] = done[q]
                   /\ phase'[q] = "commit" => done[q] = Len(batch[q])
<1>01. ASSUME Same PROVE TxnOK(q)'
  BY <1>0, <1>01, TxnFrame
<1>1. ASSUME NEW r \in Relays, Start(r) PROVE TxnOK(q)'
  BY <1>0, <1>01, <1>1 DEF TypeOK, TxnOK, Start
<1>2. ASSUME NEW r \in Relays, NEW how \in Stopped, Exit(r, how) PROVE TxnOK(q)'
  <2>1. CASE q = r
    BY <1>2, <2>1, TxnEmpty DEF TypeOK, Exit
  <2>2. CASE q # r
    BY <1>0, <1>01, <1>2, <2>2 DEF TypeOK, TxnOK, Exit
  <2> QED BY <2>1, <2>2
<1>3. ASSUME NEW p \in Partitions, Evict(p) PROVE TxnOK(q)'
  BY <1>0, <1>01, <1>3 DEF TxnOK, Evict
<1>4. ASSUME NEW r \in Relays, NEW p \in Partitions, Assign(r, p) PROVE TxnOK(q)'
  BY <1>0, <1>01, <1>4 DEF TxnOK, Assign
<1>5. ASSUME NEW r \in Relays, NEW p \in Partitions, Revoke(r, p) PROVE TxnOK(q)'
  BY <1>0, <1>01, <1>5 DEF TxnOK, Revoke
<1>6. ASSUME NEW r \in Relays, Expel(r) PROVE TxnOK(q)'
  BY <1>0, <1>01, <1>6 DEF TxnOK, Expel
<1>7. ASSUME NEW r \in Relays, Rejoin(r) PROVE TxnOK(q)'
  BY <1>0, <1>01, <1>7 DEF TxnOK, Rejoin
<1>8. ASSUME NEW r \in Relays, NEW p \in Partitions, Recv(r, p) PROVE TxnOK(q)'
  <2>1. CASE q = r
    <3> DEFINE b == batch[r]
               c == Append(batch[r], <<p, position[r][p]>>)
    <3>1. /\ b \in Seq(Partitions \X Offsets) /\ done[r] \in Nat
          /\ position[r][p] <= Len(Log[p])
          /\ txn' = txn /\ done' = done /\ phase' = phase /\ phase[r] = "recv"
          /\ batch'[r] = c
      BY <1>8 DEF TypeOK, Recv
    <3>2. /\ Len(c) = Len(b) + 1 /\ c[Len(b) + 1] = <<p, position[r][p]>>
          /\ \A i \in 1..Len(b) : c[i] = b[i]
      BY <3>1
    <3>3. TxnOK(r)
      BY <1>0, <2>1
    <3>4. Len(b) \in Nat /\ done[r] <= Len(b)
      BY <3>1, <3>3 DEF TxnOK
    <3> HIDE DEF c
    <3>5. \A i \in 1..Len(c) : c[i][2] <= Len(Log[c[i][1]])
      <4> SUFFICES ASSUME NEW i \in 1..Len(c) PROVE c[i][2] <= Len(Log[c[i][1]])
        OBVIOUS
      <4>1. CASE i \in 1..Len(b)
        BY <3>2, <3>3, <4>1 DEF TxnOK
      <4>2. CASE i = Len(b) + 1
        BY <3>1, <3>2, <4>2
      <4> QED BY <3>2, <3>4, <4>1, <4>2
    <3>6. \A i \in 1..done[r] : VisibleIn(txn[r], c[i][1], c[i][2])
      BY <3>1, <3>2, <3>3, <3>4 DEF TxnOK
    <3> QED BY <2>1, <3>1, <3>2, <3>3, <3>4, <3>5, <3>6 DEF TxnOK
  <2>2. CASE q # r
    BY <1>0, <1>01, <1>8, <2>2 DEF TypeOK, TxnOK, Recv
  <2> QED BY <2>1, <2>2
<1>9. ASSUME NEW r \in Relays, Begin(r) PROVE TxnOK(q)'
  BY <1>0, <1>01, <1>9 DEF TypeOK, TxnOK, Begin, group
<1>10. ASSUME NEW r \in Relays, Enqueue(r) PROVE TxnOK(q)'
  <2>1. PICK ms \in Seq(Message) :
          /\ txn' = [txn EXCEPT ![r] = @ \o ms]
          /\ Paired(ms)
          /\ VisibleIn(ms, Current(r)[1], Current(r)[2])
    BY <1>10, EnqueueFacts
  <2>2. /\ done' = [done EXCEPT ![r] = @ + 1] /\ batch' = batch /\ phase' = phase
        /\ phase[r] = "produce" /\ done[r] < Len(batch[r])
    BY <1>10 DEF Enqueue
  <2>3. CASE q = r
    <3>1. txn[r] \in Seq(Message) /\ txn'[r] = txn[r] \o ms /\ done'[r] = done[r] + 1
          /\ done[r] \in Nat /\ Len(batch[r]) \in Nat
      BY <2>1, <2>2 DEF TypeOK
    <3>2. TxnOK(r)
      BY <1>0, <2>3
    <3>3. Paired(txn'[r])
      BY <2>1, <3>1, <3>2, PairedConcat DEF TxnOK
    <3>4. ASSUME NEW i \in 1..done[r] + 1
          PROVE  VisibleIn(txn'[r], batch[r][i][1], batch[r][i][2])
      <4>1. VisibleIn(txn[r], batch[r][i][1], batch[r][i][2])
              \/ VisibleIn(ms, batch[r][i][1], batch[r][i][2])
        <5>1. CASE i \in 1..done[r]
          BY <3>2, <5>1 DEF TxnOK
        <5>2. CASE i = done[r] + 1
          BY <2>1, <5>2 DEF Current
        <5> QED BY <3>1, <5>1, <5>2
      <4> QED BY <3>1, <4>1, VisibleConcat
    <3> QED BY <2>2, <2>3, <3>1, <3>2, <3>3, <3>4 DEF TxnOK
  <2>4. CASE q # r
    BY <1>0, <1>01, <2>1, <2>2, <2>4 DEF TypeOK, TxnOK
  <2> QED BY <2>3, <2>4
<1>11. ASSUME NEW r \in Relays, Aborted(r) PROVE TxnOK(q)'
  <2>1. CASE q = r
    BY <1>11, <2>1, TxnEmpty DEF TypeOK, Aborted
  <2>2. CASE q # r
    BY <1>0, <1>01, <1>11, <2>2 DEF TypeOK, TxnOK, Aborted
  <2> QED BY <2>1, <2>2
<1>12. ASSUME NEW r \in Relays, SendOffsets(r), ~Aborted(r) PROVE TxnOK(q)'
  <2>1. /\ phase' = [phase EXCEPT ![r] = "commit"] /\ done[r] = Len(batch[r])
        /\ UNCHANGED <<batch, done, txn>>
    BY <1>12 DEF SendOffsets
  <2> QED BY <1>0, <1>01, <2>1 DEF TypeOK, TxnOK
<1>13. ASSUME NEW r \in Relays, Commit(r) PROVE TxnOK(q)'
  <2>1. CASE q = r
    BY <1>13, <2>1, TxnEmpty DEF TypeOK, Commit
  <2>2. CASE q # r
    BY <1>0, <1>01, <1>13, <2>2 DEF TypeOK, TxnOK, Commit
  <2> QED BY <2>1, <2>2
<1>14. ASSUME UNCHANGED vars PROVE TxnOK(q)'
  BY <1>0, <1>01, <1>14 DEF TxnOK, vars
<1> HIDE DEF Same
<1> QED
  BY <1>1, <1>2, <1>3, <1>4, <1>5, <1>6, <1>7, <1>8, <1>9, <1>10, <1>11, <1>12, <1>13, <1>14
  DEF Next, Loop, Membership, Faults, Idle, Abort

-----------------------------------------------------------------------------
(* What is committed has come out, and nothing before it was left behind.   *)

OutInv ==
    /\ Paired(out)
    /\ \A p \in Partitions : committed[p] > 1 => VisibleIn(out, p, committed[p] - 1)
    /\ \A p \in Partitions : committed[p] <= Len(Log[p]) + 1

\* No transaction was aborted and no live member dropped.
Clean == budget.aborts = MaxAborts /\ budget.expels = MaxExpels

\* Record o of partition p has come out or is in the batch of r.
Covered(r, p, o) == VisibleIn(out, p, o) \/ \E i \in 1..Len(batch[r]) : batch[r][i] = <<p, o>>

\* Everything before the offset r reads next, and before each record that it
\* holds, is covered.
NothingBehind(r) ==
    /\ ~stale[r]
    /\ \A p \in assigned[r], o \in Offsets : o < position[r][p] => Covered(r, p, o)
    /\ \A i \in 1..Len(batch[r]), o \in Offsets :
          o < batch[r][i][2] => Covered(r, batch[r][i][1], o)

SkipInv ==
    /\ budget.aborts <= MaxAborts /\ budget.expels <= MaxExpels
    /\ Clean => /\ \A p \in Partitions, o \in Offsets : o < committed[p] => VisibleIn(out, p, o)
                /\ \A r \in Relays : NothingBehind(r)

\* What has come out stays out.
LEMMA OutGrows ==
    ASSUME TypeOK, [Next]_vars, NEW p, NEW o, VisibleIn(out, p, o)
    PROVE  VisibleIn(out', p, o)
<1>1. ASSUME NEW r \in Relays, Commit(r) PROVE VisibleIn(out', p, o)
  <2>1. out' = out \o txn[r] /\ out \in Seq(Message) /\ txn[r] \in Seq(Message)
    BY <1>1 DEF Commit, TypeOK
  <2> QED BY <2>1, VisibleConcat
<1>2. ASSUME \A r \in Relays : ~Commit(r) PROVE out' = out
  BY <1>2 DEF Next, Loop, Membership, Faults, Idle, vars, group, Start, Exit, Evict, Assign,
     Revoke, Expel, Rejoin, Recv, Begin, Enqueue, Abort, Aborted, SendOffsets
<1> QED BY <1>1, <1>2

\* Everything a committed batch held has come out.
LEMMA CommitShows ==
    ASSUME TypeOK, TxnInv, NEW r \in Relays, Commit(r), NEW i \in 1..Len(batch[r])
    PROVE  VisibleIn(out', batch[r][i][1], batch[r][i][2])
<1>1. out' = out \o txn[r] /\ out \in Seq(Message) /\ txn[r] \in Seq(Message)
  BY DEF Commit, TypeOK
<1>2. VisibleIn(txn[r], batch[r][i][1], batch[r][i][2])
  BY DEF Commit, TxnInv, TxnOK
<1> QED BY <1>1, <1>2, VisibleConcat

\* Every step keeps the output in order with the committed offsets.
LEMMA OutStep ==
    ASSUME TypeOK, TxnInv, OutInv, [Next]_vars
    PROVE  OutInv'
<1>1. ASSUME NEW r \in Relays, Commit(r) PROVE OutInv'
  <2>1. Paired(out')
    <3>1. out' = out \o txn[r] /\ out \in Seq(Message) /\ txn[r] \in Seq(Message)
      BY <1>1 DEF Commit, TypeOK
    <3>2. Paired(out) /\ Paired(txn[r])
      BY DEF OutInv, TxnInv, TxnOK
    <3> QED BY <3>1, <3>2, PairedConcat
  <2>2. ASSUME NEW p \in Partitions, committed'[p] > 1
        PROVE  VisibleIn(out', p, committed'[p] - 1)
    <3>1. CASE p \in Touched(r)
      <4>1. committed'[p] = NextOffset(r, p)
        BY <1>1, <3>1 DEF Commit
      <4>2. PICK i \in 1..Len(batch[r]) : batch[r][i] = <<p, NextOffset(r, p) - 1>>
        BY <3>1, NextOffsetFacts
      <4>3. VisibleIn(out', batch[r][i][1], batch[r][i][2])
        BY <1>1, CommitShows
      <4> QED BY <4>1, <4>2, <4>3
    <3>2. CASE p \notin Touched(r)
      <4>1. committed'[p] = committed[p]
        BY <1>1, <3>2 DEF Commit
      <4> QED BY <2>2, <4>1, OutGrows DEF OutInv
    <3> QED BY <3>1, <3>2
  <2>3. ASSUME NEW p \in Partitions PROVE committed'[p] <= Len(Log[p]) + 1
    <3>1. CASE p \in Touched(r)
      <4>1. committed'[p] = NextOffset(r, p) /\ NextOffset(r, p) \in Nat /\ Len(Log[p]) \in Nat
        BY <1>1, <3>1, NextOffsetFacts, RelayAssumption DEF Commit, Offsets
      <4>2. PICK i \in 1..Len(batch[r]) : batch[r][i] = <<p, NextOffset(r, p) - 1>>
        BY <3>1, NextOffsetFacts
      <4>3. NextOffset(r, p) - 1 <= Len(Log[p])
        <5>1. batch[r][i][2] <= Len(Log[batch[r][i][1]])
          BY DEF TxnInv, TxnOK
        <5> QED BY <4>2, <5>1
      <4> QED BY <4>1, <4>3
    <3>2. CASE p \notin Touched(r)
      BY <1>1, <3>2 DEF Commit, OutInv
    <3> QED BY <3>1, <3>2
  <2> QED BY <2>1, <2>2, <2>3 DEF OutInv
<1>2. ASSUME \A r \in Relays : ~Commit(r) PROVE out' = out /\ committed' = committed
  BY <1>2 DEF Next, Loop, Membership, Faults, Idle, vars, group, Start, Exit, Evict, Assign,
     Revoke, Expel, Rejoin, Recv, Begin, Enqueue, Abort, Aborted, SendOffsets
<1> QED BY <1>1, <1>2 DEF OutInv

\* A relay whose batch and positions are left alone is left with nothing behind.
LEMMA BehindFrame ==
    ASSUME TypeOK, [Next]_vars, NEW r \in Relays, NothingBehind(r),
           ~stale'[r], assigned'[r] \subseteq assigned[r],
           position'[r] = position[r], batch'[r] = batch[r]
    PROVE  NothingBehind(r)'
<1>1. ASSUME NEW p, NEW o, Covered(r, p, o) PROVE Covered(r, p, o)'
  BY <1>1, OutGrows DEF Covered
<1> QED BY <1>1 DEF NothingBehind

\* Bounds are only spent, and an abort or an expulsion is the end of Clean.
LEMMA CleanBefore ==
    ASSUME TypeOK, SkipInv, [Next]_vars
    PROVE  /\ budget'.aborts <= MaxAborts /\ budget'.expels <= MaxExpels
           /\ Clean' => Clean /\ \A r \in Relays : ~Abort(r) /\ ~Expel(r)
<1>1. /\ budget.aborts \in Nat /\ budget.expels \in Nat
      /\ budget.aborts <= MaxAborts /\ budget.expels <= MaxExpels
  BY DEF TypeOK, Budget, SkipInv
<1>2. MaxAborts \in Nat /\ MaxExpels \in Nat
  BY RelayAssumption
<1>3. budget' \in Budget
  BY SpendFacts DEF Next, Loop, Membership, Faults, Idle, vars, group, Start, Exit, Evict, Assign,
     Revoke, Expel, Rejoin, Recv, Begin, Enqueue, Abort, SendOffsets, Commit, TypeOK
<1>4. /\ budget'.aborts <= budget.aborts /\ budget'.expels <= budget.expels
      /\ \A r \in Relays : Abort(r) => budget'.aborts < budget.aborts
      /\ \A r \in Relays : Expel(r) => budget'.expels < budget.expels
  <2>1. ASSUME NEW b \in {"restarts", "revokes", "expels", "aborts"}, Spend(b)
        PROVE  budget'.aborts <= budget.aborts /\ budget'.expels <= budget.expels
    BY <2>1, SpendFacts
  <2>2. \A r \in Relays : /\ Abort(r) => budget'.aborts < budget.aborts
                          /\ Expel(r) => budget'.expels < budget.expels
    BY SpendFacts DEF Abort, Expel
  <2>3. UNCHANGED budget \/ \E b \in {"restarts", "revokes", "expels", "aborts"} : Spend(b)
    BY DEF Next, Loop, Membership, Faults, Idle, vars, group, Start, Exit, Evict, Assign,
       Revoke, Expel, Rejoin, Recv, Begin, Enqueue, Abort, SendOffsets, Commit
  <2>4. budget'.aborts <= budget.aborts /\ budget'.expels <= budget.expels
    BY <1>1, <2>1, <2>3
  <2> QED BY <2>2, <2>4
<1>5. budget'.aborts \in Nat /\ budget'.expels \in Nat
  BY <1>3 DEF Budget
<1> QED BY <1>1, <1>2, <1>4, <1>5 DEF Clean

\* Every step of a clean run leaves nothing behind.
LEMMA SkipStep ==
    ASSUME TypeOK, TxnInv, SkipInv, [Next]_vars
    PROVE  SkipInv'
<1>1. budget'.aborts <= MaxAborts /\ budget'.expels <= MaxExpels
  BY CleanBefore
<1> SUFFICES ASSUME Clean'
             PROVE  /\ \A p \in Partitions, o \in Offsets : o < committed'[p] => VisibleIn(out', p, o)
                    /\ \A r \in Relays : NothingBehind(r)'
  BY <1>1 DEF SkipInv
<1>2. /\ \A p \in Partitions, o \in Offsets : o < committed[p] => VisibleIn(out, p, o)
      /\ \A r \in Relays : NothingBehind(r)
      /\ \A r \in Relays : ~Abort(r) /\ ~Expel(r)
  BY CleanBefore DEF SkipInv
<1>3. ASSUME NEW p \in Partitions, NEW o \in Offsets, o < committed'[p]
      PROVE  VisibleIn(out', p, o)
  <2>1. CASE o < committed[p]
    BY <1>2, <2>1, OutGrows
  <2>2. CASE ~(o < committed[p])
    <3>1. PICK r \in Relays : Commit(r)
      <4>1. committed' # committed
        BY <1>3, <2>2
      <4> QED BY <4>1 DEF Next, Loop, Membership, Faults, Idle, vars, group, Start, Exit, Evict,
         Assign, Revoke, Expel, Rejoin, Recv, Begin, Enqueue, Abort, Aborted, SendOffsets
    <3>2. p \in Touched(r) /\ committed'[p] = NextOffset(r, p)
      BY <1>3, <2>2, <3>1 DEF Commit
    <3>3. PICK i \in 1..Len(batch[r]) : batch[r][i] = <<p, NextOffset(r, p) - 1>>
      BY <3>2, NextOffsetFacts
    <3>4. NextOffset(r, p) \in Nat
      BY <3>2, NextOffsetFacts DEF Offsets
    <3>5. CASE o = NextOffset(r, p) - 1
      BY <3>1, <3>3, <3>5, CommitShows
    <3>6. CASE o < NextOffset(r, p) - 1
      <4>1. Covered(r, p, o)
        BY <1>2, <3>3, <3>6 DEF NothingBehind
      <4> QED BY <3>1, <4>1, CommitShows, OutGrows DEF Covered
    <3> QED BY <1>3, <3>2, <3>4, <3>5, <3>6 DEF Offsets
  <2> QED BY <2>1, <2>2
<1>4. ASSUME NEW q \in Relays PROVE NothingBehind(q)'
  <2>0. NothingBehind(q) /\ ~stale[q]
    BY <1>2 DEF NothingBehind
  <2> DEFINE Same == /\ ~stale'[q] /\ assigned'[q] \subseteq assigned[q]
                     /\ position'[q] = position[q] /\ batch'[q] = batch[q]
  <2>01. ASSUME Same PROVE NothingBehind(q)'
    BY <2>0, <2>01, BehindFrame
  <2>02. ASSUME ~stale'[q], assigned'[q] = {}, batch'[q] = <<>> PROVE NothingBehind(q)'
    BY <2>02 DEF NothingBehind
  <2>1. ASSUME NEW r \in Relays, Start(r) PROVE NothingBehind(q)'
    BY <2>0, <2>01, <2>1 DEF TypeOK, Start
  <2>2. ASSUME NEW r \in Relays, NEW how \in Stopped, Exit(r, how) PROVE NothingBehind(q)'
    BY <2>0, <2>01, <2>02, <2>2 DEF TypeOK, Exit
  <2>3. ASSUME NEW p \in Partitions, Evict(p) PROVE NothingBehind(q)'
    BY <2>0, <2>01, <2>3 DEF Evict
  <2>4. ASSUME NEW r \in Relays, NEW p \in Partitions, Assign(r, p) PROVE NothingBehind(q)'
    <3>1. CASE q = r
      <4>1. /\ stale' = stale /\ batch' = batch
            /\ assigned'[r] = assigned[r] \union {p}
            /\ position'[r] = [position[r] EXCEPT ![p] = committed[p]]
        BY <2>4 DEF TypeOK, Assign
      <4>2. ASSUME NEW x, NEW o, Covered(r, x, o) PROVE Covered(r, x, o)'
        BY <4>1, <4>2, OutGrows DEF Covered
      <4>3. ASSUME NEW x \in assigned'[r], NEW o \in Offsets, o < position'[r][x]
            PROVE  Covered(r, x, o)
        <5>1. position[r] \in [Partitions -> Offsets] /\ assigned[r] \subseteq Partitions
          BY DEF TypeOK
        <5>2. CASE x = p
          BY <1>2, <4>1, <4>3, <5>1, <5>2 DEF Covered
        <5>3. CASE x # p
          BY <2>0, <3>1, <4>1, <4>3, <5>1, <5>3 DEF NothingBehind
        <5> QED BY <5>2, <5>3
      <4> QED BY <2>0, <3>1, <4>1, <4>2, <4>3 DEF NothingBehind
    <3>2. CASE q # r
      BY <2>0, <2>01, <2>4, <3>2 DEF TypeOK, Assign
    <3> QED BY <3>1, <3>2
  <2>5. ASSUME NEW r \in Relays, NEW p \in Partitions, Revoke(r, p) PROVE NothingBehind(q)'
    BY <2>0, <2>01, <2>5 DEF TypeOK, Revoke
  <2>6. ASSUME NEW r \in Relays, Rejoin(r) PROVE NothingBehind(q)'
    BY <1>2, <2>6 DEF NothingBehind, Rejoin
  <2>7. ASSUME NEW r \in Relays, NEW p \in Partitions, Recv(r, p) PROVE NothingBehind(q)'
    <3>1. CASE q = r
      <4>0. PICK b, n, c : b = batch[r] /\ n = position[r][p] /\ c = Append(b, <<p, n>>)
        OBVIOUS
      <4>1. /\ stale' = stale /\ assigned' = assigned /\ out' = out
            /\ batch'[r] = c /\ b \in Seq(Partitions \X Offsets)
            /\ position'[r] = [position[r] EXCEPT ![p] = n + 1]
            /\ p \in assigned[r]
        BY <2>7, <4>0 DEF TypeOK, Recv
      <4>2. /\ Len(c) = Len(b) + 1 /\ c[Len(b) + 1] = <<p, n>> /\ Len(b) \in Nat
            /\ \A i \in 1..Len(b) : c[i] = b[i]
        BY <4>0, <4>1
      <4>3. position[r] \in [Partitions -> Offsets] /\ assigned[r] \subseteq Partitions
        BY DEF TypeOK
      <4>4. ASSUME NEW x, NEW o, Covered(r, x, o) PROVE Covered(r, x, o)'
        <5>1. CASE VisibleIn(out, x, o)
          BY <4>1, <5>1 DEF Covered
        <5>2. CASE \E i \in 1..Len(b) : b[i] = <<x, o>>
          <6>1. PICK i \in 1..Len(b) : b[i] = <<x, o>>
            BY <5>2
          <6>2. i \in 1..Len(c) /\ c[i] = <<x, o>>
            BY <4>2, <6>1
          <6> QED BY <4>1, <6>2 DEF Covered
        <5> QED BY <4>0, <4>4, <5>1, <5>2 DEF Covered
      <4>5. Covered(r, p, n)'
        BY <4>1, <4>2 DEF Covered
      <4>6. ASSUME NEW x \in assigned[r], NEW o \in Offsets, o < position'[r][x]
            PROVE  Covered(r, x, o)'
        <5>1. CASE x = p /\ o = n
          BY <4>5, <5>1
        <5>2. CASE ~(x = p /\ o = n)
          <6>1. o < position[r][x]
            BY <4>0, <4>1, <4>3, <4>6, <5>2 DEF Offsets
          <6> QED BY <2>0, <3>1, <4>4, <6>1 DEF NothingBehind
        <5> QED BY <5>1, <5>2
      <4>7. ASSUME NEW i \in 1..Len(c), NEW o \in Offsets, o < c[i][2]
            PROVE  Covered(r, c[i][1], o)'
        <5>1. CASE i \in 1..Len(b)
          BY <2>0, <3>1, <4>0, <4>2, <4>4, <4>7, <5>1 DEF NothingBehind
        <5>2. CASE i = Len(b) + 1
          <6>1. o < n /\ c[i][1] = p
            BY <4>2, <4>7, <5>2
          <6> QED BY <2>0, <3>1, <4>0, <4>1, <4>4, <6>1 DEF NothingBehind
        <5> QED BY <4>2, <5>1, <5>2
      <4> QED BY <2>0, <3>1, <4>1, <4>6, <4>7 DEF NothingBehind
    <3>2. CASE q # r
      BY <2>0, <2>01, <2>7, <3>2 DEF TypeOK, Recv
    <3> QED BY <3>1, <3>2
  <2>8. ASSUME NEW r \in Relays, Begin(r) PROVE NothingBehind(q)'
    BY <2>0, <2>01, <2>8 DEF Begin, group
  <2>9. ASSUME NEW r \in Relays, Enqueue(r) PROVE NothingBehind(q)'
    BY <2>0, <2>01, <2>9 DEF Enqueue, group
  <2>10. ASSUME NEW r \in Relays, SendOffsets(r) PROVE NothingBehind(q)'
    <3>1. ~stale[r]
      BY <1>2 DEF NothingBehind
    <3> QED BY <2>0, <2>01, <2>10, <3>1 DEF SendOffsets, group
  <2>11. ASSUME NEW r \in Relays, Commit(r) PROVE NothingBehind(q)'
    <3>1. CASE q = r
      <4>1. /\ stale' = stale /\ assigned' = assigned /\ position' = position
            /\ batch'[r] = <<>>
        BY <2>11 DEF TypeOK, Commit, group
      <4>2. ASSUME NEW x, NEW o, Covered(r, x, o) PROVE VisibleIn(out', x, o)
        <5>1. CASE VisibleIn(out, x, o)
          BY <5>1, OutGrows
        <5>2. CASE \E i \in 1..Len(batch[r]) : batch[r][i] = <<x, o>>
          BY <2>11, <5>2, CommitShows
        <5> QED BY <4>2, <5>1, <5>2 DEF Covered
      <4>3. ASSUME NEW x \in assigned'[r], NEW o \in Offsets, o < position'[r][x]
            PROVE  Covered(r, x, o)'
        <5>1. Covered(r, x, o)
          BY <2>0, <3>1, <4>1, <4>3 DEF NothingBehind
        <5> QED BY <4>2, <5>1 DEF Covered
      <4> QED BY <2>0, <3>1, <4>1, <4>3 DEF NothingBehind
    <3>2. CASE q # r
      BY <2>0, <2>01, <2>11, <3>2 DEF TypeOK, Commit, group
    <3> QED BY <3>1, <3>2
  <2>12. ASSUME UNCHANGED vars PROVE NothingBehind(q)'
    BY <2>0, <2>01, <2>12 DEF vars, group
  <2> HIDE DEF Same
  <2> QED
    BY <1>2, <2>1, <2>2, <2>3, <2>4, <2>5, <2>6, <2>7, <2>8, <2>9, <2>10, <2>11, <2>12
    DEF Next, Loop, Membership, Faults, Idle
<1> QED BY <1>3, <1>4

-----------------------------------------------------------------------------

\* The messages, the offsets and the positions are all of the kind the code
\* says, and the open transactions match their batches (process_batch).
THEOREM RelayInvariant == Spec => [](TypeOK /\ TxnInv /\ OutInv /\ SkipInv)
<1>1. Init => TypeOK /\ TxnInv /\ OutInv /\ SkipInv
  <2> SUFFICES ASSUME Init PROVE TypeOK /\ TxnInv /\ OutInv /\ SkipInv
    OBVIOUS
  <2>1. TypeOK
    BY RelayAssumption DEF Init, TypeOK, Budget, Offsets, Stopped
  <2>2. TxnInv
    BY DEF Init, TxnInv, TxnOK, Paired
  <2>3. OutInv
    BY RelayAssumption DEF Init, OutInv, Paired
  <2>4. SkipInv
    BY RelayAssumption DEF Init, SkipInv, NothingBehind, Offsets
  <2> QED BY <2>1, <2>2, <2>3, <2>4
<1>2. TypeOK /\ TxnInv /\ OutInv /\ SkipInv /\ [Next]_vars
        => (TypeOK /\ TxnInv /\ OutInv /\ SkipInv)'
  BY TypeStep, TxnStep, OutStep, SkipStep
<1> QED BY <1>1, <1>2, PTL DEF Spec

\* A batch's transaction is all or nothing and its offsets are its own
\* (process_batch, run_transaction_body): under any number of crashes,
\* revocations, expulsions and aborts a committed offset is one past a record
\* that came out, evidence comes out with its record's tag, and without an
\* abort or an expulsion nothing before a committed offset is missing.
THEOREM RelayTransactionsAreWhole == Spec => []TransactionsAreWhole
<1>1. TypeOK /\ OutInv /\ SkipInv => TransactionsAreWhole
  <2> SUFFICES ASSUME TypeOK, OutInv, SkipInv PROVE TransactionsAreWhole
    OBVIOUS
  <2>1. CommitIsVisible
    BY DEF OutInv, CommitIsVisible, Visible, VisibleIn
  <2>2. NoRecordSkipped
    <3>1. ASSUME Clean, NEW p \in Partitions PROVE Skipped(p) = {}
      <4>1. committed[p] \in Nat
        BY DEF TypeOK, Offsets
      <4>2. \A o \in 1..committed[p] - 1 : o \in Offsets /\ o < committed[p]
        BY <4>1 DEF Offsets
      <4>3. \A o \in 1..committed[p] - 1 : VisibleIn(out, p, o)
        BY <3>1, <4>2 DEF SkipInv
      <4> QED BY <4>3 DEF Skipped, Visible, VisibleIn
    <3> QED BY <3>1 DEF NoRecordSkipped, Clean
  <2>3. EvidenceIsTagged
    BY DEF OutInv, Paired, AsTagged, EvidenceIsTagged
  <2> QED BY <2>1, <2>2, <2>3 DEF TransactionsAreWhole
<1> QED BY <1>1, RelayInvariant, PTL

-----------------------------------------------------------------------------
(* What a sequence of messages delivers, computed by a recursive function:  *)
(* the function exists, and delivery distributes over concatenation.        *)

Out(m, p) == m.topic \in Outputs /\ m.partition = p

\* The body of Relayed's function, on the first N messages.
IsUpto(f, ms, p, N) ==
    f = [n \in 0..N |-> IF n = 0 THEN <<>>
                        ELSE IF Out(ms[n], p) THEN Append(f[n - 1], ms[n].offset)
                                              ELSE f[n - 1]]

\* The function Relayed is defined by exists.
LEMMA UptoExists ==
    ASSUME NEW ms \in Seq(Message), NEW p
    PROVE  \E f : IsUpto(f, ms, p, Len(ms))
<1> DEFINE S == {N \in Nat : \E f : IsUpto(f, ms, p, N)}
<1>1. 0 \in S
  <2>1. IsUpto([n \in 0..0 |-> <<>>], ms, p, 0)
    BY DEF IsUpto
  <2> QED BY <2>1
<1>2. ASSUME NEW k \in 1..Len(ms), k - 1 \in S PROVE k \in S
  <2>1. PICK g : IsUpto(g, ms, p, k - 1)
    BY <1>2
  <2> DEFINE v == IF Out(ms[k], p) THEN Append(g[k - 1], ms[k].offset) ELSE g[k - 1]
             f == [n \in 0..k |-> IF n = k THEN v ELSE g[n]]
  <2>2. k \in Nat /\ k # 0 /\ k - 1 \in 0..k /\ k - 1 # k
    OBVIOUS
  <2>3. ASSUME NEW n \in 0..k
        PROVE  f[n] = IF n = 0 THEN <<>>
                      ELSE IF Out(ms[n], p) THEN Append(f[n - 1], ms[n].offset) ELSE f[n - 1]
    <3>1. CASE n = k
      BY <2>2, <3>1
    <3>2. CASE n # k
      <4>1. n \in 0..(k - 1) /\ n - 1 # k /\ (n # 0 => n - 1 \in 0..k)
        BY <2>2, <3>2
      <4>2. g[n] = IF n = 0 THEN <<>>
                   ELSE IF Out(ms[n], p) THEN Append(g[n - 1], ms[n].offset) ELSE g[n - 1]
        BY <2>1, <4>1 DEF IsUpto
      <4> QED BY <3>2, <4>1, <4>2
    <3> QED BY <3>1, <3>2
  <2>4. IsUpto(f, ms, p, k)
    <3>1. f = [n \in 0..k |-> f[n]]
      OBVIOUS
    <3> HIDE DEF f
    <3> QED BY <2>3, <3>1 DEF IsUpto
  <2> QED BY <2>2, <2>4
<1>3. Len(ms) \in Nat
  OBVIOUS
<1>4. \A k \in 0..Len(ms) : k \in S
  <2> HIDE DEF S
  <2> QED BY <1>1, <1>2, <1>3, UpTo
<1>5. Len(ms) \in S
  <2> HIDE DEF S
  <2> QED BY <1>3, <1>4
<1> QED BY <1>5

\* It is a sequence of offsets at every argument, and obeys its recursion.
LEMMA UptoValue ==
    ASSUME NEW ms \in Seq(Message), NEW p
    PROVE  \E f : /\ Relayed(ms, p) = f[Len(ms)]
                  /\ f[0] = <<>>
                  /\ \A n \in 1..Len(ms) :
                        f[n] = IF Out(ms[n], p) THEN Append(f[n - 1], ms[n].offset) ELSE f[n - 1]
                  /\ \A n \in 0..Len(ms) : f[n] \in Seq(Offsets)
<1> DEFINE f == CHOOSE f : IsUpto(f, ms, p, Len(ms))
<1>1. Relayed(ms, p) = f[Len(ms)]
  BY DEF Relayed, IsUpto, Out
<1>2. IsUpto(f, ms, p, Len(ms))
  BY UptoExists
<1> HIDE DEF f
<1>3. Len(ms) \in Nat /\ \A n \in 1..Len(ms) : n \in 0..Len(ms) /\ n # 0 /\ ms[n].offset \in Offsets
  <2>1. \A n \in 1..Len(ms) : ms[n] \in Message
    OBVIOUS
  <2> QED BY <2>1 DEF Message
<1>4. f[0] = <<>>
  BY <1>2, <1>3 DEF IsUpto
<1>5. \A n \in 1..Len(ms) :
        f[n] = IF Out(ms[n], p) THEN Append(f[n - 1], ms[n].offset) ELSE f[n - 1]
  BY <1>2, <1>3 DEF IsUpto
<1>6. \A n \in 0..Len(ms) : f[n] \in Seq(Offsets)
  <2> DEFINE S == {n \in Nat : f[n] \in Seq(Offsets)}
  <2>1. 0 \in S
    <3>1. <<>> \in Seq(Offsets)
      OBVIOUS
    <3> QED BY <1>4, <3>1
  <2>2. ASSUME NEW n \in 1..Len(ms), n - 1 \in S PROVE n \in S
    <3>1. f[n - 1] \in Seq(Offsets) /\ ms[n].offset \in Offsets
      BY <1>3, <2>2
    <3>2. Append(f[n - 1], ms[n].offset) \in Seq(Offsets)
      BY <3>1
    <3>3. f[n] \in Seq(Offsets)
      BY <1>5, <3>1, <3>2
    <3> QED BY <3>3
  <2>3. \A n \in 0..Len(ms) : n \in S
    <3> HIDE DEF S
    <3> QED BY <1>3, <2>1, <2>2, UpTo
  <2> QED BY <2>3
<1> QED BY <1>1, <1>4, <1>5, <1>6

\* What is delivered is a sequence of offsets.
LEMMA RelayedType ==
    ASSUME NEW ms \in Seq(Message), NEW p
    PROVE  Relayed(ms, p) \in Seq(Offsets)
<1>1. Len(ms) \in 0..Len(ms)
  OBVIOUS
<1> QED BY <1>1, UptoValue

\* Appending to the second of two sequences is appending to both.
LEMMA AppendConcat ==
    \A s \in Seq(Offsets), t \in Seq(Offsets), o \in Offsets :
        Append(s \o t, o) = s \o Append(t, o)
OBVIOUS

\* Two sequences of messages deliver what the first and then the second does.
LEMMA RelayedConcat ==
    ASSUME NEW ms \in Seq(Message), NEW ns \in Seq(Message), NEW p
    PROVE  Relayed(ms \o ns, p) = Relayed(ms, p) \o Relayed(ns, p)
<1> DEFINE cat == ms \o ns
<1>1. /\ cat \in Seq(Message) /\ Len(cat) = Len(ms) + Len(ns) /\ Len(ms) \in Nat /\ Len(ns) \in Nat
      /\ \A n \in 1..Len(ms) : cat[n] = ms[n]
      /\ \A n \in 1..Len(ns) : cat[Len(ms) + n] = ns[n]
  BY ConcatFacts
<1> HIDE DEF cat
<1>2. PICK f : /\ Relayed(ms, p) = f[Len(ms)] /\ f[0] = <<>>
               /\ \A n \in 1..Len(ms) :
                     f[n] = IF Out(ms[n], p) THEN Append(f[n - 1], ms[n].offset) ELSE f[n - 1]
               /\ \A n \in 0..Len(ms) : f[n] \in Seq(Offsets)
  BY UptoValue
<1>3. PICK g : /\ Relayed(ns, p) = g[Len(ns)] /\ g[0] = <<>>
               /\ \A n \in 1..Len(ns) :
                     g[n] = IF Out(ns[n], p) THEN Append(g[n - 1], ns[n].offset) ELSE g[n - 1]
               /\ \A n \in 0..Len(ns) : g[n] \in Seq(Offsets)
  BY UptoValue
<1>4. PICK h : /\ Relayed(cat, p) = h[Len(cat)] /\ h[0] = <<>>
               /\ \A n \in 1..Len(cat) :
                     h[n] = IF Out(cat[n], p) THEN Append(h[n - 1], cat[n].offset) ELSE h[n - 1]
               /\ \A n \in 0..Len(cat) : h[n] \in Seq(Offsets)
  <2>1. cat \in Seq(Message)
    BY <1>1
  <2> QED BY <2>1, UptoValue
<1>5. \A n \in 0..Len(ms) : h[n] = f[n]
  <2> DEFINE S == {n \in Nat : h[n] = f[n]}
  <2>1. 0 \in S
    BY <1>2, <1>4
  <2>2. ASSUME NEW n \in 1..Len(ms), n - 1 \in S PROVE n \in S
    <3>1. n \in 1..Len(cat) /\ cat[n] = ms[n] /\ n \in Nat
      BY <1>1
    <3> QED BY <1>2, <1>4, <2>2, <3>1
  <2>3. \A n \in 0..Len(ms) : n \in S
    <3> HIDE DEF S
    <3> QED BY <1>1, <2>1, <2>2, UpTo
  <2> QED BY <2>3
<1>6. \A n \in 0..Len(ns) : h[Len(ms) + n] = f[Len(ms)] \o g[n]
  <2> DEFINE S == {n \in Nat : h[Len(ms) + n] = f[Len(ms)] \o g[n]}
  <2>0. f[Len(ms)] \in Seq(Offsets) /\ Len(ms) \in 0..Len(ms)
    BY <1>1, <1>2
  <2>1. 0 \in S
    <3>1. f[Len(ms)] \o <<>> = f[Len(ms)] /\ Len(ms) + 0 = Len(ms)
      BY <1>1, <2>0
    <3> QED BY <1>3, <1>5, <2>0, <3>1
  <2>2. ASSUME NEW n \in 1..Len(ns), n - 1 \in S PROVE n \in S
    <3>1. /\ Len(ms) + n \in 1..Len(cat) /\ cat[Len(ms) + n] = ns[n] /\ n \in Nat
          /\ (Len(ms) + n) - 1 = Len(ms) + (n - 1) /\ n - 1 \in 0..Len(ns)
      BY <1>1
    <3>2. h[Len(ms) + n] = IF Out(ns[n], p) THEN Append(h[Len(ms) + (n - 1)], ns[n].offset)
                                            ELSE h[Len(ms) + (n - 1)]
      BY <1>4, <3>1
    <3>3. h[Len(ms) + (n - 1)] = f[Len(ms)] \o g[n - 1]
      BY <2>2
    <3>4. g[n - 1] \in Seq(Offsets) /\ ns[n].offset \in Offsets
      <4>1. ns[n] \in Message
        OBVIOUS
      <4> QED BY <1>3, <3>1, <4>1 DEF Message
    <3>5. Append(f[Len(ms)] \o g[n - 1], ns[n].offset) = f[Len(ms)] \o Append(g[n - 1], ns[n].offset)
      <4>1. f[Len(ms)] \in Seq(Offsets)
        BY <2>0
      <4> QED BY <3>4, <4>1, AppendConcat, Zenon
    <3>6. h[Len(ms) + n] = f[Len(ms)] \o g[n]
      BY <1>3, <3>2, <3>3, <3>5
    <3> QED BY <3>1, <3>6
  <2>3. \A n \in 0..Len(ns) : n \in S
    <3> HIDE DEF S
    <3> QED BY <1>1, <2>1, <2>2, UpTo
  <2> QED BY <2>3
<1>7. Len(ns) \in 0..Len(ns)
  BY <1>1
<1> QED BY <1>1, <1>2, <1>3, <1>4, <1>6, <1>7 DEF cat

\* No message delivers nothing.
LEMMA RelayedNone ==
    ASSUME NEW p
    PROVE  Relayed(<<>>, p) = <<>>
<1>1. <<>> \in Seq(Message) /\ Len(<<>>) = 0
  OBVIOUS
<1> QED BY <1>1, UptoValue

\* A record comes out once, of its own partition, whatever it is sent as.
LEMMA RelayedOnce ==
    ASSUME NEW kind \in Kinds, NEW route \in Routes(kind), NEW p \in Partitions, NEW o \in Offsets,
           NEW x
    PROVE  Relayed(Sent(route, p, o), x) = IF x = p THEN <<o>> ELSE <<>>
<1> DEFINE ms == Sent(route, p, o)
<1>1. route \in {<<"tagged">>, <<"quarantine">>, <<"discovery", "tagged">>}
  BY DEF Kinds, Routes
<1>2. PICK f : /\ Relayed(ms, x) = f[Len(ms)] /\ f[0] = <<>>
               /\ \A n \in 1..Len(ms) :
                     f[n] = IF Out(ms[n], x) THEN Append(f[n - 1], ms[n].offset) ELSE f[n - 1]
  <2>1. ms \in Seq(Message)
    BY SentFacts
  <2> HIDE DEF ms
  <2> QED BY <2>1, UptoValue
<1>3. Append(<<>>, o) = <<o>>
  OBVIOUS
<1>4. CASE route \in {<<"tagged">>, <<"quarantine">>}
  <2>1. /\ Len(ms) = 1 /\ ms[1].offset = o /\ ms[1].partition = p
        /\ ms[1].topic \in {"tagged", "quarantine"}
    BY <1>4 DEF Sent
  <2> HIDE DEF ms
  <2>2. 1 \in 1..Len(ms) /\ 1 - 1 = 0 /\ (Out(ms[1], x) <=> x = p)
    BY <2>1 DEF Out, Outputs
  <2> QED BY ZenonT(40), <1>2, <1>3, <2>1, <2>2 DEF ms
<1>5. CASE route = <<"discovery", "tagged">>
  <2>1. /\ Len(ms) = 2 /\ ms[2].offset = o /\ ms[2].partition = p
        /\ ms[1].topic = "discovery" /\ ms[2].topic = "tagged"
    BY <1>5 DEF Sent
  <2> HIDE DEF ms
  <2>2. /\ 1 \in 1..Len(ms) /\ 1 - 1 = 0 /\ 2 \in 1..Len(ms) /\ 2 - 1 = 1
        /\ ~Out(ms[1], x) /\ (Out(ms[2], x) <=> x = p)
    BY <2>1 DEF Out, Outputs
  <2>3. f[1] = <<>> /\ f[2] = IF x = p THEN Append(f[1], o) ELSE f[1]
    BY <1>2, <2>1, <2>2
  <2> QED BY <1>2, <1>3, <2>1, <2>3 DEF ms
<1> QED BY <1>1, <1>4, <1>5

\* The m offsets from a on.
Run(a, m) == [i \in 1..m |-> a + i - 1]

\* Runs grow at their end, and join.
LEMMA RunFacts ==
    ASSUME NEW a \in Nat, NEW m \in Nat
    PROVE  /\ Run(a, 0) = <<>> /\ Run(a, m) \in Seq(Int)
           /\ Run(a, m) \o <<a + m>> = Run(a, m + 1)
           /\ a >= 1 => Run(1, a - 1) \o Run(a, m) = Run(1, (a + m) - 1)
<1>1. Run(a, 0) = <<>>
  BY DEF Run
<1>2. Run(a, m) \in Seq(Int) /\ Len(Run(a, m)) = m
  BY DEF Run
<1>3. Run(a, m) \o <<a + m>> = Run(a, m + 1)
  BY <1>2 DEF Run
<1>4. ASSUME a >= 1 PROVE Run(1, a - 1) \o Run(a, m) = Run(1, (a + m) - 1)
  BY <1>4 DEF Run
<1> QED BY <1>1, <1>2, <1>3, <1>4

-----------------------------------------------------------------------------
(* The exactly-once pipe.  While no partition is taken from a live relay and *)
(* no transaction aborted, a partition has one relay at a time, whose batch  *)
(* is the run of its records from the committed offset to its position, and  *)
(* whose transaction is a prefix of that run.                                *)

\* The transaction of r delivers the first m of the records of p it holds.
EnqueuedRun(r, p, m) ==
    /\ Relayed(txn[r], p) = Run(committed[p], m)
    /\ committed[p] + m <= position[r][p]
    /\ \A i \in 1..Len(batch[r]) : batch[r][i][1] = p =>
          (i <= done[r] <=> batch[r][i][2] < committed[p] + m)

\* Record o of partition p is in the batch b.
Holds(b, p, o) == \E i \in 1..Len(b) : b[i][1] = p /\ b[i][2] = o

BatchIsRun(r) ==
    /\ \A p \in assigned[r], o \in Offsets :
          committed[p] <= o /\ o < position[r][p] => Holds(batch[r], p, o)
    /\ \A i \in 1..Len(batch[r]) :
          /\ batch[r][i][1] \in assigned[r]
          /\ committed[batch[r][i][1]] <= batch[r][i][2]
          /\ batch[r][i][2] < position[r][batch[r][i][1]]
    /\ \A i, j \in 1..Len(batch[r]) :
          i < j /\ batch[r][i][1] = batch[r][j][1] => batch[r][i][2] < batch[r][j][2]

RelayExact(r) ==
    /\ ~stale[r]
    /\ \A p \in assigned[r] : owner[p] = r
    /\ \A p \in assigned[r] : committed[p] <= position[r][p]
    /\ BatchIsRun(r)
    /\ \A p \in assigned[r] : \E m \in Nat : EnqueuedRun(r, p, m)
    /\ \A p \in Partitions \ assigned[r] : Relayed(txn[r], p) = <<>>

ExactInv ==
    /\ budget.revokes = 0 /\ budget.expels = 0 /\ budget.aborts = 0
    /\ \A p \in Partitions : Relayed(out, p) = Run(1, committed[p] - 1)
    /\ \A r \in Relays : RelayExact(r)

\* What one record adds to a transaction is delivered once, in its partition.
LEMMA EnqueueDelivers ==
    ASSUME TypeOK, TxnInv, NEW r \in Relays, Enqueue(r), NEW x
    PROVE  Relayed(txn'[r], x) =
             Relayed(txn[r], x) \o (IF x = Current(r)[1] THEN <<Current(r)[2]>> ELSE <<>>)
<1> DEFINE p == Current(r)[1]
           o == Current(r)[2]
<1>1. done[r] + 1 \in 1..Len(batch[r])
  BY DEF Enqueue, TypeOK
<1>2. p \in Partitions /\ o \in Offsets /\ o <= Len(Log[p])
  <2>1. Current(r) \in Partitions \X Offsets
    BY <1>1 DEF TypeOK, Current
  <2>2. o <= Len(Log[p])
    BY <1>1 DEF TxnInv, TxnOK, Current
  <2> QED BY <2>1, <2>2
<1>3. Log[p][o] \in Kinds
  BY <1>2, RelayAssumption DEF Offsets
<1>4. PICK route \in Routes(Log[p][o]) : txn' = [txn EXCEPT ![r] = @ \o Sent(route, p, o)]
  BY DEF Enqueue, Sent
<1> HIDE DEF p, o
<1>5. /\ Sent(route, p, o) \in Seq(Message)
      /\ Relayed(Sent(route, p, o), x) = IF x = p THEN <<o>> ELSE <<>>
  BY <1>2, <1>3, SentFacts, RelayedOnce
<1>6. txn[r] \in Seq(Message) /\ txn'[r] = txn[r] \o Sent(route, p, o)
  BY <1>4 DEF TypeOK
<1>7. Relayed(txn'[r], x) = Relayed(txn[r], x) \o Relayed(Sent(route, p, o), x)
  <2>1. Relayed(txn[r] \o Sent(route, p, o), x)
          = Relayed(txn[r], x) \o Relayed(Sent(route, p, o), x)
    BY <1>5, <1>6, RelayedConcat
  <2> QED BY <1>6, <2>1
<1> QED BY <1>5, <1>7 DEF p, o

\* A relay that is left alone stays exact.
LEMMA ExactFrame ==
    ASSUME NEW r \in Relays, RelayExact(r), stale'[r] = stale[r], assigned'[r] = assigned[r],
           position'[r] = position[r], batch'[r] = batch[r], done'[r] = done[r], txn'[r] = txn[r],
           \A p \in assigned[r] : owner'[p] = owner[p] /\ committed'[p] = committed[p]
    PROVE  RelayExact(r)'
<1>1. BatchIsRun(r)'
  <2>1. BatchIsRun(r)
    BY DEF RelayExact
  <2>2. ASSUME NEW p \in assigned'[r], NEW o \in Offsets, committed'[p] <= o, o < position'[r][p]
        PROVE  Holds(batch'[r], p, o)
    BY <2>1, <2>2 DEF BatchIsRun
  <2>3. ASSUME NEW i \in 1..Len(batch'[r])
        PROVE  /\ batch'[r][i][1] \in assigned'[r]
               /\ committed'[batch'[r][i][1]] <= batch'[r][i][2]
               /\ batch'[r][i][2] < position'[r][batch'[r][i][1]]
    BY <2>1, <2>3 DEF BatchIsRun
  <2> QED BY <2>1, <2>2, <2>3 DEF BatchIsRun
<1>2. ASSUME NEW p \in assigned[r], NEW m \in Nat, EnqueuedRun(r, p, m)
      PROVE  EnqueuedRun(r, p, m)'
  BY <1>2 DEF EnqueuedRun
<1> QED BY <1>1, <1>2 DEF RelayExact

\* At the end of a batch its run has been delivered to the transaction: the
\* offsets that are committed are the positions.
LEMMA CommitExact ==
    ASSUME TypeOK, TxnInv, NEW r \in Relays, RelayExact(r), Commit(r), NEW p \in assigned[r]
    PROVE  /\ committed'[p] = position[r][p]
           /\ Relayed(txn[r], p) = Run(committed[p], position[r][p] - committed[p])
<1> DEFINE c == committed[p]
           n == position[r][p]
           b == batch[r]
<1>1. p \in Partitions /\ c \in Nat /\ c \in Offsets /\ n \in Nat /\ n \in Offsets /\ c <= n
  BY DEF TypeOK, Offsets, RelayExact
<1>2. b \in Seq(Partitions \X Offsets) /\ Len(b) \in Nat /\ done[r] = Len(b)
  BY DEF TypeOK, Commit, TxnInv, TxnOK
<1>3. \A o \in Offsets : c <= o /\ o < n => Holds(b, p, o)
  BY DEF RelayExact, BatchIsRun
<1>4. \A i \in 1..Len(b) : b[i][1] = p => b[i][2] < n /\ c <= b[i][2]
  BY DEF RelayExact, BatchIsRun
<1>5. PICK m \in Nat : /\ Relayed(txn[r], p) = Run(c, m) /\ c + m <= n
                       /\ \A i \in 1..Len(b) : b[i][1] = p => (i <= done[r] <=> b[i][2] < c + m)
  BY DEF RelayExact, EnqueuedRun
<1> HIDE DEF c, n, b
<1>6. m = n - c
  <2> SUFFICES ASSUME c + m < n PROVE FALSE
    BY <1>1, <1>5
  <2>1. c + m \in Offsets
    BY <1>1 DEF Offsets
  <2>2. PICK i \in 1..Len(b) : b[i][1] = p /\ b[i][2] = c + m
    BY <1>1, <1>3, <2>1 DEF Holds
  <2> QED BY <1>1, <1>2, <1>5, <2>2
<1>7. committed'[p] = n
  <2>1. CASE p \in Touched(r)
    <3>1. committed'[p] = NextOffset(r, p)
      BY <1>1, <2>1 DEF Commit
    <3>2. NextOffset(r, p) \in Nat
      BY <1>1, <2>1, NextOffsetFacts DEF Offsets
    <3>3. PICK i \in 1..Len(b) : b[i] = <<p, NextOffset(r, p) - 1>>
      BY <1>1, <2>1, NextOffsetFacts DEF b
    <3>4. NextOffset(r, p) - 1 < n /\ c <= NextOffset(r, p) - 1
      BY <1>4, <3>3
    <3>5. n - 1 \in Offsets /\ c <= n - 1 /\ n - 1 < n
      BY <1>1, <3>2, <3>4 DEF Offsets
    <3>6. PICK j \in 1..Len(b) : b[j][1] = p /\ b[j][2] = n - 1
      BY <1>3, <3>5 DEF Holds
    <3>7. n - 1 < NextOffset(r, p)
      BY <1>1, <2>1, <3>6, NextOffsetFacts DEF b
    <3> QED BY <1>1, <3>1, <3>2, <3>4, <3>7
  <2>2. CASE p \notin Touched(r)
    <3>1. committed'[p] = c
      BY <1>1, <2>2 DEF Commit, c
    <3>2. ~(c < n)
      <4>1. ~Holds(b, p, c)
        BY <2>2 DEF Touched, Holds, b
      <4> QED BY <1>1, <1>3, <4>1
    <3> QED BY <1>1, <3>1, <3>2
  <2> QED BY <2>1, <2>2
<1> QED BY <1>5, <1>6, <1>7 DEF c, n

\* A partition the relay does not have is not in its batch, and not committed.
LEMMA CommitElsewhere ==
    ASSUME TypeOK, NEW r \in Relays, RelayExact(r), Commit(r), NEW p \in Partitions \ assigned[r]
    PROVE  committed'[p] = committed[p] /\ Relayed(txn[r], p) = <<>>
<1>1. p \notin Touched(r)
  BY DEF RelayExact, BatchIsRun, Touched
<1> QED BY <1>1 DEF Commit, RelayExact

\* A relay with nothing assigned and nothing in hand is exact.
LEMMA ExactEmpty ==
    ASSUME NEW r \in Relays, ~stale'[r], assigned'[r] = {}, batch'[r] = <<>>, txn'[r] = <<>>
    PROVE  RelayExact(r)'
<1>1. \A p : Relayed(txn'[r], p) = <<>>
  BY RelayedNone
<1>2. BatchIsRun(r)'
  BY DEF BatchIsRun
<1> QED BY <1>1, <1>2 DEF RelayExact

\* An assignment starts an empty run at the committed offset.
LEMMA AssignExact ==
    ASSUME TypeOK, NEW r \in Relays, NEW p \in Partitions, RelayExact(r), Assign(r, p)
    PROVE  RelayExact(r)'
<1>1. /\ assigned'[r] = assigned[r] \union {p} /\ owner' = [owner EXCEPT ![p] = r]
      /\ position'[r] = [position[r] EXCEPT ![p] = committed[p]]
      /\ UNCHANGED <<committed, stale, batch, done, txn>> /\ owner[p] = NoOne
  BY DEF TypeOK, Assign
<1>2. /\ p \notin assigned[r] /\ owner \in [Partitions -> Relays \union {NoOne}]
      /\ position[r] \in [Partitions -> Offsets] /\ assigned[r] \subseteq Partitions
      /\ committed[p] \in Nat /\ committed[p] \in Offsets
  BY <1>1, RelayAssumption DEF TypeOK, RelayExact, Offsets
<1>3. /\ \A x \in assigned[r] : position'[r][x] = position[r][x] /\ owner'[x] = owner[x]
      /\ position'[r][p] = committed[p] /\ owner'[p] = r
  BY <1>1, <1>2
<1>4. \A i \in 1..Len(batch[r]) : batch[r][i][1] \in assigned[r] /\ batch[r][i][1] # p
  BY <1>2 DEF RelayExact, BatchIsRun
<1>5. BatchIsRun(r)'
  <2>1. ASSUME NEW x \in assigned'[r], NEW o \in Offsets, committed'[x] <= o, o < position'[r][x]
        PROVE  Holds(batch'[r], x, o)
    <3>1. CASE x = p
      BY <1>1, <1>2, <1>3, <2>1, <3>1 DEF Offsets
    <3>2. CASE x # p
      BY <1>1, <1>3, <2>1, <3>2 DEF RelayExact, BatchIsRun
    <3> QED BY <3>1, <3>2
  <2>2. ASSUME NEW i \in 1..Len(batch'[r])
        PROVE  /\ batch'[r][i][1] \in assigned'[r]
               /\ committed'[batch'[r][i][1]] <= batch'[r][i][2]
               /\ batch'[r][i][2] < position'[r][batch'[r][i][1]]
    BY <1>1, <1>3, <1>4 DEF RelayExact, BatchIsRun
  <2>3. \A i, j \in 1..Len(batch'[r]) :
          i < j /\ batch'[r][i][1] = batch'[r][j][1] => batch'[r][i][2] < batch'[r][j][2]
    BY <1>1 DEF RelayExact, BatchIsRun
  <2> QED BY <2>1, <2>2, <2>3 DEF BatchIsRun
<1>6. ASSUME NEW x \in assigned'[r] PROVE \E m \in Nat : EnqueuedRun(r, x, m)'
  <2>1. CASE x = p
    <3>1. Relayed(txn[r], p) = Run(committed[p], 0)
      BY <1>2, RunFacts DEF RelayExact
    <3>2. EnqueuedRun(r, p, 0)'
      BY <1>1, <1>2, <1>3, <1>4, <3>1 DEF EnqueuedRun
    <3> QED BY <2>1, <3>2
  <2>2. CASE x # p
    <3>1. PICK m \in Nat : EnqueuedRun(r, x, m)
      BY <1>1, <2>2 DEF RelayExact
    <3>2. EnqueuedRun(r, x, m)'
      BY <1>1, <1>3, <2>2, <3>1 DEF EnqueuedRun
    <3> QED BY <3>2
  <2> QED BY <2>1, <2>2
<1>7. /\ ~stale'[r] /\ \A x \in assigned'[r] : owner'[x] = r /\ committed'[x] <= position'[r][x]
      /\ \A x \in Partitions \ assigned'[r] : Relayed(txn'[r], x) = <<>>
  BY <1>1, <1>2, <1>3 DEF RelayExact
<1> QED BY <1>5, <1>6, <1>7 DEF RelayExact

\* A record that is received makes the run one longer.
LEMMA RecvExact ==
    ASSUME TypeOK, TxnInv, NEW r \in Relays, NEW p \in Partitions, RelayExact(r), Recv(r, p)
    PROVE  RelayExact(r)'
<1>0. PICK b, n, c : b = batch[r] /\ n = position[r][p] /\ c = Append(b, <<p, n>>)
  OBVIOUS
<1>1. /\ UNCHANGED <<owner, assigned, committed, stale, done, txn>> /\ p \in assigned[r]
      /\ position'[r] = [position[r] EXCEPT ![p] = n + 1] /\ batch'[r] = c
      /\ b \in Seq(Partitions \X Offsets) /\ Len(b) \in Nat
      /\ position[r] \in [Partitions -> Offsets] /\ assigned[r] \subseteq Partitions
      /\ \A x \in Partitions : committed[x] \in Nat
      /\ done[r] \in Nat /\ done[r] <= Len(b)
  BY <1>0 DEF TypeOK, Recv, Offsets, TxnInv, TxnOK
<1>2. /\ Len(c) = Len(b) + 1 /\ c[Len(b) + 1][1] = p /\ c[Len(b) + 1][2] = n
      /\ \A i \in 1..Len(b) : c[i] = b[i]
  BY <1>0, <1>1
<1>3. /\ n \in Nat /\ n \in Offsets /\ committed[p] <= n
      /\ position'[r][p] = n + 1
      /\ \A x \in assigned[r] : x # p => position'[r][x] = position[r][x]
  BY <1>0, <1>1 DEF Offsets, RelayExact
<1>4. /\ \A x \in assigned[r], o \in Offsets :
            committed[x] <= o /\ o < position[r][x] => Holds(b, x, o)
      /\ \A i \in 1..Len(b) : /\ b[i][1] \in assigned[r] /\ b[i][2] \in Nat
                              /\ committed[b[i][1]] <= b[i][2]
                              /\ b[i][2] < position[r][b[i][1]]
      /\ \A i, j \in 1..Len(b) : i < j /\ b[i][1] = b[j][1] => b[i][2] < b[j][2]
  <2>1. \A i \in 1..Len(b) : b[i][2] \in Nat
    BY <1>1 DEF Offsets
  <2>2. BatchIsRun(r)
    BY DEF RelayExact
  <2> QED BY <1>0, <2>1, <2>2 DEF BatchIsRun
<1>5. \A i \in 1..Len(c) : i \in 1..Len(b) \/ i = Len(b) + 1
  BY <1>1, <1>2
<1>6. BatchIsRun(r)'
  <2>1. ASSUME NEW x \in assigned[r], NEW o \in Offsets, committed[x] <= o, o < position'[r][x]
        PROVE  Holds(c, x, o)
    <3>1. CASE x = p /\ o = n
      <4>1. Len(b) + 1 \in 1..Len(c)
        BY <1>1, <1>2
      <4> QED BY <1>2, <3>1, <4>1 DEF Holds
    <3>2. CASE ~(x = p /\ o = n)
      <4>1. o < position[r][x]
        <5>1. o \in Nat
          BY DEF Offsets
        <5>2. CASE x = p
          BY <1>0, <1>3, <2>1, <3>2, <5>1, <5>2
        <5>3. CASE x # p
          BY <1>3, <2>1, <5>3
        <5> QED BY <5>2, <5>3
      <4>2. PICK i \in 1..Len(b) : b[i][1] = x /\ b[i][2] = o
        BY <1>4, <2>1, <4>1 DEF Holds
      <4>3. i \in 1..Len(c)
        BY <1>1, <1>2
      <4> QED BY <1>2, <4>2, <4>3 DEF Holds
    <3> QED BY <3>1, <3>2
  <2>2. ASSUME NEW i \in 1..Len(c)
        PROVE  c[i][1] \in assigned[r] /\ committed[c[i][1]] <= c[i][2] /\ c[i][2] < position'[r][c[i][1]]
    <3>1. CASE i \in 1..Len(b)
      <4>1. CASE b[i][1] = p
        <5>1. c[i] = b[i] /\ b[i][2] \in Nat /\ b[i][2] < n /\ committed[p] <= b[i][2]
          BY <1>0, <1>2, <1>4, <3>1, <4>1
        <5>2. b[i][2] < n + 1
          BY <1>3, <5>1
        <5> QED BY <1>1, <1>3, <4>1, <5>1, <5>2
      <4>2. CASE b[i][1] # p
        BY <1>2, <1>3, <1>4, <3>1, <4>2
      <4> QED BY <4>1, <4>2
    <3>2. CASE i = Len(b) + 1
      BY <1>1, <1>2, <1>3, <3>2
    <3> QED BY <1>5, <3>1, <3>2
  <2>3. ASSUME NEW i \in 1..Len(c), NEW j \in 1..Len(c), i < j, c[i][1] = c[j][1]
        PROVE  c[i][2] < c[j][2]
    <3>1. i \in 1..Len(b)
      BY <1>1, <1>2, <2>3
    <3>2. CASE j \in 1..Len(b)
      BY <1>2, <1>4, <2>3, <3>1, <3>2
    <3>3. CASE j = Len(b) + 1
      <4>1. b[i][1] = p /\ b[i][2] < position[r][b[i][1]]
        BY <1>2, <1>4, <2>3, <3>1, <3>3
      <4> QED BY <1>0, <1>2, <3>1, <3>3, <4>1
    <3> QED BY <1>5, <3>2, <3>3
  <2> QED BY <1>1, <2>1, <2>2, <2>3 DEF BatchIsRun
<1>7. ASSUME NEW x \in assigned[r] PROVE \E m \in Nat : EnqueuedRun(r, x, m)'
  <2>1. PICK m \in Nat : EnqueuedRun(r, x, m)
    BY DEF RelayExact
  <2>2. committed[x] + m <= position[r][x] /\ committed[x] + m <= position'[r][x]
    <3>1. committed[x] \in Nat /\ position[r][x] \in Nat
      BY <1>1 DEF Offsets
    <3> QED BY <1>0, <1>1, <1>3, <2>1, <3>1 DEF EnqueuedRun
  <2>3. ASSUME NEW i \in 1..Len(c), c[i][1] = x
        PROVE  i <= done[r] <=> c[i][2] < committed[x] + m
    <3>1. CASE i \in 1..Len(b)
      BY <1>0, <1>2, <2>1, <2>3, <3>1 DEF EnqueuedRun
    <3>2. CASE i = Len(b) + 1
      <4>1. x = p /\ c[i][2] = n /\ ~(i <= done[r])
        BY <1>1, <1>2, <2>3, <3>2
      <4>2. committed[p] + m <= n /\ committed[p] \in Nat
        BY <1>0, <1>1, <2>2, <4>1
      <4> QED BY <1>3, <4>1, <4>2
    <3> QED BY <1>5, <3>1, <3>2
  <2>4. EnqueuedRun(r, x, m)'
    BY <1>1, <2>1, <2>2, <2>3 DEF EnqueuedRun
  <2> QED BY <2>4
<1>8. \A x \in assigned[r] : committed[x] <= position'[r][x]
  <2>1. \A x \in assigned[r] : committed[x] <= position[r][x] /\ committed[x] \in Nat
    BY <1>1 DEF RelayExact
  <2> QED BY <1>3, <2>1
<1> QED BY <1>1, <1>6, <1>7, <1>8 DEF RelayExact

\* The record that is enqueued is the next of the run.
LEMMA EnqueueExact ==
    ASSUME TypeOK, TxnInv, NEW r \in Relays, RelayExact(r), Enqueue(r)
    PROVE  RelayExact(r)'
<1>0. PICK b, k, p, o : b = batch[r] /\ k = done[r] + 1 /\ p = b[k][1] /\ o = b[k][2]
  OBVIOUS
<1>1. /\ UNCHANGED <<out, committed, owner, assigned, position, stale, batch>>
      /\ done'[r] = k /\ done[r] \in Nat /\ k \in 1..Len(b)
      /\ b \in Seq(Partitions \X Offsets) /\ Len(b) \in Nat
      /\ assigned[r] \subseteq Partitions
  BY <1>0 DEF TypeOK, Enqueue, group
<1>2. /\ \A x \in assigned[r], q \in Offsets :
            committed[x] <= q /\ q < position[r][x] => Holds(b, x, q)
      /\ \A i \in 1..Len(b) : /\ b[i][1] \in assigned[r] /\ b[i][2] \in Nat
                              /\ committed[b[i][1]] <= b[i][2]
                              /\ b[i][2] < position[r][b[i][1]]
      /\ \A i, j \in 1..Len(b) : i < j /\ b[i][1] = b[j][1] => b[i][2] < b[j][2]
  <2>1. \A i \in 1..Len(b) : b[i][2] \in Nat
    BY <1>1 DEF Offsets
  <2>2. BatchIsRun(r)
    BY DEF RelayExact
  <2> QED BY <1>0, <2>1, <2>2 DEF BatchIsRun
<1>3. /\ p \in assigned[r] /\ p \in Partitions /\ o \in Nat
      /\ committed[p] \in Nat /\ committed[p] \in Offsets /\ position[r][p] \in Nat
      /\ committed[p] <= o /\ o < position[r][p]
  BY <1>0, <1>1, <1>2 DEF TypeOK, Offsets
<1>4. \A x : Relayed(txn'[r], x) = Relayed(txn[r], x) \o (IF x = p THEN <<o>> ELSE <<>>)
  BY <1>0, EnqueueDelivers DEF Current
<1>5. BatchIsRun(r)'
  BY <1>1 DEF BatchIsRun, RelayExact
<1>6. \E m \in Nat : EnqueuedRun(r, p, m)'
  <2>1. PICK m \in Nat : EnqueuedRun(r, p, m)
    BY <1>3 DEF RelayExact
  <2>2. /\ Relayed(txn[r], p) = Run(committed[p], m)
        /\ committed[p] + m <= position[r][p]
        /\ \A i \in 1..Len(b) : b[i][1] = p => (i <= done[r] <=> b[i][2] < committed[p] + m)
    BY <1>0, <2>1 DEF EnqueuedRun
  <2>3. committed[p] + m <= o
    <3>1. ~(k <= done[r])
      BY <1>0, <1>1
    <3>2. ~(o < committed[p] + m)
      BY <1>0, <1>1, <2>2, <3>1
    <3> QED BY <1>3, <3>2
  <2>4. o = committed[p] + m
    <3>1. committed[p] + m \in Offsets /\ committed[p] <= committed[p] + m
          /\ committed[p] + m < position[r][p]
      BY <1>3, <2>3 DEF Offsets
    <3>2. PICK j \in 1..Len(b) : b[j][1] = p /\ b[j][2] = committed[p] + m
      BY <1>2, <1>3, <3>1 DEF Holds
    <3>3. ~(j <= done[r])
      BY <1>3, <2>2, <3>2
    <3>4. ~(k < j)
      <4> SUFFICES ASSUME k < j PROVE FALSE
        OBVIOUS
      <4>1. o < b[j][2]
        BY <1>0, <1>1, <1>2, <3>2
      <4> QED BY <1>3, <2>3, <3>2, <4>1
    <3>5. j = k
      BY <1>0, <1>1, <3>3, <3>4
    <3> QED BY <1>0, <3>2, <3>5
  <2>5. Relayed(txn'[r], p) = Run(committed[p], m + 1)
    <3>1. Relayed(txn'[r], p) = Run(committed[p], m) \o <<committed[p] + m>>
      BY <1>4, <2>2, <2>4
    <3> QED BY <1>3, <3>1, RunFacts
  <2>6. committed[p] + (m + 1) <= position[r][p]
    BY <1>3, <2>4
  <2>7. ASSUME NEW i \in 1..Len(b), b[i][1] = p
        PROVE  i <= k <=> b[i][2] < committed[p] + (m + 1)
    <3>1. b[i][2] \in Nat /\ i \in Nat
      BY <1>2
    <3>2. CASE i = k
      <4>1. b[i][2] = o
        BY <1>0, <3>2
      <4>2. o < committed[p] + (m + 1)
        BY <1>3, <2>4
      <4> QED BY <1>1, <3>2, <4>1, <4>2
    <3>3. CASE i < k
      <4>1. i <= done[r]
        BY <1>0, <1>1, <3>1, <3>3
      <4>2. b[i][2] < committed[p] + m
        BY <2>2, <2>7, <4>1
      <4> QED BY <1>1, <1>3, <3>1, <3>3, <4>2
    <3>4. CASE k < i
      <4>1. o < b[i][2]
        BY <1>0, <1>1, <1>2, <2>7, <3>4
      <4> QED BY SMTT(30), <1>1, <1>3, <2>4, <3>1, <3>4, <4>1
    <3> QED BY <1>1, <3>2, <3>3, <3>4
  <2>8. EnqueuedRun(r, p, m + 1)'
    BY <1>0, <1>1, <2>5, <2>6, <2>7 DEF EnqueuedRun
  <2> QED BY <2>8
<1>7. \A x \in Partitions : x # p => Relayed(txn'[r], x) = Relayed(txn[r], x)
  <2>1. ASSUME NEW x \in Partitions, x # p PROVE Relayed(txn'[r], x) = Relayed(txn[r], x)
    <3>1. Relayed(txn[r], x) \in Seq(Offsets)
      BY RelayedType DEF TypeOK
    <3> QED BY <1>4, <2>1, <3>1
  <2> QED BY <2>1
<1>8. ASSUME NEW x \in assigned[r], x # p PROVE \E m \in Nat : EnqueuedRun(r, x, m)'
  <2>1. PICK m \in Nat : EnqueuedRun(r, x, m)
    BY DEF RelayExact
  <2>2. ASSUME NEW i \in 1..Len(b), b[i][1] = x PROVE i <= k <=> i <= done[r]
    BY <1>0, <1>1, <1>8, <2>2
  <2>3. EnqueuedRun(r, x, m)'
    BY <1>0, <1>1, <1>7, <1>8, <2>1, <2>2 DEF EnqueuedRun
  <2> QED BY <2>3
<1>9. \A x \in assigned[r] : \E m \in Nat : EnqueuedRun(r, x, m)'
  BY <1>6, <1>8
<1>10. \A x \in Partitions \ assigned[r] : Relayed(txn'[r], x) = <<>>
  BY <1>3, <1>7 DEF RelayExact
<1> QED BY <1>1, <1>5, <1>9, <1>10 DEF RelayExact

\* A commit leaves its relay with an empty run in every partition it has.
LEMMA CommitLeaves ==
    ASSUME TypeOK, TxnInv, NEW r \in Relays, RelayExact(r), Commit(r)
    PROVE  RelayExact(r)'
<1>1. /\ UNCHANGED <<owner, assigned, position, stale>>
      /\ batch'[r] = <<>> /\ done'[r] = 0 /\ txn'[r] = <<>>
      /\ assigned[r] \subseteq Partitions
  BY DEF TypeOK, Commit, group
<1>2. \A p \in assigned[r] : committed'[p] = position[r][p] /\ position[r][p] \in Nat
  BY <1>1, CommitExact DEF TypeOK, Offsets
<1>3. \A p : Relayed(txn'[r], p) = <<>>
  BY <1>1, RelayedNone
<1>4. BatchIsRun(r)'
  <2>1. ASSUME NEW p \in assigned'[r], NEW o \in Offsets PROVE ~(committed'[p] <= o /\ o < position'[r][p])
    BY <1>1, <1>2 DEF Offsets
  <2> QED BY <1>1, <2>1 DEF BatchIsRun
<1>5. ASSUME NEW p \in assigned[r] PROVE EnqueuedRun(r, p, 0)'
  <2>1. Run(committed'[p], 0) = <<>> /\ committed'[p] + 0 <= position[r][p]
    BY <1>2 DEF Run
  <2> QED BY <1>1, <1>3, <2>1 DEF EnqueuedRun
<1> QED BY <1>1, <1>2, <1>3, <1>4, <1>5 DEF RelayExact

\* Whatever fault is not among the bounds does not happen.
LEMMA NoFault ==
    ASSUME ExactInv, NEW r \in Relays
    PROVE  ~Abort(r) /\ ~Expel(r) /\ ~Rejoin(r) /\ \A p \in Partitions : ~Revoke(r, p)
<1>1. ~Spend("aborts") /\ ~Spend("expels") /\ ~Spend("revokes")
  <2>1. ~(budget["aborts"] > 0) /\ ~(budget["expels"] > 0) /\ ~(budget["revokes"] > 0)
    BY DEF ExactInv
  <2> QED BY <2>1, Zenon DEF Spend
<1>2. ~stale[r]
  BY DEF ExactInv, RelayExact
<1> QED BY <1>1, <1>2 DEF Abort, Expel, Rejoin, Revoke

\* Every step keeps every relay exact.
LEMMA ExactStep ==
    ASSUME TypeOK, TxnInv, ExactInv, [Next]_vars, NEW q \in Relays
    PROVE  RelayExact(q)'
<1>0. RelayExact(q) /\ \A r \in Relays : RelayExact(r)
  BY DEF ExactInv
<1> DEFINE Same == /\ stale'[q] = stale[q] /\ assigned'[q] = assigned[q]
                   /\ position'[q] = position[q] /\ batch'[q] = batch[q]
                   /\ done'[q] = done[q] /\ txn'[q] = txn[q]
                   /\ \A p \in assigned[q] : owner'[p] = owner[p] /\ committed'[p] = committed[p]
<1>01. ASSUME Same PROVE RelayExact(q)'
  BY <1>0, <1>01, ExactFrame
<1>02. ~stale[q] /\ assigned[q] \subseteq Partitions /\ \A p \in assigned[q] : owner[p] = q
  BY <1>0 DEF TypeOK, RelayExact
<1>1. ASSUME NEW r \in Relays, Start(r) PROVE RelayExact(q)'
  BY <1>01, <1>02, <1>1 DEF TypeOK, Start
<1>2. ASSUME NEW r \in Relays, NEW how \in Stopped, Exit(r, how) PROVE RelayExact(q)'
  <2>1. CASE q = r
    BY <1>02, <1>2, <2>1, ExactEmpty DEF TypeOK, Exit
  <2>2. CASE q # r
    BY <1>01, <1>2, <2>2 DEF TypeOK, Exit
  <2> QED BY <2>1, <2>2
<1>3. ASSUME NEW p \in Partitions, Evict(p) PROVE RelayExact(q)'
  <2>1. owner' = [owner EXCEPT ![p] = NoOne] /\ p \notin assigned[q]
    BY <1>02, <1>3 DEF Evict
  <2> QED BY <1>01, <1>02, <1>3, <2>1 DEF TypeOK, Evict
<1>4. ASSUME NEW r \in Relays, NEW p \in Partitions, Assign(r, p) PROVE RelayExact(q)'
  <2>1. CASE q = r
    BY <1>0, <1>4, <2>1, AssignExact
  <2>2. CASE q # r
    <3>1. p \notin assigned[q]
      BY <1>02, <1>4, RelayAssumption DEF Assign
    <3> QED BY <1>01, <1>02, <1>4, <2>2, <3>1 DEF TypeOK, Assign
  <2> QED BY <2>1, <2>2
<1>5. ASSUME NEW r \in Relays, NEW p \in Partitions, Recv(r, p) PROVE RelayExact(q)'
  <2>1. CASE q = r
    BY <1>0, <1>5, <2>1, RecvExact
  <2>2. CASE q # r
    BY <1>01, <1>5, <2>2 DEF TypeOK, Recv
  <2> QED BY <2>1, <2>2
<1>6. ASSUME NEW r \in Relays, Begin(r) PROVE RelayExact(q)'
  BY <1>01, <1>6 DEF Begin, group
<1>7. ASSUME NEW r \in Relays, Enqueue(r) PROVE RelayExact(q)'
  <2>1. CASE q = r
    BY <1>0, <1>7, <2>1, EnqueueExact
  <2>2. CASE q # r
    <3>1. txn'[q] = txn[q] /\ done'[q] = done[q]
      BY <1>7, <2>2 DEF TypeOK, Enqueue
    <3> QED BY <1>01, <1>7, <2>2, <3>1 DEF Enqueue, group
  <2> QED BY <2>1, <2>2
<1>8. ASSUME NEW r \in Relays, SendOffsets(r) PROVE RelayExact(q)'
  <2>1. ~stale[r]
    BY <1>0 DEF RelayExact
  <2> QED BY <1>01, <1>8, <2>1 DEF SendOffsets, group
<1>9. ASSUME NEW r \in Relays, Commit(r) PROVE RelayExact(q)'
  <2>1. CASE q = r
    BY <1>0, <1>9, <2>1, CommitLeaves
  <2>2. CASE q # r
    <3>1. \A p \in assigned[q] : p \in Partitions \ assigned[r]
      BY <1>0, <1>02, <2>2 DEF RelayExact
    <3>2. \A p \in assigned[q] : committed'[p] = committed[p]
      BY <1>0, <1>9, <3>1, CommitElsewhere
    <3> QED BY <1>01, <1>9, <2>2, <3>2 DEF TypeOK, Commit, group
  <2> QED BY <2>1, <2>2
<1>10. ASSUME UNCHANGED vars PROVE RelayExact(q)'
  BY <1>01, <1>10 DEF vars, group
<1> HIDE DEF Same
<1> QED
  BY <1>1, <1>2, <1>3, <1>4, <1>5, <1>6, <1>7, <1>8, <1>9, <1>10, NoFault
  DEF Next, Loop, Membership, Faults, Idle

\* A commit delivers, in every partition, the run up to the relay's position.
LEMMA CommitDelivers ==
    ASSUME TypeOK, TxnInv, ExactInv, NEW r \in Relays, Commit(r), NEW p \in Partitions
    PROVE  \E n \in Nat :
              /\ committed'[p] = committed[p] + n
              /\ Relayed(out', p) = Relayed(out, p) \o Run(committed[p], n)
<1>1. RelayExact(r) /\ committed[p] \in Nat
  BY DEF ExactInv, TypeOK, Offsets
<1>2. Relayed(out', p) = Relayed(out, p) \o Relayed(txn[r], p)
  <2>1. out \in Seq(Message) /\ txn[r] \in Seq(Message) /\ out' = out \o txn[r]
    BY DEF TypeOK, Commit
  <2> QED BY <2>1, RelayedConcat
<1>3. CASE p \in assigned[r]
  <2> DEFINE n == position[r][p] - committed[p]
  <2>1. /\ committed'[p] = position[r][p]
        /\ Relayed(txn[r], p) = Run(committed[p], position[r][p] - committed[p])
    BY <1>1, <1>3, CommitExact
  <2>2. n \in Nat /\ position[r][p] = committed[p] + n
    BY <1>1, <1>3 DEF TypeOK, Offsets, RelayExact
  <2> QED BY <1>2, <2>1, <2>2
<1>4. CASE p \notin assigned[r]
  <2>1. committed'[p] = committed[p] /\ Relayed(txn[r], p) = <<>>
    BY <1>1, <1>4, CommitElsewhere
  <2>2. Run(committed[p], 0) = <<>> /\ committed[p] + 0 = committed[p]
    BY <1>1 DEF Run
  <2> QED BY <1>2, <2>1, <2>2
<1> QED BY <1>3, <1>4

\* The invariant of the exactly-once pipe is kept.
LEMMA ExactInvStep ==
    ASSUME TypeOK, TxnInv, ExactInv, [Next]_vars
    PROVE  ExactInv'
<1>1. \A r \in Relays : RelayExact(r)'
  BY ExactStep
<1>2. budget'.revokes = 0 /\ budget'.expels = 0 /\ budget'.aborts = 0
  <2>1. UNCHANGED budget \/ Spend("restarts")
    BY NoFault DEF Next, Loop, Membership, Faults, Idle, vars, group, Start, Exit, Evict, Assign,
       Recv, Begin, Enqueue, SendOffsets, Commit
  <2>2. CASE Spend("restarts")
    <3> DEFINE x == [budget EXCEPT !.restarts = @ - 1]
    <3>1. budget \in Budget /\ budget.restarts > 0
      BY <2>2, Zenon DEF TypeOK, Spend
    <3>2. x \in [restarts : Int, revokes : Nat, expels : Nat, aborts : Nat, faults : Nat]
          /\ x.revokes = budget.revokes /\ x.expels = budget.expels /\ x.aborts = budget.aborts
      BY <3>1 DEF Budget
    <3>3. budget' = [x EXCEPT !.faults = @ - 1]
      BY <2>2, Zenon DEF Spend
    <3> HIDE DEF x
    <3> QED BY <3>2, <3>3 DEF ExactInv
  <2> QED BY <2>1, <2>2 DEF ExactInv
<1>3. ASSUME NEW p \in Partitions PROVE Relayed(out', p) = Run(1, committed'[p] - 1)
  <2>0. Relayed(out, p) = Run(1, committed[p] - 1) /\ committed[p] \in Nat /\ committed[p] >= 1
    BY DEF ExactInv, TypeOK, Offsets
  <2>1. ASSUME NEW r \in Relays, Commit(r) PROVE Relayed(out', p) = Run(1, committed'[p] - 1)
    <3>1. PICK n \in Nat : /\ committed'[p] = committed[p] + n
                           /\ Relayed(out', p) = Relayed(out, p) \o Run(committed[p], n)
      BY <2>1, CommitDelivers
    <3> QED BY <2>0, <3>1, RunFacts
  <2>2. ASSUME \A r \in Relays : ~Commit(r) PROVE out' = out /\ committed' = committed
    BY <2>2 DEF Next, Loop, Membership, Faults, Idle, vars, group, Start, Exit, Evict, Assign,
       Revoke, Expel, Rejoin, Recv, Begin, Enqueue, Abort, Aborted, SendOffsets
  <2> QED BY <2>0, <2>1, <2>2
<1> QED BY <1>1, <1>2, <1>3 DEF ExactInv

\* As long as no partition is taken from a live relay and no transaction is
\* aborted, the relays are the exactly-once pipe (Relay::run, process_batch):
\* any number of them, over any logs, through any number of crashes, restarts
\* and takeovers of a dead relay's partitions.
THEOREM RelaysImplementPipe ==
    ASSUME MaxRevokes = 0, MaxExpels = 0, MaxAborts = 0
    PROVE  Spec => RelaysExactlyOnce
<1> DEFINE delivered == [p \in Partitions |-> Delivered(p)]
<1>1. Init => P!Init /\ ExactInv
  <2> SUFFICES ASSUME Init PROVE P!Init /\ ExactInv
    OBVIOUS
  <2>1. \A p : Relayed(<<>>, p) = <<>>
    BY RelayedNone
  <2>2. Run(1, 1 - 1) = <<>>
    BY DEF Run
  <2>3. P!Init
    BY <2>1 DEF Init, P!Init, Delivered
  <2>4. \A r \in Relays : RelayExact(r)
    BY <2>1 DEF Init, RelayExact, BatchIsRun
  <2> QED BY <2>1, <2>2, <2>3, <2>4 DEF Init, ExactInv
<1>2. TypeOK /\ TxnInv /\ ExactInv /\ [Next]_vars => ExactInv'
  BY ExactInvStep
<1>3. TypeOK /\ TxnInv /\ OutInv' /\ ExactInv /\ [Next]_vars
        => [P!Advance]_<<delivered, committed>>
  <2> SUFFICES ASSUME TypeOK, TxnInv, OutInv', ExactInv, [Next]_vars
               PROVE  P!Advance \/ (delivered' = delivered /\ committed' = committed)
    OBVIOUS
  <2>1. ASSUME NEW r \in Relays, Commit(r)
        PROVE  P!Advance \/ (delivered' = delivered /\ committed' = committed)
    <3> DEFINE n == [p \in Partitions |-> committed'[p] - committed[p]]
    <3>1. ASSUME NEW p \in Partitions
          PROVE  /\ n[p] \in Nat /\ committed'[p] = committed[p] + n[p]
                 /\ Relayed(out', p) = Relayed(out, p) \o Run(committed[p], n[p])
                 /\ n[p] \in 0..P!Left(p)
      <4>1. PICK k \in Nat : /\ committed'[p] = committed[p] + k
                             /\ Relayed(out', p) = Relayed(out, p) \o Run(committed[p], k)
        BY <2>1, CommitDelivers
      <4>2. committed[p] \in Nat /\ Len(Log[p]) \in Nat /\ committed[p] >= 1
        BY RelayAssumption DEF TypeOK, Offsets
      <4>3. n[p] = k
        BY <4>1, <4>2
      <4>4. k \in 0..P!Left(p)
        BY <4>1, <4>2 DEF OutInv, P!Left
      <4> QED BY <4>1, <4>3, <4>4
    <3>2. CASE \E p \in Partitions : n[p] > 0
      <4>1. n \in [Partitions -> UNION {0..P!Left(p) : p \in Partitions}]
        BY <3>1
      <4>2. \A p \in Partitions : n[p] <= P!Left(p)
        BY <3>1
      <4>3. committed' = [p \in Partitions |-> committed[p] + n[p]]
        <5>1. committed' = [p \in Partitions |-> committed'[p]]
          BY <2>1 DEF Commit
        <5> HIDE DEF n
        <5> QED BY <3>1, <5>1
      <4>4. delivered' = [p \in Partitions |->
               delivered[p] \o [i \in 1..n[p] |-> committed[p] + i - 1]]
        <5> HIDE DEF n
        <5> QED BY <3>1 DEF Delivered, Run
      <4> HIDE DEF n, delivered
      <4>5. P!Advance
        BY <3>2, <4>1, <4>2, <4>3, <4>4 DEF P!Advance, delivered
      <4> QED BY <4>5
    <3>3. CASE \A p \in Partitions : ~(n[p] > 0)
      <4>1. ASSUME NEW p \in Partitions
            PROVE  committed'[p] = committed[p] /\ Relayed(out', p) = Relayed(out, p)
        <5>1. n[p] = 0 /\ committed[p] \in Nat /\ Relayed(out, p) \in Seq(Offsets)
          BY <3>1, <3>3, RelayedType DEF TypeOK, Offsets
        <5>2. Run(committed[p], 0) = <<>>
          BY DEF Run
        <5> HIDE DEF n
        <5> QED BY <3>1, <5>1, <5>2
      <4>2. committed = [p \in Partitions |-> committed[p]]
            /\ committed' = [p \in Partitions |-> committed'[p]]
        BY <2>1 DEF TypeOK, Commit
      <4> QED BY <4>1, <4>2 DEF Delivered
    <3> QED BY <3>2, <3>3
  <2>2. ASSUME \A r \in Relays : ~Commit(r) PROVE out' = out /\ committed' = committed
    BY <2>2 DEF Next, Loop, Membership, Faults, Idle, vars, group, Start, Exit, Evict, Assign,
       Revoke, Expel, Rejoin, Recv, Begin, Enqueue, Abort, Aborted, SendOffsets
  <2> QED BY <2>1, <2>2 DEF Delivered
<1> QED BY <1>1, <1>2, <1>3, RelayInvariant, PTL DEF Spec, RelaysExactlyOnce, P!Spec

=============================================================================
