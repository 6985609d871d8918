-------------------------------- MODULE Relay --------------------------------
(***************************************************************************)
(* The transactional relay: one Kafka transaction per batch carries the     *)
(* batch's tagged, quarantine and discovery messages and its source offsets.*)
(*                                                                          *)
(*   deblob-kafka/src/relay.rs   Relay::run, process_batch,                 *)
(*                               run_transaction_body, pre_rebalance        *)
(*                                                                          *)
(* Several relays of one consumer group, each with a transactional id of    *)
(* its own, may crash and restart; the group coordinator moves partitions   *)
(* between them.  Consumer callbacks run inside consumer.recv(), so a relay *)
(* that is inside process_batch hears of a rebalance only afterwards.       *)
(*                                                                          *)
(* How a record is classified is left open here (see Tagging); what matters *)
(* is where its messages go.                                                *)
(***************************************************************************)
EXTENDS Naturals, Sequences, FiniteSets

CONSTANTS
    Relays,
    Partitions,
    Log,            \* by partition: kinds of record, in offset order from 1
    MaxBatch,       \* max_batch_records
    MaxRestarts,    \* bound: ends of a relay process
    MaxRevokes,     \* bound: partitions taken from a live member
    MaxExpels,      \* bound: live members the coordinator drops
    MaxAborts,      \* bound: transport errors that abort a transaction
    MaxFaults,      \* bound: all of these together
    NoOne           \* the owner of an unassigned partition

Kinds == {"record", "malformed", "tombstone", "oversize"}

ASSUME RelayAssumption ==
    /\ Log \in [Partitions -> Seq(Kinds)]
    /\ MaxBatch \in Nat
    /\ MaxRestarts \in Nat /\ MaxRevokes \in Nat
    /\ MaxExpels \in Nat /\ MaxAborts \in Nat /\ MaxFaults \in Nat
    /\ NoOne \notin Relays

VARIABLES
    out,        \* messages of committed transactions, in order
    committed,  \* the group's committed offset of each partition
    owner,      \* the coordinator's assignment
    phase,      \* where each relay is in its loop
    assigned,   \* the partitions it believes it has
    position,   \* the next offset its consumer will deliver
    batch,      \* <<partition, offset>> of the records accumulated
    done,       \* how many of them have been enqueued
    txn,        \* messages of its open transaction
    stale,      \* its group generation has been superseded
    budget      \* what is left of the bounds

group == <<owner, assigned, position, stale>>
vars == <<out, committed, group, phase, batch, done, txn, budget>>

Init ==
    /\ out = <<>>
    /\ committed = [p \in Partitions |-> 1]
    /\ owner = [p \in Partitions |-> NoOne]
    /\ phase = [r \in Relays |-> "down"]
    /\ assigned = [r \in Relays |-> {}]
    /\ position = [r \in Relays |-> [p \in Partitions |-> 1]]
    /\ batch = [r \in Relays |-> <<>>]
    /\ done = [r \in Relays |-> 0]
    /\ txn = [r \in Relays |-> <<>>]
    /\ stale = [r \in Relays |-> FALSE]
    /\ budget = [restarts |-> MaxRestarts, revokes |-> MaxRevokes,
                 expels |-> MaxExpels, aborts |-> MaxAborts, faults |-> MaxFaults]

Spend(b) ==
    /\ budget[b] > 0 /\ budget.faults > 0
    /\ budget' = [budget EXCEPT ![b] = @ - 1, !.faults = @ - 1]

-----------------------------------------------------------------------------
(* The process and its group membership.                                    *)

Stopped == {"down", "failed"}

\* init_transactions and subscribe; partitions come later.
Start(r) ==
    /\ phase[r] \in Stopped
    /\ phase' = [phase EXCEPT ![r] = "recv"]
    /\ stale' = [stale EXCEPT ![r] = FALSE]
    /\ UNCHANGED <<out, committed, owner, assigned, position, batch, done, txn, budget>>

\* The process ends and is "down", or run() returns an error (of recv, begin,
\* abort or commit) and has "failed", which serve() does not notice before it
\* is shut down.  The transaction that was open is never committed.
Exit(r, how) ==
    /\ phase[r] \notin Stopped
    /\ Spend("restarts")
    /\ phase' = [phase EXCEPT ![r] = how]
    /\ assigned' = [assigned EXCEPT ![r] = {}]
    /\ batch' = [batch EXCEPT ![r] = <<>>]
    /\ done' = [done EXCEPT ![r] = 0]
    /\ txn' = [txn EXCEPT ![r] = <<>>]
    /\ UNCHANGED <<out, committed, owner, position, stale>>

\* The coordinator misses the heartbeats of a member that is gone.
Evict(p) ==
    /\ owner[p] # NoOne
    /\ p \notin assigned[owner[p]]
    /\ owner' = [owner EXCEPT ![p] = NoOne]
    /\ UNCHANGED <<out, committed, assigned, position, stale, phase, batch, done, txn, budget>>

\* Mutation: the consumer picks up where it last was.
Bug_Assign(r, p) ==
    /\ phase[r] = "recv"
    /\ ~stale[r]
    /\ owner[p] = NoOne
    /\ owner' = [owner EXCEPT ![p] = r]
    /\ assigned' = [assigned EXCEPT ![r] = @ \union {p}]
    /\ UNCHANGED <<out, committed, position, stale, phase, batch, done, txn, budget>>

\* An assignment resumes from the committed offset.
Assign(r, p) ==
    /\ phase[r] = "recv"
    /\ ~stale[r]
    /\ owner[p] = NoOne
    /\ owner' = [owner EXCEPT ![p] = r]
    /\ assigned' = [assigned EXCEPT ![r] = @ \union {p}]
    /\ position' = [position EXCEPT ![r][p] = committed[p]]
    /\ UNCHANGED <<out, committed, stale, phase, batch, done, txn, budget>>

\* pre_rebalance: called from recv, where transaction_open is false, so it
\* returns; what the batch already holds of the partition stays there.
Revoke(r, p) ==
    /\ phase[r] = "recv"
    /\ ~stale[r]
    /\ p \in assigned[r]
    /\ Spend("revokes")
    /\ owner' = [owner EXCEPT ![p] = NoOne]
    /\ assigned' = [assigned EXCEPT ![r] = @ \ {p}]
    /\ UNCHANGED <<out, committed, position, stale, phase, batch, done, txn>>

\* The coordinator drops a live member that it has not heard from in time.
Expel(r) ==
    /\ phase[r] \notin Stopped
    /\ ~stale[r]
    /\ Spend("expels")
    /\ stale' = [stale EXCEPT ![r] = TRUE]
    /\ owner' = [p \in Partitions |-> IF owner[p] = r THEN NoOne ELSE owner[p]]
    /\ UNCHANGED <<out, committed, assigned, position, phase, batch, done, txn>>

\* The relay finds out, in recv, and joins anew.
Rejoin(r) ==
    /\ phase[r] = "recv"
    /\ stale[r]
    /\ stale' = [stale EXCEPT ![r] = FALSE]
    /\ assigned' = [assigned EXCEPT ![r] = {}]
    /\ UNCHANGED <<out, committed, owner, position, phase, batch, done, txn, budget>>

-----------------------------------------------------------------------------
(* The loop.                                                                *)

\* max_batch_records; the bytes a batch may hold and how long it may linger
\* only end it earlier.
Full(r) == Len(batch[r]) >= MaxBatch

Recv(r, p) ==
    /\ phase[r] = "recv"
    /\ ~Full(r)
    /\ p \in assigned[r]
    /\ position[r][p] <= Len(Log[p])
    /\ batch' = [batch EXCEPT ![r] = Append(@, <<p, position[r][p]>>)]
    /\ position' = [position EXCEPT ![r][p] = @ + 1]
    /\ UNCHANGED <<out, committed, owner, assigned, stale, phase, done, txn, budget>>

\* Mutation: only a full batch is processed; it never lingers.
Bug_Begin(r) ==
    /\ phase[r] = "recv"
    /\ Full(r)
    /\ phase' = [phase EXCEPT ![r] = "produce"]
    /\ UNCHANGED <<out, committed, group, batch, done, txn, budget>>

\* The batch is full, has enough bytes, has lingered, or is flushed by a
\* shutdown: begin_transaction.
Begin(r) ==
    /\ phase[r] = "recv"
    /\ batch[r] # <<>>
    /\ phase' = [phase EXCEPT ![r] = "produce"]
    /\ UNCHANGED <<out, committed, group, batch, done, txn, budget>>

\* Where run_transaction_body sends a record, in order.  A well-formed payload
\* is known, unresolved, or provisional with evidence too large to produce; or
\* it is provisional and comes with its evidence.
Routes(kind) ==
    CASE kind = "tombstone" -> {<<"tagged">>}
      [] kind \in {"oversize", "malformed"} -> {<<"quarantine">>}
      [] kind = "record" -> {<<"tagged">>, <<"discovery", "tagged">>}

Current(r) == batch[r][done[r] + 1]

Enqueue(r) ==
    /\ phase[r] = "produce"
    /\ done[r] < Len(batch[r])
    /\ LET p == Current(r)[1]
           o == Current(r)[2]
       IN  \E route \in Routes(Log[p][o]) :
              txn' = [txn EXCEPT ![r] = @ \o
                        [i \in 1..Len(route) |->
                            [topic |-> route[i], partition |-> p, offset |-> o]]]
    /\ done' = [done EXCEPT ![r] = @ + 1]
    /\ UNCHANGED <<out, committed, group, phase, batch, budget>>

Aborted(r) ==
    /\ phase' = [phase EXCEPT ![r] = "recv"]
    /\ batch' = [batch EXCEPT ![r] = <<>>]
    /\ done' = [done EXCEPT ![r] = 0]
    /\ txn' = [txn EXCEPT ![r] = <<>>]
    /\ UNCHANGED <<out, committed, group>>

\* An enqueue, a delivery or the sending of the offsets fails: abort, and on
\* to the next batch.
Abort(r) ==
    /\ phase[r] = "produce"
    /\ Spend("aborts")
    /\ Aborted(r)

\* Every delivery is confirmed; send_offsets_to_transaction is accepted from a
\* member of the current generation only.
SendOffsets(r) ==
    /\ phase[r] = "produce"
    /\ done[r] = Len(batch[r])
    /\ IF stale[r]
         THEN Aborted(r)
         ELSE /\ phase' = [phase EXCEPT ![r] = "commit"]
              /\ UNCHANGED <<out, committed, group, batch, done, txn>>
    /\ UNCHANGED budget

Touched(r) == {batch[r][i][1] : i \in 1..Len(batch[r])}

\* Mutation: the offset of the batch's last record, for every partition.
Bug_NextOffset(r, p) == batch[r][Len(batch[r])][2] + 1

\* max_offsets: one past the highest offset of the partition in the batch.
NextOffset(r, p) ==
    LET offsets == {batch[r][i][2] : i \in {j \in 1..Len(batch[r]) : batch[r][j][1] = p}}
    IN  1 + CHOOSE o \in offsets : \A x \in offsets : x <= o

Commit(r) ==
    /\ phase[r] = "commit"
    /\ out' = out \o txn[r]
    /\ committed' = [p \in Partitions |->
                        IF p \in Touched(r) THEN NextOffset(r, p) ELSE committed[p]]
    /\ phase' = [phase EXCEPT ![r] = "recv"]
    /\ batch' = [batch EXCEPT ![r] = <<>>]
    /\ done' = [done EXCEPT ![r] = 0]
    /\ txn' = [txn EXCEPT ![r] = <<>>]
    /\ UNCHANGED <<group, budget>>

-----------------------------------------------------------------------------

Loop(r) ==
    \/ \E p \in Partitions : Recv(r, p)
    \/ Begin(r)
    \/ Enqueue(r)
    \/ SendOffsets(r)
    \/ Commit(r)

Membership(r) ==
    \/ Start(r)
    \/ Rejoin(r)
    \/ \E p \in Partitions : Assign(r, p)

Faults(r) ==
    \/ \E how \in Stopped : Exit(r, how)
    \/ Abort(r)
    \/ Expel(r)
    \/ \E p \in Partitions : Revoke(r, p)

AllRelayed == \A p \in Partitions : committed[p] = Len(Log[p]) + 1

\* Every relay blocks in recv for the first record of a batch.
Idle ==
    /\ \A r \in Relays : phase[r] = "recv" /\ batch[r] = <<>>
    /\ UNCHANGED vars

Next ==
    \/ \E r \in Relays : Loop(r) \/ Membership(r) \/ Faults(r)
    \/ \E p \in Partitions : Evict(p)
    \/ Idle

Spec == Init /\ [][Next]_vars

\* A running relay keeps running, a process that ended is started again, and
\* the coordinator hands every free partition to somebody.  Nothing restarts a
\* relay that failed inside a process that lives on.
FairSpec ==
    /\ Spec
    /\ \A r \in Relays : /\ WF_vars(Loop(r)) /\ WF_vars(Rejoin(r))
                         /\ WF_vars(phase[r] = "down" /\ Start(r))
    /\ \A p \in Partitions : WF_vars(Evict(p))
                               /\ WF_vars(\E r \in Relays : Assign(r, p))

-----------------------------------------------------------------------------
(* Properties.                                                              *)

Outputs == {"tagged", "quarantine"}

\* Record o of partition p has come out, tagged or quarantined.
Visible(p, o) ==
    \E i \in 1..Len(out) :
        out[i].topic \in Outputs /\ out[i].partition = p /\ out[i].offset = o

\* The committed offset of p is past them and they have not come out.
Skipped(p) == {o \in 1..committed[p] - 1 : ~Visible(p, o)}

\* The records of p that come out with the messages ms, in order.
Relayed(ms, p) ==
    LET upto[n \in 0..Len(ms)] ==
            IF n = 0 THEN <<>>
            ELSE IF ms[n].topic \in Outputs /\ ms[n].partition = p
                 THEN Append(upto[n - 1], ms[n].offset)
                 ELSE upto[n - 1]
    IN  upto[Len(ms)]

Delivered(p) == Relayed(out, p)

P == INSTANCE Pipe WITH delivered <- [p \in Partitions |-> Delivered(p)]

\* process_batch sends the offsets inside the transaction that carries the
\* messages: the offset it commits is one past a record it made visible, under
\* every fault.
CommitIsVisible == \A p \in Partitions : committed[p] > 1 => Visible(p, committed[p] - 1)

\* The committed offsets never run ahead of what is visible, through crashes,
\* restarts, takeovers and revocations in the middle of a batch, as long as no
\* transaction has been aborted: the loop goes on behind an aborted batch.
NoRecordSkipped ==
    budget.aborts = MaxAborts /\ budget.expels = MaxExpels
        => \A p \in Partitions : Skipped(p) = {}

\* A discovery message comes out with its record's tag or not at all, however
\* the transaction that carried both ends.
EvidenceIsTagged ==
    \A i \in 1..Len(out) : out[i].topic = "discovery" =>
        i < Len(out) /\ out[i + 1] = [out[i] EXCEPT !.topic = "tagged"]

\* A batch's transaction is all or nothing and its offsets are its own: under
\* any two faults the committed offsets, the output and the evidence agree.
TransactionsAreWhole == CommitIsVisible /\ NoRecordSkipped /\ EvidenceIsTagged

\* As long as no partition is taken from a live relay and no transaction is
\* aborted, the group of relays is an exactly-once pipe: crashes, restarts and
\* the takeover of a dead relay's partitions neither repeat, lose nor reorder.
RelaysExactlyOnce == P!Spec

\* Every record is relayed in the end, unless no relay is left that has not
\* failed: takeovers and restarts leave no partition without a relay and no
\* batch waiting.
EverythingRelayed == <>[]AllRelayed \/ <>[](\A r \in Relays : phase[r] = "failed")

-----------------------------------------------------------------------------
(* What the repository says, and the code does not do.                      *)

\* The batching design says of an error in the middle of a batch: "abort the
\* whole transaction -> the whole batch is reprocessed".  So no record of it is
\* left behind either.
AbortedIsReprocessed == \A p \in Partitions : Skipped(p) = {}

=============================================================================
