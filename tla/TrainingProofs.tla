-------------------------- MODULE TrainingProofs --------------------------
(***************************************************************************)
(* Proofs about governed model versions, about the harness that trains     *)
(* them round by round and about the synthetic corpus, for any number of   *)
(* models, controllers, examples, rounds and families: what an export lets *)
(* through, that only proven models are served whatever interleaves, that  *)
(* versions move only forward, that the trajectory is measured on labels   *)
(* no model had seen, and that the corpus is what a run may be trained on. *)
(***************************************************************************)
EXTENDS Models, Continual, Corpus, NatFacts, FiniteSetTheorems, TLAPS

-----------------------------------------------------------------------------
(* What an export lets through.                                            *)

\* The property of CleanlyTrained, of a set of examples and the actors to be left out.
Clean(t, out) ==
  /\ \A e \in t : ~IsSafetySuite(e) /\ e.actor \notin out
  /\ \A e, f \in t : e.cluster = f.cluster => e = f \/ e.cluster = NoCluster
  /\ \A e \in t : Cardinality({f \in t : SameSource(e, f)}) <= ExportCap

\* The greatest position of its source among those kept has fewer than ExportCap
\* before it: the caps hold of the positions.
LEMMA CapsHold ==
  ASSUME NEW n \in Nat, NEW I \in SUBSET (1..n), NEW st, NEW e
  PROVE  Cardinality({i \in ApplyCaps(st, I) : SameSource(e, st[i])}) <= ExportCap
         /\ IsFiniteSet({i \in ApplyCaps(st, I) : SameSource(e, st[i])})
<1>1. PICK J : J = {i \in ApplyCaps(st, I) : SameSource(e, st[i])}
  OBVIOUS
<1>2. J \subseteq I /\ I \subseteq 1..n /\ J \subseteq Nat
  <2>1. J \subseteq I
    BY <1>1 DEF ApplyCaps
  <2> QED BY <2>1
<1>3. IsFiniteSet(I) /\ IsFiniteSet(J) /\ Cardinality(J) \in Nat
  <2>1. IsFiniteSet(1..n)
    BY FS_Interval
  <2>2. IsFiniteSet(I) /\ IsFiniteSet(J)
    BY <1>2, <2>1, FS_Subset
  <2> QED BY <2>2, FS_CardinalityType
<1>4. CASE J = {}
  BY <1>1, <1>3, <1>4, FS_EmptySet, CapIsNatural
<1>5. CASE J # {}
  <2>1. PICK m \in J : \A j \in J : j <= m
    <3>1. \A j \in J : j <= n
      BY <1>2
    <3> QED BY <1>2, <1>5, <3>1, NatMax
  <2>2. PICK B : B = {j \in I : j < m /\ SameSource(st[j], st[m])}
    OBVIOUS
  <2>3. Cardinality(B) < ExportCap
    BY <1>1, <2>1, <2>2 DEF ApplyCaps
  <2>4. J \ {m} \subseteq B
    <3> SUFFICES ASSUME NEW j \in J, j # m PROVE j \in B
      OBVIOUS
    <3>1. j <= m /\ j \in Nat /\ m \in Nat /\ j \in I
      BY <1>2, <2>1
    <3>2. SameSource(st[j], st[m])
      BY <1>1, <2>1 DEF SameSource
    <3> QED BY <2>2, <3>1, <3>2
  <2>5. IsFiniteSet(B)
    BY <1>3, <2>2, FS_Subset
  <2>6. Cardinality(J \ {m}) <= Cardinality(B) /\ Cardinality(B) \in Nat
    BY <2>4, <2>5, FS_Subset, FS_CardinalityType
  <2>7. Cardinality(J \ {m}) = Cardinality(J) - 1
    BY <1>3, <2>1, FS_RemoveElement
  <2>8. Cardinality(J) <= ExportCap
    BY <1>3, <2>3, <2>6, <2>7, CapIsNatural
  <2> QED BY <1>1, <1>3, <2>8
<1> QED BY <1>4, <1>5

\* The lines that export_jsonl writes of a stream.
Lines(st, out) == {st[i] : i \in ExportJsonl(st, out, {})}

\* export_jsonl of a stream of any length: no safety suite, nobody who was
\* quarantined, one of a cluster, and the caps.
LEMMA ExportIsClean ==
  ASSUME NEW E, NEW st \in Seq(E), NEW barred, NEW out, barred \subseteq out
  PROVE  Clean(Lines(st, out), barred) /\ Lines(st, out) \subseteq E
<1>1. PICK n \in Nat : n = Len(st) /\ DOMAIN st = 1..n /\ \A i \in 1..n : st[i] \in E
  OBVIOUS
<1>2. PICK A : A = {i \in Unquarantined(st, out) : ~IsSafetySuite(st[i])}
  OBVIOUS
<1>3. PICK I : I = DedupByCluster(st, A)
  OBVIOUS
<1>4. PICK K : K = ApplyCaps(st, I)
  OBVIOUS
<1>5. ExportJsonl(st, out, {}) = K
  <2>1. Filtered(st, out, TRUE) = I
    BY <1>2, <1>3 DEF Filtered
  <2> QED BY <1>4, <2>1 DEF ExportJsonl
<1>6. K \subseteq I /\ I \subseteq A /\ A \subseteq 1..n
  BY <1>1, <1>2, <1>3, <1>4 DEF ApplyCaps, DedupByCluster, Unquarantined
<1>7. PICK t : t = {st[i] : i \in K}
  OBVIOUS
<1>8. \A e \in t : ~IsSafetySuite(e) /\ e.actor \notin barred
  BY <1>2, <1>6, <1>7 DEF Unquarantined
<1>9. ASSUME NEW e \in t, NEW f \in t, e.cluster = f.cluster PROVE e = f \/ e.cluster = NoCluster
  <2>1. PICK i \in K, j \in K : e = st[i] /\ f = st[j]
    BY <1>7
  <2>2. i \in Nat /\ j \in Nat /\ i \in I /\ j \in I /\ i \in A /\ j \in A
    BY <1>6
  <2>3. CASE i < j
    BY <1>3, <1>9, <2>1, <2>2, <2>3 DEF DedupByCluster
  <2>4. CASE j < i
    BY <1>3, <1>9, <2>1, <2>2, <2>4 DEF DedupByCluster
  <2>5. CASE i = j
    BY <2>1, <2>5
  <2> QED BY <2>2, <2>3, <2>4, <2>5
<1>10. ASSUME NEW e \in t PROVE Cardinality({f \in t : SameSource(e, f)}) <= ExportCap
  <2>1. PICK J, F : J = {i \in K : SameSource(e, st[i])} /\ F = {f \in t : SameSource(e, f)}
    OBVIOUS
  <2>2. Cardinality(J) <= ExportCap /\ IsFiniteSet(J)
    <3>1. I \in SUBSET (1..n)
      BY <1>6
    <3> QED BY <1>4, <2>1, <3>1, CapsHold
  <2>3. [i \in J |-> st[i]] \in Surjection(J, F)
    <3>1. \A i \in J : st[i] \in F
      BY <1>7, <2>1
    <3>2. \A f \in F : \E i \in J : st[i] = f
      BY <1>7, <2>1
    <3> QED BY <3>1, <3>2 DEF Surjection
  <2>4. IsFiniteSet(F) /\ Cardinality(F) <= Cardinality(J)
    BY <2>2, <2>3, FS_Surjection
  <2>5. Cardinality(F) \in Nat /\ Cardinality(J) \in Nat
    BY <2>2, <2>4, FS_CardinalityType
  <2> QED BY <2>1, <2>2, <2>4, <2>5, CapIsNatural
<1>11. t \subseteq E
  BY <1>1, <1>6, <1>7
<1> QED BY <1>5, <1>7, <1>8, <1>9, <1>10, <1>11 DEF Clean, Lines

-----------------------------------------------------------------------------
(* Governed model versions.                                                *)

Captured == Examples \cup {Recorded[i] : i \in DOMAIN Recorded}
ModelStates == {"none", "candidate", "shadow_candidate", "rejected", "active", "rolled_back"}
MaybeModel == ModelIds \cup {NoModel}
MaybeEvidence == Evidence \cup {NoEvidence}
Version == [state : ModelStates, evidence : MaybeEvidence, since : Nat,
            trained : SUBSET Captured, barred : SUBSET Actors]
Run == [pc : {"idle", "quarantined", "export", "train", "exists", "register", "attach", "compare", "decide"},
        id : MaybeModel, evidence : MaybeEvidence, actors : SUBSET Actors, barred : SUBSET Actors,
        lines : SUBSET Captured, copy : Version, against : MaybeEvidence]
Holding == [pc : {"idle", "active", "write", "move", "prior", "version", "mark", "restore"},
             id : MaybeModel, prior : MaybeModel, copy : Version]

ModelTypes ==
  /\ stream \in Seq(Captured) /\ quarantined \in SUBSET Actors
  /\ models \in [ModelIds -> Version] /\ active \in MaybeModel /\ prior \in MaybeModel
  /\ trainer \in Run /\ ctl \in [Controllers -> Holding]
  /\ now \in Nat /\ faults \in Nat

Promoted == {"active", "rolled_back"}
Shadowed == {"shadow_candidate"} \cup Promoted

\* What a version's state says of its evidence, its time in shadow and its training.
VersionSound(v) ==
  /\ v.state = "none" => v.evidence = NoEvidence
  /\ v.state = "candidate" => v.evidence = NoEvidence
  /\ v.state \in Shadowed => v.evidence \in Passes /\ v.since <= now
  /\ v.state \in Promoted => now - v.since >= MinShadowHold
  /\ Clean(v.trained, v.barred)

WasPromoted(m) == m \in ModelIds /\ models[m].state \in Promoted

\* A copy differs from the record it was read from in the state at most.
CopyOf(x, m) ==
  /\ x.evidence = models[m].evidence /\ x.since = models[m].since
  /\ x.trained = models[m].trained /\ x.barred = models[m].barred

\* What a controller holds: once in shadow a version stays there or goes on, and
\* nothing of it changes but its state.
ControlSound(r) ==
  /\ r.pc \in {"active", "write"} =>
       /\ r.id \in ModelIds /\ models[r.id].state \in Shadowed
       /\ CopyOf(r.copy, r.id) /\ now - models[r.id].since >= MinShadowHold
  /\ r.pc \in {"move", "version", "mark"} => WasPromoted(r.id)
  /\ r.pc = "prior" => r.id = NoModel \/ WasPromoted(r.id)
  /\ r.pc \in {"write", "move"} => r.prior = NoModel \/ WasPromoted(r.prior)
  /\ r.pc \in {"version", "mark", "restore"} => WasPromoted(r.prior)
  /\ r.pc = "mark" => CopyOf(r.copy, r.id)

\* What the run holds: the version it is about to create does not exist, the one it
\* has created is touched by nobody else, and its lines are clean.
RunSound(t) ==
  /\ t.barred \subseteq quarantined
  /\ t.pc = "export" => t.barred \subseteq t.actors
  /\ t.pc \in {"train", "exists", "register"} => Clean(t.lines, t.barred)
  /\ t.pc \in {"exists", "register", "attach", "compare", "decide"} => t.id \in ModelIds /\ t.evidence \in Evidence
  /\ t.pc = "register" => models[t.id].state = "none"
  /\ t.pc \in {"attach", "compare", "decide"} => models[t.id].state = "candidate"
  /\ t.pc \in {"compare", "decide"} => t.copy = models[t.id]

ModelInv ==
  /\ \A m \in ModelIds : VersionSound(models[m])
  /\ active = NoModel \/ WasPromoted(active)
  /\ prior = NoModel \/ WasPromoted(prior)
  /\ \A c \in Controllers : ControlSound(ctl[c])
  /\ RunSound(trainer)

\* Nothing is a clean training set.
LEMMA NothingIsClean == ASSUME NEW out PROVE Clean({}, out)
BY DEF Clean

\* What is not there yet, and who is at rest.
LEMMA AbsentFacts ==
  /\ Absent \in Version /\ VersionSound(Absent)
  /\ Absent.state = "none" /\ Absent.evidence = NoEvidence /\ Absent.trained = {} /\ Absent.barred = {}
  /\ Idle \in Run /\ Idle.pc = "idle" /\ Idle.barred = {}
  /\ AtRest \in Holding /\ AtRest.pc = "idle" /\ AtRest.prior = NoModel
<1>1. Absent \in Version /\ Absent.state = "none" /\ Absent.evidence = NoEvidence /\ Absent.trained = {}
      /\ Absent.barred = {}
  BY DEF Absent, Version, ModelStates, MaybeEvidence
<1>2. VersionSound(Absent)
  BY <1>1, NothingIsClean DEF VersionSound, Shadowed, Promoted
<1>3. Idle \in Run /\ Idle.pc = "idle" /\ Idle.barred = {}
  BY <1>1 DEF Idle, Run, MaybeModel, MaybeEvidence
<1>4. AtRest \in Holding /\ AtRest.pc = "idle" /\ AtRest.prior = NoModel
  BY <1>1 DEF AtRest, Holding, MaybeModel
<1> QED BY <1>1, <1>2, <1>3, <1>4

\* The clock, the stream and the quarantine only grow, and records stay as they
\* are: everything that was said of them still holds.
LEMMA WorldMoves ==
  ASSUME ModelTypes, ModelInv, models' = models, active' = active, prior' = prior,
         now' \in Nat, now <= now', quarantined \subseteq quarantined'
  PROVE  /\ \A m \in ModelIds : VersionSound(models[m])'
         /\ (active = NoModel \/ WasPromoted(active))' /\ (prior = NoModel \/ WasPromoted(prior))'
         /\ \A r \in Holding : ControlSound(r) => ControlSound(r)'
         /\ \A t \in Run : RunSound(t) => RunSound(t)'
<1>1. now \in Nat /\ \A m \in ModelIds : models[m] \in Version /\ models[m].since \in Nat
  <2>1. \A m \in ModelIds : models[m] \in Version
    BY DEF ModelTypes
  <2> QED BY <2>1 DEF ModelTypes, Version
<1>2. \A m \in ModelIds : /\ models[m].since <= now => models[m].since <= now'
                          /\ now - models[m].since >= MinShadowHold => now' - models[m].since >= MinShadowHold
  BY <1>1, HoldAssumption
<1>3. \A m \in ModelIds : VersionSound(models[m])'
  BY <1>2 DEF ModelInv, VersionSound
<1>4. (active = NoModel \/ WasPromoted(active))' /\ (prior = NoModel \/ WasPromoted(prior))'
  BY DEF ModelInv, WasPromoted
<1>5. ASSUME NEW r \in Holding, ControlSound(r) PROVE ControlSound(r)'
  BY <1>2, <1>5 DEF ControlSound, WasPromoted, CopyOf
<1>6. ASSUME NEW t \in Run, RunSound(t) PROVE RunSound(t)'
  BY <1>6 DEF RunSound
<1> QED BY <1>3, <1>4, <1>5, <1>6

\* A version is written: one in shadow stays in shadow or goes on, with nothing of
\* it lost, so that what others hold of it is still true.
LEMMA RecordWritten ==
  ASSUME ModelTypes, ModelInv, NEW k \in ModelIds, NEW v \in Version, models' = [models EXCEPT ![k] = v],
         UNCHANGED <<active, prior, now, quarantined>>, VersionSound(v),
         models[k].state \in Shadowed => v.state \in Shadowed /\ CopyOf(v, k),
         models[k].state \in Promoted => v.state \in Promoted
  PROVE  /\ models' \in [ModelIds -> Version] /\ models'[k] = v
         /\ \A m \in ModelIds : m # k => models'[m] = models[m]
         /\ \A m \in ModelIds : VersionSound(models[m])'
         /\ (active = NoModel \/ WasPromoted(active))' /\ (prior = NoModel \/ WasPromoted(prior))'
         /\ \A r \in Holding : ControlSound(r) => ControlSound(r)'
         /\ models[k].state \in Shadowed => \A t \in Run : RunSound(t) => RunSound(t)'
<1>1. models' \in [ModelIds -> Version] /\ models'[k] = v /\ \A m \in ModelIds : m # k => models'[m] = models[m]
  BY DEF ModelTypes
<1>2. \A m \in ModelIds : VersionSound(models[m])'
  BY <1>1 DEF ModelInv, VersionSound
<1>3. \A m \in MaybeModel : WasPromoted(m) => WasPromoted(m)'
  BY <1>1 DEF WasPromoted
<1>4. (active = NoModel \/ WasPromoted(active))' /\ (prior = NoModel \/ WasPromoted(prior))'
  BY <1>3 DEF ModelInv, ModelTypes
<1>5. \A m \in ModelIds : models[m].state \in Shadowed =>
         models'[m].state \in Shadowed /\ models'[m].evidence = models[m].evidence
         /\ models'[m].since = models[m].since /\ models'[m].trained = models[m].trained
         /\ models'[m].barred = models[m].barred
  BY <1>1 DEF CopyOf
<1>6. ASSUME NEW r \in Holding, ControlSound(r) PROVE ControlSound(r)'
  <2>1. r.id \in MaybeModel /\ r.prior \in MaybeModel
    BY DEF Holding
  <2>2. r.pc \in {"active", "write"} =>
          (/\ r.id \in ModelIds /\ models[r.id].state \in Shadowed
           /\ CopyOf(r.copy, r.id) /\ now - models[r.id].since >= MinShadowHold)'
    BY <1>5, <1>6 DEF ControlSound, CopyOf
  <2>3. r.pc = "mark" => CopyOf(r.copy, r.id)'
    BY <1>5, <1>6 DEF ControlSound, CopyOf, WasPromoted, Shadowed
  <2> QED BY <1>3, <1>6, <2>1, <2>2, <2>3 DEF ControlSound
<1>7. ASSUME models[k].state \in Shadowed, NEW t \in Run, RunSound(t) PROVE RunSound(t)'
  <2>1. t.pc \in {"register", "attach", "compare", "decide"} => t.id \in ModelIds /\ t.id # k
    BY <1>7 DEF RunSound, Shadowed, Promoted
  <2> QED BY <1>1, <1>7, <2>1 DEF RunSound
<1> QED BY <1>1, <1>2, <1>4, <1>6, <1>7

\* Every step of the feedback store and of the clock.
LEMMA WorldStep ==
  ASSUME ModelTypes, ModelInv,
         (\E e \in Examples : AppendFeedback(e)) \/ (\E a \in Actors : QuarantineActor(a)) \/ Tick
  PROVE  ModelTypes' /\ ModelInv'
<1>1. UNCHANGED <<models, active, prior, trainer, ctl, faults>>
  BY DEF AppendFeedback, QuarantineActor, Tick, registry, feedback
<1>2. stream' \in Seq(Captured)
  BY DEF ModelTypes, AppendFeedback, QuarantineActor, Tick, registry, feedback, Captured
<1>3. quarantined' \in SUBSET Actors /\ quarantined \subseteq quarantined'
  BY DEF ModelTypes, AppendFeedback, QuarantineActor, Tick, registry, feedback
<1>4. now' \in Nat /\ now <= now'
  BY DEF ModelTypes, AppendFeedback, QuarantineActor, Tick, registry, feedback
<1>5. ModelTypes'
  BY <1>1, <1>2, <1>3, <1>4 DEF ModelTypes
<1>6. /\ \A m \in ModelIds : VersionSound(models[m])'
      /\ (active = NoModel \/ WasPromoted(active))' /\ (prior = NoModel \/ WasPromoted(prior))'
      /\ \A r \in Holding : ControlSound(r) => ControlSound(r)'
      /\ \A t \in Run : RunSound(t) => RunSound(t)'
  BY <1>1, <1>3, <1>4, WorldMoves
<1>7. \A c \in Controllers : ControlSound(ctl[c])'
  <2> TAKE c \in Controllers
  <2>1. PICK r \in Holding : r = ctl[c] /\ ctl'[c] = r /\ ControlSound(r)
    BY <1>1 DEF ModelTypes, ModelInv
  <2>2. ControlSound(r)'
    BY <1>6, <2>1
  <2> QED BY <2>1, <2>2 DEF ControlSound, WasPromoted, CopyOf
<1>8. RunSound(trainer)'
  <2>1. PICK t \in Run : t = trainer /\ trainer' = t /\ RunSound(t)
    BY <1>1 DEF ModelTypes, ModelInv
  <2>2. RunSound(t)'
    BY <1>6, <2>1
  <2> QED BY <2>1, <2>2 DEF RunSound
<1> QED BY <1>5, <1>6, <1>7, <1>8 DEF ModelInv

\* A controller moves on and writes no version.
LEMMA ControlMoves ==
  ASSUME ModelTypes, ModelInv, NEW c \in Controllers, NEW r \in Holding, ctl' = [ctl EXCEPT ![c] = r],
         models' \in [ModelIds -> Version], active' \in MaybeModel, prior' \in MaybeModel, faults' \in Nat,
         UNCHANGED <<stream, quarantined, trainer, now>>,
         \A m \in ModelIds : VersionSound(models[m])',
         (active = NoModel \/ WasPromoted(active))', (prior = NoModel \/ WasPromoted(prior))',
         \A x \in Holding : ControlSound(x) => ControlSound(x)',
         \A t \in Run : RunSound(t) => RunSound(t)',
         ControlSound(r)'
  PROVE  ModelTypes' /\ ModelInv'
<1>1. ModelTypes'
  BY DEF ModelTypes
<1>2. \A d \in Controllers : ControlSound(ctl[d])'
  <2> TAKE d \in Controllers
  <2>1. PICK x \in Holding : x = ctl'[d] /\ (d = c => x = r) /\ (d # c => x = ctl[d])
    BY DEF ModelTypes
  <2>2. ControlSound(x)'
    BY <2>1 DEF ModelInv
  <2> QED BY <2>1, <2>2 DEF ControlSound, WasPromoted, CopyOf
<1>3. RunSound(trainer)'
  <2>1. PICK t \in Run : t = trainer /\ trainer' = t /\ RunSound(t)
    BY DEF ModelTypes, ModelInv
  <2>2. RunSound(t)'
    BY <2>1
  <2> QED BY <2>1, <2>2 DEF RunSound
<1> QED BY <1>1, <1>2, <1>3 DEF ModelInv

\* Promotions and rollbacks, and their ends after any command.
LEMMA ControlStep ==
  ASSUME ModelTypes, ModelInv, NEW c \in Controllers, Control(c)
  PROVE  ModelTypes' /\ ModelInv'
<1>0. PICK x \in Holding : x = ctl[c] /\ ControlSound(x)
  BY DEF ModelTypes, ModelInv
<1>1. x.id \in MaybeModel /\ x.prior \in MaybeModel /\ x.copy \in Version
  BY DEF Holding
<1>2. UNCHANGED <<stream, quarantined, trainer, now>>
  BY DEF Control, PromoteRead, PromoteActive, PromoteWrite, PromoteMove, RollbackActive, RollbackPrior,
         RollbackRead, RollbackMark, RollbackMove, ControllerFails, Step, feedback
<1>3. faults' \in Nat
  <2>1. faults \in Nat /\ faults + 1 \in Nat
    BY DEF ModelTypes
  <2>2. faults' = faults \/ faults' = faults + 1
    BY DEF Control, PromoteRead, PromoteActive, PromoteWrite, PromoteMove, RollbackActive, RollbackPrior,
           RollbackRead, RollbackMark, RollbackMove, ControllerFails, Step
  <2> QED BY <2>1, <2>2
<1>4. active \in MaybeModel /\ prior \in MaybeModel /\ models \in [ModelIds -> Version] /\ now \in Nat
  BY DEF ModelTypes
<1>5. ASSUME NEW r \in Holding, ctl' = [ctl EXCEPT ![c] = r], UNCHANGED registry, ControlSound(r)
      PROVE  ModelTypes' /\ ModelInv'
  <2>1. UNCHANGED <<models, active, prior>> /\ now <= now' /\ quarantined \subseteq quarantined' /\ now' \in Nat
    BY <1>2, <1>4, <1>5 DEF registry
  <2>2. /\ \A m \in ModelIds : VersionSound(models[m])'
        /\ (active = NoModel \/ WasPromoted(active))' /\ (prior = NoModel \/ WasPromoted(prior))'
        /\ \A y \in Holding : ControlSound(y) => ControlSound(y)'
        /\ \A t \in Run : RunSound(t) => RunSound(t)'
    BY <2>1, WorldMoves
  <2>3. ControlSound(r)'
    BY <1>5, <2>2
  <2> QED BY <1>2, <1>3, <1>4, <1>5, <2>1, <2>2, <2>3, ControlMoves
<1>6. AtRest \in Holding /\ ControlSound(AtRest)
  BY AbsentFacts DEF ControlSound
<1>7. ASSUME NEW m \in ModelIds, PromoteRead(c, m) PROVE ModelTypes' /\ ModelInv'
  <2>1. PICK v \in Version : v = models[m]
    BY <1>4
  <2>2. PICK r : r = [AtRest EXCEPT !.pc = "active", !.id = m, !.copy = v]
    OBVIOUS
  <2>3. r \in Holding /\ r.pc = "active" /\ r.id = m /\ r.copy = v
    BY <2>2, AbsentFacts DEF Holding, MaybeModel
  <2>4. ctl' = [ctl EXCEPT ![c] = r] /\ UNCHANGED registry
    BY <1>7, <2>1, <2>2 DEF PromoteRead, Step
  <2>5. models[m].state \in Shadowed /\ now - models[m].since >= MinShadowHold
    BY <1>7 DEF PromoteRead, Promotable, Shadowed
  <2>6. ControlSound(r)
    BY <2>1, <2>3, <2>5 DEF ControlSound, CopyOf
  <2> QED BY <1>5, <2>3, <2>4, <2>6
<1>8. CASE PromoteActive(c)
  <2>1. PICK r : r = [x EXCEPT !.pc = "write", !.prior = active]
    OBVIOUS
  <2>2. r \in Holding /\ r.pc = "write" /\ r.id = x.id /\ r.copy = x.copy /\ r.prior = active
    BY <1>4, <2>1 DEF Holding
  <2>3. ctl' = [ctl EXCEPT ![c] = r] /\ UNCHANGED registry /\ x.pc = "active"
    BY <1>0, <1>8, <2>1 DEF PromoteActive, Step, Is
  <2>4. ControlSound(r)
    BY <1>0, <2>2, <2>3 DEF ControlSound, ModelInv
  <2> QED BY <1>5, <2>2, <2>3, <2>4
<1>9. CASE PromoteWrite(c)
  <2>1. PICK v : v = [x.copy EXCEPT !.state = "active"]
    OBVIOUS
  <2>2. v \in Version /\ v.state = "active" /\ v.evidence = x.copy.evidence /\ v.since = x.copy.since
        /\ v.trained = x.copy.trained /\ v.barred = x.copy.barred
    BY <1>1, <2>1 DEF Version, ModelStates
  <2>3. PICK r : r = [x EXCEPT !.pc = "move"]
    OBVIOUS
  <2>4. r \in Holding /\ r.pc = "move" /\ r.id = x.id /\ r.prior = x.prior
    BY <2>3 DEF Holding
  <2>5. x.pc = "write" /\ models' = [models EXCEPT ![x.id] = v] /\ ctl' = [ctl EXCEPT ![c] = r]
        /\ UNCHANGED <<active, prior>>
    BY <1>0, <1>9, <2>1, <2>3 DEF PromoteWrite, Step, Is
  <2>6. /\ x.id \in ModelIds /\ models[x.id].state \in Shadowed /\ CopyOf(x.copy, x.id)
        /\ now - models[x.id].since >= MinShadowHold /\ (x.prior = NoModel \/ WasPromoted(x.prior))
    BY <1>0, <2>5 DEF ControlSound
  <2>7. CopyOf(v, x.id) /\ VersionSound(v)
    <3>1. VersionSound(models[x.id])
      BY <2>6 DEF ModelInv
    <3> QED BY <2>2, <2>6, <3>1 DEF CopyOf, VersionSound, Promoted, Shadowed
  <2>8. v.state \in Shadowed /\ v.state \in Promoted
    BY <2>2 DEF Shadowed, Promoted
  <2>9. /\ models' \in [ModelIds -> Version] /\ models'[x.id] = v
        /\ \A m \in ModelIds : m # x.id => models'[m] = models[m]
        /\ \A m \in ModelIds : VersionSound(models[m])'
        /\ (active = NoModel \/ WasPromoted(active))' /\ (prior = NoModel \/ WasPromoted(prior))'
        /\ \A y \in Holding : ControlSound(y) => ControlSound(y)'
        /\ \A t \in Run : RunSound(t) => RunSound(t)'
    BY <1>2, <2>2, <2>5, <2>6, <2>7, <2>8, RecordWritten
  <2>10. ControlSound(r)'
    <3>1. WasPromoted(r.id)' /\ (r.prior = NoModel \/ WasPromoted(r.prior)')
      BY <2>4, <2>6, <2>8, <2>9 DEF WasPromoted
    <3> QED BY <2>4, <3>1 DEF ControlSound
  <2> QED BY <1>2, <1>3, <1>4, <2>4, <2>5, <2>9, <2>10, ControlMoves
<1>10. ASSUME UNCHANGED models, ctl' = [ctl EXCEPT ![c] = AtRest], NEW a \in MaybeModel, NEW b \in MaybeModel,
              active' = a, prior' = b, a = NoModel \/ WasPromoted(a), b = NoModel \/ WasPromoted(b)
       PROVE  ModelTypes' /\ ModelInv'
  <2>1. \A m \in ModelIds : VersionSound(models[m])'
    BY <1>2, <1>10 DEF ModelInv, VersionSound
  <2>2. (active = NoModel \/ WasPromoted(active))' /\ (prior = NoModel \/ WasPromoted(prior))'
    BY <1>10 DEF WasPromoted
  <2>3. \A y \in Holding : ControlSound(y) => ControlSound(y)'
    BY <1>2, <1>10 DEF ControlSound, WasPromoted, CopyOf
  <2>4. \A t \in Run : RunSound(t) => RunSound(t)'
    BY <1>2, <1>10 DEF RunSound
  <2>5. models' \in [ModelIds -> Version] /\ active' \in MaybeModel /\ prior' \in MaybeModel
    BY <1>4, <1>10
  <2>6. ControlSound(AtRest)'
    BY <1>6, <2>3
  <2> QED BY <1>2, <1>3, <1>6, <1>10, <2>1, <2>2, <2>3, <2>4, <2>5, <2>6, ControlMoves
<1>11. CASE PromoteMove(c)
  <2>1. x.pc = "move" /\ active' = x.id /\ prior' = x.prior /\ ctl' = [ctl EXCEPT ![c] = AtRest] /\ UNCHANGED models
    BY <1>0, <1>11 DEF PromoteMove, Step, Is
  <2>2. WasPromoted(x.id) /\ (x.prior = NoModel \/ WasPromoted(x.prior))
    BY <1>0, <2>1 DEF ControlSound
  <2> QED BY <1>1, <1>10, <2>1, <2>2
<1>12. CASE RollbackActive(c)
  <2>1. PICK r : r = [AtRest EXCEPT !.pc = "prior", !.id = active]
    OBVIOUS
  <2>2. r \in Holding /\ r.pc = "prior" /\ r.id = active
    BY <1>4, <2>1, AbsentFacts DEF Holding
  <2>3. ctl' = [ctl EXCEPT ![c] = r] /\ UNCHANGED registry
    BY <1>12, <2>1 DEF RollbackActive, Step
  <2>4. ControlSound(r)
    BY <2>2 DEF ControlSound, ModelInv
  <2> QED BY <1>5, <2>2, <2>3, <2>4
<1>13. CASE RollbackPrior(c)
  <2>1. CASE NoModel \in {x.id, prior}
    <3>1. ctl' = [ctl EXCEPT ![c] = AtRest] /\ UNCHANGED registry
      BY <1>0, <1>13, <2>1 DEF RollbackPrior, Step
    <3> QED BY <1>5, <1>6, <3>1
  <2>2. CASE NoModel \notin {x.id, prior}
    <3>1. PICK r : r = [x EXCEPT !.pc = "version", !.prior = prior]
      OBVIOUS
    <3>2. r \in Holding /\ r.pc = "version" /\ r.id = x.id /\ r.prior = prior
      BY <1>4, <3>1 DEF Holding
    <3>3. ctl' = [ctl EXCEPT ![c] = r] /\ UNCHANGED registry /\ x.pc = "prior"
      BY <1>0, <1>13, <2>2, <3>1 DEF RollbackPrior, Step, Is
    <3>4. ControlSound(r)
      BY <1>0, <2>2, <3>2, <3>3 DEF ControlSound, ModelInv
    <3> QED BY <1>5, <3>2, <3>3, <3>4
  <2> QED BY <2>1, <2>2
<1>14. CASE RollbackRead(c)
  <2>1. x.pc = "version" /\ x.id \in ModelIds
    BY <1>0, <1>14 DEF RollbackRead, Is, ControlSound, WasPromoted
  <2>2. PICK v \in Version : v = models[x.id]
    BY <1>4, <2>1
  <2>3. PICK r : r = [x EXCEPT !.pc = "mark", !.copy = v]
    OBVIOUS
  <2>4. r \in Holding /\ r.pc = "mark" /\ r.id = x.id /\ r.prior = x.prior /\ r.copy = v
    BY <2>3 DEF Holding
  <2>5. ctl' = [ctl EXCEPT ![c] = r] /\ UNCHANGED registry
    BY <1>0, <1>14, <2>2, <2>3 DEF RollbackRead, Step
  <2>6. ControlSound(r)
    BY <1>0, <2>1, <2>2, <2>4 DEF ControlSound, CopyOf
  <2> QED BY <1>5, <2>4, <2>5, <2>6
<1>15. CASE RollbackMark(c)
  <2>1. PICK v : v = [x.copy EXCEPT !.state = "rolled_back"]
    OBVIOUS
  <2>2. v \in Version /\ v.state = "rolled_back" /\ v.evidence = x.copy.evidence /\ v.since = x.copy.since
        /\ v.trained = x.copy.trained /\ v.barred = x.copy.barred
    BY <1>1, <2>1 DEF Version, ModelStates
  <2>3. PICK r : r = [x EXCEPT !.pc = "restore"]
    OBVIOUS
  <2>4. r \in Holding /\ r.pc = "restore" /\ r.id = x.id /\ r.prior = x.prior
    BY <2>3 DEF Holding
  <2>5. x.pc = "mark" /\ models' = [models EXCEPT ![x.id] = v] /\ ctl' = [ctl EXCEPT ![c] = r]
        /\ UNCHANGED <<active, prior>>
    BY <1>0, <1>15, <2>1, <2>3 DEF RollbackMark, Step, Is
  <2>6. /\ WasPromoted(x.id) /\ CopyOf(x.copy, x.id) /\ WasPromoted(x.prior)
    BY <1>0, <2>5 DEF ControlSound
  <2>7. x.id \in ModelIds /\ CopyOf(v, x.id) /\ VersionSound(v)
    <3>1. x.id \in ModelIds /\ models[x.id].state \in Promoted
      BY <2>6 DEF WasPromoted
    <3>2. VersionSound(models[x.id])
      BY <3>1 DEF ModelInv
    <3> QED BY <2>2, <2>6, <3>1, <3>2 DEF CopyOf, VersionSound, Promoted, Shadowed
  <2>8. v.state \in Shadowed /\ v.state \in Promoted /\ models[x.id].state \in Shadowed
    BY <2>2, <2>6 DEF Shadowed, Promoted, WasPromoted
  <2>9. /\ models' \in [ModelIds -> Version] /\ models'[x.id] = v
        /\ \A m \in ModelIds : m # x.id => models'[m] = models[m]
        /\ \A m \in ModelIds : VersionSound(models[m])'
        /\ (active = NoModel \/ WasPromoted(active))' /\ (prior = NoModel \/ WasPromoted(prior))'
        /\ \A y \in Holding : ControlSound(y) => ControlSound(y)'
        /\ \A t \in Run : RunSound(t) => RunSound(t)'
    BY <1>2, <2>2, <2>5, <2>7, <2>8, RecordWritten
  <2>10. ControlSound(r)'
    <3>1. WasPromoted(r.prior)'
      BY <2>4, <2>6, <2>8, <2>9 DEF WasPromoted
    <3> QED BY <2>4, <3>1 DEF ControlSound
  <2> QED BY <1>2, <1>3, <1>4, <2>4, <2>5, <2>9, <2>10, ControlMoves
<1>16. CASE RollbackMove(c)
  <2>1. x.pc = "restore" /\ active' = x.prior /\ prior' = NoModel /\ ctl' = [ctl EXCEPT ![c] = AtRest] /\ UNCHANGED models
    BY <1>0, <1>16 DEF RollbackMove, Step, Is
  <2>2. WasPromoted(x.prior) /\ NoModel \in MaybeModel
    BY <1>0, <2>1 DEF ControlSound, MaybeModel
  <2> QED BY <1>1, <1>10, <2>1, <2>2
<1>17. CASE ControllerFails(c)
  <2>1. ctl' = [ctl EXCEPT ![c] = AtRest] /\ UNCHANGED registry
    BY <1>17 DEF ControllerFails
  <2> QED BY <1>5, <1>6, <2>1
<1> QED BY <1>7, <1>8, <1>9, <1>11, <1>12, <1>13, <1>14, <1>15, <1>16, <1>17 DEF Control

\* The run moves on; what it holds then is sound.
LEMMA RunMoves ==
  ASSUME ModelTypes, ModelInv, NEW t \in Run, trainer' = t,
         models' \in [ModelIds -> Version], faults' \in Nat,
         UNCHANGED <<stream, quarantined, ctl, now, active, prior>>,
         \A m \in ModelIds : VersionSound(models[m])',
         (active = NoModel \/ WasPromoted(active))', (prior = NoModel \/ WasPromoted(prior))',
         \A x \in Holding : ControlSound(x) => ControlSound(x)',
         RunSound(t)'
  PROVE  ModelTypes' /\ ModelInv'
<1>1. ModelTypes'
  BY DEF ModelTypes
<1>2. \A d \in Controllers : ControlSound(ctl[d])'
  <2> TAKE d \in Controllers
  <2>1. PICK x \in Holding : x = ctl'[d] /\ x = ctl[d]
    BY DEF ModelTypes
  <2>2. ControlSound(x)'
    BY <2>1 DEF ModelInv
  <2> QED BY <2>1, <2>2 DEF ControlSound, WasPromoted, CopyOf
<1>3. RunSound(trainer)'
  BY DEF RunSound
<1> QED BY <1>1, <1>2, <1>3 DEF ModelInv

\* A retraining run, and its end after any command.
LEMMA RetrainStep ==
  ASSUME ModelTypes, ModelInv, Retrain
  PROVE  ModelTypes' /\ ModelInv'
<1>0. PICK x \in Run : x = trainer /\ RunSound(x)
  BY DEF ModelTypes, ModelInv
<1>1. /\ x.id \in MaybeModel /\ x.evidence \in MaybeEvidence /\ x.copy \in Version /\ x.against \in MaybeEvidence
      /\ x.lines \in SUBSET Captured /\ x.barred \in SUBSET Actors /\ x.actors \in SUBSET Actors
  BY DEF Run
<1>2. UNCHANGED <<stream, quarantined, ctl, now, active, prior>>
  BY DEF Retrain, RunStart, ReadQuarantined, Export, Train, RegisterExists, RegisterWrite, AttachRead,
         AttachCompare, AttachWrite, RunFails, Ends, Goes, feedback, registry
<1>3. faults' \in Nat
  <2>1. faults \in Nat /\ faults + 1 \in Nat
    BY DEF ModelTypes
  <2>2. faults' = faults \/ faults' = faults + 1
    BY DEF Retrain, RunStart, ReadQuarantined, Export, Train, RegisterExists, RegisterWrite, AttachRead,
           AttachCompare, AttachWrite, RunFails, Ends, Goes
  <2> QED BY <2>1, <2>2
<1>4. /\ active \in MaybeModel /\ models \in [ModelIds -> Version] /\ now \in Nat
      /\ quarantined \in SUBSET Actors /\ stream \in Seq(Captured)
  BY DEF ModelTypes
<1>5. ASSUME NEW t \in Run, trainer' = t, UNCHANGED registry, RunSound(t)
      PROVE  ModelTypes' /\ ModelInv'
  <2>1. UNCHANGED <<models, active, prior>> /\ now <= now' /\ quarantined \subseteq quarantined' /\ now' \in Nat
    BY <1>2, <1>4, <1>5 DEF registry
  <2>2. /\ \A m \in ModelIds : VersionSound(models[m])'
        /\ (active = NoModel \/ WasPromoted(active))' /\ (prior = NoModel \/ WasPromoted(prior))'
        /\ \A y \in Holding : ControlSound(y) => ControlSound(y)'
        /\ \A y \in Run : RunSound(y) => RunSound(y)'
    BY <2>1, WorldMoves
  <2>3. RunSound(t)'
    BY <1>5, <2>2
  <2> QED BY <1>2, <1>3, <1>4, <1>5, <2>1, <2>2, <2>3, RunMoves
<1>6. Idle \in Run /\ RunSound(Idle) /\ RunSound(Idle)'
  BY AbsentFacts DEF RunSound
<1>7. CASE RunStart
  <2>1. PICK t : t = [Idle EXCEPT !.pc = "quarantined", !.barred = quarantined]
    OBVIOUS
  <2>2. t \in Run /\ t.pc = "quarantined" /\ t.barred = quarantined
    BY <1>4, <2>1, AbsentFacts DEF Run
  <2>3. trainer' = t /\ UNCHANGED registry
    BY <1>7, <2>1 DEF RunStart, Goes
  <2>4. RunSound(t)
    BY <2>2 DEF RunSound
  <2> QED BY <1>5, <2>2, <2>3, <2>4
<1>8. CASE ReadQuarantined
  <2>1. PICK t : t = [x EXCEPT !.pc = "export", !.actors = quarantined]
    OBVIOUS
  <2>2. t \in Run /\ t.pc = "export" /\ t.barred = x.barred /\ t.actors = quarantined
    BY <1>4, <2>1 DEF Run
  <2>3. trainer' = t /\ UNCHANGED registry
    BY <1>0, <1>8, <2>1 DEF ReadQuarantined, Goes
  <2>4. RunSound(t)
    BY <1>0, <2>2 DEF RunSound
  <2> QED BY <1>5, <2>2, <2>3, <2>4
<1>9. CASE Export
  <2>1. x.pc = "export" /\ x.barred \subseteq x.actors
    BY <1>0, <1>9 DEF Export, At, RunSound
  <2>2. PICK L : L = {stream[i] : i \in ExportJsonl(stream, x.actors, {})}
    OBVIOUS
  <2>3. Clean(L, x.barred) /\ L \subseteq Captured
    <3>1. L = Lines(stream, x.actors)
      BY <2>2 DEF Lines
    <3> QED BY <1>4, <2>1, <3>1, ExportIsClean
  <2>4. PICK t : t = [x EXCEPT !.pc = "train", !.lines = L]
    OBVIOUS
  <2>5. t \in Run /\ t.pc = "train" /\ t.barred = x.barred /\ t.lines = L
    BY <2>3, <2>4 DEF Run
  <2>6. trainer' = t /\ UNCHANGED registry
    BY <1>0, <1>9, <2>2, <2>4 DEF Export, Goes
  <2>7. RunSound(t)
    BY <1>0, <2>3, <2>5 DEF RunSound
  <2> QED BY <1>5, <2>5, <2>6, <2>7
<1>10. ASSUME NEW m \in ModelIds, NEW e \in Evidence, Train(m, e) PROVE ModelTypes' /\ ModelInv'
  <2>1. PICK t : t = [x EXCEPT !.pc = "exists", !.id = m, !.evidence = e]
    OBVIOUS
  <2>2. t \in Run /\ t.pc = "exists" /\ t.barred = x.barred /\ t.lines = x.lines /\ t.id = m /\ t.evidence = e
    BY <2>1 DEF Run, MaybeModel, MaybeEvidence
  <2>3. trainer' = t /\ UNCHANGED registry /\ x.pc = "train"
    BY <1>0, <1>10, <2>1 DEF Train, Goes, At
  <2>4. RunSound(t)
    BY <1>0, <2>2, <2>3 DEF RunSound
  <2> QED BY <1>5, <2>2, <2>3, <2>4
<1>11. CASE RegisterExists
  <2>1. CASE models[x.id].state # "none"
    <3>1. trainer' = Idle /\ UNCHANGED registry
      BY <1>0, <1>11, <2>1 DEF RegisterExists, Ends, Goes
    <3> QED BY <1>5, <1>6, <3>1
  <2>2. CASE models[x.id].state = "none"
    <3>1. PICK t : t = [x EXCEPT !.pc = "register"]
      OBVIOUS
    <3>2. t \in Run /\ t.pc = "register" /\ t.barred = x.barred /\ t.lines = x.lines /\ t.id = x.id
          /\ t.evidence = x.evidence
      BY <3>1 DEF Run
    <3>3. trainer' = t /\ UNCHANGED registry /\ x.pc = "exists"
      BY <1>0, <1>11, <2>2, <3>1 DEF RegisterExists, Goes, At
    <3>4. RunSound(t)
      BY <1>0, <2>2, <3>2, <3>3 DEF RunSound
    <3> QED BY <1>5, <3>2, <3>3, <3>4
  <2> QED BY <2>1, <2>2
<1>12. CASE RegisterWrite
  <2>1. x.pc = "register" /\ x.id \in ModelIds /\ x.evidence \in Evidence /\ models[x.id].state = "none"
        /\ Clean(x.lines, x.barred) /\ x.barred \subseteq quarantined
    BY <1>0, <1>12 DEF RegisterWrite, At, RunSound
  <2>2. PICK v : v = [Absent EXCEPT !.state = "candidate", !.trained = x.lines, !.barred = x.barred]
    OBVIOUS
  <2>3. v \in Version /\ v.state = "candidate" /\ v.evidence = NoEvidence /\ v.trained = x.lines /\ v.barred = x.barred
    BY <1>1, <2>2, AbsentFacts DEF Version, ModelStates
  <2>4. PICK t : t = [x EXCEPT !.pc = "attach"]
    OBVIOUS
  <2>5. t \in Run /\ t.pc = "attach" /\ t.barred = x.barred /\ t.id = x.id /\ t.evidence = x.evidence
    BY <2>4 DEF Run
  <2>6. trainer' = t /\ models' = [models EXCEPT ![x.id] = v]
    BY <1>0, <1>12, <2>2, <2>4 DEF RegisterWrite, Goes
  <2>7. VersionSound(v)
    BY <2>1, <2>3 DEF VersionSound, Shadowed, Promoted
  <2>8. models[x.id].state \notin Shadowed /\ models[x.id].state \notin Promoted
    BY <2>1 DEF Shadowed, Promoted
  <2>9. /\ models' \in [ModelIds -> Version] /\ models'[x.id] = v
        /\ \A m \in ModelIds : VersionSound(models[m])'
        /\ (active = NoModel \/ WasPromoted(active))' /\ (prior = NoModel \/ WasPromoted(prior))'
        /\ \A y \in Holding : ControlSound(y) => ControlSound(y)'
    BY <1>2, <2>1, <2>3, <2>6, <2>7, <2>8, RecordWritten
  <2>10. RunSound(t)'
    BY <1>2, <2>1, <2>3, <2>5, <2>9 DEF RunSound
  <2> QED BY <1>2, <1>3, <2>5, <2>6, <2>9, <2>10, RunMoves
<1>13. CASE AttachRead
  <2>1. x.pc = "attach" /\ x.id \in ModelIds /\ x.evidence \in Evidence /\ models[x.id].state = "candidate"
    BY <1>0, <1>13 DEF AttachRead, At, RunSound
  <2>2. PICK v \in Version : v = models[x.id]
    BY <1>4, <2>1
  <2>3. PICK t : t = [x EXCEPT !.pc = "compare", !.copy = v]
    OBVIOUS
  <2>4. t \in Run /\ t.pc = "compare" /\ t.barred = x.barred /\ t.id = x.id /\ t.evidence = x.evidence /\ t.copy = v
    BY <2>3 DEF Run
  <2>5. trainer' = t /\ UNCHANGED registry
    BY <1>0, <1>13, <2>1, <2>2, <2>3 DEF AttachRead, Goes
  <2>6. RunSound(t)
    BY <1>0, <2>1, <2>2, <2>4 DEF RunSound
  <2> QED BY <1>5, <2>4, <2>5, <2>6
<1>14. CASE AttachCompare
  <2>1. PICK g : g = IF active = NoModel THEN NoEvidence ELSE models[active].evidence
    OBVIOUS
  <2>2. g \in MaybeEvidence
    <3>1. CASE active = NoModel
      BY <2>1, <3>1 DEF MaybeEvidence
    <3>2. CASE active # NoModel
      <4>1. models[active] \in Version
        BY <1>4, <3>2 DEF MaybeModel
      <4> QED BY <2>1, <3>2, <4>1 DEF Version
    <3> QED BY <3>1, <3>2
  <2>3. PICK t : t = [x EXCEPT !.pc = "decide", !.against = g]
    OBVIOUS
  <2>4. t \in Run /\ t.pc = "decide" /\ t.barred = x.barred /\ t.id = x.id /\ t.evidence = x.evidence
        /\ t.copy = x.copy
    BY <2>2, <2>3 DEF Run
  <2>5. trainer' = t /\ UNCHANGED registry /\ x.pc = "compare"
    BY <1>0, <1>14, <2>1, <2>3 DEF AttachCompare, Goes, At
  <2>6. RunSound(t)
    BY <1>0, <2>4, <2>5 DEF RunSound
  <2> QED BY <1>5, <2>4, <2>5, <2>6
<1>15. CASE AttachWrite
  <2>1. x.pc = "decide" /\ x.id \in ModelIds /\ x.evidence \in Evidence /\ models[x.id].state = "candidate"
        /\ x.copy = models[x.id]
    BY <1>0, <1>15 DEF AttachWrite, At, RunSound
  <2>2. VersionSound(x.copy)
    BY <2>1 DEF ModelInv
  <2>3. PICK v : v = Attached(x.copy, x.evidence, x.against)
    OBVIOUS
  <2>4. v \in Version /\ VersionSound(v)
    <3>1. PICK a, b : a = [x.copy EXCEPT !.evidence = x.evidence, !.state = "shadow_candidate", !.since = now]
                      /\ b = [x.copy EXCEPT !.evidence = x.evidence, !.state = "rejected"]
      OBVIOUS
    <3>2. a \in Version /\ a.state = "shadow_candidate" /\ a.evidence = x.evidence /\ a.since = now
          /\ a.trained = x.copy.trained /\ a.barred = x.copy.barred
      BY <1>1, <1>4, <3>1 DEF Version, ModelStates
    <3>3. b \in Version /\ b.state = "rejected" /\ b.trained = x.copy.trained /\ b.barred = x.copy.barred
      BY <1>1, <3>1 DEF Version, ModelStates
    <3>4. x.evidence \in Passes => VersionSound(a)
      BY <1>4, <2>2, <3>2 DEF VersionSound, Promoted
    <3>5. VersionSound(b)
      BY <2>2, <3>3 DEF VersionSound, Promoted, Shadowed
    <3> QED BY <2>3, <3>1, <3>2, <3>3, <3>4, <3>5 DEF Attached
  <2>5. trainer' = Idle /\ models' = [models EXCEPT ![x.id] = v]
    BY <1>0, <1>15, <2>3 DEF AttachWrite, Ends, Goes
  <2>6. models[x.id].state \notin Shadowed /\ models[x.id].state \notin Promoted
    BY <2>1 DEF Shadowed, Promoted
  <2>7. /\ models' \in [ModelIds -> Version] /\ models'[x.id] = v
        /\ \A m \in ModelIds : VersionSound(models[m])'
        /\ (active = NoModel \/ WasPromoted(active))' /\ (prior = NoModel \/ WasPromoted(prior))'
        /\ \A y \in Holding : ControlSound(y) => ControlSound(y)'
    BY <1>2, <2>1, <2>4, <2>5, <2>6, RecordWritten
  <2> QED BY <1>2, <1>3, <1>6, <2>5, <2>7, RunMoves
<1>16. CASE RunFails
  <2>1. trainer' = Idle /\ UNCHANGED registry
    BY <1>16 DEF RunFails, registry
  <2> QED BY <1>5, <1>6, <2>1
<1> QED BY <1>7, <1>8, <1>9, <1>10, <1>11, <1>12, <1>13, <1>14, <1>15, <1>16 DEF Retrain

\* Empty Redis, nothing running.
LEMMA ModelsBegin == ASSUME Init PROVE ModelTypes /\ ModelInv
<1>1. stream \in Seq(Captured)
  <2>1. Recorded \in Seq(Captured)
    BY RecordedAssumption DEF Captured
  <2> QED BY <2>1 DEF Init
<1>2. ModelTypes
  BY <1>1, AbsentFacts DEF Init, ModelTypes, MaybeModel
<1>3. \A m \in ModelIds : VersionSound(models[m])
  BY AbsentFacts DEF Init
<1>4. \A c \in Controllers : ControlSound(ctl[c])
  BY AbsentFacts DEF Init, ControlSound
<1>5. RunSound(trainer)
  BY AbsentFacts DEF Init, RunSound
<1> QED BY <1>2, <1>3, <1>4, <1>5 DEF ModelInv, Init

\* The registry's records, pointers, controllers and run are typed and sound in
\* every state, for any number of models, controllers and examples.
THEOREM RegistryInvariant == Spec => [](ModelTypes /\ ModelInv)
<1>1. Init => ModelTypes /\ ModelInv
  BY ModelsBegin
<1>2. (ModelTypes /\ ModelInv) /\ [Next]_vars => (ModelTypes /\ ModelInv)'
  <2> SUFFICES ASSUME ModelTypes, ModelInv, [Next]_vars PROVE ModelTypes' /\ ModelInv'
    OBVIOUS
  <2>1. CASE UNCHANGED vars
    BY <2>1 DEF vars, ModelTypes, ModelInv, VersionSound, WasPromoted, CopyOf, ControlSound, RunSound
  <2>2. CASE (\E e \in Examples : AppendFeedback(e)) \/ (\E a \in Actors : QuarantineActor(a)) \/ Tick
    BY <2>2, WorldStep
  <2>3. CASE Retrain
    BY <2>3, RetrainStep
  <2>4. CASE \E c \in Controllers : Control(c)
    BY <2>4, ControlStep
  <2> QED BY <2>1, <2>2, <2>3, <2>4 DEF Next
<1> QED BY <1>1, <1>2, PTL DEF Spec

\* The active model and the one a rollback would restore have passed the gate, were
\* held in shadow for min_shadow_hold_ms and were promoted, whatever promotions,
\* rollbacks, retraining runs and failures of any number of processes interleave.
THEOREM OnlyProvenServed == Spec => []ServedModelsAreProven
<1>1. ModelTypes /\ ModelInv => ServedModelsAreProven
  <2> SUFFICES ASSUME ModelTypes, ModelInv, NEW m \in {active, prior}, m # NoModel
               PROVE  m \in ModelIds /\ Proven(m)
    BY DEF ServedModelsAreProven
  <2>1. WasPromoted(m)
    BY DEF ModelInv
  <2>2. m \in ModelIds /\ models[m].state \in Promoted /\ VersionSound(models[m])
    BY <2>1 DEF WasPromoted, ModelInv
  <2> QED BY <2>2 DEF VersionSound, Promoted, Shadowed, Proven
<1> QED BY <1>1, RegistryInvariant, PTL

\* Every version that was ever registered was trained on an admissible set, however
\* the stream and the quarantine grew while its run went on.
THEOREM TrainingIsAdmissible == Spec => []TrainedOnAdmissible
<1>1. ModelTypes /\ ModelInv => TrainedOnAdmissible
  BY DEF ModelInv, VersionSound, Clean, TrainedOnAdmissible, CleanlyTrained
<1> QED BY <1>1, RegistryInvariant, PTL

\* A version is written in a stage it may reach, with what had been written of it.
LEMMA WrittenOnward ==
  ASSUME ModelTypes, NEW k \in ModelIds, NEW v \in Version, models' = [models EXCEPT ![k] = v],
         models[k].state # v.state => <<models[k].state, v.state>> \in Stages,
         models[k].evidence # NoEvidence => v.evidence = models[k].evidence,
         models[k].state # "none" => v.trained = models[k].trained
  PROVE  \A m \in ModelIds : Onward(m)
<1> TAKE m \in ModelIds
<1>1. models'[m] = IF m = k THEN v ELSE models[m]
  BY DEF ModelTypes
<1>2. CASE m = k
  BY <1>1, <1>2 DEF Onward
<1>3. CASE m # k
  BY <1>1, <1>3 DEF Onward
<1> QED BY <1>2, <1>3

\* The four writes of a version, by a run and by a controller that may hold an old
\* copy.
LEMMA OnwardStep ==
  ASSUME ModelTypes, ModelInv, Next
  PROVE  UNCHANGED models \/ \A m \in ModelIds : Onward(m)
<1>1. CASE UNCHANGED models
  BY <1>1
<1>2. CASE RegisterWrite
  <2>1. PICK v : v = [Absent EXCEPT !.state = "candidate", !.trained = trainer.lines, !.barred = trainer.barred]
    OBVIOUS
  <2>2. trainer \in Run /\ trainer.lines \in SUBSET Captured /\ trainer.barred \in SUBSET Actors
    <3>1. trainer \in Run
      BY DEF ModelTypes
    <3> QED BY <3>1 DEF Run
  <2>3. v \in Version /\ v.state = "candidate"
    BY <2>1, <2>2, AbsentFacts DEF Version, ModelStates
  <2>4. trainer.id \in ModelIds /\ models[trainer.id].state = "none"
    BY <1>2 DEF RegisterWrite, At, ModelInv, RunSound
  <2>5. models[trainer.id].evidence = NoEvidence
    BY <2>4 DEF ModelInv, VersionSound
  <2>6. models' = [models EXCEPT ![trainer.id] = v]
    BY <1>2, <2>1 DEF RegisterWrite
  <2> QED BY <2>3, <2>4, <2>5, <2>6, WrittenOnward DEF Stages
<1>3. CASE AttachWrite
  <2>1. PICK x \in Run : x = trainer
    BY DEF ModelTypes
  <2>2. x.id \in ModelIds /\ models[x.id].state = "candidate" /\ x.copy = models[x.id] /\ x.evidence \in Evidence
    BY <1>3, <2>1 DEF AttachWrite, At, ModelInv, RunSound
  <2>3. x.copy \in Version /\ now \in Nat /\ models[x.id].evidence = NoEvidence
    BY <2>2 DEF Run, ModelTypes, ModelInv, VersionSound
  <2>4. PICK a, b : a = [x.copy EXCEPT !.evidence = x.evidence, !.state = "shadow_candidate", !.since = now]
                    /\ b = [x.copy EXCEPT !.evidence = x.evidence, !.state = "rejected"]
    OBVIOUS
  <2>5. a \in Version /\ a.state = "shadow_candidate" /\ a.trained = x.copy.trained
        /\ b \in Version /\ b.state = "rejected" /\ b.trained = x.copy.trained
    BY <2>2, <2>3, <2>4 DEF Version, ModelStates, MaybeEvidence
  <2>6. PICK v \in {a, b} : models' = [models EXCEPT ![x.id] = v]
    BY <1>3, <2>1, <2>4 DEF AttachWrite, Attached
  <2>7. <<models[x.id].state, v.state>> \in Stages /\ v \in Version /\ v.trained = models[x.id].trained
    BY <2>2, <2>5, <2>6 DEF Stages
  <2> QED BY <2>2, <2>3, <2>6, <2>7, WrittenOnward
<1>4. ASSUME NEW c \in Controllers, PromoteWrite(c) \/ RollbackMark(c) PROVE \A m \in ModelIds : Onward(m)
  <2>1. PICK x \in Holding : x = ctl[c] /\ ControlSound(x) /\ x.copy \in Version
    BY DEF ModelTypes, ModelInv, Holding
  <2>2. x.id \in ModelIds /\ models[x.id].state \in Shadowed /\ CopyOf(x.copy, x.id)
        /\ (x.pc = "mark" => models[x.id].state \in Promoted)
    BY <1>4, <2>1 DEF PromoteWrite, RollbackMark, Is, ControlSound, WasPromoted, Shadowed
  <2>3. PICK a, b : a = [x.copy EXCEPT !.state = "active"] /\ b = [x.copy EXCEPT !.state = "rolled_back"]
    OBVIOUS
  <2>4. /\ a \in Version /\ a.state = "active" /\ a.trained = x.copy.trained /\ a.evidence = x.copy.evidence
        /\ b \in Version /\ b.state = "rolled_back" /\ b.trained = x.copy.trained /\ b.evidence = x.copy.evidence
    BY <2>1, <2>3 DEF Version, ModelStates
  <2>5. CASE PromoteWrite(c)
    <3>1. models' = [models EXCEPT ![x.id] = a]
      BY <2>1, <2>3, <2>5 DEF PromoteWrite
    <3>2. models[x.id].state # a.state => <<models[x.id].state, a.state>> \in Stages
      BY <2>2, <2>4 DEF Stages, Shadowed, Promoted
    <3> QED BY <2>2, <2>4, <3>1, <3>2, WrittenOnward DEF CopyOf
  <2>6. CASE RollbackMark(c)
    <3>1. models' = [models EXCEPT ![x.id] = b]
      BY <2>1, <2>3, <2>6 DEF RollbackMark
    <3>2. models[x.id].state # b.state => <<models[x.id].state, b.state>> \in Stages
      BY <2>1, <2>2, <2>4, <2>6 DEF Stages, Promoted, RollbackMark, Is
    <3> QED BY <2>2, <2>4, <3>1, <3>2, WrittenOnward DEF CopyOf
  <2> QED BY <1>4, <2>5, <2>6
<1>5. \/ UNCHANGED models \/ RegisterWrite \/ AttachWrite
      \/ \E c \in Controllers : PromoteWrite(c) \/ RollbackMark(c)
  BY DEF Next, AppendFeedback, QuarantineActor, Tick, Retrain, RunStart, ReadQuarantined, Export, Train,
         RegisterExists, AttachRead, AttachCompare, RunFails, Control, PromoteRead, PromoteActive,
         PromoteMove, RollbackActive, RollbackPrior, RollbackRead, RollbackMove, ControllerFails, registry
<1> QED BY <1>1, <1>2, <1>3, <1>4, <1>5

\* A version moves only onward: through every stage in its order, its training and
\* its evidence written once, whatever stale copies controllers write back.
THEOREM VersionsGoOnward == Spec => VersionsMoveOnward
<1>1. (ModelTypes /\ ModelInv) /\ [Next]_vars => [\A m \in ModelIds : Onward(m)]_models
  <2> SUFFICES ASSUME ModelTypes, ModelInv, [Next]_vars
               PROVE  UNCHANGED models \/ \A m \in ModelIds : Onward(m)
    OBVIOUS
  <2>1. CASE UNCHANGED vars
    BY <2>1 DEF vars
  <2> QED BY <2>1, OnwardStep
<1> QED BY <1>1, RegistryInvariant, PTL DEF Spec, VersionsMoveOnward

-----------------------------------------------------------------------------
(* The continual-learning harness.                                         *)

Case == Nat \X Nat
JobLines == UNION {[K -> Case] : K \in SUBSET Nat}
Handles == {<<>>} \cup ({"digest"} \X JobLines) \cup ({"job"} \X Nat)
Knowing == [of : Nat, knows : SUBSET Case]
Labelled == [family : {FamilyOfCase[c] : c \in Case}, actor : {"harness"}, cluster : {NoCluster},
          source : {"semantic_annotation"}, gold : Case, weight : {1}]
RoundRecord == [round : Nat, model : Knowing, after : Knowing, passed : BOOLEAN, gainOn : SUBSET Int]
RunnerState == [round : Nat, model : Knowing, history : Seq(RoundRecord), frozen : BOOLEAN]
AttemptState ==
  [pc : {"idle", "reveal", "export", "submit", "poll", "register", "attach"}, before : Knowing, shown : Nat,
   lines : JobLines, handle : Handles, polls : Nat]
Job == [lines : JobLines, status : {"running", "done", "failed", "incomplete"}]

HarnessTypes ==
  /\ revealed \in Seq(Labelled) /\ runner \in RunnerState /\ attempt \in AttemptState
  /\ DOMAIN jobs \subseteq Handles /\ jobs \in [DOMAIN jobs -> Job] /\ IsFiniteSet(DOMAIN jobs)

\* Lines of cases whose labels had been revealed by the end of round r.
UpToRound(lines, r) == \A i \in DOMAIN lines : lines[i][1] <= r
KnowsBefore(model, r) == \A c \in model.knows : c[1] < r

\* No label of a later round is anywhere, no label of this round is in a model that
\* predicts, and the history is a chain that ends in the runner's model.
HarnessInv ==
  /\ \A i \in DOMAIN revealed : revealed[i].gold[1] <= runner.round
  /\ UpToRound(attempt.lines, runner.round)
  /\ \A h \in DOMAIN jobs : UpToRound(jobs[h].lines, runner.round)
  /\ attempt.pc \in {"poll", "register", "attach"} => attempt.handle \in DOMAIN jobs
  /\ KnowsBefore(runner.model, runner.round)
  /\ attempt.pc # "idle" => attempt.before = runner.model
  /\ attempt.pc = "reveal" => attempt.shown < BatchSize
  /\ Len(runner.history) = runner.round
  /\ runner.model = (IF runner.round = 0 THEN BaseModel ELSE runner.history[runner.round].after)
  /\ HonestTrajectory

\* The model, the lines and the attempt that everything starts with.
LEMMA Beginnings ==
  /\ BaseModel \in Knowing /\ BaseModel.knows = {} /\ <<>> \in JobLines /\ DOMAIN <<>> = {}
  /\ NoAttempt \in AttemptState /\ NoAttempt.pc = "idle" /\ NoAttempt.lines = <<>> /\ NoAttempt.shown = 0
<1>1. BaseModel \in Knowing /\ BaseModel.knows = {}
  BY DEF BaseModel, Knowing
<1>2. <<>> \in JobLines /\ DOMAIN <<>> = {}
  <2>1. <<>> \in [{} -> Case]
    OBVIOUS
  <2>2. [{} -> Case] \in {[K -> Case] : K \in SUBSET Nat}
    OBVIOUS
  <2> QED BY <2>1, <2>2 DEF JobLines
<1>3. NoAttempt \in AttemptState /\ NoAttempt.pc = "idle" /\ NoAttempt.lines = <<>> /\ NoAttempt.shown = 0
  BY <1>1, <1>2 DEF NoAttempt, AttemptState, Handles
<1> QED BY <1>1, <1>2, <1>3

\* A step that leaves the runner alone.
LEMMA RunnerStays ==
  ASSUME HarnessTypes, HarnessInv, UNCHANGED runner, NEW a \in AttemptState, attempt' = a,
         revealed' \in Seq(Labelled), \A i \in DOMAIN revealed' : revealed'[i].gold[1] <= runner.round,
         DOMAIN jobs' \subseteq Handles, jobs' \in [DOMAIN jobs' -> Job], IsFiniteSet(DOMAIN jobs'),
         \A h \in DOMAIN jobs' : UpToRound(jobs'[h].lines, runner.round),
         UpToRound(a.lines, runner.round),
         a.pc \in {"poll", "register", "attach"} => a.handle \in DOMAIN jobs',
         a.pc # "idle" => a.before = runner.model, a.pc = "reveal" => a.shown < BatchSize
  PROVE  HarnessTypes' /\ HarnessInv'
<1>1. HarnessTypes'
  BY DEF HarnessTypes
<1>2. HonestTrajectory'
  BY DEF HarnessInv, HonestTrajectory, Unseen
<1> QED BY <1>1, <1>2 DEF HarnessInv, UpToRound, KnowsBefore

\* Nothing revealed, no job, the base model.
LEMMA HarnessBegins == ASSUME ContinualInit PROVE HarnessTypes /\ HarnessInv
<1>1. PICK h : h = <<>>
  OBVIOUS
<1>2. h \in Seq(RoundRecord) /\ Len(h) = 0 /\ DOMAIN h = {}
  BY <1>1
<1>3. runner \in RunnerState /\ runner.round = 0 /\ runner.model = BaseModel /\ runner.history = h
  BY <1>1, <1>2, Beginnings DEF ContinualInit, RunnerState
<1>4. revealed \in Seq(Labelled) /\ DOMAIN revealed = {}
  BY DEF ContinualInit
<1>5. attempt \in AttemptState /\ attempt.pc = "idle" /\ DOMAIN attempt.lines = {}
  BY Beginnings DEF ContinualInit
<1>6. DOMAIN jobs = {} /\ jobs \in [DOMAIN jobs -> Job] /\ IsFiniteSet(DOMAIN jobs)
  <2>1. DOMAIN jobs = {} /\ jobs \in [DOMAIN jobs -> Job]
    BY DEF ContinualInit
  <2> QED BY <2>1, FS_EmptySet
<1>7. HarnessTypes
  BY <1>3, <1>4, <1>5, <1>6 DEF HarnessTypes
<1>8. HonestTrajectory
  BY <1>2, <1>3 DEF HonestTrajectory
<1> QED BY <1>2, <1>3, <1>4, <1>5, <1>6, <1>7, <1>8, Beginnings DEF HarnessInv, UpToRound, KnowsBefore

\* The steps of a round and of its job, but its end.
LEMMA HarnessStep ==
  ASSUME HarnessTypes, HarnessInv,
         \/ Predict \/ RevealCase \/ ExportReplay \/ SubmitJob \/ PollJob \/ RegisterCandidate
         \/ (\E h \in DOMAIN jobs, status \in {"done", "failed", "incomplete"} : JobEnds(h, status))
         \/ RoundFails
  PROVE  HarnessTypes' /\ HarnessInv'
<1>0. PICK x \in AttemptState, r \in Nat : x = attempt /\ r = runner.round
  BY DEF HarnessTypes, RunnerState
<1>1. /\ x.before \in Knowing /\ x.shown \in Nat /\ x.lines \in JobLines /\ x.handle \in Handles /\ x.polls \in Nat
      /\ runner.model \in Knowing
  BY DEF AttemptState, HarnessTypes, RunnerState
<1>2. ASSUME UNCHANGED <<runner, revealed, jobs>>, NEW a \in AttemptState, attempt' = a,
             UpToRound(a.lines, runner.round),
             a.pc \in {"poll", "register", "attach"} => a.handle \in DOMAIN jobs,
             a.pc # "idle" => a.before = runner.model, a.pc = "reveal" => a.shown < BatchSize
      PROVE  HarnessTypes' /\ HarnessInv'
  <2>1. /\ revealed' \in Seq(Labelled) /\ \A i \in DOMAIN revealed' : revealed'[i].gold[1] <= runner.round
        /\ DOMAIN jobs' \subseteq Handles /\ jobs' \in [DOMAIN jobs' -> Job] /\ IsFiniteSet(DOMAIN jobs')
        /\ \A h \in DOMAIN jobs' : UpToRound(jobs'[h].lines, runner.round)
        /\ DOMAIN jobs' = DOMAIN jobs
    BY <1>2 DEF HarnessTypes, HarnessInv
  <2> QED BY <1>2, <2>1, RunnerStays
<1>3. /\ NoAttempt \in AttemptState /\ NoAttempt.pc = "idle" /\ UpToRound(NoAttempt.lines, runner.round)
  BY Beginnings DEF UpToRound
<1>4. CASE Predict
  <2>1. PICK a : a = [NoAttempt EXCEPT !.pc = "reveal", !.before = runner.model]
    OBVIOUS
  <2>2. a \in AttemptState /\ a.pc = "reveal" /\ a.before = runner.model /\ a.lines = NoAttempt.lines /\ a.shown = 0
    BY <1>1, <1>3, <2>1, Beginnings DEF AttemptState
  <2>3. attempt' = a /\ UNCHANGED <<runner, revealed, jobs>>
    BY <1>4, <2>1 DEF Predict
  <2> QED BY <1>2, <1>3, <2>2, <2>3, ContinualAssumption
<1>5. CASE RevealCase
  <2>1. PICK i : i = x.shown + 1
    OBVIOUS
  <2>2. x.pc = "reveal" /\ x.before = runner.model /\ x.shown < BatchSize
    BY <1>0, <1>5 DEF RevealCase, InRound, HarnessInv
  <2>3. i \in Nat /\ i \in 1..BatchSize /\ (i # BatchSize => i < BatchSize)
    BY <1>1, <2>1, <2>2, ContinualAssumption
  <2>4. PICK a : a = [x EXCEPT !.shown = i, !.pc = IF i = BatchSize THEN "export" ELSE "reveal"]
    OBVIOUS
  <2>5. a \in AttemptState /\ a.lines = x.lines /\ a.before = x.before /\ a.shown = i
        /\ a.pc \in {"reveal", "export"} /\ (a.pc = "reveal" => i # BatchSize)
    <3>1. CASE i = BatchSize
      BY <2>3, <2>4, <3>1 DEF AttemptState
    <3>2. CASE i # BatchSize
      BY <2>3, <2>4, <3>2 DEF AttemptState
    <3> QED BY <3>1, <3>2
  <2>6. PICK c : c = <<r, i>>
    OBVIOUS
  <2>7. c = Batch(runner.round)[i] /\ c \in Case /\ c[1] = r
    BY <1>0, <2>3, <2>6 DEF Batch, Case
  <2>8. PICK e : e = [family |-> FamilyOfCase[c], actor |-> "harness", cluster |-> NoCluster,
                      source |-> "semantic_annotation", gold |-> c, weight |-> 1]
    OBVIOUS
  <2>9. e \in Labelled /\ e.gold = c
    BY <2>7, <2>8 DEF Labelled
  <2>10. revealed' = Append(revealed, e) /\ attempt' = a /\ UNCHANGED <<runner, jobs>>
    BY <1>0, <1>5, <2>1, <2>4, <2>7, <2>8 DEF RevealCase, Capture, Positive
  <2>11. revealed' \in Seq(Labelled) /\ \A j \in DOMAIN revealed' : revealed'[j] = e \/ (j \in DOMAIN revealed /\ revealed'[j] = revealed[j])
    BY <2>9, <2>10 DEF HarnessTypes
  <2>12. \A j \in DOMAIN revealed' : revealed'[j].gold[1] <= runner.round
    BY <1>0, <2>7, <2>9, <2>11 DEF HarnessInv
  <2>13. UpToRound(a.lines, runner.round)
    BY <1>0, <2>5 DEF HarnessInv
  <2>14. DOMAIN jobs' \subseteq Handles /\ jobs' \in [DOMAIN jobs' -> Job] /\ IsFiniteSet(DOMAIN jobs')
         /\ \A h \in DOMAIN jobs' : UpToRound(jobs'[h].lines, runner.round)
    BY <2>10 DEF HarnessTypes, HarnessInv
  <2>15. UNCHANGED runner /\ (a.pc = "reveal" => a.shown < BatchSize)
    BY <2>3, <2>5, <2>10
  <2> QED BY <2>2, <2>5, <2>10, <2>11, <2>12, <2>13, <2>14, <2>15, RunnerStays
<1>6. CASE ExportReplay
  <2>1. PICK K : K = ExportJsonl(revealed, {}, {})
    OBVIOUS
  <2>2. PICK n \in Nat : n = Len(revealed) /\ DOMAIN revealed = 1..n /\ \A i \in 1..n : revealed[i] \in Labelled
    BY DEF HarnessTypes
  <2>3. K \subseteq DOMAIN revealed
    BY <2>1 DEF ExportJsonl, ApplyCaps, Filtered, DedupByCluster, Unquarantined
  <2>4. K \in SUBSET Nat /\ \A i \in K : revealed[i].gold \in Case
    BY <2>2, <2>3 DEF Labelled
  <2>5. PICK L : L = [i \in K |-> revealed[i].gold]
    OBVIOUS
  <2>6. L \in [K -> Case] /\ UpToRound(L, runner.round)
    BY <2>3, <2>4, <2>5 DEF UpToRound, HarnessInv
  <2>7. L \in JobLines
    BY <2>4, <2>6 DEF JobLines
  <2>8. PICK a : a = [x EXCEPT !.pc = "submit", !.lines = L]
    OBVIOUS
  <2>9. a \in AttemptState /\ a.pc = "submit" /\ a.lines = L /\ a.before = x.before
    BY <2>7, <2>8 DEF AttemptState
  <2>10. attempt' = a /\ UNCHANGED <<runner, revealed, jobs>> /\ x.before = runner.model
    BY <1>0, <1>6, <2>1, <2>5, <2>8 DEF ExportReplay, InRound, HarnessInv
  <2> QED BY <1>2, <2>6, <2>9, <2>10
<1>7. CASE RoundErr /\ UNCHANGED jobs
  BY <1>2, <1>3, <1>7 DEF RoundErr
<1>8. ASSUME NEW h \in Handles, NEW j \in Job, jobs' = Add(jobs, h, j), UpToRound(j.lines, runner.round)
      PROVE  /\ DOMAIN jobs' \subseteq Handles /\ jobs' \in [DOMAIN jobs' -> Job] /\ IsFiniteSet(DOMAIN jobs')
             /\ \A k \in DOMAIN jobs' : UpToRound(jobs'[k].lines, runner.round)
             /\ DOMAIN jobs' = DOMAIN jobs \cup {h}
  <2>1. DOMAIN jobs' = DOMAIN jobs \cup {h} /\ DOMAIN jobs \subseteq Handles /\ IsFiniteSet(DOMAIN jobs)
    BY <1>8 DEF Add, HarnessTypes
  <2>2. IsFiniteSet(DOMAIN jobs')
    BY <2>1, FS_AddElement
  <2>3. \A k \in DOMAIN jobs' : jobs'[k] = j \/ (k \in DOMAIN jobs /\ jobs'[k] = jobs[k])
    BY <1>8, <2>1 DEF Add
  <2>4. jobs' \in [DOMAIN jobs' -> Job]
    <3>1. \A k \in DOMAIN jobs' : jobs'[k] \in Job
      BY <2>3 DEF HarnessTypes
    <3>2. jobs' = [k \in DOMAIN jobs' |-> jobs'[k]]
      BY <1>8 DEF Add
    <3> QED BY <3>1, <3>2
  <2>5. \A k \in DOMAIN jobs' : UpToRound(jobs'[k].lines, runner.round)
    BY <1>8, <2>3 DEF HarnessInv
  <2> QED BY <2>1, <2>2, <2>4, <2>5
<1>9. CASE SubmitJob
  <2>1. CASE OverBudget
    BY <1>7, <1>9, <2>1 DEF SubmitJob
  <2>2. CASE ~OverBudget
    <3>1. PICK h, j : h = HandleFor(x.lines) /\ j = NewJob(x.lines)
      OBVIOUS
    <3>2. h \in Handles
      <4>1. Cardinality(DOMAIN jobs) \in Nat
        BY FS_CardinalityType DEF HarnessTypes
      <4> QED BY <1>1, <3>1, <4>1 DEF HandleFor, Handles
    <3>3. j \in Job /\ j.lines = x.lines
      BY <1>1, <3>1 DEF NewJob, Job
    <3>4. UpToRound(j.lines, runner.round) /\ x.pc = "submit" /\ x.before = runner.model
      BY <1>0, <1>9, <3>3 DEF SubmitJob, InRound, HarnessInv
    <3>5. jobs' = Add(jobs, h, j)
      BY <1>0, <1>9, <2>2, <3>1 DEF SubmitJob
    <3>6. /\ DOMAIN jobs' \subseteq Handles /\ jobs' \in [DOMAIN jobs' -> Job] /\ IsFiniteSet(DOMAIN jobs')
          /\ \A k \in DOMAIN jobs' : UpToRound(jobs'[k].lines, runner.round)
          /\ DOMAIN jobs' = DOMAIN jobs \cup {h}
      BY <1>8, <3>2, <3>3, <3>4, <3>5
    <3>7. revealed \in Seq(Labelled) /\ \A i \in DOMAIN revealed : revealed[i].gold[1] <= runner.round
      BY DEF HarnessTypes, HarnessInv
    <3>8. PICK a : a = [x EXCEPT !.pc = "poll", !.handle = h]
      OBVIOUS
    <3>9. a \in AttemptState /\ a.pc = "poll" /\ a.handle = h /\ a.lines = x.lines /\ a.before = x.before
      BY <3>2, <3>8 DEF AttemptState
    <3>10. CASE attempt' = a
      <4>1. UNCHANGED <<runner, revealed>>
        BY <1>9, <2>2 DEF SubmitJob, RoundErr
      <4> QED BY <3>3, <3>4, <3>6, <3>7, <3>9, <3>10, <4>1, RunnerStays
    <3>11. CASE RoundErr
      <4>1. attempt' = NoAttempt /\ UNCHANGED <<runner, revealed>>
        BY <3>11 DEF RoundErr
      <4> QED BY <1>3, <3>6, <3>7, <4>1, RunnerStays
    <3> QED BY <1>0, <1>9, <2>2, <3>1, <3>8, <3>10, <3>11 DEF SubmitJob
  <2> QED BY <2>1, <2>2
<1>10. ASSUME NEW p \in {"register", "attach"}, x.pc \in {"poll", "register"}, attempt' = [attempt EXCEPT !.pc = p],
              UNCHANGED <<runner, revealed, jobs>>
       PROVE  HarnessTypes' /\ HarnessInv'
  <2>1. PICK a : a = [x EXCEPT !.pc = p]
    OBVIOUS
  <2>2. a \in AttemptState /\ a.pc = p /\ a.handle = x.handle /\ a.lines = x.lines /\ a.before = x.before
    BY <1>10, <2>1 DEF AttemptState
  <2>3. attempt' = a
    BY <1>0, <1>10, <2>1
  <2>4. UpToRound(a.lines, runner.round) /\ a.handle \in DOMAIN jobs /\ a.before = runner.model
    BY <1>0, <1>10, <2>2 DEF HarnessInv
  <2> QED BY <1>2, <1>10, <2>2, <2>3, <2>4
<1>11. CASE PollJob
  <2>1. x.pc = "poll" /\ UNCHANGED jobs
    BY <1>0, <1>11 DEF PollJob, InRound
  <2>2. CASE Trained /\ UNCHANGED revealed
    BY <1>10, <2>1, <2>2 DEF Trained
  <2>3. CASE attempt' = [attempt EXCEPT !.polls = @ + 1] /\ UNCHANGED <<revealed, runner>>
    <3>1. PICK q : q = x.polls + 1
      OBVIOUS
    <3>2. PICK a : a = [x EXCEPT !.polls = q]
      OBVIOUS
    <3>3. a \in AttemptState /\ a.pc = x.pc /\ a.handle = x.handle /\ a.lines = x.lines /\ a.before = x.before
      BY <1>1, <3>1, <3>2 DEF AttemptState
    <3>4. attempt' = a
      BY <1>0, <2>3, <3>1, <3>2
    <3>5. UpToRound(a.lines, runner.round) /\ a.handle \in DOMAIN jobs /\ a.before = runner.model
      BY <1>0, <2>1, <3>3 DEF HarnessInv
    <3> QED BY <1>2, <2>1, <2>3, <3>3, <3>4, <3>5
  <2>4. CASE RoundErr
    BY <1>7, <2>1, <2>4
  <2> QED BY <1>11, <2>2, <2>3, <2>4 DEF PollJob
<1>12. CASE RegisterCandidate
  <2>1. x.pc = "register" /\ UNCHANGED jobs
    BY <1>0, <1>12 DEF RegisterCandidate, InRound
  <2>2. CASE RoundErr
    BY <1>7, <2>1, <2>2
  <2>3. CASE attempt' = [attempt EXCEPT !.pc = "attach"] /\ UNCHANGED <<revealed, runner>>
    BY <1>10, <2>1, <2>3
  <2> QED BY <1>12, <2>2, <2>3 DEF RegisterCandidate
<1>13. ASSUME NEW h \in DOMAIN jobs, NEW status \in {"done", "failed", "incomplete"}, JobEnds(h, status)
       PROVE  HarnessTypes' /\ HarnessInv'
  <2>1. PICK j : j = [jobs[h] EXCEPT !.status = status]
    OBVIOUS
  <2>2. jobs[h] \in Job
    BY DEF HarnessTypes
  <2>3. j \in Job /\ j.lines = jobs[h].lines
    BY <2>1, <2>2 DEF Job
  <2>4. jobs' = [jobs EXCEPT ![h] = j] /\ UNCHANGED <<runner, revealed, attempt>>
    BY <1>13, <2>1 DEF JobEnds
  <2>5. DOMAIN jobs' = DOMAIN jobs /\ jobs' \in [DOMAIN jobs -> Job]
        /\ \A k \in DOMAIN jobs : jobs'[k].lines = jobs[k].lines
    BY <2>3, <2>4 DEF HarnessTypes
  <2>6. \A k \in DOMAIN jobs' : UpToRound(jobs'[k].lines, runner.round)
    BY <2>5 DEF HarnessInv
  <2>7. DOMAIN jobs' \subseteq Handles /\ IsFiniteSet(DOMAIN jobs') /\ jobs' \in [DOMAIN jobs' -> Job]
    BY <2>5 DEF HarnessTypes
  <2>8. /\ revealed' \in Seq(Labelled) /\ \A i \in DOMAIN revealed' : revealed'[i].gold[1] <= runner.round
        /\ attempt' = x /\ UpToRound(x.lines, runner.round) /\ UNCHANGED runner
        /\ (x.pc \in {"poll", "register", "attach"} => x.handle \in DOMAIN jobs')
        /\ (x.pc # "idle" => x.before = runner.model) /\ (x.pc = "reveal" => x.shown < BatchSize)
    BY <1>0, <2>4, <2>5 DEF HarnessTypes, HarnessInv
  <2> QED BY <2>6, <2>7, <2>8, RunnerStays
<1>14. CASE RoundFails
  BY <1>7, <1>14 DEF RoundFails
<1> QED BY <1>4, <1>5, <1>6, <1>9, <1>11, <1>12, <1>13, <1>14

\* A line of a job is a case.
LEMMA LinesAreCases == ASSUME NEW L \in JobLines, NEW i \in DOMAIN L PROVE L[i] \in Case
<1>1. PICK F \in {[K -> Case] : K \in SUBSET Nat} : L \in F
  BY DEF JobLines
<1>2. PICK K \in SUBSET Nat : F = [K -> Case]
  BY <1>1
<1> QED BY <1>1, <1>2

\* A job's lines hold labels of no round after this one, and so does the model trained
\* on them, which predicts only from the next round on.
LEMMA FinishStep ==
  ASSUME HarnessTypes, HarnessInv, NEW passes \in BOOLEAN, FinishRound(passes)
  PROVE  HarnessTypes' /\ HarnessInv'
<1>1. PICK r \in Nat, h \in Seq(RoundRecord), m \in Knowing :
        /\ r = runner.round /\ h = runner.history /\ m = runner.model /\ Len(h) = r
        /\ m = (IF r = 0 THEN BaseModel ELSE h[r].after)
  BY DEF HarnessTypes, RunnerState, HarnessInv
<1>2. PICK L : L = jobs[attempt.handle].lines
  OBVIOUS
<1>3. attempt.pc = "attach" /\ attempt.handle \in DOMAIN jobs /\ attempt.before = m
  BY <1>1 DEF FinishRound, InRound, HarnessInv
<1>4. L \in JobLines /\ UpToRound(L, r)
  <2>1. jobs[attempt.handle] \in Job
    BY <1>3 DEF HarnessTypes
  <2> QED BY <1>1, <1>2, <1>3, <2>1 DEF Job, HarnessInv
<1>5. PICK new : new = [of |-> r + 1, knows |-> Cases(L)]
  OBVIOUS
<1>6. new \in Knowing /\ \A c \in new.knows : c \in Case /\ c[1] <= r
  <2>1. \A c \in Cases(L) : c \in Case /\ c[1] <= r
    BY <1>4, LinesAreCases DEF Cases, UpToRound
  <2> QED BY <1>1, <1>5, <2>1 DEF Knowing
<1>7. \A c \in m.knows : c \in Case /\ c[1] < r
  BY <1>1 DEF HarnessInv, KnowsBefore, Knowing
<1>8. PICK after : after = IF passes THEN new ELSE m
  OBVIOUS
<1>9. after \in Knowing /\ \A c \in after.knows : c \in Case /\ c[1] <= r
  <2>1. \A c \in m.knows : c \in Case /\ c[1] <= r
    BY <1>1, <1>7 DEF Case
  <2> QED BY <1>1, <1>6, <1>8, <2>1
<1>10. PICK g : g = {r + 1} \cap (0..(Rounds - 1))
  OBVIOUS
<1>11. PICK rec : rec = [round |-> r, model |-> m, after |-> after, passed |-> passes, gainOn |-> g]
  OBVIOUS
<1>12. rec \in RoundRecord /\ rec.round = r /\ rec.model = m /\ rec.after = after /\ rec.gainOn = g
  BY <1>1, <1>9, <1>10, <1>11 DEF RoundRecord
<1>13. PICK h2 : h2 = Append(h, rec)
  OBVIOUS
<1>14. /\ h2 \in Seq(RoundRecord) /\ Len(h2) = r + 1 /\ DOMAIN h2 = 1..(r + 1) /\ DOMAIN h = 1..r
       /\ h2[r + 1] = rec /\ \A k \in 1..r : h2[k] = h[k]
  BY <1>1, <1>12, <1>13
<1>15. PICK s : s = r + 1
  OBVIOUS
<1>16. PICK x : x = [runner EXCEPT !.round = s, !.model = after, !.history = h2]
  OBVIOUS
<1>17. s \in Nat /\ x \in RunnerState /\ x.round = s /\ x.model = after /\ x.history = h2
  <2>1. s \in Nat
    BY <1>1, <1>15
  <2> QED BY <1>9, <1>14, <1>16, <2>1 DEF HarnessTypes, RunnerState
<1>18. runner' = x /\ attempt' = NoAttempt /\ UNCHANGED <<revealed, jobs>>
  BY <1>1, <1>2, <1>3, <1>5, <1>8, <1>10, <1>11, <1>13, <1>15, <1>16 DEF FinishRound
<1>19. HarnessTypes'
  BY <1>17, <1>18, Beginnings DEF HarnessTypes
<1>20. \A c : c \in Case => c[1] \in Nat
  BY DEF Case
<1>21. \A i \in DOMAIN revealed : revealed[i].gold[1] <= s
  <2> TAKE i \in DOMAIN revealed
  <2>1. revealed[i] \in Labelled /\ revealed[i].gold[1] <= r
    BY <1>1 DEF HarnessTypes, HarnessInv
  <2>2. revealed[i].gold \in Case
    BY <2>1 DEF Labelled
  <2> QED BY <1>1, <1>15, <1>20, <2>1, <2>2
<1>22. \A k \in DOMAIN jobs : UpToRound(jobs[k].lines, s)
  <2> TAKE k \in DOMAIN jobs
  <2>1. jobs[k] \in Job /\ UpToRound(jobs[k].lines, r)
    BY <1>1 DEF HarnessTypes, HarnessInv
  <2>2. jobs[k].lines \in JobLines
    BY <2>1 DEF Job
  <2>3. \A i \in DOMAIN jobs[k].lines : jobs[k].lines[i] \in Case
    BY <2>2, LinesAreCases
  <2> QED BY <1>1, <1>15, <1>20, <2>1, <2>3 DEF UpToRound
<1>23. KnowsBefore(after, s)
  BY <1>1, <1>9, <1>15, <1>20 DEF KnowsBefore
<1>24. ASSUME NEW k \in 1..(r + 1)
       PROVE  /\ h2[k].round = k - 1
              /\ h2[k].model = (IF k = 1 THEN BaseModel ELSE h2[k - 1].after)
              /\ Unseen(h2[k].model, (k - 1)..Rounds) /\ Unseen(h2[k].after, h2[k].gainOn)
  <2>1. CASE k = r + 1
    <3>1. h2[k] = rec /\ k - 1 = r
      BY <1>1, <1>14, <2>1
    <3>2. rec.model = (IF k = 1 THEN BaseModel ELSE h2[k - 1].after)
      <4>1. CASE r = 0
        BY <1>1, <1>12, <2>1, <4>1
      <4>2. CASE r # 0
        <5>1. k # 1 /\ r \in 1..r
          BY <1>1, <2>1, <4>2
        <5> QED BY <1>1, <1>12, <1>14, <3>1, <4>2, <5>1
      <4> QED BY <4>1, <4>2
    <3>3. Unseen(m, r..Rounds)
      BY <1>1, <1>7, <1>20 DEF Unseen
    <3>4. Unseen(after, g)
      BY <1>1, <1>9, <1>10, <1>20 DEF Unseen
    <3> QED BY <1>12, <3>1, <3>2, <3>3, <3>4
  <2>2. CASE k # r + 1
    <3>1. k \in 1..r /\ (k # 1 => k - 1 \in 1..r)
      BY <1>1, <2>2
    <3>2. h2[k] = h[k] /\ (k # 1 => h2[k - 1] = h[k - 1]) /\ k \in DOMAIN h
      BY <1>14, <3>1
    <3>3. /\ h[k].round = k - 1
          /\ h[k].model = (IF k = 1 THEN BaseModel ELSE h[k - 1].after)
          /\ Unseen(h[k].model, (k - 1)..Rounds) /\ Unseen(h[k].after, h[k].gainOn)
      BY <1>1, <3>2 DEF HarnessInv, HonestTrajectory
    <3> QED BY <3>2, <3>3
  <2> QED BY <2>1, <2>2
<1>25. HonestTrajectory'
  <2>1. runner'.history = h2 /\ DOMAIN h2 = 1..(r + 1)
    BY <1>14, <1>17, <1>18
  <2> QED BY <1>24, <2>1 DEF HonestTrajectory, Unseen
<1>26. /\ Len(h2) = s /\ after = (IF s = 0 THEN BaseModel ELSE h2[s].after)
  BY <1>1, <1>12, <1>14, <1>15
<1>27. HarnessInv'
  BY <1>17, <1>18, <1>21, <1>22, <1>23, <1>25, <1>26, Beginnings DEF HarnessInv, UpToRound, KnowsBefore
<1> QED BY <1>19, <1>27

\* However rounds fail and are run again, and however long jobs outlive them, every
\* number the harness reports of a model is measured on labels it was not trained on,
\* and the rounds are recorded once each, in order, as a chain of models.
THEOREM TrajectoryIsHonest == ContinualSpec => []HonestTrajectory
<1>1. ContinualInit => HarnessTypes /\ HarnessInv
  BY HarnessBegins
<1>2. (HarnessTypes /\ HarnessInv) /\ [ContinualNext]_continualVars => (HarnessTypes /\ HarnessInv)'
  <2> SUFFICES ASSUME HarnessTypes, HarnessInv, [ContinualNext]_continualVars
               PROVE  HarnessTypes' /\ HarnessInv'
    OBVIOUS
  <2>1. CASE UNCHANGED <<revealed, runner, attempt, jobs>>
    BY <2>1 DEF HarnessTypes, HarnessInv, UpToRound, KnowsBefore, HonestTrajectory, Unseen
  <2>2. CASE \/ Predict \/ RevealCase \/ ExportReplay \/ SubmitJob \/ PollJob \/ RegisterCandidate
             \/ (\E h \in DOMAIN jobs, status \in {"done", "failed", "incomplete"} : JobEnds(h, status))
             \/ RoundFails
    BY <2>2, HarnessStep
  <2>3. CASE \E passes \in BOOLEAN : FinishRound(passes)
    BY <2>3, FinishStep
  <2>4. CASE Freeze
    <3>1. PICK x : x = [runner EXCEPT !.frozen = TRUE]
      OBVIOUS
    <3>2. x \in RunnerState /\ x.round = runner.round /\ x.model = runner.model /\ x.history = runner.history
      BY <3>1 DEF HarnessTypes, RunnerState
    <3>3. runner' = x /\ UNCHANGED <<revealed, attempt, jobs>>
      BY <2>4, <3>1 DEF Freeze
    <3>4. HarnessTypes'
      BY <3>2, <3>3 DEF HarnessTypes
    <3>5. HonestTrajectory'
      BY <3>2, <3>3 DEF HarnessInv, HonestTrajectory, Unseen
    <3>6. HarnessInv'
      BY <3>2, <3>3, <3>5 DEF HarnessInv, UpToRound, KnowsBefore
    <3> QED BY <3>4, <3>6
  <2>5. CASE \E backend \in Backends, usd \in Budgets : NewRunner(backend, usd)
    BY <2>1, <2>5 DEF NewRunner
  <2>6. CASE UNCHANGED continualVars
    BY <2>1, <2>6 DEF continualVars
  <2> QED BY <2>2, <2>3, <2>4, <2>5, <2>6 DEF ContinualNext
<1>3. HarnessInv => HonestTrajectory
  BY DEF HarnessInv
<1> QED BY <1>1, <1>2, <1>3, PTL DEF ContinualSpec

-----------------------------------------------------------------------------
(* The synthetic corpus: distances and the order of candidates.             *)

Fields == DOMAIN TypesOf
Signatures == [Types -> Nat]

\* A sum of naturals is a natural.
LEMMA SumIsNatural ==
  ASSUME NEW f, IsFiniteSet(DOMAIN f), \A x \in DOMAIN f : f[x] \in Nat
  PROVE  SumFunction(f) \in Nat
<1>1. PICK D : D = DOMAIN f
  OBVIOUS
<1>2. PICK T : T = {f[x] : x \in D}
  OBVIOUS
<1>3. IsFiniteSet(T) /\ T \subseteq Nat
  <2>1. IsFiniteSet(T)
    BY <1>1, <1>2, ImageIsFinite
  <2> QED BY <1>1, <1>2, <2>1
<1>4. PICK b \in Nat : \A x \in DOMAIN f : f[x] \in 0..b
  <2>1. CASE D = {}
    <3>1. 0 \in Nat /\ \A x \in DOMAIN f : f[x] \in 0..0
      BY <1>1, <2>1
    <3> QED BY <3>1
  <2>2. CASE D # {}
    <3>1. T # {}
      BY <1>2, <2>2
    <3>2. PICK b \in T : \A t \in T : t <= b
      BY <1>3, <3>1, Greatest
    <3>3. b \in Nat /\ \A x \in DOMAIN f : f[x] \in 0..b
      BY <1>1, <1>2, <1>3, <3>2
    <3> QED BY <3>3
  <2> QED BY <2>1, <2>2
<1>5. PICK c \in Nat : c = Cardinality(DOMAIN f)
  BY FS_CardinalityType
<1>6. SumFunction(f) \in 0..(b * c)
  BY <1>4, <1>5, SumOfNaturals
<1>7. b * c \in Nat
  OBVIOUS
<1> QED BY <1>6, <1>7

\* The types of the fields that a sequence has are counted in naturals.
LEMMA SignatureCounts ==
  ASSUME NEW fields \in Seq(Fields)
  PROVE  Signature(fields) \in Signatures
<1> DEFINE count(f, t) == Cardinality({k \in DOMAIN TypesOf[f] : TypesOf[f][k] = t})
<1>1. ASSUME NEW f \in Fields, NEW t PROVE count(f, t) \in Nat
  <2>1. PICK n \in Nat : DOMAIN TypesOf[f] = 1..n
    <3>1. TypesOf[f] \in Seq(Types)
      BY CorpusAssumption DEF Fields
    <3> QED BY <3>1
  <2>2. IsFiniteSet(1..n)
    BY FS_Interval
  <2>3. IsFiniteSet({k \in DOMAIN TypesOf[f] : TypesOf[f][k] = t})
    BY <2>1, <2>2, FS_Subset
  <2> QED BY <2>3, FS_CardinalityType
<1>2. PICK n \in Nat : DOMAIN fields = 1..n
  OBVIOUS
<1>3. ASSUME NEW t \in Types PROVE SumFunction([i \in DOMAIN fields |-> count(fields[i], t)]) \in Nat
  <2> HIDE DEF count
  <2>1. PICK f : f = [i \in DOMAIN fields |-> count(fields[i], t)]
    OBVIOUS
  <2>2. IsFiniteSet(DOMAIN f)
    <3>1. IsFiniteSet(1..n)
      BY FS_Interval
    <3> QED BY <1>2, <2>1, <3>1
  <2>3. \A i \in DOMAIN f : f[i] \in Nat
    BY <1>1, <1>2, <2>1
  <2> QED BY <2>1, <2>2, <2>3, SumIsNatural
<1>4. Signature(fields) = [t \in Types |-> SumFunction([i \in DOMAIN fields |-> count(fields[i], t)])]
  BY DEF Signature
<1> HIDE DEF count
<1> QED BY <1>3, <1>4 DEF Signatures

\* There are five types.
LEMMA TypesAreFinite == IsFiniteSet(Types)
<1>1. Types = {"array"} \cup {"bool"} \cup {"number"} \cup {"object"} \cup {"string"}
  BY DEF Types
<1> QED BY <1>1, FS_Singleton, FS_Union

\* A fraction of integers, its denominator positive.
Fraction == Int \X (Nat \ {0})

\* The lesser and the greater of two numbers, as jaccard_distance takes them.
LEMMA LesserAndGreater ==
  ASSUME NEW a \in Nat, NEW b \in Nat PROVE Min({a, b}) \in Nat /\ Max({a, b}) \in Nat
<1>1. \E x \in {a, b} : \A y \in {a, b} : x <= y
  OBVIOUS
<1>2. \E x \in {a, b} : \A y \in {a, b} : x >= y
  OBVIOUS
<1> QED BY <1>1, <1>2 DEF Min, Max

\* jaccard_distance of any two counts of types.
LEMMA DistanceIsFraction ==
  ASSUME NEW a \in Signatures, NEW b \in Signatures
  PROVE  JaccardDistance(a, b) \in Fraction
<1>1. PICK f : f = [t \in Types |-> Min({a[t], b[t]})]
  OBVIOUS
<1>2. PICK g : g = [t \in Types |-> Max({a[t], b[t]})]
  OBVIOUS
<1>3. SumFunction(f) \in Nat
  <2>1. IsFiniteSet(DOMAIN f) /\ \A t \in DOMAIN f : f[t] \in Nat
    BY <1>1, TypesAreFinite, LesserAndGreater DEF Signatures
  <2> QED BY <2>1, SumIsNatural
<1>4. SumFunction(g) \in Nat
  <2>1. IsFiniteSet(DOMAIN g) /\ \A t \in DOMAIN g : g[t] \in Nat
    BY <1>2, TypesAreFinite, LesserAndGreater DEF Signatures
  <2> QED BY <2>1, SumIsNatural
<1>5. PICK m \in Nat, n \in Nat : m = SumFunction(f) /\ n = SumFunction(g)
  BY <1>3, <1>4
<1>6. JaccardDistance(a, b) = IF n = 0 THEN <<0, 1>> ELSE <<n - m, n>>
  BY <1>1, <1>2, <1>5 DEF JaccardDistance
<1>7. <<0, 1>> \in Fraction /\ (n # 0 => <<n - m, n>> \in Fraction)
  BY DEF Fraction
<1> QED BY <1>6, <1>7

\* Denominators are multiplied.
LEMMA ProductsArePositive ==
  ASSUME NEW a \in Nat \ {0}, NEW b \in Nat \ {0} PROVE a * b \in Nat \ {0}
OBVIOUS

\* Multiplying by a positive number keeps an order, and the strict one both ways.
LEMMA ScaledOrder ==
  ASSUME NEW a \in Int, NEW b \in Int, NEW c \in Nat \ {0}
  PROVE  /\ a * c \in Int /\ b * c \in Int
         /\ a < b <=> a * c < b * c
         /\ a <= b <=> a * c <= b * c
OBVIOUS

\* The factors of a product in another order.
LEMMA Rearranged ==
  ASSUME NEW a \in Int, NEW b \in Int, NEW c \in Int PROVE (a * b) * c = (a * c) * b /\ (a * b) * c = (c * b) * a
OBVIOUS

\* Less is a strict weak order on fractions: a fraction that is not below a second
\* one, and that one not below a third, is not below the third.
LEMMA LessFacts ==
  ASSUME NEW d \in Fraction, NEW e \in Fraction, NEW f \in Fraction
  PROVE  /\ ~Less(d, d)
         /\ Less(d, e) => ~Less(e, d)
         /\ ~Less(d, e) /\ ~Less(e, f) => ~Less(d, f)
<1>1. PICK n \in Int, m \in Nat \ {0} : d = <<n, m>>
  BY DEF Fraction
<1>2. PICK p \in Int, q \in Nat \ {0} : e = <<p, q>>
  BY DEF Fraction
<1>3. PICK r \in Int, s \in Nat \ {0} : f = <<r, s>>
  BY DEF Fraction
<1>4. PICK nq \in Int, pm \in Int, ps \in Int, rq \in Int, ns \in Int, rm \in Int :
        nq = n * q /\ pm = p * m /\ ps = p * s /\ rq = r * q /\ ns = n * s /\ rm = r * m
  OBVIOUS
<1>5. Less(d, e) <=> nq < pm
  BY <1>1, <1>2, <1>4 DEF Less
<1>6. Less(e, d) <=> pm < nq
  BY <1>1, <1>2, <1>4 DEF Less
<1>7. Less(e, f) <=> ps < rq
  BY <1>2, <1>3, <1>4 DEF Less
<1>8. Less(d, f) <=> ns < rm
  BY <1>1, <1>3, <1>4 DEF Less
<1>9. ~Less(d, d)
  <2>1. PICK nm \in Int : nm = n * m
    OBVIOUS
  <2> QED BY <1>1, <2>1 DEF Less
<1>10. ASSUME pm <= nq, rq <= ps PROVE rm <= ns
  <2>1. pm * s <= nq * s
    BY <1>10, ScaledOrder
  <2>2. rq * m <= ps * m
    BY <1>10, ScaledOrder
  <2>3. pm * s = ps * m
    BY <1>4, Rearranged
  <2>4. nq * s = ns * q
    BY <1>4, Rearranged
  <2>5. rq * m = rm * q
    BY <1>4, Rearranged
  <2>6. PICK x \in Int, y \in Int, z \in Int : x = rm * q /\ y = ns * q /\ z = pm * s
    OBVIOUS
  <2>7. x <= y
    BY <2>1, <2>2, <2>3, <2>4, <2>5, <2>6
  <2> QED BY <2>6, <2>7, ScaledOrder
<1> QED BY <1>5, <1>6, <1>7, <1>8, <1>9, <1>10

-----------------------------------------------------------------------------
(* Families, and what is retrieved for a case of one.                       *)

Family == [index : Nat, fields : Seq(Fields), schema : Nat, partition : {"train", "test"}]
AreFamilies(all) ==
  /\ all \in Seq(Family)
  /\ \A i \in DOMAIN all : all[i].index = i - 1
  /\ \A i, j \in DOMAIN all : all[i].schema = all[j].schema => i = j

\* The families of a partition, their schemas, and what they look like as candidates.
Members(all, p) == {i \in DOMAIN all : all[i].partition = p}
SchemasOf(all, p) == {all[i].schema : i \in Members(all, p)}
CandidatesOf(all, p, sig) == {Candidate(all[i], sig) : i \in Members(all, p)}

\* A candidate as it is retrieved, its schema one of the partition.
Offer(all, p) == [family : Int, schema : SchemasOf(all, p), distance : Fraction, rank : Nat \ {0}]

\* What the families of a sequence are.
LEMMA MemberFacts ==
  ASSUME NEW all, AreFamilies(all)
  PROVE  /\ DOMAIN all = 1..Len(all) /\ Len(all) \in Nat
         /\ \A i \in DOMAIN all : /\ i \in Nat \ {0} /\ all[i] \in Family
                                  /\ all[i].index \in Nat /\ all[i].index = i - 1 /\ all[i].index + 1 = i
                                  /\ all[i].schema \in Nat /\ all[i].fields \in Seq(Fields)
<1>1. PICK n \in Nat : n = Len(all) /\ DOMAIN all = 1..n /\ \A i \in 1..n : all[i] \in Family
  BY DEF AreFamilies
<1>2. ASSUME NEW i \in 1..n
      PROVE  /\ all[i].index \in Nat /\ all[i].schema \in Nat /\ all[i].fields \in Seq(Fields)
             /\ all[i].index = i - 1
  <2>1. all[i] \in Family
    BY <1>1
  <2>2. all[i].index \in Nat /\ all[i].schema \in Nat /\ all[i].fields \in Seq(Fields)
    BY <2>1 DEF Family
  <2>3. all[i].index = i - 1
    BY <1>1 DEF AreFamilies
  <2> QED BY <2>2, <2>3
<1> QED BY <1>1, <1>2

\* A family as a candidate.
LEMMA CandidateIs ==
  ASSUME NEW all, AreFamilies(all), NEW p, NEW sig \in Signatures, NEW i \in Members(all, p), NEW c,
         c = Candidate(all[i], sig)
  PROVE  /\ c = [family |-> i - 1, schema |-> all[i].schema, distance |-> c.distance]
         /\ c.schema = all[i].schema /\ c.schema \in SchemasOf(all, p) /\ c.schema \in Nat
         /\ c.family = i - 1 /\ c.family \in Int /\ c.distance \in Fraction
<1>1. i \in DOMAIN all
  BY DEF Members
<1>2. i \in Nat /\ all[i].index = i - 1 /\ all[i].schema \in Nat /\ all[i].fields \in Seq(Fields)
  BY <1>1, MemberFacts
<1>3. Signature(all[i].fields) \in Signatures
  BY <1>2, SignatureCounts
<1>4. JaccardDistance(sig, Signature(all[i].fields)) \in Fraction
  BY <1>3, DistanceIsFraction
<1>5. all[i].schema \in SchemasOf(all, p)
  BY DEF SchemasOf
<1> QED BY <1>2, <1>4, <1>5 DEF Candidate

\* Candidates of one partition are ordered by distance and then by schema id.
LEMMA CandidatesAreOrdered ==
  ASSUME NEW all, AreFamilies(all), NEW p, NEW sig \in Signatures,
         NEW C, C \subseteq CandidatesOf(all, p, sig), NEW R, R = {q \in C \X C : Before(q[1], q[2])}
  PROVE  IsFiniteSet(C) /\ IsOrder(R, C)
<1>1. IsFiniteSet(C)
  <2>1. PICK M : M = Members(all, p)
    OBVIOUS
  <2>2. IsFiniteSet(M)
    <3>1. PICK n \in Nat : DOMAIN all = 1..n
      BY MemberFacts
    <3>2. M \subseteq 1..n
      BY <2>1, <3>1 DEF Members
    <3>3. IsFiniteSet(1..n)
      BY FS_Interval
    <3> QED BY <3>2, <3>3, FS_Subset
  <2>3. PICK f : f = [i \in M |-> Candidate(all[i], sig)]
    OBVIOUS
  <2>4. PICK T : T = {f[i] : i \in M}
    OBVIOUS
  <2>5. IsFiniteSet(T)
    BY <2>2, <2>4, ImageIsFinite
  <2>6. C \in SUBSET T
    BY <2>1, <2>3, <2>4 DEF CandidatesOf
  <2> QED BY <2>5, <2>6, FS_Subset
<1>2. ASSUME NEW c \in C PROVE c.distance \in Fraction /\ c.schema \in Int
  <2>1. PICK i \in Members(all, p) : c = Candidate(all[i], sig)
    BY DEF CandidatesOf
  <2>2. c.distance \in Fraction /\ c.schema \in Nat
    BY <2>1, CandidateIs
  <2> QED BY <2>2
<1>3. PICK W : W = {q \in C \X C : Less(q[1].distance, q[2].distance)}
  OBVIOUS
<1>4. \A x, y \in C : <<x, y>> \in W <=> Less(x.distance, y.distance)
  BY <1>3
<1>5. IsRanking(W, C)
  <2>1. \A x \in C : <<x, x>> \notin W
    BY <1>2, <1>4, LessFacts
  <2>2. \A x, y \in C : <<x, y>> \in W => <<y, x>> \notin W
    BY <1>2, <1>4, LessFacts
  <2>3. ASSUME NEW x \in C, NEW y \in C, NEW z \in C, <<x, y>> \notin W, <<y, z>> \notin W
        PROVE  <<x, z>> \notin W
    BY <1>2, <1>4, <2>3, LessFacts
  <2> QED BY <2>1, <2>2, <2>3 DEF IsRanking
<1>6. PICK key : key = [c \in C |-> c.schema]
  OBVIOUS
<1>7. key \in [C -> Int]
  BY <1>2, <1>6
<1>8. ASSUME NEW x \in C, NEW y \in C, key[x] = key[y] PROVE x = y
  <2>1. PICK i \in Members(all, p) : x = Candidate(all[i], sig)
    BY DEF CandidatesOf
  <2>2. PICK j \in Members(all, p) : y = Candidate(all[j], sig)
    BY DEF CandidatesOf
  <2>3. all[i].schema = all[j].schema
    BY <1>6, <1>8, <2>1, <2>2, CandidateIs
  <2>4. i = j
    BY <2>3 DEF AreFamilies, Members
  <2> QED BY <2>1, <2>2, <2>4
<1>9. ASSUME NEW x \in C, NEW y \in C
      PROVE  <<x, y>> \in R <=> <<x, y>> \in W \/ (<<y, x>> \notin W /\ key[x] < key[y])
  BY <1>4, <1>6 DEF Before
<1>10. IsOrder(R, C)
  BY <1>5, <1>7, <1>8, <1>9, TiesBroken
<1> QED BY <1>1, <1>10

\* Ranked candidates of a partition: every one of them is there, as itself.
IsRanked(r, C) ==
  /\ \A i \in DOMAIN r : \E c \in C : r[i] = [family |-> c.family, schema |-> c.schema, distance |-> c.distance, rank |-> i]
  /\ \A c \in C : \E i \in DOMAIN r : r[i].schema = c.schema

\* What ranking candidates of a partition yields.
LEMMA RankedFacts ==
  ASSUME NEW all, AreFamilies(all), NEW p, NEW sig \in Signatures,
         NEW C, C \subseteq CandidatesOf(all, p, sig), NEW r, r = Ranked(C)
  PROVE  IsRanked(r, C) /\ r \in Seq(Offer(all, p))
<1>1. PICK R : R = {q \in C \X C : Before(q[1], q[2])}
  OBVIOUS
<1>2. IsFiniteSet(C) /\ IsOrder(R, C)
  BY <1>1, CandidatesAreOrdered
<1>3. PICK at : at = InOrder(C, R)
  OBVIOUS
<1>4. PICK n \in Nat : n = Cardinality(C) /\ DOMAIN at = 1..n /\ \A k \in 1..n : at[k] \in C
  BY <1>2, <1>3, Arranged
<1>5. \A c \in C : \E k \in 1..n : at[k] = c
  BY <1>2, <1>3, <1>4, InTurn
<1>6. r = [i \in 1..n |->
             [family |-> at[i].family, schema |-> at[i].schema, distance |-> at[i].distance, rank |-> i]]
  BY <1>1, <1>3, <1>4 DEF Ranked
<1>7. IsRanked(r, C)
  <2>1. \A i \in DOMAIN r : \E c \in C : r[i] = [family |-> c.family, schema |-> c.schema, distance |-> c.distance, rank |-> i]
    BY <1>4, <1>6
  <2>2. \A c \in C : \E i \in DOMAIN r : r[i].schema = c.schema
    BY <1>5, <1>6
  <2> QED BY <2>1, <2>2 DEF IsRanked
<1>8. ASSUME NEW k \in 1..n PROVE r[k] \in Offer(all, p)
  <2>1. PICK c \in C : r[k] = [family |-> c.family, schema |-> c.schema, distance |-> c.distance, rank |-> k]
    BY <1>6, <1>7 DEF IsRanked
  <2>2. PICK i \in Members(all, p) : c = Candidate(all[i], sig)
    BY DEF CandidatesOf
  <2>3. c.family \in Int /\ c.schema \in SchemasOf(all, p) /\ c.distance \in Fraction
    BY <2>2, CandidateIs
  <2>4. k \in Nat \ {0}
    OBVIOUS
  <2> QED BY <2>1, <2>3, <2>4 DEF Offer
<1> QED BY <1>6, <1>7, <1>8

\* What is kept of a sequence.
LEMMA KeptOf ==
  ASSUME NEW T, NEW s \in Seq(T), NEW I, I \subseteq DOMAIN s, NEW t, t = ElementsAt(s, I)
  PROVE  t \in Seq(T) /\ \A k \in DOMAIN t : \E i \in I : t[k] = s[i]
<1>1. PICK n \in Nat : DOMAIN s = 1..n /\ I \subseteq 1..n /\ \A i \in 1..n : s[i] \in T
  OBVIOUS
<1>2. PICK m \in Nat : \E at \in [1..m -> I] : Picks(t, s, m, at)
  BY <1>1, ElementsKept
<1>3. PICK at \in [1..m -> I] : Picks(t, s, m, at)
  BY <1>2
<1>4. t = [k \in 1..m |-> s[at[k]]] /\ \A k \in 1..m : at[k] \in I
  BY <1>3 DEF Picks
<1>5. \A k \in 1..m : t[k] \in T
  BY <1>1, <1>4
<1>6. t \in Seq(T) /\ DOMAIN t = 1..m
  BY <1>4, <1>5
<1> QED BY <1>4, <1>6

\* A sequence that starts over yields only its elements.
LEMMA CycleIsElement ==
  ASSUME NEW T, NEW s \in Seq(T), s # <<>>, NEW n \in Nat PROVE Cycle(s, n) \in T
<1>1. PICK k \in Nat \ {0} : k = Len(s)
  OBVIOUS
<1>2. n % k \in 0..(k - 1)
  OBVIOUS
<1>3. (n % k) + 1 \in 1..k
  BY <1>2
<1> QED BY <1>1, <1>3 DEF Cycle

\* What is nearest within a partition are families of it.
AreMembers(r, all, p) == \A k \in DOMAIN r : r[k].family + 1 \in Members(all, p)

\* nearest_same_partition
LEMMA NearestFacts ==
  ASSUME NEW all, AreFamilies(all), NEW p, NEW exclude, NEW sig \in Signatures, NEW take,
         NEW near, near = NearestSamePartition(all, exclude, p, sig, take)
  PROVE  near \in Seq(Offer(all, p)) /\ AreMembers(near, all, p)
<1>1. PICK P : P = Peers(all, exclude, p)
  OBVIOUS
<1>2. P \subseteq Members(all, p)
  BY <1>1 DEF Peers, Members
<1>3. PICK C : C = {Candidate(all[i], sig) : i \in P}
  OBVIOUS
<1>4. C \subseteq CandidatesOf(all, p, sig)
  BY <1>2, <1>3 DEF CandidatesOf
<1>5. PICK r : r = Ranked(C)
  OBVIOUS
<1>6. IsRanked(r, C) /\ r \in Seq(Offer(all, p))
  BY <1>4, <1>5, RankedFacts
<1>7. PICK I : I = {i \in DOMAIN r : i <= take}
  OBVIOUS
<1>8. near = ElementsAt(r, I)
  BY <1>1, <1>3, <1>5, <1>7 DEF NearestSamePartition
<1>9. near \in Seq(Offer(all, p)) /\ \A k \in DOMAIN near : \E i \in I : near[k] = r[i]
  <2>1. PICK T : T = Offer(all, p)
    OBVIOUS
  <2>2. r \in Seq(T) /\ I \subseteq DOMAIN r
    BY <1>6, <1>7, <2>1
  <2>3. near \in Seq(T) /\ \A k \in DOMAIN near : \E i \in I : near[k] = r[i]
    BY <1>8, <2>2, KeptOf
  <2> QED BY <2>1, <2>3
<1>10. ASSUME NEW k \in DOMAIN near PROVE near[k].family + 1 \in Members(all, p)
  <2>1. PICK i \in DOMAIN r : near[k] = r[i]
    BY <1>7, <1>9
  <2>2. PICK c \in C : r[i] = [family |-> c.family, schema |-> c.schema, distance |-> c.distance, rank |-> i]
    BY <1>6 DEF IsRanked
  <2>3. PICK j \in Members(all, p) : c = Candidate(all[j], sig)
    BY <1>2, <1>3, <2>2
  <2>4. c.family = j - 1
    BY <2>3, CandidateIs
  <2>5. j \in Nat
    BY MemberFacts DEF Members
  <2>6. near[k].family = j - 1
    BY <2>1, <2>2, <2>4
  <2> QED BY <2>5, <2>6
<1> QED BY <1>9, <1>10 DEF AreMembers

\* build_retrieved_with_gold: the gold is there, however many are taken.
LEMMA GoldIsRetrieved ==
  ASSUME NEW all, AreFamilies(all), NEW f \in DOMAIN all, NEW p, p = all[f].partition,
         NEW sig \in Signatures, NEW k, NEW r, r = RetrievedWithGold(all[f], all, sig, k)
  PROVE  r \in Seq(Offer(all, p)) /\ \E i \in DOMAIN r : r[i].schema = all[f].schema
<1>1. f \in Members(all, p)
  BY DEF Members
<1>2. PICK near : near = NearestSamePartition(all, all[f].index, p, sig, k - 1)
  OBVIOUS
<1>3. near \in Seq(Offer(all, p)) /\ AreMembers(near, all, p)
  BY <1>2, NearestFacts
<1>4. PICK C : C = {Candidate(all[f], sig)} \cup {Candidate(all[c.family + 1], sig) : c \in Elements(near)}
  OBVIOUS
<1>5. r = Ranked(C)
  BY <1>2, <1>4 DEF RetrievedWithGold
<1>6. C \subseteq CandidatesOf(all, p, sig)
  <2> SUFFICES ASSUME NEW x \in C PROVE x \in CandidatesOf(all, p, sig)
    OBVIOUS
  <2>1. CASE x = Candidate(all[f], sig)
    BY <1>1, <2>1 DEF CandidatesOf
  <2>2. CASE \E c \in Elements(near) : x = Candidate(all[c.family + 1], sig)
    <3>1. PICK i \in DOMAIN near : x = Candidate(all[near[i].family + 1], sig)
      BY <2>2 DEF Elements
    <3>2. near[i].family + 1 \in Members(all, p)
      BY <1>3 DEF AreMembers
    <3> QED BY <3>1, <3>2 DEF CandidatesOf
  <2> QED BY <1>4, <2>1, <2>2
<1>7. IsRanked(r, C) /\ r \in Seq(Offer(all, p))
  BY <1>5, <1>6, RankedFacts
<1>8. PICK c \in C : c = Candidate(all[f], sig)
  BY <1>4
<1>9. c.schema = all[f].schema
  BY <1>8 DEF Candidate
<1>10. \E i \in DOMAIN r : r[i].schema = c.schema
  BY <1>7, <1>8 DEF IsRanked
<1> QED BY <1>7, <1>9, <1>10

\* same_partition_peer
LEMMA PeerIsMember ==
  ASSUME NEW all, AreFamilies(all), NEW f \in DOMAIN all, NEW p, p = all[f].partition, NEW offset \in Nat
  PROVE  \E g \in Members(all, p) : SamePartitionPeer(all, all[f], offset) = all[g]
<1>1. PICK P : P = Peers(all, all[f].index, p)
  OBVIOUS
<1>2. P \subseteq Members(all, p) /\ P \subseteq DOMAIN all /\ f \in Members(all, p)
  BY <1>1 DEF Peers, Members
<1>3. PICK peers : peers = ElementsAt(all, P)
  OBVIOUS
<1>4. SamePartitionPeer(all, all[f], offset) = IF peers = <<>> THEN all[f] ELSE Cycle(peers, offset)
  BY <1>1, <1>3 DEF SamePartitionPeer
<1>5. CASE peers = <<>>
  BY <1>2, <1>4, <1>5
<1>6. CASE peers # <<>>
  <2>1. peers \in Seq(Family) /\ \A k \in DOMAIN peers : \E i \in P : peers[k] = all[i]
    <3>1. all \in Seq(Family)
      BY DEF AreFamilies
    <3> QED BY <1>2, <1>3, <3>1, KeptOf
  <2>2. PICK T : T = {all[i] : i \in P}
    OBVIOUS
  <2>3. peers \in Seq(T)
    <3>1. \A k \in 1..Len(peers) : peers[k] \in T
      BY <2>1, <2>2
    <3>2. peers \in [1..Len(peers) -> T] /\ Len(peers) \in Nat
      BY <2>1, <3>1
    <3> QED BY <3>2
  <2>4. Cycle(peers, offset) \in T
    BY <1>6, <2>3, CycleIsElement
  <2> QED BY <1>2, <1>4, <1>6, <2>2, <2>4
<1> QED BY <1>5, <1>6

\* The types a candidate of any kind shows are counted in naturals.
LEMMA ShownTypes ==
  ASSUME NEW all, AreFamilies(all), NEW f \in DOMAIN all, NEW kind
  PROVE  CandidateSignature(kind, all[f], all) \in Signatures
<1>1. PICK fields, x : fields = all[f].fields /\ x = all[f].index
  OBVIOUS
<1>2. fields \in Seq(Fields) /\ x \in Nat /\ Signature(fields) \in Signatures
  BY <1>1, MemberFacts, SignatureCounts
<1>3. ASSUME kind = "add_optional" PROVE CandidateSignature(kind, all[f], all) \in Signatures
  <2>1. FieldPool \in Seq(Fields) /\ FieldPool # <<>>
    BY CorpusAssumption DEF Fields
  <2>2. PICK I : I = {i \in DOMAIN FieldPool : FieldPool[i] \notin Elements(fields)}
    OBVIOUS
  <2>3. PICK unused : unused = ElementsAt(FieldPool, I)
    OBVIOUS
  <2>4. unused \in Seq(Fields)
    BY <2>1, <2>2, <2>3, KeptOf
  <2>5. PickUnusedField(fields, x) = IF unused = <<>> THEN Cycle(fields, x) ELSE Cycle(unused, x)
    BY <2>2, <2>3 DEF PickUnusedField
  <2>6. CASE unused # <<>>
    <3>1. PickUnusedField(fields, x) \in Fields
      BY <1>2, <2>4, <2>5, <2>6, CycleIsElement
    <3>2. Append(fields, PickUnusedField(fields, x)) \in Seq(Fields)
      BY <1>2, <3>1
    <3> QED BY <1>1, <1>3, <3>2, SignatureCounts DEF CandidateSignature
  <2>7. CASE unused = <<>>
    <3>1. fields # <<>>
      <4> SUFFICES ASSUME fields = <<>> PROVE FALSE
        OBVIOUS
      <4>1. 1 \in I
        BY <2>1, <2>2 DEF Elements
      <4>2. PICK n \in Nat : DOMAIN FieldPool = 1..n /\ I \subseteq 1..n
        BY <2>1, <2>2
      <4>3. IsFiniteSet(I)
        <5>1. IsFiniteSet(1..n)
          BY FS_Interval
        <5> QED BY <4>2, <5>1, FS_Subset
      <4>4. PICK R : R = {q \in I \X I : q[1] < q[2]}
        OBVIOUS
      <4>5. IsOrder(R, I)
        BY <4>2, <4>4 DEF IsOrder
      <4>6. PICK at : at = InOrder(I, R)
        OBVIOUS
      <4>7. PICK m \in Nat : m = Cardinality(I) /\ DOMAIN at = 1..m
        BY <4>3, <4>5, <4>6, Arranged
      <4>8. PICK k \in 1..m : at[k] = 1
        BY <4>1, <4>3, <4>5, <4>6, <4>7, InTurn
      <4>9. unused = [i \in 1..m |-> FieldPool[at[i]]]
        BY <2>3, <4>4, <4>6, <4>7 DEF ElementsAt
      <4>10. DOMAIN unused = 1..m /\ 1 \in 1..m /\ DOMAIN unused = {}
        BY <2>7, <4>8, <4>9
      <4> QED BY <4>10
    <3>2. PickUnusedField(fields, x) \in Fields
      BY <1>2, <2>5, <2>7, <3>1, CycleIsElement
    <3>3. Append(fields, PickUnusedField(fields, x)) \in Seq(Fields)
      BY <1>2, <3>2
    <3> QED BY <1>1, <1>3, <3>3, SignatureCounts DEF CandidateSignature
  <2> QED BY <2>6, <2>7
<1>4. ASSUME kind = "wrapper" PROVE CandidateSignature(kind, all[f], all) \in Signatures
  <2>1. PICK s \in Signatures : s = Signature(fields)
    BY <1>2
  <2>2. CandidateSignature(kind, all[f], all) = [s EXCEPT !["object"] = @ + 2, !["string"] = @ + 1]
    BY <1>1, <1>4, <2>1 DEF CandidateSignature
  <2>3. [s EXCEPT !["object"] = @ + 2, !["string"] = @ + 1] \in Signatures
    BY <2>1 DEF Signatures, Types
  <2> QED BY <2>2, <2>3
<1>5. ASSUME kind = "new_family" PROVE CandidateSignature(kind, all[f], all) \in Signatures
  <2>1. Cycle(NovelTemplates, x) \in Seq(Fields)
    <3>1. NovelTemplates \in Seq(Seq(Fields)) /\ NovelTemplates # <<>>
      BY CorpusAssumption DEF Fields
    <3> QED BY <1>2, <3>1, CycleIsElement
  <2> QED BY <1>1, <1>5, <2>1, SignatureCounts DEF CandidateSignature
<1>6. ASSUME kind = "ambiguous" PROVE CandidateSignature(kind, all[f], all) \in Signatures
  <2>1. PICK p : p = all[f].partition
    OBVIOUS
  <2>2. PICK g \in Members(all, p) : SamePartitionPeer(all, all[f], x + 1) = all[g]
    <3>1. x + 1 \in Nat
      BY <1>2
    <3> QED BY <2>1, <3>1, PeerIsMember
  <2>3. all[g].fields \in Seq(Fields)
    BY MemberFacts DEF Members
  <2>4. PICK own, its : own = Half(fields) /\ its = Half(all[g].fields)
    OBVIOUS
  <2>5. own \in Seq(Fields) /\ its \in Seq(Fields)
    <3>1. ASSUME NEW s \in Seq(Fields) PROVE Half(s) \in Seq(Fields)
      <4>1. PICK n \in Nat : n = Len(s)
        OBVIOUS
      <4>2. PICK m : m = (n + 1) \div 2
        OBVIOUS
      <4>3. m \in Nat /\ m <= n
        BY <4>2
      <4>4. \A i \in 1..m : s[i] \in Fields
        BY <4>1, <4>3
      <4>5. Half(s) = SubSeq(s, 1, m)
        BY <4>1, <4>2 DEF Half
      <4> QED BY <4>3, <4>4, <4>5
    <3> QED BY <1>2, <2>3, <2>4, <3>1
  <2>6. PICK I : I = {i \in DOMAIN its : its[i] \notin Elements(own)}
    OBVIOUS
  <2>7. ElementsAt(its, I) \in Seq(Fields)
    BY <2>5, <2>6, KeptOf
  <2>8. Mixed(all[f], all[g]) = own \o ElementsAt(its, I)
    BY <1>1, <2>4, <2>6 DEF Mixed
  <2>9. Mixed(all[f], all[g]) \in Seq(Fields)
    BY <2>5, <2>7, <2>8
  <2>10. CandidateSignature(kind, all[f], all) = Signature(Mixed(all[f], all[g]))
    BY <1>1, <1>6, <2>2 DEF CandidateSignature
  <2> QED BY <2>9, <2>10, SignatureCounts
<1>7. ASSUME kind \notin {"add_optional", "wrapper", "new_family", "ambiguous"}
      PROVE  CandidateSignature(kind, all[f], all) \in Signatures
  BY <1>1, <1>2, <1>7 DEF CandidateSignature
<1> QED BY <1>3, <1>4, <1>5, <1>6, <1>7

\* The kinds of variants, by what build_blueprint does with them.
Keeping == {"exact"} \cup Elements(Drifts) \cup Elements(Splits)
Kinds == Keeping \cup {"new_family"} \cup Elements(Incompatibles) \cup Elements(Abstains)

\* The kinds, listed.
LEMMA KindsAre ==
  /\ Elements(Drifts) = {"add_optional", "widen_nullability", "wrapper", "enum_value"}
  /\ Elements(Splits) = {"snake_camel", "vendor_prefix", "abbrev"}
  /\ Elements(Incompatibles) = {"unit_swap", "generic_names"}
  /\ Elements(Abstains) = {"insufficient", "ambiguous", "missing"}
<1>1. ASSUME NEW a, NEW b PROVE Elements(<<a, b>>) = {a, b}
  <2>1. DOMAIN <<a, b>> = {1, 2}
    OBVIOUS
  <2> QED BY <2>1 DEF Elements
<1>2. ASSUME NEW a, NEW b, NEW c PROVE Elements(<<a, b, c>>) = {a, b, c}
  <2>1. DOMAIN <<a, b, c>> = {1, 2, 3}
    OBVIOUS
  <2> QED BY <2>1 DEF Elements
<1>3. ASSUME NEW a, NEW b, NEW c, NEW d PROVE Elements(<<a, b, c, d>>) = {a, b, c, d}
  <2>1. DOMAIN <<a, b, c, d>> = {1, 2, 3, 4}
    OBVIOUS
  <2> QED BY <2>1 DEF Elements
<1> QED BY <1>1, <1>2, <1>3 DEF Drifts, Splits, Incompatibles, Abstains

\* A lookalike is a candidate like any other.
LEMMA LookalikeIsOffered ==
  ASSUME NEW all, NEW p, NEW family \in Int, NEW schema \in SchemasOf(all, p), NEW distance \in Fraction,
         NEW r, r = Lookalike(family, schema, distance)
  PROVE  r \in Seq(Offer(all, p)) /\ 1 \in DOMAIN r
<1>1. PICK o : o = [family |-> family, schema |-> schema, distance |-> distance, rank |-> 1]
  OBVIOUS
<1>2. o \in Offer(all, p)
  BY <1>1 DEF Offer
<1>3. r = <<o>>
  BY <1>1 DEF Lookalike
<1> QED BY <1>2, <1>3

\* Abstain(ambiguous): the two of the blend are of the partition.
LEMMA TiedAreOffered ==
  ASSUME NEW all, AreFamilies(all), NEW p, NEW f \in Members(all, p), NEW g \in Members(all, p),
         NEW sig \in Signatures, NEW r, r = Tied(all[f], all[g], sig)
  PROVE  r \in Seq(Offer(all, p))
<1>1. all[f].fields \in Seq(Fields) /\ all[g].fields \in Seq(Fields)
  BY MemberFacts DEF Members
<1>2. PICK da \in Fraction : da = JaccardDistance(sig, Signature(all[f].fields))
  BY <1>1, SignatureCounts, DistanceIsFraction
<1>3. PICK db \in Fraction : db = JaccardDistance(sig, Signature(all[g].fields))
  BY <1>1, SignatureCounts, DistanceIsFraction
<1>4. PICK tie : tie = <<da[1] * db[2] + db[1] * da[2], 2 * da[2] * db[2]>>
  OBVIOUS
<1>5. tie \in Fraction
  <2>1. PICK a \in Int, b \in Nat \ {0} : da = <<a, b>>
    BY DEF Fraction
  <2>2. PICK c \in Int, d \in Nat \ {0} : db = <<c, d>>
    BY DEF Fraction
  <2>3. PICK x \in Int, y \in Int : x = a * d /\ y = c * b
    OBVIOUS
  <2>4. PICK e \in Nat \ {0} : e = 2 * b
    OBVIOUS
  <2>5. e * d \in Nat \ {0}
    BY ProductsArePositive
  <2>6. tie = <<x + y, e * d>>
    BY <1>4, <2>1, <2>2, <2>3, <2>4
  <2>7. x + y \in Int
    OBVIOUS
  <2> QED BY <2>5, <2>6, <2>7 DEF Fraction
<1>6. PICK pair : pair = IF all[f].schema <= all[g].schema THEN <<all[f], all[g]>> ELSE <<all[g], all[f]>>
  OBVIOUS
<1>7. r = [i \in 1..2 |-> [family |-> pair[i].index, schema |-> pair[i].schema, distance |-> tie, rank |-> i]]
  BY <1>2, <1>3, <1>4, <1>6 DEF Tied
<1>8. ASSUME NEW i \in 1..2 PROVE r[i] \in Offer(all, p)
  <2>1. PICK k \in Members(all, p) : pair[i] = all[k]
    BY <1>6
  <2>2. all[k].index \in Int /\ all[k].schema \in SchemasOf(all, p)
    BY MemberFacts DEF Members, SchemasOf
  <2>3. i \in Nat \ {0} /\ r[i] = [family |-> all[k].index, schema |-> all[k].schema, distance |-> tie, rank |-> i]
    BY <1>7, <2>1
  <2> QED BY <1>5, <2>2, <2>3 DEF Offer
<1>9. DOMAIN r = 1..2 /\ r = [i \in 1..2 |-> r[i]]
  BY <1>7
<1>10. PICK T : T = Offer(all, p)
  OBVIOUS
<1>11. r = <<r[1], r[2]>>
  BY <1>9
<1>12. r[1] \in T /\ r[2] \in T
  BY <1>8, <1>10
<1>13. <<r[1], r[2]>> \in Seq(T)
  BY <1>12
<1> QED BY <1>10, <1>11, <1>13

\* What build_blueprint retrieves for a kind is of the partition of the family; the
\* family itself is there when the label names it.
LEMMA RetrievedFacts ==
  ASSUME NEW all, AreFamilies(all), NEW f \in DOMAIN all, NEW p, p = all[f].partition,
         NEW kind \in Kinds, NEW r, r = Retrieved(kind, all[f], all)
  PROVE  /\ r \in Seq(Offer(all, p))
         /\ kind \in Keeping => \E i \in DOMAIN r : r[i].schema = all[f].schema
         /\ kind \in Elements(Incompatibles) => 1 \in DOMAIN r
<1>1. f \in Members(all, p) /\ all[f].schema \in SchemasOf(all, p)
  BY DEF Members, SchemasOf
<1>2. PICK sig \in Signatures : sig = CandidateSignature(kind, all[f], all)
  BY ShownTypes
<1>3. kind \in {"exact", "add_optional", "widen_nullability", "wrapper", "enum_value", "snake_camel",
                "vendor_prefix", "abbrev", "new_family", "unit_swap", "generic_names", "insufficient",
                "ambiguous", "missing"}
  BY KindsAre DEF Kinds, Keeping
<1>4. kind \in Keeping <=> kind \in {"exact", "add_optional", "widen_nullability", "wrapper", "enum_value",
                                     "snake_camel", "vendor_prefix", "abbrev"}
  BY KindsAre DEF Keeping
<1>5. kind \in Elements(Incompatibles) <=> kind \in {"unit_swap", "generic_names"}
  BY KindsAre
<1>6. CASE kind \in Keeping
  <2>1. r = RetrievedWithGold(all[f], all, sig, 3)
    BY <1>2, <1>4, <1>6 DEF Retrieved
  <2>2. r \in Seq(Offer(all, p)) /\ \E i \in DOMAIN r : r[i].schema = all[f].schema
    BY <2>1, GoldIsRetrieved
  <2> QED BY <1>4, <1>5, <1>6, <2>2
<1>7. CASE kind = "insufficient"
  <2>1. r = RetrievedWithGold(all[f], all, sig, 1)
    BY <1>2, <1>7 DEF Retrieved
  <2>2. r \in Seq(Offer(all, p))
    BY <2>1, GoldIsRetrieved
  <2> QED BY <1>4, <1>5, <1>7, <2>2
<1>8. CASE kind = "missing"
  <2>1. r = NearestSamePartition(all, all[f].index, p, sig, 2)
    BY <1>2, <1>8 DEF Retrieved
  <2>2. r \in Seq(Offer(all, p))
    BY <2>1, NearestFacts
  <2> QED BY <1>4, <1>5, <1>8, <2>2
<1>9. CASE kind = "new_family"
  <2>1. r = NearestSamePartition(all, FreshFamily, p, sig, 2)
    BY <1>2, <1>9 DEF Retrieved
  <2>2. r \in Seq(Offer(all, p))
    BY <2>1, NearestFacts
  <2> QED BY <1>4, <1>5, <1>9, <2>2
<1>10. CASE kind = "ambiguous"
  <2>1. PICK g \in Members(all, p) : SamePartitionPeer(all, all[f], all[f].index + 1) = all[g]
    <3>1. all[f].index + 1 \in Nat
      BY MemberFacts
    <3> QED BY <3>1, PeerIsMember
  <2>2. r = Tied(all[f], all[g], sig)
    BY <1>2, <1>10, <2>1 DEF Retrieved
  <2>3. r \in Seq(Offer(all, p))
    BY <1>1, <2>2, TiedAreOffered
  <2> QED BY <1>4, <1>5, <1>10, <2>3
<1>11. CASE kind = "unit_swap"
  <2>1. r = Lookalike(FreshFamily, all[f].schema, <<1, 100>>)
    BY <1>2, <1>11 DEF Retrieved
  <2>2. FreshFamily \in Int /\ <<1, 100>> \in Fraction
    BY DEF FreshFamily, Fraction
  <2>3. r \in Seq(Offer(all, p)) /\ 1 \in DOMAIN r
    BY <1>1, <2>1, <2>2, LookalikeIsOffered
  <2> QED BY <1>4, <1>5, <1>11, <2>3
<1>12. CASE kind = "generic_names"
  <2>1. PICK near : near = NearestSamePartition(all, all[f].index, p, sig, 1)
    OBVIOUS
  <2>2. near \in Seq(Offer(all, p))
    BY <2>1, NearestFacts
  <2>3. r = IF near = <<>> THEN Lookalike(FreshFamily, all[f].schema, <<1, 50>>)
            ELSE Lookalike(near[1].family, near[1].schema, AtLeast2Percent(near[1].distance))
    BY <1>2, <1>12, <2>1 DEF Retrieved
  <2>4. CASE near = <<>>
    <3>1. FreshFamily \in Int /\ <<1, 50>> \in Fraction
      BY DEF FreshFamily, Fraction
    <3>2. r \in Seq(Offer(all, p)) /\ 1 \in DOMAIN r
      BY <1>1, <2>3, <2>4, <3>1, LookalikeIsOffered
    <3> QED BY <1>4, <1>5, <1>12, <3>2
  <2>5. CASE near # <<>>
    <3>1. near[1] \in Offer(all, p)
      BY <2>2, <2>5
    <3>2. near[1].family \in Int /\ near[1].schema \in SchemasOf(all, p) /\ near[1].distance \in Fraction
      BY <3>1 DEF Offer
    <3>3. AtLeast2Percent(near[1].distance) \in Fraction
      BY <3>2 DEF AtLeast2Percent, Fraction
    <3>4. r \in Seq(Offer(all, p)) /\ 1 \in DOMAIN r
      BY <2>3, <2>5, <3>2, <3>3, LookalikeIsOffered
    <3> QED BY <1>4, <1>5, <1>12, <3>4
  <2> QED BY <2>4, <2>5
<1> QED BY <1>3, <1>4, <1>6, <1>7, <1>8, <1>9, <1>10, <1>11, <1>12

\* A schema that is offered has a rank.
LEMMA RankIsFound ==
  ASSUME NEW all, NEW p, NEW r \in Seq(Offer(all, p)), NEW i \in DOMAIN r
  PROVE  RankOf(r, r[i].schema) # 0
<1>1. PICK at : at = {j \in DOMAIN r : r[j].schema = r[i].schema}
  OBVIOUS
<1>2. at # {} /\ at \subseteq Nat /\ at \subseteq DOMAIN r
  BY <1>1
<1>3. \E j \in at : \A k \in at : j <= k
  BY <1>2, NatMin
<1>4. Min(at) \in at
  BY <1>3 DEF Min
<1>5. r[Min(at)] \in Offer(all, p)
  <2>1. Min(at) \in DOMAIN r
    BY <1>2, <1>4
  <2> QED BY <2>1
<1>6. r[Min(at)].rank # 0
  BY <1>5 DEF Offer
<1> QED BY <1>1, <1>2, <1>6 DEF RankOf

\* What every case is: it passes EvalCase::validate, names nothing outside its
\* partition, and its own label is neither a foreign id nor, of a split trap, a split.
IsSound(c, all) ==
  /\ c.partition \in {"train", "test"}
  /\ c.retrieved \in Seq(Offer(all, c.partition))
  /\ NamedIn(c) \subseteq SchemasOf(all, c.partition)
  /\ ValidCase(c) /\ IdAllowed(c.decision, c.retrieved)
  /\ c.splitTrap => IsAcceptedMatch(c.decision)

\* finalize_case, of any kind.
LEMMA CaseIsSound ==
  ASSUME NEW all, AreFamilies(all), NEW f \in DOMAIN all, NEW kind \in Kinds,
         NEW c, c = FinalizeCase(kind, all[f], all)
  PROVE  IsSound(c, all)
<1>1. PICK p : p = all[f].partition
  OBVIOUS
<1>2. PICK s : s = all[f].schema
  OBVIOUS
<1>3. p \in {"train", "test"} /\ s \in SchemasOf(all, p)
  <2>1. all[f] \in Family
    BY MemberFacts
  <2> QED BY <1>1, <1>2, <2>1 DEF Family, Members, SchemasOf
<1>4. PICK r : r = Retrieved(kind, all[f], all)
  OBVIOUS
<1>5. /\ r \in Seq(Offer(all, p))
      /\ kind \in Keeping => \E i \in DOMAIN r : r[i].schema = s
      /\ kind \in Elements(Incompatibles) => 1 \in DOMAIN r
  BY <1>1, <1>2, <1>4, RetrievedFacts
<1>6. PICK d : d = Label(kind, all[f], r)
  OBVIOUS
<1>7. PICK gold : gold = IF HasGoldLabel(kind) THEN s ELSE NoSchema
  OBVIOUS
<1>8. /\ c.retrieved = r /\ c.decision = d /\ c.gold = gold /\ c.partition = p
      /\ c.goldRank = (IF gold = NoSchema THEN 0 ELSE RankOf(r, gold))
      /\ c.splitTrap = (kind \in Elements(Splits))
  BY <1>1, <1>2, <1>4, <1>6, <1>7 DEF FinalizeCase
<1>9. ASSUME NEW i \in DOMAIN r PROVE r[i].schema \in SchemasOf(all, p)
  <2>1. r[i] \in Offer(all, p)
    BY <1>5
  <2> QED BY <2>1 DEF Offer
<1>10. kind \in {"exact", "add_optional", "widen_nullability", "wrapper", "enum_value", "snake_camel",
                 "vendor_prefix", "abbrev", "new_family", "unit_swap", "generic_names", "insufficient",
                 "ambiguous", "missing"}
  BY KindsAre DEF Kinds, Keeping
<1>11. gold \in {s, NoSchema}
  BY <1>7
<1>12. CASE kind \in Keeping
  <2>1. PICK relation \in {"exact", "compatible_drift"} : d = Match(s, relation)
    BY <1>2, <1>6, <1>12, KindsAre DEF Label, Keeping
  <2>2. d.kind = "match" /\ d.schema = s /\ IsAcceptedMatch(d)
    BY <2>1 DEF Match, IsAcceptedMatch
  <2>3. PICK i \in DOMAIN r : r[i].schema = s
    BY <1>5, <1>12
  <2>4. RankOf(r, s) # 0
    BY <1>5, <2>3, RankIsFound
  <2>5. ValidCase(c) /\ IdAllowed(d, r)
    BY <1>8, <1>11, <2>2, <2>3, <2>4 DEF ValidCase, IdAllowed
  <2>6. NamedIn(c) \subseteq SchemasOf(all, p)
    BY <1>3, <1>8, <1>9, <1>11, <2>2 DEF NamedIn
  <2> QED BY <1>3, <1>5, <1>8, <2>2, <2>5, <2>6 DEF IsSound
<1>13. CASE kind \in Elements(Incompatibles)
  <2>1. kind \in {"unit_swap", "generic_names"}
    BY <1>13, KindsAre
  <2>2. d = Match(r[1].schema, "incompatible_similarity") /\ ~HasGoldLabel(kind) /\ kind \notin Elements(Splits)
    BY <1>6, <2>1, KindsAre DEF Label, HasGoldLabel
  <2>3. d.kind = "match" /\ d.schema = r[1].schema /\ ~IsAcceptedMatch(d) /\ gold = NoSchema
    BY <1>7, <2>2 DEF Match, IsAcceptedMatch
  <2>4. 1 \in DOMAIN r
    BY <1>5, <1>13
  <2>5. RankOf(r, r[1].schema) # 0
    BY <1>5, <2>4, RankIsFound
  <2>6. ValidCase(c) /\ IdAllowed(d, r)
    BY <1>8, <2>3, <2>4, <2>5 DEF ValidCase, IdAllowed
  <2>7. NamedIn(c) \subseteq SchemasOf(all, p)
    BY <1>3, <1>8, <1>9, <2>3, <2>4 DEF NamedIn
  <2> QED BY <1>3, <1>5, <1>8, <2>2, <2>6, <2>7 DEF IsSound
<1>14. CASE kind \in {"new_family", "insufficient", "ambiguous", "missing"}
  <2>1. kind \notin Elements(Splits)
    BY <1>14, KindsAre
  <2>2. d.kind # "match" /\ d.schema = NoSchema
    BY <1>6, <1>14, KindsAre DEF Label, NewCandidate, Abstain
  <2>3. ValidCase(c) /\ IdAllowed(d, r)
    BY <1>8, <2>2 DEF ValidCase, IdAllowed
  <2>4. NamedIn(c) \subseteq SchemasOf(all, p)
    BY <1>3, <1>8, <1>9, <1>11, <2>2 DEF NamedIn
  <2> QED BY <1>3, <1>5, <1>8, <2>1, <2>3, <2>4 DEF IsSound
<1> QED BY <1>10, <1>12, <1>13, <1>14, KindsAre DEF Keeping

-----------------------------------------------------------------------------
(* The schedule of variants.                                                *)

\* Of five different places, as many are before any place as there are places before it.
LEMMA PlacesBefore ==
  ASSUME NEW left \in 0..4,
         NEW a \in 0..4, NEW b \in 0..4, NEW c \in 0..4, NEW d \in 0..4, NEW e \in 0..4,
         a # b, a # c, a # d, a # e, b # c, b # d, b # e, c # d, c # e, d # e
  PROVE  (IF a < left THEN 1 ELSE 0) + (IF b < left THEN 1 ELSE 0) + (IF c < left THEN 1 ELSE 0)
           + (IF d < left THEN 1 ELSE 0) + (IF e < left THEN 1 ELSE 0) = left
OBVIOUS

\* A number is its whole twentieths and what is left of them.
LEMMA Twentieths ==
  ASSUME NEW x \in Nat
  PROVE  x \div 20 \in Nat /\ x % 20 \in 0..19 /\ x = 20 * (x \div 20) + (x % 20)
OBVIOUS

\* bucket_counts hands out the total, and from seven variants on every bucket has
\* one and the second two.
LEMMA BucketsAddUp ==
  ASSUME NEW m \in Nat, NEW n, n = BucketCounts(m)
  PROVE  /\ n \in [1..5 -> Nat] /\ n[1] + n[2] + n[3] + n[4] + n[5] = m
         /\ m >= 7 => n[1] >= 1 /\ n[2] >= 2 /\ n[3] >= 1 /\ n[4] >= 1 /\ n[5] >= 1
<1>1. PICK base : base = [i \in 1..5 |-> (m * Weights[i]) \div 20]
  OBVIOUS
<1>2. PICK rest : rest = [i \in 1..5 |-> (m * Weights[i]) % 20]
  OBVIOUS
<1>3. /\ Weights[1] = 5 /\ Weights[2] = 4 /\ Weights[3] = 3 /\ Weights[4] = 4 /\ Weights[5] = 4
  BY DEF Weights
<1>4. ASSUME NEW i \in 1..5 PROVE /\ base[i] \in Nat /\ rest[i] \in 0..19
                                  /\ m * Weights[i] = 20 * base[i] + rest[i]
  <2>1. PICK x \in Nat : x = m * Weights[i]
    <3>1. Weights[i] \in Nat
      BY <1>3
    <3> QED BY <3>1
  <2> QED BY <1>1, <1>2, <2>1, Twentieths
<1>5. /\ 5 * m = 20 * base[1] + rest[1] /\ 4 * m = 20 * base[2] + rest[2] /\ 3 * m = 20 * base[3] + rest[3]
      /\ 4 * m = 20 * base[4] + rest[4] /\ 4 * m = 20 * base[5] + rest[5]
  BY <1>3, <1>4
<1>6. PICK left : left = m - (base[1] + base[2] + base[3] + base[4] + base[5])
  OBVIOUS
<1>7. PICK a, b, c, d, e : a = base[1] /\ b = base[2] /\ c = base[3] /\ d = base[4] /\ e = base[5]
  OBVIOUS
<1>8. a \in Nat /\ b \in Nat /\ c \in Nat /\ d \in Nat /\ e \in Nat
  BY <1>4, <1>7
<1>9. PICK v, w, x, y, z : v = rest[1] /\ w = rest[2] /\ x = rest[3] /\ y = rest[4] /\ z = rest[5]
  OBVIOUS
<1>10. v \in 0..19 /\ w \in 0..19 /\ x \in 0..19 /\ y \in 0..19 /\ z \in 0..19
  BY <1>4, <1>9
<1>11. /\ left = m - (a + b + c + d + e)
       /\ 5 * m = 20 * a + v /\ 4 * m = 20 * b + w /\ 3 * m = 20 * c + x /\ 4 * m = 20 * d + y
       /\ 4 * m = 20 * e + z
  BY <1>5, <1>6, <1>7, <1>9
<1>12. /\ left \in 0..4
       /\ m >= 7 => a >= 1 /\ b >= 1 /\ c >= 1 /\ d >= 1 /\ e >= 1
       /\ m >= 10 => b >= 2
       /\ m \in {8, 9} => w > v /\ w > x /\ w = y /\ w = z /\ left # 0
       /\ m = 7 => v = 15 /\ w = 8 /\ x = 1 /\ y = 8 /\ z = 8 /\ left = 2
  <2>1. left \in 0..4 /\ (m >= 10 => b >= 2)
    BY <1>8, <1>10, <1>11
  <2>2. m >= 7 => a >= 1 /\ b >= 1 /\ c >= 1 /\ d >= 1 /\ e >= 1
    BY <1>8, <1>10, <1>11
  <2>3. ASSUME m = 8 PROVE w > v /\ w > x /\ w = y /\ w = z /\ left # 0
    <3>1. /\ a = 2 /\ v = 0 /\ b = 1 /\ w = 12 /\ c = 1 /\ x = 4
          /\ d = 1 /\ y = 12 /\ e = 1 /\ z = 12
      BY <1>8, <1>10, <1>11, <2>3
    <3> QED BY <1>11, <2>3, <3>1
  <2>4. ASSUME m = 9 PROVE w > v /\ w > x /\ w = y /\ w = z /\ left # 0
    <3>1. /\ a = 2 /\ v = 5 /\ b = 1 /\ w = 16 /\ c = 1 /\ x = 7
          /\ d = 1 /\ y = 16 /\ e = 1 /\ z = 16
      BY <1>8, <1>10, <1>11, <2>4
    <3> QED BY <1>11, <2>4, <3>1
  <2>5. ASSUME m = 7 PROVE v = 15 /\ w = 8 /\ x = 1 /\ y = 8 /\ z = 8 /\ left = 2
    <3>1. /\ a = 1 /\ v = 15 /\ b = 1 /\ w = 8 /\ c = 1 /\ x = 1
          /\ d = 1 /\ y = 8 /\ e = 1 /\ z = 8
      BY <1>8, <1>10, <1>11, <2>5
    <3> QED BY <1>11, <2>5, <3>1
  <2> QED BY <2>1, <2>2, <2>3, <2>4, <2>5
<1>13. PICK R : R = {q \in (1..5) \X (1..5) : rest[q[1]] > rest[q[2]] \/ (rest[q[1]] = rest[q[2]] /\ q[1] < q[2])}
  OBVIOUS
<1>14. IsOrder(R, 1..5)
  <2>1. \A i, j \in 1..5 : <<i, j>> \in R <=> rest[i] > rest[j] \/ (rest[i] = rest[j] /\ i < j)
    BY <1>13
  <2>2. \A i \in 1..5 : rest[i] \in Nat
    BY <1>4
  <2> QED BY <2>1, <2>2 DEF IsOrder
<1>15. PICK five \in Nat : five = 5 /\ IsFiniteSet(1..five) /\ Cardinality(1..five) = five
  <2>1. \A k \in Nat : IsFiniteSet(1..k) /\ Cardinality(1..k) = k
    BY FS_Interval
  <2> QED BY <2>1
<1>16. PICK at : at = Place(R, 1..5)
  OBVIOUS
<1>17. ASSUME NEW i \in 1..5 PROVE at[i] = Cardinality({j \in 1..5 : rest[j] > rest[i] \/ (rest[j] = rest[i] /\ j < i)})
  <2>1. Below(R, 1..5, i) = {j \in 1..5 : rest[j] > rest[i] \/ (rest[j] = rest[i] /\ j < i)}
    BY <1>13 DEF Below
  <2> QED BY <1>16, <2>1 DEF Place
<1>18. ASSUME NEW i \in 1..5 PROVE at[i] \in 0..4
  <2>1. IsOrder(R, 1..five) /\ at = Place(R, 1..five) /\ i \in 1..five
    BY <1>14, <1>15, <1>16
  <2>2. at[i] \in 0..(five - 1)
    BY <1>15, <2>1, Places
  <2> QED BY <1>15, <2>2
<1>19. ASSUME NEW i \in 1..5, NEW j \in 1..5, i # j PROVE at[i] # at[j]
  <2>1. <<i, j>> \in R \/ <<j, i>> \in R
    BY <1>14, <1>19 DEF IsOrder
  <2>2. IsOrder(R, 1..five) /\ at = Place(R, 1..five) /\ i \in 1..five /\ j \in 1..five
    BY <1>14, <1>15, <1>16
  <2>3. at[i] < at[j] \/ at[j] < at[i]
    BY <1>15, <2>1, <2>2, Places
  <2> QED BY <1>18, <2>3
<1>20. n = [i \in 1..5 |-> base[i] + IF at[i] < left THEN 1 ELSE 0]
  <2>1. n = [i \in 1..5 |->
               base[i] + IF Cardinality({j \in 1..5 : rest[j] > rest[i] \/ (rest[j] = rest[i] /\ j < i)}) < left
                         THEN 1 ELSE 0]
    BY <1>1, <1>2, <1>6 DEF BucketCounts
  <2> QED BY <1>17, <2>1
<1>21. n \in [1..5 -> Nat]
  BY <1>4, <1>20
<1>22. PICK extra : extra = [i \in 1..5 |-> IF at[i] < left THEN 1 ELSE 0]
  OBVIOUS
<1>23. extra[1] + extra[2] + extra[3] + extra[4] + extra[5] = left
  <2>1. /\ at[1] \in 0..4 /\ at[2] \in 0..4 /\ at[3] \in 0..4 /\ at[4] \in 0..4 /\ at[5] \in 0..4
    BY <1>18
  <2>2. /\ at[1] # at[2] /\ at[1] # at[3] /\ at[1] # at[4] /\ at[1] # at[5] /\ at[2] # at[3]
        /\ at[2] # at[4] /\ at[2] # at[5] /\ at[3] # at[4] /\ at[3] # at[5] /\ at[4] # at[5]
    BY <1>19
  <2>3. PICK f, g, h, i, j : f = at[1] /\ g = at[2] /\ h = at[3] /\ i = at[4] /\ j = at[5]
    OBVIOUS
  <2>4. (IF f < left THEN 1 ELSE 0) + (IF g < left THEN 1 ELSE 0) + (IF h < left THEN 1 ELSE 0)
           + (IF i < left THEN 1 ELSE 0) + (IF j < left THEN 1 ELSE 0) = left
    BY <1>12, <2>1, <2>2, <2>3, PlacesBefore
  <2> QED BY <1>22, <2>3, <2>4
<1>24. \A i \in 1..5 : n[i] = base[i] + extra[i] /\ extra[i] \in 0..1
  BY <1>20, <1>22
<1>25. PICK p, q, r, s, t : p = extra[1] /\ q = extra[2] /\ r = extra[3] /\ s = extra[4] /\ t = extra[5]
  OBVIOUS
<1>26. p \in 0..1 /\ q \in 0..1 /\ r \in 0..1 /\ s \in 0..1 /\ t \in 0..1
  BY <1>24, <1>25
<1>27. n[1] = a + p /\ n[2] = b + q /\ n[3] = c + r /\ n[4] = d + s /\ n[5] = e + t
  BY <1>7, <1>24, <1>25
<1>28. n[1] + n[2] + n[3] + n[4] + n[5] = m
  <2>1. p + q + r + s + t = left
    BY <1>23, <1>25
  <2> QED BY <1>8, <1>26, <1>11, <1>27, <2>1
<1>29. ASSUME m >= 7 PROVE n[1] >= 1 /\ n[2] >= 2 /\ n[3] >= 1 /\ n[4] >= 1 /\ n[5] >= 1
  <2>1. q = 1 \/ b >= 2
    <3>1. CASE m >= 10
      BY <1>8, <1>12, <3>1
    <3>2. CASE m \in {8, 9}
      <4>1. ASSUME NEW j \in 1..5 PROVE ~(rest[j] > rest[2] \/ (rest[j] = rest[2] /\ j < 2))
        <5>1. j \in {1, 2, 3, 4, 5}
          OBVIOUS
        <5> QED BY <1>10, <1>9, <1>12, <3>2, <5>1
      <4>2. {j \in 1..5 : rest[j] > rest[2] \/ (rest[j] = rest[2] /\ j < 2)} = {}
        BY <4>1
      <4>3. at[2] = 0
        BY <1>17, <4>2, FS_EmptySet
      <4> QED BY <1>26, <1>22, <1>12, <1>25, <3>2, <4>3
    <3>3. CASE m = 7
      <4>1. ASSUME NEW j \in 1..5 PROVE (rest[j] > rest[2] \/ (rest[j] = rest[2] /\ j < 2)) <=> j = 1
        <5>1. j \in {1, 2, 3, 4, 5}
          OBVIOUS
        <5> QED BY <1>10, <1>9, <1>12, <3>3, <5>1
      <4>2. {j \in 1..5 : rest[j] > rest[2] \/ (rest[j] = rest[2] /\ j < 2)} = {1}
        BY <4>1
      <4>3. at[2] = Cardinality({1})
        BY <1>17, <4>2
      <4>4. Cardinality({1}) = 1
        BY FS_Singleton
      <4> QED BY <1>26, <1>22, <1>12, <1>25, <3>3, <4>3, <4>4
    <3>4. m >= 10 \/ m \in {8, 9} \/ m = 7
      BY <1>29
    <3> QED BY <3>1, <3>2, <3>3, <3>4
  <2> QED BY <1>8, <1>26, <1>29, <1>12, <1>27, <2>1
<1> QED BY <1>21, <1>28, <1>29

\* A sequence given by its elements.
LEMMA Built ==
  ASSUME NEW T, NEW l \in Nat, NEW s, s = [k \in 1..l |-> s[k]], \A k \in 1..l : s[k] \in T
  PROVE  s \in Seq(T) /\ Len(s) = l /\ DOMAIN s = 1..l
<1>1. s \in [1..l -> T]
  OBVIOUS
<1> QED BY <1>1

\* Two sequences, one after the other.
LEMMA Joined ==
  ASSUME NEW T, NEW s \in Seq(T), NEW t \in Seq(T), NEW x \in Nat, NEW y \in Nat, x = Len(s), y = Len(t),
         NEW u, u = s \o t
  PROVE  /\ u \in Seq(T) /\ Len(u) = x + y
         /\ \A k \in 1..x : u[k] = s[k]
         /\ \A k \in 1..y : u[x + k] = t[k]
OBVIOUS

\* Of m variants, one of each of these kinds.
HasEveryKind(v, m) ==
  /\ \E k \in 1..m : v[k] = "exact"
  /\ \E k \in 1..m : v[k] \in Elements(Drifts)
  /\ \E k \in 1..m : v[k] \in Elements(Splits)
  /\ \E k \in 1..m : v[k] \in Elements(Incompatibles)
  /\ \E k \in 1..m : v[k] = "new_family"
  /\ \E k \in 1..m : v[k] \in Elements(Abstains)

\* variant_schedule: as many variants as asked for, and with at least seven of them
\* one of every kind that the corpus needs.
LEMMA ScheduleFacts ==
  ASSUME NEW m \in Nat, NEW index \in Nat, NEW v, v = VariantSchedule(m, index)
  PROVE  /\ v \in Seq(Kinds) /\ Len(v) = m
         /\ m >= 7 => HasEveryKind(v, m)
<1>1. PICK n : n = BucketCounts(m)
  OBVIOUS
<1>2. PICK n1, n2, n3, n4, n5 : n1 = n[1] /\ n2 = n[2] /\ n3 = n[3] /\ n4 = n[4] /\ n5 = n[5]
  OBVIOUS
<1>3. /\ n1 \in Nat /\ n2 \in Nat /\ n3 \in Nat /\ n4 \in Nat /\ n5 \in Nat
      /\ n1 + n2 + n3 + n4 + n5 = m
      /\ m >= 7 => n1 >= 1 /\ n2 >= 2 /\ n3 >= 1 /\ n4 >= 1 /\ n5 >= 1
  <2>1. /\ n \in [1..5 -> Nat] /\ n[1] + n[2] + n[3] + n[4] + n[5] = m
        /\ m >= 7 => n[1] >= 1 /\ n[2] >= 2 /\ n[3] >= 1 /\ n[4] >= 1 /\ n[5] >= 1
    BY <1>1, BucketsAddUp
  <2> QED BY <1>2, <2>1
<1>4. ASSUME NEW k \in Nat
      PROVE  /\ Cycle(Drifts, k) \in Elements(Drifts) /\ Cycle(Splits, k) \in Elements(Splits)
             /\ Cycle(Incompatibles, k) \in Elements(Incompatibles) /\ Cycle(Abstains, k) \in Elements(Abstains)
  <2>1. ASSUME NEW s, NEW l \in Nat \ {0}, DOMAIN s = 1..l, Len(s) = l PROVE Cycle(s, k) \in Elements(s)
    <3>1. k % l \in 0..(l - 1)
      OBVIOUS
    <3>2. (k % l) + 1 \in 1..l
      BY <3>1
    <3> QED BY <2>1, <3>2 DEF Cycle, Elements
  <2>2. Cycle(Drifts, k) \in Elements(Drifts)
    <3>1. PICK l \in Nat \ {0} : l = 4
      OBVIOUS
    <3>2. DOMAIN Drifts = 1..l /\ Len(Drifts) = l
      BY <3>1 DEF Drifts
    <3> QED BY <2>1, <3>2
  <2>3. Cycle(Splits, k) \in Elements(Splits)
    <3>1. PICK l \in Nat \ {0} : l = 3
      OBVIOUS
    <3>2. DOMAIN Splits = 1..l /\ Len(Splits) = l
      BY <3>1 DEF Splits
    <3> QED BY <2>1, <3>2
  <2>4. Cycle(Incompatibles, k) \in Elements(Incompatibles)
    <3>1. PICK l \in Nat \ {0} : l = 2
      OBVIOUS
    <3>2. DOMAIN Incompatibles = 1..l /\ Len(Incompatibles) = l
      BY <3>1 DEF Incompatibles
    <3> QED BY <2>1, <3>2
  <2>5. Cycle(Abstains, k) \in Elements(Abstains)
    <3>1. PICK l \in Nat \ {0} : l = 3
      OBVIOUS
    <3>2. DOMAIN Abstains = 1..l /\ Len(Abstains) = l
      BY <3>1 DEF Abstains
    <3> QED BY <2>1, <3>2
  <2> QED BY <2>2, <2>3, <2>4, <2>5
<1> DEFINE drift(k) == IF k % 2 = 0 THEN Cycle(Drifts, index + k) ELSE Cycle(Splits, index + k)
<1>5. PICK a : a = [k \in 1..n1 |-> "exact"]
  OBVIOUS
<1>6. PICK b : b = [k \in 1..n2 |-> drift(k - 1)]
  OBVIOUS
<1>7. PICK c : c = [k \in 1..n3 |-> Cycle(Incompatibles, index + k - 1)]
  OBVIOUS
<1>8. PICK d : d = [k \in 1..n4 |-> "new_family"]
  OBVIOUS
<1>9. PICK e : e = [k \in 1..n5 |-> Cycle(Abstains, index + k - 1)]
  OBVIOUS
<1>10. v = (((a \o b) \o c) \o d) \o e
  BY <1>1, <1>2, <1>5, <1>6, <1>7, <1>8, <1>9 DEF VariantSchedule
<1>11. a \in Seq(Kinds) /\ Len(a) = n1 /\ \A k \in 1..n1 : a[k] = "exact"
  <2>1. "exact" \in Kinds
    BY DEF Kinds, Keeping
  <2>2. a = [k \in 1..n1 |-> a[k]] /\ \A k \in 1..n1 : a[k] = "exact"
    BY <1>5
  <2> QED BY <1>3, <2>1, <2>2, Built
<1>12. b \in Seq(Kinds) /\ Len(b) = n2 /\ \A k \in 1..n2 : b[k] = drift(k - 1)
  <2>1. ASSUME NEW k \in 1..n2 PROVE drift(k - 1) \in Kinds
    <3>1. index + (k - 1) \in Nat
      BY <1>3
    <3> QED BY <1>4, <3>1 DEF Kinds, Keeping
  <2> HIDE DEF drift
  <2>2. b = [k \in 1..n2 |-> b[k]] /\ \A k \in 1..n2 : b[k] = drift(k - 1)
    BY <1>6
  <2> QED BY <1>3, <2>1, <2>2, Built
<1>13. /\ c \in Seq(Kinds) /\ Len(c) = n3
       /\ \A k \in 1..n3 : c[k] \in Elements(Incompatibles)
  <2>1. ASSUME NEW k \in 1..n3
        PROVE  Cycle(Incompatibles, index + k - 1) \in Kinds /\ c[k] \in Elements(Incompatibles)
    <3>1. index + k - 1 \in Nat
      BY <1>3
    <3> QED BY <1>4, <1>7, <3>1 DEF Kinds
  <2>2. c = [k \in 1..n3 |-> c[k]] /\ \A k \in 1..n3 : c[k] \in Kinds
    BY <1>7, <2>1
  <2> QED BY <1>3, <2>1, <2>2, Built
<1>14. d \in Seq(Kinds) /\ Len(d) = n4 /\ \A k \in 1..n4 : d[k] = "new_family"
  <2>1. "new_family" \in Kinds
    BY DEF Kinds
  <2>2. d = [k \in 1..n4 |-> d[k]] /\ \A k \in 1..n4 : d[k] = "new_family"
    BY <1>8
  <2> QED BY <1>3, <2>1, <2>2, Built
<1>15. e \in Seq(Kinds) /\ Len(e) = n5 /\ \A k \in 1..n5 : e[k] \in Elements(Abstains)
  <2>1. ASSUME NEW k \in 1..n5
        PROVE  Cycle(Abstains, index + k - 1) \in Kinds /\ e[k] \in Elements(Abstains)
    <3>1. index + k - 1 \in Nat
      BY <1>3
    <3> QED BY <1>4, <1>9, <3>1 DEF Kinds
  <2>2. e = [k \in 1..n5 |-> e[k]] /\ \A k \in 1..n5 : e[k] \in Kinds
    BY <1>9, <2>1
  <2> QED BY <1>3, <2>1, <2>2, Built
<1>16. PICK x2, x3, x4 : x2 = n1 + n2 /\ x3 = x2 + n3 /\ x4 = x3 + n4
  OBVIOUS
<1>17. x2 \in Nat /\ x3 \in Nat /\ x4 \in Nat /\ x4 + n5 = m
  BY <1>3, <1>16
<1>18. PICK ab : ab = a \o b
  OBVIOUS
<1>19. /\ ab \in Seq(Kinds) /\ Len(ab) = x2
       /\ \A k \in 1..n1 : ab[k] = a[k]
       /\ \A k \in 1..n2 : ab[n1 + k] = b[k]
  <2>1. a \in Seq(Kinds) /\ b \in Seq(Kinds) /\ n1 \in Nat /\ n2 \in Nat /\ n1 = Len(a) /\ n2 = Len(b)
    BY <1>3, <1>11, <1>12
  <2> QED BY <1>16, <1>18, <2>1, Joined
<1>20. PICK abc : abc = ab \o c
  OBVIOUS
<1>21. /\ abc \in Seq(Kinds) /\ Len(abc) = x3
       /\ \A k \in 1..x2 : abc[k] = ab[k]
       /\ \A k \in 1..n3 : abc[x2 + k] = c[k]
  <2>1. ab \in Seq(Kinds) /\ c \in Seq(Kinds) /\ x2 \in Nat /\ n3 \in Nat /\ x2 = Len(ab) /\ n3 = Len(c)
    BY <1>3, <1>13, <1>17, <1>19
  <2>2. /\ abc \in Seq(Kinds) /\ Len(abc) = x2 + n3 /\ \A k \in 1..x2 : abc[k] = ab[k]
        /\ \A k \in 1..n3 : abc[x2 + k] = c[k]
    BY <1>20, <2>1, Joined
  <2> QED BY <1>16, <2>2
<1>22. PICK abcd : abcd = abc \o d
  OBVIOUS
<1>23. /\ abcd \in Seq(Kinds) /\ Len(abcd) = x4
       /\ \A k \in 1..x3 : abcd[k] = abc[k]
       /\ \A k \in 1..n4 : abcd[x3 + k] = d[k]
  <2>1. abc \in Seq(Kinds) /\ d \in Seq(Kinds) /\ x3 \in Nat /\ n4 \in Nat /\ x3 = Len(abc) /\ n4 = Len(d)
    BY <1>3, <1>14, <1>17, <1>21
  <2>2. /\ abcd \in Seq(Kinds) /\ Len(abcd) = x3 + n4 /\ \A k \in 1..x3 : abcd[k] = abc[k]
        /\ \A k \in 1..n4 : abcd[x3 + k] = d[k]
    BY <1>22, <2>1, Joined
  <2> QED BY <1>16, <2>2
<1>24. /\ v \in Seq(Kinds) /\ Len(v) = m
       /\ \A k \in 1..x4 : v[k] = abcd[k]
       /\ \A k \in 1..n5 : v[x4 + k] = e[k]
  <2>1. v = abcd \o e
    BY <1>10, <1>18, <1>20, <1>22
  <2>2. abcd \in Seq(Kinds) /\ e \in Seq(Kinds) /\ x4 \in Nat /\ n5 \in Nat /\ x4 = Len(abcd) /\ n5 = Len(e)
    BY <1>3, <1>15, <1>17, <1>23
  <2> QED BY <1>17, <2>1, <2>2, Joined
<1>25. ASSUME m >= 7
       PROVE  HasEveryKind(v, m)
  <2> HIDE DEF drift
  <2>1. n1 >= 1 /\ n2 >= 2 /\ n3 >= 1 /\ n4 >= 1 /\ n5 >= 1
    BY <1>3, <1>25
  <2>2. v[1] = "exact" /\ 1 \in 1..m
    <3>1. 1 \in 1..n1 /\ 1 \in 1..x2 /\ 1 \in 1..x3
          /\ 1 \in 1..x4 /\ 1 \in 1..m
      BY <1>3, <1>16, <1>17, <2>1
    <3> QED BY <1>11, <1>19, <1>21, <1>23, <1>24, <3>1
  <2>3. ASSUME NEW k \in 1..2 PROVE v[n1 + k] = drift(k - 1) /\ n1 + k \in 1..m
    <3>1. /\ k \in 1..n2 /\ n1 + k \in 1..x2 /\ n1 + k \in 1..x3
          /\ n1 + k \in 1..x4 /\ n1 + k \in 1..m
      BY <1>3, <1>16, <1>17, <2>1
    <3> QED BY <1>12, <1>19, <1>21, <1>23, <1>24, <3>1
  <2>4. drift(0) \in Elements(Drifts) /\ drift(1) \in Elements(Splits)
    <3>1. 0 % 2 = 0 /\ 1 % 2 = 1 /\ index + 0 \in Nat /\ index + 1 \in Nat
      OBVIOUS
    <3> QED BY <1>4, <3>1 DEF drift
  <2>5. PICK x, y : x = n1 + 1 /\ y = n1 + 2
    OBVIOUS
  <2>6. v[x] \in Elements(Drifts) /\ v[y] \in Elements(Splits) /\ x \in 1..m /\ y \in 1..m
    <3>1. 1 - 1 = 0 /\ 2 - 1 = 1 /\ 1 \in 1..2 /\ 2 \in 1..2
      OBVIOUS
    <3> QED BY <2>3, <2>4, <2>5, <3>1
  <2>7. PICK z : z = x2 + 1
    OBVIOUS
  <2>8. v[z] \in Elements(Incompatibles) /\ z \in 1..m
    <3>1. /\ 1 \in 1..n3 /\ z \in 1..x3 /\ z \in 1..x4 /\ z \in 1..m
      BY <1>3, <1>16, <1>17, <2>1, <2>7
    <3> QED BY <1>13, <1>21, <1>23, <1>24, <2>7, <3>1
  <2>9. PICK w : w = x3 + 1
    OBVIOUS
  <2>10. v[w] = "new_family" /\ w \in 1..m
    <3>1. 1 \in 1..n4 /\ w \in 1..x4 /\ w \in 1..m
      BY <1>3, <1>16, <1>17, <2>1, <2>9
    <3> QED BY <1>14, <1>23, <1>24, <2>9, <3>1
  <2>11. PICK u : u = x4 + 1
    OBVIOUS
  <2>12. v[u] \in Elements(Abstains) /\ u \in 1..m
    <3>1. 1 \in 1..n5 /\ u \in 1..m
      BY <1>3, <1>16, <1>17, <2>1, <2>11
    <3> QED BY <1>15, <1>24, <2>11, <3>1
  <2> QED BY <2>2, <2>6, <2>8, <2>10, <2>12 DEF HasEveryKind
<1> QED BY <1>3, <1>24, <1>25

\* What flattening a sequence of sequences recurs through.
FlatAfter(f, seqs, i) == IF i = 1 THEN seqs[i] ELSE f[i - 1] \o seqs[i]
Flattens(f, seqs, k) == \A i \in 1..k : f[i] = FlatAfter(f, seqs, i)

\* FlattenSeq of a sequence that is not empty is the last value of its recursion.
LEMMA FlatteningExists ==
  ASSUME NEW seqs, NEW n \in Nat \ {0}, n = Len(seqs)
  PROVE  \E f : Flattens(f, seqs, n) /\ FlattenSeq(seqs) = f[n]
<1> DEFINE Good == {k \in 0..n : \E g : Flattens(g, seqs, k)}
<1>1. 0 \in Good
  <2>1. PICK g : g = <<>>
    OBVIOUS
  <2>2. Flattens(g, seqs, 0)
    BY DEF Flattens
  <2> QED BY <2>2
<1>2. ASSUME NEW k \in 1..n, k - 1 \in Good PROVE k \in Good
  <2>1. PICK g : Flattens(g, seqs, k - 1)
    BY <1>2
  <2>2. PICK h : h = [i \in 1..k |-> IF i = k THEN FlatAfter(g, seqs, k) ELSE g[i]]
    OBVIOUS
  <2>3. ASSUME NEW i \in 1..k PROVE h[i] = FlatAfter(h, seqs, i)
    <3>1. i # 1 => i - 1 \in 1..(k - 1) /\ h[i - 1] = g[i - 1]
      BY <2>2
    <3>2. FlatAfter(h, seqs, i) = FlatAfter(g, seqs, i)
      BY <3>1 DEF FlatAfter
    <3>3. CASE i = k
      BY <2>2, <3>2, <3>3
    <3>4. CASE i # k
      <4>1. i \in 1..(k - 1) /\ h[i] = g[i]
        BY <2>2, <3>4
      <4> QED BY <2>1, <3>2, <4>1 DEF Flattens
    <3> QED BY <3>3, <3>4
  <2>4. Flattens(h, seqs, k)
    BY <2>3 DEF Flattens
  <2> QED BY <2>4
<1>3. n \in Good
  <2> HIDE DEF Good
  <2>1. \A k \in 0..n : k \in Good
    BY <1>1, <1>2, UpTo
  <2> QED BY <2>1
<1>4. PICK g : Flattens(g, seqs, n)
  BY <1>3
<1>5. PICK h : h = [i \in 1..n |-> g[i]]
  OBVIOUS
<1>6. ASSUME NEW i \in 1..n PROVE h[i] = FlatAfter(h, seqs, i)
  <2>1. i # 1 => h[i - 1] = g[i - 1]
    BY <1>5
  <2> QED BY <1>4, <1>5, <2>1 DEF Flattens, FlatAfter
<1>7. h = [i \in 1..n |-> FlatAfter(h, seqs, i)]
  BY <1>5, <1>6
<1>8. PICK f : f = CHOOSE e : e = [i \in 1..n |-> FlatAfter(e, seqs, i)]
  OBVIOUS
<1>9. f = [i \in 1..n |-> FlatAfter(f, seqs, i)]
  BY <1>7, <1>8
<1>10. FlattenSeq(seqs) = f[n]
  BY <1>8 DEF FlattenSeq, FlatAfter
<1>11. Flattens(f, seqs, n)
  BY <1>9 DEF Flattens
<1> QED BY <1>10, <1>11

\* c is n sequences of length m, one after the other.
IsFlat(c, T, seqs, n, m) ==
  /\ c \in Seq(T) /\ Len(c) = n * m
  /\ n # 0 => \A j \in 1..m : c[j] = seqs[1][j]

\* FlattenSeq of sequences of one length.
LEMMA Flattened ==
  ASSUME NEW T, NEW n \in Nat, NEW m \in Nat, NEW seqs \in Seq(Seq(T)), Len(seqs) = n,
         \A i \in 1..n : Len(seqs[i]) = m, NEW c, c = FlattenSeq(seqs)
  PROVE  IsFlat(c, T, seqs, n, m)
<1>1. CASE n = 0
  <2>1. c = seqs /\ DOMAIN seqs = {}
    BY <1>1 DEF FlattenSeq
  <2>2. c = <<>>
    BY <1>1, <2>1
  <2>3. c \in Seq(T) /\ Len(c) = 0 /\ n * m = 0
    BY <1>1, <2>2
  <2> QED BY <1>1, <2>3 DEF IsFlat
<1>2. CASE n # 0
  <2>1. PICK f : Flattens(f, seqs, n) /\ c = f[n]
    BY <1>2, FlatteningExists
  <2> DEFINE Holds(k) == f[k] \in Seq(T) /\ Len(f[k]) = k * m /\ \A j \in 1..m : f[k][j] = seqs[1][j]
             Good == {k \in 0..n : k # 0 => Holds(k)}
  <2>2. 0 \in Good
    OBVIOUS
  <2>3. ASSUME NEW k \in 1..n, k - 1 \in Good PROVE k \in Good
    <3>1. f[k] = FlatAfter(f, seqs, k) /\ seqs[k] \in Seq(T) /\ Len(seqs[k]) = m
      BY <2>1 DEF Flattens
    <3>2. CASE k = 1
      <4>1. k * m = m
        BY <3>2
      <4>2. f[k] = seqs[1]
        BY <3>1, <3>2 DEF FlatAfter
      <4> QED BY <3>1, <3>2, <4>1, <4>2
    <3>3. CASE k # 1
      <4>1. Holds(k - 1)
        BY <2>3, <3>3
      <4>2. PICK l \in Nat : l = k - 1 /\ l >= 1
        BY <3>3
      <4>3. PICK s, t : s = f[l] /\ t = seqs[k]
        OBVIOUS
      <4>4. s \in Seq(T) /\ t \in Seq(T) /\ Len(s) = l * m /\ Len(t) = m /\ \A j \in 1..m : s[j] = seqs[1][j]
        BY <3>1, <4>1, <4>2, <4>3
      <4>5. f[k] = s \o t
        BY <3>1, <3>3, <4>2, <4>3 DEF FlatAfter
      <4>6. PICK x \in Nat, y \in Nat : x = l * m /\ y = k * m
        OBVIOUS
      <4>7. y = x + m
        BY <4>2, <4>6
      <4>8. m <= x
        BY <4>2, <4>6
      <4>9. /\ f[k] \in Seq(T) /\ Len(f[k]) = x + m
            /\ \A j \in 1..x : f[k][j] = s[j]
        <5>1. s \in Seq(T) /\ t \in Seq(T) /\ x \in Nat /\ m \in Nat /\ x = Len(s) /\ m = Len(t)
          BY <4>4, <4>6
        <5> QED BY <4>5, <5>1, Joined
      <4>10. \A j \in 1..m : f[k][j] = seqs[1][j]
        BY <4>4, <4>8, <4>9
      <4> QED BY <4>6, <4>7, <4>9, <4>10
    <3> QED BY <3>2, <3>3
  <2>4. n \in Good
    <3> HIDE DEF Good
    <3>1. \A k \in 0..n : k \in Good
      BY <2>2, <2>3, UpTo
    <3> QED BY <3>1
  <2>5. Holds(n)
    BY <1>2, <2>4
  <2> QED BY <1>2, <2>1, <2>5 DEF IsFlat
<1> QED BY <1>1, <1>2

-----------------------------------------------------------------------------
(* The corpus.                                                              *)

\* The cases of families, and a corpus of such.
CasesOf(all) == {FinalizeCase(kind, all[i], all) : kind \in Kinds, i \in DOMAIN all}
IsCorpusOf(c, all) == c \in Seq(CasesOf(all))

\* Every case of a corpus, one by one.
LEMMA CasesAreSound ==
  ASSUME NEW all, AreFamilies(all), NEW c, IsCorpusOf(c, all), NEW i \in DOMAIN c
  PROVE  IsSound(c[i], all)
<1>1. c[i] \in CasesOf(all)
  BY DEF IsCorpusOf
<1>2. PICK kind \in Kinds, f \in DOMAIN all : c[i] = FinalizeCase(kind, all[f], all)
  BY <1>1 DEF CasesOf
<1> QED BY <1>2, CaseIsSound

\* c are m variants of each of n families, the first of them of the first family.
AreVariants(c, all, n, m) ==
  /\ IsCorpusOf(c, all) /\ Len(c) = n * m
  /\ n # 0 => \A k \in 1..m : c[k] = FinalizeCase(VariantSchedule(m, 0)[k], all[1], all)

\* generate_corpus
LEMMA Generated ==
  ASSUME NEW all, AreFamilies(all), NEW n \in Nat, n = Len(all), NEW m \in Nat,
         NEW c, c = FlattenSeq(GenerateCorpus(all, m))
  PROVE  AreVariants(c, all, n, m)
<1>1. PICK T : T = CasesOf(all)
  OBVIOUS
<1>2. DOMAIN all = 1..n
  BY DEF AreFamilies
<1> DEFINE of(i) == [k \in DOMAIN VariantSchedule(m, i - 1) |->
                       FinalizeCase(VariantSchedule(m, i - 1)[k], all[i], all)]
<1>3. PICK seqs : seqs = [i \in 1..n |-> of(i)]
  OBVIOUS
<1>4. GenerateCorpus(all, m) = seqs
  BY <1>2, <1>3 DEF GenerateCorpus
<1>5. ASSUME NEW i \in 1..n
      PROVE  /\ of(i) \in Seq(T) /\ Len(of(i)) = m
             /\ \A k \in 1..m : of(i)[k] = FinalizeCase(VariantSchedule(m, i - 1)[k], all[i], all)
  <2>1. PICK v : v = VariantSchedule(m, i - 1)
    OBVIOUS
  <2>2. v \in Seq(Kinds) /\ Len(v) = m
    BY <2>1, ScheduleFacts
  <2>3. of(i) = [k \in 1..m |-> FinalizeCase(v[k], all[i], all)]
    BY <2>1, <2>2
  <2>4. \A k \in 1..m : FinalizeCase(v[k], all[i], all) \in T
    BY <1>1, <1>2, <2>2 DEF CasesOf
  <2>5. of(i) \in [1..m -> T]
    BY <2>3, <2>4
  <2> QED BY <2>1, <2>3, <2>5
<1> HIDE DEF of
<1>6. seqs \in Seq(Seq(T)) /\ Len(seqs) = n /\ \A i \in 1..n : Len(seqs[i]) = m
  BY <1>3, <1>5
<1>7. /\ c \in Seq(T) /\ Len(c) = n * m
      /\ n # 0 => \A j \in 1..m : c[j] = seqs[1][j]
  <2>1. c = FlattenSeq(seqs)
    BY <1>4
  <2>2. IsFlat(c, T, seqs, n, m)
    BY <1>6, <2>1, Flattened
  <2> QED BY <2>2 DEF IsFlat
<1>8. ASSUME n # 0, NEW k \in 1..m PROVE c[k] = FinalizeCase(VariantSchedule(m, 0)[k], all[1], all)
  <2>1. 1 \in 1..n /\ 1 - 1 = 0
    BY <1>8
  <2> QED BY <1>3, <1>5, <1>7, <1>8, <2>1
<1> QED BY <1>1, <1>7, <1>8 DEF IsCorpusOf, AreVariants

\* The partitions share nothing.
LEMMA NothingIsShared ==
  ASSUME NEW all, AreFamilies(all), IsCorpusOf(corpus, all)
  PROVE  PartitionsStayApart
<1>1. ASSUME NEW i \in DOMAIN corpus, NEW j \in DOMAIN corpus, corpus[i].partition # corpus[j].partition
      PROVE  NamedIn(corpus[i]) \cap NamedIn(corpus[j]) = {}
  <2>1. PICK p, q : p = corpus[i].partition /\ q = corpus[j].partition
    OBVIOUS
  <2>2. NamedIn(corpus[i]) \subseteq SchemasOf(all, p) /\ NamedIn(corpus[j]) \subseteq SchemasOf(all, q)
    BY <2>1, CasesAreSound DEF IsSound
  <2>3. SchemasOf(all, p) \cap SchemasOf(all, q) = {}
    BY <1>1, <2>1 DEF SchemasOf, Members, AreFamilies
  <2> QED BY <2>2, <2>3
<1> QED BY <1>1 DEF PartitionsStayApart

\* The first n numbers.
LEMMA Counting ==
  ASSUME NEW n \in Nat PROVE IsFiniteSet(1..n) /\ Cardinality(1..n) = n
BY FS_Interval

\* Whoever answers as labelled is right every time.
LEMMA OracleIsPerfect ==
  ASSUME NEW all, AreFamilies(all), IsCorpusOf(corpus, all), NEW score, score = ComputeMetrics(OracleRun)
  PROVE  /\ score.exact = <<Len(corpus), Len(corpus)>> /\ score.idViolations = 0
         /\ score.falseMerge[1] = 0 /\ score.falseSplit[1] = 0 /\ score.wrongValid[1] = 0
<1>1. PICK n \in Nat : n = Len(corpus) /\ DOMAIN corpus = 1..n
  BY DEF IsCorpusOf
<1>2. PICK run : run = [i \in 1..n |-> Answered(corpus[i], corpus[i].decision, FALSE, FALSE, 0, 1)]
  OBVIOUS
<1>3. run = OracleRun /\ DOMAIN run = 1..n
  BY <1>1, <1>2 DEF OracleRun
<1>4. ASSUME NEW i \in 1..n
      PROVE  /\ IsExact(run[i]) /\ ~IdViolation(run[i]) /\ ~IsFalseMerge(run[i]) /\ ~IsFalseSplit(run[i])
             /\ ~IsWrongValid(run[i])
  <2>1. PICK r, c : r = run[i] /\ c = corpus[i]
    OBVIOUS
  <2>2. r.case = c /\ r.failure = "none" /\ r.decision = c.decision
    BY <1>2, <2>1 DEF Answered
  <2>3. IdAllowed(c.decision, c.retrieved) /\ (c.splitTrap => IsAcceptedMatch(c.decision))
    BY <1>1, <2>1, CasesAreSound DEF IsSound
  <2>4. Ok(r) /\ IsExact(r)
    BY <2>2 DEF Ok, IsExact
  <2>5. ~IdViolation(r) /\ ~IsFalseMerge(r)
    BY <2>2, <2>3 DEF IdViolation, IsFalseMerge
  <2>6. ~IsFalseSplit(r)
    BY <2>2, <2>3, <2>4 DEF IsFalseSplit, Accepts
  <2>7. ~IsWrongValid(r)
    BY <2>4 DEF IsWrongValid
  <2> QED BY <2>1, <2>4, <2>5, <2>6, <2>7
<1>5. PICK f, g, h, k : f = DecisionMetrics(run) /\ g = RetrievalMetrics(run) /\ h = OperationalMetrics(run)
                        /\ k = Beside(g, h)
  OBVIOUS
<1>6. score = Beside(f, k)
  BY <1>3, <1>5 DEF ComputeMetrics
<1>7. /\ "exact" \in DOMAIN f /\ f.exact = Rate({i \in DOMAIN run : IsExact(run[i])}, DOMAIN run)
      /\ "idViolations" \in DOMAIN f /\ f.idViolations = Cardinality({i \in DOMAIN run : IdViolation(run[i])})
      /\ "falseMerge" \in DOMAIN f
      /\ f.falseMerge = Rate({i \in DOMAIN run : IsFalseMerge(run[i])}, {i \in DOMAIN run : run[i].case.mergeTrap})
      /\ "falseSplit" \in DOMAIN f
      /\ f.falseSplit = Rate({i \in DOMAIN run : IsFalseSplit(run[i])}, {i \in DOMAIN run : run[i].case.splitTrap})
      /\ "wrongValid" \in DOMAIN f /\ f.wrongValid = Rate({i \in DOMAIN run : IsWrongValid(run[i])}, DOMAIN run)
  BY <1>5 DEF DecisionMetrics, Where
<1>8. /\ score.exact = f.exact /\ score.idViolations = f.idViolations /\ score.falseMerge = f.falseMerge
      /\ score.falseSplit = f.falseSplit /\ score.wrongValid = f.wrongValid
  BY <1>6, <1>7 DEF Beside
<1>9. /\ {i \in DOMAIN run : IsExact(run[i])} = 1..n /\ {i \in DOMAIN run : IdViolation(run[i])} = {}
      /\ {i \in DOMAIN run : IsFalseMerge(run[i])} = {} /\ {i \in DOMAIN run : IsFalseSplit(run[i])} = {}
      /\ {i \in DOMAIN run : IsWrongValid(run[i])} = {}
  BY <1>3, <1>4
<1>10. ASSUME NEW I PROVE Rate({}, I)[1] = 0
  <2>1. {} \cap I = {}
    OBVIOUS
  <2> QED BY <2>1, FS_EmptySet DEF Rate
<1>11. Rate(1..n, 1..n) = <<n, n>>
  <2>1. (1..n) \cap (1..n) = 1..n /\ Cardinality(1..n) = n
    BY FS_Interval
  <2> QED BY <2>1 DEF Rate
<1>12. score.exact = <<n, n>>
  BY <1>3, <1>7, <1>8, <1>9, <1>11
<1>13. score.idViolations = 0
  BY <1>7, <1>8, <1>9, FS_EmptySet
<1>14. score.falseMerge[1] = 0 /\ score.falseSplit[1] = 0 /\ score.wrongValid[1] = 0
  BY <1>7, <1>8, <1>9, <1>10
<1> QED BY <1>1, <1>12, <1>13, <1>14

\* What is not empty counts for something.
LEMMA SomeAreCounted ==
  ASSUME NEW n \in Nat, NEW I, I \subseteq 1..n, I # {}
  PROVE  Cardinality(I) > 0
<1>1. IsFiniteSet(I)
  <2>1. IsFiniteSet(1..n)
    BY FS_Interval
  <2> QED BY <2>1, FS_Subset
<1> QED BY <1>1, FS_CardinalityType, FS_EmptySet

\* The labels, of a corpus in which every family has at least seven variants.
LEMMA LabelsHold ==
  ASSUME NEW all, AreFamilies(all), Len(all) = MaxFamilies, Variants >= 7,
         corpus = FlattenSeq(GenerateCorpus(all, Variants))
  PROVE  LabelsAreSound
<1> SUFFICES ASSUME corpus # <<>> PROVE LabelsAreSound
  BY DEF LabelsAreSound
<1>1. PICK m \in Nat : m = Variants /\ m >= 7
  BY CorpusAssumption
<1>2. PICK l \in Nat : l = MaxFamilies
  BY CorpusAssumption
<1>3. /\ IsCorpusOf(corpus, all) /\ Len(corpus) = l * m
      /\ l # 0 => \A k \in 1..m : corpus[k] = FinalizeCase(VariantSchedule(m, 0)[k], all[1], all)
  <2>1. l = Len(all) /\ corpus = FlattenSeq(GenerateCorpus(all, m))
    BY <1>1, <1>2
  <2>2. AreVariants(corpus, all, l, m)
    BY <2>1, Generated
  <2> QED BY <2>2 DEF AreVariants
<1>4. PICK n \in Nat : n = Len(corpus) /\ DOMAIN corpus = 1..n
  BY <1>3 DEF IsCorpusOf
<1>5. l # 0 /\ 1..m \subseteq 1..n
  <2>1. l # 0
    <3> SUFFICES ASSUME l = 0 PROVE FALSE
      OBVIOUS
    <3>1. Len(corpus) = 0
      BY <1>3
    <3> QED BY <1>3, <3>1 DEF IsCorpusOf
  <2>2. l * m >= m
    BY <2>1
  <2> QED BY <1>3, <1>4, <2>1, <2>2
<1>6. PICK v : v = VariantSchedule(m, 0)
  OBVIOUS
<1>7. ASSUME NEW k \in 1..m
      PROVE  /\ k \in 1..n /\ corpus[k].category = CategoryOf(v[k])
             /\ corpus[k].mergeTrap = (v[k] \in Elements(Incompatibles))
             /\ corpus[k].splitTrap = (v[k] \in Elements(Splits))
  <2>1. k \in 1..n
    BY <1>5
  <2>2. PICK kind : kind = v[k]
    OBVIOUS
  <2>3. corpus[k] = FinalizeCase(kind, all[1], all)
    BY <1>3, <1>5, <1>6, <2>2
  <2>4. /\ corpus[k].category = CategoryOf(kind)
        /\ corpus[k].mergeTrap = (kind \in Elements(Incompatibles))
        /\ corpus[k].splitTrap = (kind \in Elements(Splits))
    BY <2>3 DEF FinalizeCase
  <2> QED BY <2>1, <2>2, <2>4
<1>8. LoadCorpus(corpus) = {corpus}
  BY <1>3, CasesAreSound DEF LoadCorpus, IsSound
<1>9. PICK s : s = Summary(corpus)
  OBVIOUS
<1>10. s.total = n
  BY <1>4, <1>9 DEF Summary
<1>11. s.byPartition["train"] + s.byPartition["test"] = n
  <2>1. PICK A, B : A = {i \in DOMAIN corpus : corpus[i].partition = "train"}
                    /\ B = {i \in DOMAIN corpus : corpus[i].partition = "test"}
    OBVIOUS
  <2>2. s.byPartition["train"] = Cardinality(A) /\ s.byPartition["test"] = Cardinality(B)
    BY <1>9, <2>1 DEF Summary
  <2>3. A \cup B = 1..n /\ A \cap B = {}
    BY <1>3, <1>4, <2>1, CasesAreSound DEF IsSound
  <2>4. IsFiniteSet(1..n) /\ Cardinality(1..n) = n
    BY Counting
  <2>5. IsFiniteSet(A) /\ IsFiniteSet(B)
    BY <2>3, <2>4, FS_Subset
  <2>6. Cardinality(A) \in Nat /\ Cardinality(B) \in Nat /\ Cardinality(A \cap B) = 0
    BY <2>3, <2>5, FS_CardinalityType, FS_EmptySet
  <2>7. Cardinality(A \cup B) = Cardinality(A) + Cardinality(B) - Cardinality(A \cap B)
    BY <2>5, FS_Union
  <2>8. PICK x \in Nat, y \in Nat : x = Cardinality(A) /\ y = Cardinality(B)
    BY <2>6
  <2>9. n = x + y - 0
    BY <2>3, <2>4, <2>6, <2>7, <2>8
  <2> QED BY <2>2, <2>8, <2>9
<1>12. /\ \E k \in 1..m : v[k] = "exact"
       /\ \E k \in 1..m : v[k] \in Elements(Drifts)
       /\ \E k \in 1..m : v[k] \in Elements(Splits)
       /\ \E k \in 1..m : v[k] \in Elements(Incompatibles)
       /\ \E k \in 1..m : v[k] = "new_family"
       /\ \E k \in 1..m : v[k] \in Elements(Abstains)
  <2>1. 0 \in Nat /\ m \in Nat
    OBVIOUS
  <2>2. HasEveryKind(v, m)
    BY <1>1, <1>6, <2>1, ScheduleFacts
  <2> QED BY <2>2 DEF HasEveryKind
<1>13. s.mergeTraps > 0
  <2>1. PICK I : I = {i \in DOMAIN corpus : corpus[i].mergeTrap}
    OBVIOUS
  <2>2. I \subseteq 1..n /\ I # {}
    BY <1>4, <1>7, <1>12, <2>1
  <2>3. s.mergeTraps = Cardinality(I)
    BY <1>9, <2>1 DEF Summary
  <2> QED BY <2>2, <2>3, SomeAreCounted
<1>14. s.splitTraps > 0
  <2>1. PICK I : I = {i \in DOMAIN corpus : corpus[i].splitTrap}
    OBVIOUS
  <2>2. I \subseteq 1..n /\ I # {}
    BY <1>4, <1>7, <1>12, <2>1
  <2>3. s.splitTraps = Cardinality(I)
    BY <1>9, <2>1 DEF Summary
  <2> QED BY <2>2, <2>3, SomeAreCounted
<1>15. ASSUME NEW c \in Categories PROVE s.byCategory[c] > 0
  <2>1. PICK I : I = {i \in DOMAIN corpus : corpus[i].category = c}
    OBVIOUS
  <2>2. \E k \in 1..m : CategoryOf(v[k]) = c
    <3>1. CASE c = "known_exact"
      BY <1>12, <3>1, KindsAre DEF CategoryOf
    <3>2. CASE c = "compatible_drift"
      BY <1>12, <3>2, KindsAre DEF CategoryOf
    <3>3. CASE c = "incompatible_unsafe"
      BY <1>12, <3>3, KindsAre DEF CategoryOf
    <3>4. CASE c = "new_family"
      BY <1>12, <3>4, KindsAre DEF CategoryOf
    <3>5. CASE c = "ambiguous_adversarial"
      <4>1. PICK k \in 1..m : v[k] \in {"insufficient", "ambiguous", "missing"}
        BY <1>12, KindsAre
      <4>2. CategoryOf(v[k]) = c
        BY <3>5, <4>1, KindsAre DEF CategoryOf
      <4> QED BY <4>2
    <3> QED BY <3>1, <3>2, <3>3, <3>4, <3>5 DEF Categories
  <2>3. I \subseteq 1..n /\ I # {}
    BY <1>4, <1>7, <2>1, <2>2
  <2>4. s.byCategory[c] = Cardinality(I)
    BY <1>9, <2>1 DEF Summary
  <2> QED BY <2>3, <2>4, SomeAreCounted
<1>16. PICK score : score = ComputeMetrics(OracleRun)
  OBVIOUS
<1>17. /\ score.exact = <<Len(corpus), Len(corpus)>> /\ score.idViolations = 0
       /\ score.falseMerge[1] = 0 /\ score.falseSplit[1] = 0 /\ score.wrongValid[1] = 0
  BY <1>3, <1>16, OracleIsPerfect
<1> QED BY <1>1, <1>2, <1>3, <1>4, <1>8, <1>9, <1>10, <1>11, <1>13, <1>14, <1>15, <1>16, <1>17 DEF LabelsAreSound

-----------------------------------------------------------------------------
(* Curation.                                                                *)

\* The margin of two candidates is a fraction, and NarrowerMargin ranks the cases by it.
LEMMA MarginRanks ==
  ASSUME NEW all, AreFamilies(all), NEW c, IsCorpusOf(c, all), NEW E, E \subseteq DOMAIN c,
         NEW W, W = {q \in E \X E : NarrowerMargin(c[q[1]], c[q[2]])}
  PROVE  IsRanking(W, E)
<1> DEFINE margin(i) == Minus(c[i].retrieved[2].distance, c[i].retrieved[1].distance)
           Wide(i) == Len(c[i].retrieved) < 2
<1>1. ASSUME NEW i \in E PROVE Len(c[i].retrieved) \in Nat /\ (~Wide(i) => margin(i) \in Fraction)
  <2>1. PICK r, p : r = c[i].retrieved /\ p = c[i].partition
    OBVIOUS
  <2>2. r \in Seq(Offer(all, p))
    BY <2>1, CasesAreSound DEF IsSound
  <2>3. ASSUME ~Wide(i) PROVE margin(i) \in Fraction
    <3>1. r[1] \in Offer(all, p) /\ r[2] \in Offer(all, p)
      BY <2>1, <2>2, <2>3
    <3>2. r[1].distance \in Fraction /\ r[2].distance \in Fraction
      BY <3>1 DEF Offer
    <3>3. PICK x \in Int, y \in Nat \ {0} : r[2].distance = <<x, y>>
      BY <3>2 DEF Fraction
    <3>4. PICK z \in Int, w \in Nat \ {0} : r[1].distance = <<z, w>>
      BY <3>2 DEF Fraction
    <3>5. PICK a \in Int, b \in Int : a = x * w /\ b = z * y
      OBVIOUS
    <3>6. y * w \in Nat \ {0}
      BY ProductsArePositive
    <3>7. margin(i) = <<IF a - b < 0 THEN -(a - b) ELSE a - b, y * w>>
      BY <2>1, <3>3, <3>4, <3>5 DEF Minus
    <3> QED BY <3>6, <3>7 DEF Fraction
  <2> QED BY <2>1, <2>2, <2>3
<1>2. ASSUME NEW i \in E, NEW j \in E
      PROVE  <<i, j>> \in W <=> ~Wide(i) /\ (Wide(j) \/ Less(margin(i), margin(j)))
  <2>1. Len(c[i].retrieved) \in Nat /\ Len(c[j].retrieved) \in Nat
    BY <1>1
  <2>2. <<i, j>> \in W <=> NarrowerMargin(c[i], c[j])
    OBVIOUS
  <2>3. NarrowerMargin(c[i], c[j]) <=> /\ Len(c[i].retrieved) >= 2
                                       /\ Len(c[j].retrieved) >= 2 => Less(margin(i), margin(j))
    BY DEF NarrowerMargin
  <2> QED BY <2>1, <2>2, <2>3
<1> HIDE DEF margin, Wide
<1>3. \A i \in E : <<i, i>> \notin W
  BY <1>1, <1>2, LessFacts
<1>4. \A i, j \in E : <<i, j>> \in W => <<j, i>> \notin W
  BY <1>1, <1>2, LessFacts
<1>5. ASSUME NEW i \in E, NEW j \in E, NEW k \in E, <<i, j>> \notin W, <<j, k>> \notin W
      PROVE  <<i, k>> \notin W
  BY <1>1, <1>2, <1>5, LessFacts
<1> QED BY <1>3, <1>4, <1>5 DEF IsRanking

\* curate_synthetic
LEMMA CurationHolds ==
  ASSUME NEW all, AreFamilies(all), IsCorpusOf(corpus, all)
  PROVE  CurationKeepsTheHard
<1>1. PICK n \in Nat : n = Len(corpus) /\ DOMAIN corpus = 1..n
  BY DEF IsCorpusOf
<1>2. PICK kept : kept = CurateSynthetic(corpus)
  OBVIOUS
<1>3. PICK easy : easy = {i \in DOMAIN corpus : Stratum(corpus[i]) = "historical_replay"}
  OBVIOUS
<1>4. PICK report : report = CurationReport(corpus)
  OBVIOUS
<1>5. kept \subseteq 1..n /\ (DOMAIN corpus) \ easy \subseteq kept
  BY <1>1, <1>2, <1>3 DEF CurateSynthetic
<1>6. report.total + report.capped = Len(corpus) /\ report.total = Cardinality(kept)
  <2>1. IsFiniteSet(kept)
    <3>1. IsFiniteSet(1..n)
      BY FS_Interval
    <3> QED BY <1>5, <3>1, FS_Subset
  <2>2. PICK x \in Nat : x = Cardinality(kept)
    BY <2>1, FS_CardinalityType
  <2>3. report.total = x /\ report.capped = n - x
    BY <1>1, <1>2, <1>4, <2>2 DEF CurationReport
  <2> QED BY <1>1, <2>2, <2>3
<1>7. ASSUME NEW i \in kept \cap easy
      PROVE  /\ Cardinality({j \in kept \cap easy : FamilyOf(corpus[j]) = FamilyOf(corpus[i])}) <= MaxEasy
             /\ \A j \in easy \ kept : FamilyOf(corpus[j]) = FamilyOf(corpus[i]) => ~NarrowerMargin(corpus[j], corpus[i])
  <2>1. PICK E : E = {j \in easy : FamilyOf(corpus[j]) = FamilyOf(corpus[i])}
    OBVIOUS
  <2>2. E \subseteq 1..n /\ IsFiniteSet(E) /\ i \in E
    <3>1. E \subseteq 1..n /\ i \in E
      BY <1>1, <1>3, <1>7, <2>1
    <3>2. IsFiniteSet(1..n)
      BY FS_Interval
    <3> QED BY <3>1, <3>2, FS_Subset
  <2>3. PICK W : W = {q \in E \X E : NarrowerMargin(corpus[q[1]], corpus[q[2]])}
    OBVIOUS
  <2>4. IsRanking(W, E)
    BY <1>1, <2>2, <2>3, MarginRanks
  <2>5. PICK R : R = {q \in E \X E : \/ NarrowerMargin(corpus[q[1]], corpus[q[2]])
                                     \/ q[1] < q[2] /\ ~NarrowerMargin(corpus[q[2]], corpus[q[1]])}
    OBVIOUS
  <2>6. PICK key : key = [x \in E |-> x]
    OBVIOUS
  <2>7. IsOrder(R, E)
    <3>1. key \in [E -> Int] /\ \A x, y \in E : key[x] = key[y] => x = y
      BY <2>2, <2>6
    <3>2. \A x, y \in E : <<x, y>> \in R <=> <<x, y>> \in W \/ (<<y, x>> \notin W /\ key[x] < key[y])
      BY <2>3, <2>5, <2>6
    <3> QED BY <2>4, <3>1, <3>2, TiesBroken
  <2>8. ASSUME NEW j \in E PROVE j \in kept <=> Place(R, E)[j] < MaxEasy
    <3>1. {x \in DOMAIN corpus : Stratum(corpus[x]) = "historical_replay" /\ FamilyOf(corpus[x]) = FamilyOf(corpus[j])} = E
      BY <1>3, <2>1
    <3>2. PICK A : A = {x \in E : \/ NarrowerMargin(corpus[x], corpus[j])
                                  \/ x < j /\ ~NarrowerMargin(corpus[j], corpus[x])}
      OBVIOUS
    <3>3. j \in DOMAIN corpus /\ Stratum(corpus[j]) = "historical_replay"
      BY <1>3, <2>1
    <3>4. j \in kept <=> Cardinality(A) < MaxEasy
      BY <1>2, <3>1, <3>2, <3>3 DEF CurateSynthetic
    <3>5. Below(R, E, j) = A
      BY <2>5, <3>2 DEF Below
    <3> QED BY <3>4, <3>5 DEF Place
  <2>9. PICK T : T = {x \in E : Place(R, E)[x] < MaxEasy}
    OBVIOUS
  <2>10. Cardinality(T) <= MaxEasy
    BY <2>2, <2>7, <2>9, CorpusAssumption, FirstFew
  <2>11. {j \in kept \cap easy : FamilyOf(corpus[j]) = FamilyOf(corpus[i])} = T
    BY <2>1, <2>8, <2>9
  <2>12. ASSUME NEW j \in easy \ kept, FamilyOf(corpus[j]) = FamilyOf(corpus[i]), NarrowerMargin(corpus[j], corpus[i])
         PROVE  FALSE
    <3>1. j \in E /\ i \in E /\ <<j, i>> \in R
      BY <2>1, <2>2, <2>5, <2>12
    <3>2. Place(R, E)[j] < Place(R, E)[i] /\ Place(R, E)[i] < MaxEasy /\ ~(Place(R, E)[j] < MaxEasy)
      BY <1>7, <2>2, <2>7, <2>8, <2>12, <3>1, Places
    <3>3. PICK x \in Nat : x = Cardinality(E)
      BY <2>2, FS_CardinalityType
    <3>4. Place(R, E)[j] \in 0..(x - 1) /\ Place(R, E)[i] \in 0..(x - 1)
      BY <2>2, <2>7, <3>1, <3>3, Places
    <3> QED BY <3>2, <3>4, CorpusAssumption
  <2> QED BY <2>10, <2>11, <2>12
<1> QED BY <1>2, <1>3, <1>4, <1>5, <1>6, <1>7 DEF CurationKeepsTheHard

-----------------------------------------------------------------------------
(* From the draws to the corpus.                                            *)

\* The samples of different families so far, and the families they make.
Sample == [fields : Seq(Fields), schema : Nat]
SamplesAre(s) ==
  /\ s \in Seq(Sample) /\ Len(s) <= MaxFamilies
  /\ \A i, j \in DOMAIN s : s[i].schema = s[j].schema => i = j
FamiliesOf(s, holdout) ==
  [i \in DOMAIN s |->
     [index |-> i - 1, fields |-> s[i].fields, schema |-> s[i].schema,
      partition |-> IF i - 1 \in holdout THEN "test" ELSE "train"]]

\* The corpus, once there is one, is that of families as many as asked for.
CorpusIs(c, s) ==
  c # <<>> => /\ Len(s) = MaxFamilies
              /\ \E holdout : c = FlattenSeq(GenerateCorpus(FamiliesOf(s, holdout), Variants))
CorpusInv == SamplesAre(samples) /\ CorpusIs(corpus, samples)

\* build_families, its last loop.
LEMMA SamplesMakeFamilies ==
  ASSUME NEW s, SamplesAre(s), NEW holdout, NEW all, all = FamiliesOf(s, holdout)
  PROVE  AreFamilies(all) /\ Len(all) = Len(s)
<1>1. PICK n \in Nat : n = Len(s) /\ DOMAIN s = 1..n /\ \A i \in 1..n : s[i] \in Sample
  BY DEF SamplesAre
<1>2. ASSUME NEW i \in 1..n
      PROVE  /\ all[i].index = i - 1 /\ all[i].schema = s[i].schema /\ all[i] \in Family
             /\ all[i] = [index |-> i - 1, fields |-> s[i].fields, schema |-> s[i].schema,
                          partition |-> IF i - 1 \in holdout THEN "test" ELSE "train"]
  <2>1. s[i].fields \in Seq(Fields) /\ s[i].schema \in Nat
    BY <1>1 DEF Sample
  <2>2. i - 1 \in Nat
    OBVIOUS
  <2> QED BY <1>1, <2>1, <2>2 DEF FamiliesOf, Family
<1>3. all \in Seq(Family) /\ Len(all) = n /\ DOMAIN all = 1..n
  <2>1. all = [i \in 1..n |-> all[i]] /\ \A i \in 1..n : all[i] \in Family
    BY <1>1, <1>2 DEF FamiliesOf
  <2> QED BY <2>1, Built
<1>4. ASSUME NEW i \in 1..n, NEW j \in 1..n, all[i].schema = all[j].schema PROVE i = j
  <2>1. s[i].schema = s[j].schema /\ i \in DOMAIN s /\ j \in DOMAIN s
    BY <1>1, <1>2, <1>4
  <2> QED BY <2>1 DEF SamplesAre
<1> QED BY <1>1, <1>2, <1>3, <1>4 DEF AreFamilies

\* sample_fields
LEMMA SampleIsOfFields ==
  ASSUME NEW drawn PROVE SampleFields(drawn) \in Seq(Fields)
<1>1. PICK sample : sample = IF Numeric(drawn) THEN Elements(drawn)
                             ELSE Elements(SubSeq(drawn, 1, Len(drawn) - 1)) \cup {FieldPool[FirstOf(NumericAt)]}
  OBVIOUS
<1>2. PICK I : I = {i \in DOMAIN FieldPool : FieldPool[i] \in sample}
  OBVIOUS
<1>3. SampleFields(drawn) = ElementsAt(FieldPool, I)
  BY <1>1, <1>2 DEF SampleFields
<1>4. FieldPool \in Seq(Fields)
  BY CorpusAssumption DEF Fields
<1> QED BY <1>2, <1>3, <1>4, KeptOf

\* A family more.
LEMMA SampleIsAdded ==
  ASSUME NEW s, SamplesAre(s), NEW fields \in Seq(Fields), NEW id \in Nat, Len(s) < MaxFamilies,
         \A i \in DOMAIN s : s[i].schema # id, NEW t, t = Append(s, [fields |-> fields, schema |-> id])
  PROVE  SamplesAre(t)
<1>1. PICK n \in Nat : n = Len(s) /\ DOMAIN s = 1..n /\ s \in Seq(Sample)
  BY DEF SamplesAre
<1>2. PICK x : x = [fields |-> fields, schema |-> id]
  OBVIOUS
<1>3. x \in Sample /\ x.schema = id
  BY <1>2 DEF Sample
<1>4. /\ t \in Seq(Sample) /\ Len(t) = n + 1 /\ DOMAIN t = 1..(n + 1)
      /\ t[n + 1] = x /\ \A i \in 1..n : t[i] = s[i]
  BY <1>1, <1>2, <1>3
<1>5. ASSUME NEW i \in 1..(n + 1), NEW j \in 1..(n + 1), t[i].schema = t[j].schema PROVE i = j
  <2>1. i \in 1..n \/ i = n + 1
    OBVIOUS
  <2>2. j \in 1..n \/ j = n + 1
    OBVIOUS
  <2>3. CASE i \in 1..n /\ j \in 1..n
    BY <1>1, <1>4, <1>5, <2>3 DEF SamplesAre
  <2> QED BY <1>1, <1>3, <1>4, <1>5, <2>1, <2>2, <2>3
<1>6. Len(t) <= MaxFamilies
  BY <1>1, <1>4, CorpusAssumption
<1> QED BY <1>4, <1>5, <1>6 DEF SamplesAre

\* Both steps of the corpus.
LEMMA CorpusStep == CorpusInv /\ [CorpusNext]_corpusVars => CorpusInv'
<1> SUFFICES ASSUME CorpusInv, [CorpusNext]_corpusVars PROVE CorpusInv'
  OBVIOUS
<1>1. SamplesAre(samples) /\ CorpusIs(corpus, samples)
  BY DEF CorpusInv
<1>2. ASSUME NEW drawn \in Draws, NEW id \in 1..MaxFamilies, DrawFamily(drawn, id)
      PROVE  SamplesAre(samples') /\ CorpusIs(corpus', samples')
  <2>1. /\ Len(samples) < MaxFamilies /\ \A i \in DOMAIN samples : samples[i].schema # id
        /\ samples' = Append(samples, [fields |-> SampleFields(drawn), schema |-> id]) /\ corpus' = corpus
    BY <1>2 DEF DrawFamily
  <2>2. id \in Nat
    BY CorpusAssumption
  <2>3. SamplesAre(samples')
    BY <1>1, <2>1, <2>2, SampleIsOfFields, SampleIsAdded
  <2>4. corpus = <<>>
    <3>1. Len(samples) \in Nat
      BY <1>1 DEF SamplesAre
    <3> QED BY <1>1, <2>1, <3>1, CorpusAssumption DEF CorpusIs
  <2> QED BY <2>1, <2>3, <2>4 DEF CorpusIs
<1>3. ASSUME NEW holdout, Generate(holdout) PROVE SamplesAre(samples') /\ CorpusIs(corpus', samples')
  <2>1. /\ Len(samples) = MaxFamilies /\ samples' = samples
        /\ corpus' = FlattenSeq(GenerateCorpus(FamiliesOf(samples, holdout), Variants))
    BY <1>3 DEF Generate, Families, FamiliesOf
  <2> QED BY <1>1, <2>1 DEF CorpusIs
<1>4. CASE UNCHANGED corpusVars
  BY <1>1, <1>4 DEF CorpusInv, corpusVars
<1> QED BY <1>2, <1>3, <1>4 DEF CorpusNext, CorpusInv

\* The invariant says enough, with at least seven variants of each family.
LEMMA CorpusInvIsEnough == ASSUME Variants >= 7 PROVE CorpusInv => CorpusIsSound
<1> SUFFICES ASSUME CorpusInv PROVE CorpusIsSound
  OBVIOUS
<1>1. CASE corpus = <<>>
  <2>1. PICK all : all = <<>>
    OBVIOUS
  <2>2. AreFamilies(all) /\ IsCorpusOf(corpus, all)
    BY <1>1, <2>1 DEF AreFamilies, IsCorpusOf
  <2>3. LabelsAreSound
    BY <1>1 DEF LabelsAreSound
  <2> QED BY <2>2, <2>3, NothingIsShared, CurationHolds DEF CorpusIsSound
<1>2. CASE corpus # <<>>
  <2>1. PICK holdout : /\ SamplesAre(samples) /\ Len(samples) = MaxFamilies
                       /\ corpus = FlattenSeq(GenerateCorpus(FamiliesOf(samples, holdout), Variants))
    BY <1>2 DEF CorpusInv, CorpusIs
  <2>2. PICK all : all = FamiliesOf(samples, holdout)
    OBVIOUS
  <2>3. AreFamilies(all) /\ Len(all) = MaxFamilies
    BY <2>1, <2>2, SamplesMakeFamilies
  <2>4. corpus = FlattenSeq(GenerateCorpus(all, Variants))
    BY <2>1, <2>2
  <2>5. PICK n \in Nat, m \in Nat : n = MaxFamilies /\ m = Variants
    BY CorpusAssumption
  <2>6. AreVariants(corpus, all, n, m)
    BY <2>3, <2>4, <2>5, Generated
  <2>7. IsCorpusOf(corpus, all)
    BY <2>6 DEF AreVariants
  <2>8. LabelsAreSound
    BY <2>3, <2>4, LabelsHold
  <2> QED BY <2>3, <2>7, <2>8, NothingIsShared, CurationHolds DEF CorpusIsSound
<1> QED BY <1>1, <1>2

\* generate_corpus and curate_synthetic: whatever is drawn and whichever families are
\* held out, no case of one partition offers or names a schema of the other, every case
\* is valid and answered perfectly by its own label, with at least seven variants of a
\* family (there are eight unless configured otherwise) every category and both traps
\* occur, and curation gives up nothing but easy cases beyond the cap, the widest
\* margins first.
THEOREM CorpusHolds == ASSUME Variants >= 7 PROVE CorpusSpec => []CorpusIsSound
<1>1. CorpusInit => CorpusInv
  BY CorpusAssumption DEF CorpusInit, CorpusInv, SamplesAre, CorpusIs
<1> QED BY <1>1, CorpusStep, CorpusInvIsEnough, PTL DEF CorpusSpec
=============================================================================
