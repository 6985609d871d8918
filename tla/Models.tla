------------------------------- MODULE Models -------------------------------
(***************************************************************************)
(* Governed model versions: the feedback stream, one retraining run at a   *)
(* time, and controllers that promote and roll back, all against one       *)
(* Redis.  Every command is a step of its own, so that runs, promotions    *)
(* and rollbacks interleave, and any of them may stop after any command.   *)
(*                                                                         *)
(* The evidence of an evaluation is a member of Evidence; Passes and       *)
(* Regresses say what the gate finds in it (module Gate defines both).     *)
(***************************************************************************)
EXTENDS Feedback

CONSTANTS
  ModelIds, NoModel,
  Evidence, NoEvidence,
  Passes,          \* evidence with no gate_reasons
  Regresses,       \* pairs <<candidate, active>> with regression_reasons
  Controllers,
  Examples,        \* labelled decisions that may be captured
  Recorded,        \* the stream at the start: what was captured before
  Actors,
  MinShadowHold,   \* min_shadow_hold_ms, in ticks of the clock
  MaxStream, MaxClock, MaxFaults \* bounds of the model

ASSUME GateAssumption ==
  /\ Passes \subseteq Evidence /\ Regresses \subseteq Evidence \X Evidence
  /\ NoEvidence \notin Evidence /\ NoModel \notin ModelIds
ASSUME HoldAssumption == MinShadowHold \in Nat /\ MaxClock \in Nat /\ MaxFaults \in Nat
ASSUME RecordedAssumption == Recorded \in Seq({Recorded[i] : i \in DOMAIN Recorded})

VARIABLES
  stream,      \* deblob:slm-feedback
  quarantined, \* deblob:slm-feedback:quarantined-actors
  models,      \* deblob:slm-models:model:{id}
  active,      \* deblob:slm-models:active
  prior,       \* deblob:slm-models:prior-active
  trainer,     \* where RetrainPlan::run is, and what it holds
  ctl,         \* where a promote or rollback is, and what it holds
  now, faults
vars == <<stream, quarantined, models, active, prior, trainer, ctl, now, faults>>
feedback == <<stream, quarantined>>
registry == <<models, active, prior>>

\* ModelVersion; trained and barred stand for the replay set behind it and for
\* the actors quarantined when its run began.
Absent == [state |-> "none", evidence |-> NoEvidence, since |-> 0, trained |-> {}, barred |-> {}]

Idle == [pc |-> "idle", id |-> NoModel, evidence |-> NoEvidence, actors |-> {}, barred |-> {},
         lines |-> {}, copy |-> Absent, against |-> NoEvidence]
AtRest == [pc |-> "idle", id |-> NoModel, prior |-> NoModel, copy |-> Absent]

Init ==
  /\ stream = Recorded /\ quarantined = {}
  /\ models = [m \in ModelIds |-> Absent] /\ active = NoModel /\ prior = NoModel
  /\ trainer = Idle /\ ctl = [c \in Controllers |-> AtRest]
  /\ now = 0 /\ faults = 0

----------------------------------------------------------------------------
(* Feedback store *)

AppendFeedback(e) ==
  /\ Len(stream) < MaxStream
  /\ stream' = Append(stream, e)
  /\ UNCHANGED <<quarantined, registry, trainer, ctl, now, faults>>

QuarantineActor(a) ==
  /\ quarantined' = quarantined \cup {a}
  /\ UNCHANGED <<stream, registry, trainer, ctl, now, faults>>

----------------------------------------------------------------------------
(* RetrainPlan::run *)

At(pc) == trainer.pc = pc
Goes(t) == trainer' = t /\ UNCHANGED <<feedback, ctl, now, faults>>
\* The end of a run, whatever it returned.
Ends == Goes(Idle)

RunStart ==
  /\ At("idle")
  /\ Goes([Idle EXCEPT !.pc = "quarantined", !.barred = quarantined]) /\ UNCHANGED registry

\* export_jsonl: the quarantined actors, then the stream.
ReadQuarantined ==
  /\ At("quarantined")
  /\ Goes([trainer EXCEPT !.pc = "export", !.actors = quarantined]) /\ UNCHANGED registry
\* Mutant: the stream is exported unfiltered.
Bug_Export ==
  /\ At("export")
  /\ Goes([trainer EXCEPT !.pc = "train", !.lines = {stream[i] : i \in DOMAIN stream}])
  /\ UNCHANGED registry

Export ==
  /\ At("export")
  /\ Goes([trainer EXCEPT !.pc = "train",
             !.lines = {stream[i] : i \in ExportJsonl(stream, trainer.actors, {})}])
  /\ UNCHANGED registry

\* The hook names the model it trained, perhaps one that exists; the held-out
\* run that follows yields its evidence.
Train(m, e) ==
  /\ At("train")
  /\ Goes([trainer EXCEPT !.pc = "exists", !.id = m, !.evidence = e]) /\ UNCHANGED registry

\* Mutant: a model that exists is registered again.
Bug_RegisterExists == At("exists") /\ Goes([trainer EXCEPT !.pc = "register"]) /\ UNCHANGED registry

\* register_candidate: EXISTS, then SET and SADD.  The candidate is born bare
\* whatever was passed in.
RegisterExists ==
  /\ At("exists")
  /\ IF models[trainer.id].state # "none" THEN Ends
     ELSE Goes([trainer EXCEPT !.pc = "register"])
  /\ UNCHANGED registry
RegisterWrite ==
  /\ At("register")
  /\ models' = [models EXCEPT ![trainer.id] =
       [Absent EXCEPT !.state = "candidate", !.trained = trainer.lines, !.barred = trainer.barred]]
  /\ Goes([trainer EXCEPT !.pc = "attach"])
  /\ UNCHANGED <<active, prior>>

\* attach_evidence: the candidate, then the active model.  Models are never
\* deleted and their evidence never changes, so the two reads behind get_active
\* are one.
AttachRead ==
  /\ At("attach")
  /\ IF models[trainer.id].state # "candidate" THEN Ends
     ELSE Goes([trainer EXCEPT !.pc = "compare", !.copy = models[trainer.id]])
  /\ UNCHANGED registry
AttachCompare ==
  /\ At("compare")
  /\ Goes([trainer EXCEPT !.pc = "decide",
             !.against = IF active = NoModel THEN NoEvidence ELSE models[active].evidence])
  /\ UNCHANGED registry
Attached(copy, e, against) ==
  IF e \in Passes /\ <<e, against>> \notin Regresses
  THEN [copy EXCEPT !.evidence = e, !.state = "shadow_candidate", !.since = now]
  ELSE [copy EXCEPT !.evidence = e, !.state = "rejected"]
AttachWrite ==
  /\ At("decide")
  /\ models' = [models EXCEPT ![trainer.id] = Attached(trainer.copy, trainer.evidence, trainer.against)]
  /\ Ends /\ UNCHANGED <<active, prior>>

\* An error of Redis or of the hook ends the run where it is.
RunFails ==
  /\ ~At("idle") /\ faults < MaxFaults /\ faults' = faults + 1
  /\ trainer' = Idle /\ UNCHANGED <<feedback, registry, ctl, now>>

Retrain ==
  \/ RunStart \/ ReadQuarantined \/ Export \/ (\E m \in ModelIds, e \in Evidence : Train(m, e))
  \/ RegisterExists \/ RegisterWrite \/ AttachRead \/ AttachCompare \/ AttachWrite \/ RunFails

----------------------------------------------------------------------------
(* Controllers *)

Is(c, pc) == ctl[c].pc = pc
Step(c, r) == ctl' = [ctl EXCEPT ![c] = r] /\ UNCHANGED <<feedback, trainer, now, faults>>

\* Mutant: the hold period is not looked at.
Bug_Promotable(m) == models[m].state = "shadow_candidate" /\ models[m].evidence # NoEvidence

\* promote: the guards, on a copy of the record; an approval is given.
Promotable(m) ==
  /\ models[m].state = "shadow_candidate" /\ models[m].evidence # NoEvidence
  /\ now - models[m].since >= MinShadowHold
PromoteRead(c, m) ==
  /\ Is(c, "idle") /\ Promotable(m)
  /\ Step(c, [AtRest EXCEPT !.pc = "active", !.id = m, !.copy = models[m]])
  /\ UNCHANGED registry
PromoteActive(c) ==
  /\ Is(c, "active")
  /\ Step(c, [ctl[c] EXCEPT !.pc = "write", !.prior = active]) /\ UNCHANGED registry
PromoteWrite(c) ==
  /\ Is(c, "write")
  /\ models' = [models EXCEPT ![ctl[c].id] = [ctl[c].copy EXCEPT !.state = "active"]]
  /\ Step(c, [ctl[c] EXCEPT !.pc = "move"]) /\ UNCHANGED <<active, prior>>
\* MULTI: the active pointer, and the prior one set or deleted.
PromoteMove(c) ==
  /\ Is(c, "move")
  /\ active' = ctl[c].id /\ prior' = ctl[c].prior
  /\ Step(c, AtRest) /\ UNCHANGED models

\* rollback
RollbackActive(c) ==
  /\ Is(c, "idle")
  /\ Step(c, [AtRest EXCEPT !.pc = "prior", !.id = active]) /\ UNCHANGED registry
RollbackPrior(c) ==
  /\ Is(c, "prior")
  /\ IF NoModel \in {ctl[c].id, prior} THEN Step(c, AtRest)
     ELSE Step(c, [ctl[c] EXCEPT !.pc = "version", !.prior = prior])
  /\ UNCHANGED registry
RollbackRead(c) ==
  /\ Is(c, "version")
  /\ Step(c, [ctl[c] EXCEPT !.pc = "mark", !.copy = models[ctl[c].id]]) /\ UNCHANGED registry
RollbackMark(c) ==
  /\ Is(c, "mark")
  /\ models' = [models EXCEPT ![ctl[c].id] = [ctl[c].copy EXCEPT !.state = "rolled_back"]]
  /\ Step(c, [ctl[c] EXCEPT !.pc = "restore"]) /\ UNCHANGED <<active, prior>>
RollbackMove(c) ==
  /\ Is(c, "restore")
  /\ active' = ctl[c].prior /\ prior' = NoModel
  /\ Step(c, AtRest) /\ UNCHANGED models

\* A Redis error, or the end of the process, between two commands.
ControllerFails(c) ==
  /\ ~Is(c, "idle") /\ faults < MaxFaults /\ faults' = faults + 1
  /\ ctl' = [ctl EXCEPT ![c] = AtRest] /\ UNCHANGED <<feedback, registry, trainer, now>>

Control(c) ==
  \/ \E m \in ModelIds : PromoteRead(c, m)
  \/ PromoteActive(c) \/ PromoteWrite(c) \/ PromoteMove(c)
  \/ RollbackActive(c) \/ RollbackPrior(c) \/ RollbackRead(c) \/ RollbackMark(c) \/ RollbackMove(c)
  \/ ControllerFails(c)

Tick == now < MaxClock /\ now' = now + 1 /\ UNCHANGED <<feedback, registry, trainer, ctl, faults>>

Next ==
  \/ \E e \in Examples : AppendFeedback(e)
  \/ \E a \in Actors : QuarantineActor(a)
  \/ Retrain
  \/ \E c \in Controllers : Control(c)
  \/ Tick

Spec == Init /\ [][Next]_vars

----------------------------------------------------------------------------
(* Properties *)

Known(m) == m \in ModelIds \cup {NoModel}
\* Whatever promotions, rollbacks, retraining runs and failures interleave, the
\* active pointer and the one a rollback restores name models that passed the
\* gate, were promoted and had been held in shadow.
Proven(m) ==
  /\ models[m].evidence \in Passes
  /\ models[m].state \in {"active", "rolled_back"}
  /\ now - models[m].since >= MinShadowHold
ServedModelsAreProven == {active, prior} \subseteq {NoModel} \cup {m \in ModelIds : Proven(m)}

\* A version moves only forward: through every stage, its training and evidence
\* written once, and nothing leads out of a rejection.  A promotion that read
\* its copy before a rollback may make the version active again.
Stages == {<<"none", "candidate">>, <<"candidate", "shadow_candidate">>, <<"candidate", "rejected">>,
           <<"shadow_candidate", "active">>, <<"active", "rolled_back">>, <<"rolled_back", "active">>}
Onward(m) ==
  /\ models[m].state # models'[m].state => <<models[m].state, models'[m].state>> \in Stages
  /\ models[m].evidence # NoEvidence => models'[m].evidence = models[m].evidence
  /\ models[m].state # "none" => models'[m].trained = models[m].trained
VersionsMoveOnward == [][\A m \in ModelIds : Onward(m)]_models

\* A version was trained on no record of the safety suite, none of an actor that
\* was quarantined when its run began, one record of a cluster at most and
\* ExportCap of a family and label source, however the stream grew meanwhile.
CleanlyTrained(m) ==
  LET t == models[m].trained
  IN /\ \A e \in t : ~IsSafetySuite(e) /\ e.actor \notin models[m].barred
     /\ \A e, f \in t : e.cluster = f.cluster => e = f \/ e.cluster = NoCluster
     /\ \A e \in t : Cardinality({f \in t : SameSource(e, f)}) <= ExportCap
TrainedOnAdmissible == \A m \in ModelIds : CleanlyTrained(m)
=============================================================================
