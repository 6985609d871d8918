----------------------------- MODULE Continual -----------------------------
(***************************************************************************)
(* The test-then-train loop of the continual-learning harness: a round     *)
(* predicts its batch, reveals the batch's labels to the feedback store,   *)
(* has the next model trained by a remote job and gates it.                *)
(*                                                                         *)
(*   deblob-experiment/src/continual/prequential.rs   PrequentialRunner    *)
(*   deblob-experiment/src/continual/training_job     the hook, backends   *)
(*                                                                         *)
(* A round that fails returns an error and leaves the runner where it was, *)
(* its labels revealed and its job perhaps still running; the caller may   *)
(* run it again.  A case is <<round, i>>; what a model knows is the set of *)
(* cases among the lines it was trained on.                                *)
(***************************************************************************)
EXTENDS Feedback

CONSTANTS
  Rounds,            \* num_rounds
  BatchSize,         \* round_batch_size
  FamilyOfCase,      \* by round and place in its batch: the partition_key
  Backends,          \* of "fake", "modal" and "hf"
  Budgets, Ceiling,  \* requested max_usd, and max_usd_ceiling
  MaxPollAttempts,
  MaxMishaps,        \* bound: errors of a store, an endpoint or the network
  MaxRevealed        \* bound: labels revealed, those of failed rounds included

ASSUME ContinualAssumption ==
  /\ Rounds \in Nat /\ BatchSize \in Nat \ {0} /\ Ceiling \in Nat /\ Budgets \subseteq Nat
  /\ Backends \subseteq {"fake", "modal", "hf"}
  /\ MaxPollAttempts \in Nat \ {0} /\ MaxMishaps \in Nat /\ MaxRevealed \in Nat
  /\ (0..(Rounds - 1)) \X (1..BatchSize) \subseteq DOMAIN FamilyOfCase

VARIABLES
  config,   \* FixedJobParams and the backend chosen
  revealed, \* the feedback stream of the experiment
  runner,   \* PrequentialRunner: round, model, history, and whether it is frozen
  attempt,  \* the locals of run_round and of the hook
  jobs,     \* remote jobs by handle
  versions, \* model ids registered
  mishaps
continualVars == <<config, revealed, runner, attempt, jobs, versions, mishaps>>

\* b_v0_model, trained on no case of the stream.
BaseModel == [of |-> 0, knows |-> {}]
NoAttempt == [pc |-> "idle", before |-> BaseModel, shown |-> 0, lines |-> <<>>, handle |-> <<>>, polls |-> 0]

ContinualInit ==
  /\ config = [backend |-> "none", usd |-> 0]
  /\ revealed = <<>>
  /\ runner = [round |-> 0, model |-> BaseModel, history |-> <<>>, frozen |-> FALSE]
  /\ attempt = NoAttempt
  /\ jobs = <<>> /\ versions = <<>> /\ mishaps = 0

\* round_batches: the stream cut into batches, in order.
Batch(r) == [i \in 1..BatchSize |-> <<r, i>>]

InRound(pc) == attempt.pc = pc
Mishap == mishaps < MaxMishaps /\ mishaps' = mishaps + 1
\* run_round returns an error: nothing of the runner has changed yet.
RoundErr == attempt' = NoAttempt /\ UNCHANGED <<config, revealed, runner, versions>>

----------------------------------------------------------------------------
(* run_round, up to the training *)

\* PrequentialRunner::new and TrainingBackendFineTuneHook::new.
NewRunner(backend, usd) ==
  /\ config.backend = "none"
  /\ config' = [backend |-> backend, usd |-> usd]
  /\ UNCHANGED <<revealed, runner, attempt, jobs, versions, mishaps>>

\* The model of the round decides the whole batch before a label is revealed.
Predict ==
  /\ config.backend # "none" /\ InRound("idle") /\ runner.round < Rounds
  /\ Len(revealed) + BatchSize <= MaxRevealed
  /\ attempt' = [NoAttempt EXCEPT !.pc = "reveal", !.before = runner.model]
  /\ UNCHANGED <<config, revealed, runner, jobs, versions, mishaps>>

\* One append for every case; an annotation has no cluster and is never deduplicated.
RevealCase ==
  LET i == attempt.shown + 1
      case == Batch(runner.round)[i]
      ctx == [family |-> FamilyOfCase[case], actor |-> "harness", cluster |-> NoCluster]
      example == Capture("semantic_annotation", case, {}, [positive |-> 1, hardNegative |-> 2], ctx)
  IN /\ InRound("reveal")
     /\ revealed' = Append(revealed, example)
     /\ attempt' = [attempt EXCEPT !.shown = i, !.pc = IF i = BatchSize THEN "export" ELSE "reveal"]
     /\ UNCHANGED <<config, runner, jobs, versions, mishaps>>

\* The replay set: every example that export_jsonl lets through.  Two examples of
\* one case differ in recorded_at, so an example is known by its place in the stream.
ExportReplay ==
  LET kept == ExportJsonl(revealed, {}, {})
  IN /\ InRound("export")
     /\ attempt' = [attempt EXCEPT !.pc = "submit", !.lines = [i \in kept |-> revealed[i].gold]]
     /\ UNCHANGED <<config, revealed, runner, jobs, versions, mishaps>>

----------------------------------------------------------------------------
(* TrainingBackendFineTuneHook::train *)

Cases(lines) == {lines[i] : i \in DOMAIN lines}
Add(f, k, v) == [x \in DOMAIN f \cup {k} |-> IF x = k THEN v ELSE f[x]]

\* The fake backend addresses a job by its content, the others give it a new id.
HandleFor(lines) ==
  IF config.backend = "fake" THEN <<"digest", lines>>
  ELSE <<"job", Cardinality(DOMAIN jobs)>>

\* JobStatus: the fake backend's jobs are done at the first poll.
NewJob(lines) == [lines |-> lines, status |-> IF config.backend = "fake" THEN "done" ELSE "running"]

\* validate_budget
OverBudget == config.usd > Ceiling

\* Over budget, no backend is asked.  The answer of submit may be lost although the job began.
SubmitJob ==
  /\ InRound("submit")
  /\ IF OverBudget THEN RoundErr /\ UNCHANGED <<jobs, mishaps>>
     ELSE LET h == HandleFor(attempt.lines)
          IN /\ jobs' = Add(jobs, h, NewJob(attempt.lines))
             /\ \/ /\ attempt' = [attempt EXCEPT !.pc = "poll", !.handle = h]
                   /\ UNCHANGED <<config, revealed, runner, versions, mishaps>>
                \/ config.backend # "fake" /\ Mishap /\ RoundErr

\* The remote side, whether anybody still asks or not; Done may lack a digest.
JobEnds(h, status) ==
  /\ jobs[h].status = "running"
  /\ jobs' = [jobs EXCEPT ![h].status = status]
  /\ UNCHANGED <<config, revealed, runner, attempt, versions, mishaps>>

\* Mutant: the runner serves the new model as soon as it is trained.
Bug_Trained ==
  /\ attempt' = [attempt EXCEPT !.pc = "register"]
  /\ runner' = [runner EXCEPT !.model = [of |-> runner.round + 1, knows |-> Cases(jobs[attempt.handle].lines)]]
  /\ UNCHANGED versions
Trained == attempt' = [attempt EXCEPT !.pc = "register"] /\ UNCHANGED <<runner, versions>>

\* hf's status is not parsed: its jobs look as if they ran for ever.
StatusSeen == IF config.backend = "hf" THEN "running" ELSE jobs[attempt.handle].status
PollJob ==
  /\ InRound("poll")
  /\ CASE StatusSeen = "done" -> Trained /\ UNCHANGED <<config, revealed>>
       [] StatusSeen = "running" /\ attempt.polls + 1 < MaxPollAttempts ->
            attempt' = [attempt EXCEPT !.polls = @ + 1] /\ UNCHANGED <<config, revealed, runner, versions>>
       [] OTHER -> RoundErr
  /\ UNCHANGED <<jobs, mishaps>>

----------------------------------------------------------------------------
(* The candidate's gate, and the end of the round *)

\* register_candidate refuses a model id it has; the id is that of the job.
RegisterCandidate ==
  /\ InRound("register")
  /\ IF attempt.handle \in DOMAIN versions THEN RoundErr
     ELSE /\ versions' = Add(versions, attempt.handle, "candidate")
          /\ attempt' = [attempt EXCEPT !.pc = "attach"]
          /\ UNCHANGED <<config, revealed, runner>>
  /\ UNCHANGED <<jobs, mishaps>>

\* attach_evidence decides (see Models); the candidate becomes the runner's model
\* only if it entered shadow.  Its gain is measured on the next batch.
FinishRound(passes) ==
  LET r == runner.round
      after == IF passes THEN [of |-> r + 1, knows |-> Cases(jobs[attempt.handle].lines)] ELSE runner.model
      record == [round |-> r, model |-> attempt.before, after |-> after, passed |-> passes,
                 gainOn |-> {r + 1} \cap (0..(Rounds - 1))]
  IN /\ InRound("attach")
     /\ versions' = [versions EXCEPT ![attempt.handle] = IF passes THEN "shadow_candidate" ELSE "rejected"]
     /\ runner' = [runner EXCEPT !.round = r + 1, !.model = after, !.history = Append(@, record)]
     /\ attempt' = NoAttempt
     /\ UNCHANGED <<config, revealed, jobs, mishaps>>

\* An append, an export, a poll or a call of the registry fails.
RoundFails == ~InRound("idle") /\ Mishap /\ RoundErr /\ UNCHANGED jobs

\* Only now is the sealed audit set read, for the last model against the first.
Freeze ==
  /\ InRound("idle") /\ runner.round = Rounds /\ ~runner.frozen
  /\ runner' = [runner EXCEPT !.frozen = TRUE]
  /\ UNCHANGED <<config, revealed, attempt, jobs, versions, mishaps>>

ContinualNext ==
  \/ \E backend \in Backends, usd \in Budgets : NewRunner(backend, usd)
  \/ Predict \/ RevealCase \/ ExportReplay \/ SubmitJob \/ PollJob \/ RegisterCandidate
  \/ \E passes \in BOOLEAN : FinishRound(passes)
  \/ \E h \in DOMAIN jobs, status \in {"done", "failed", "incomplete"} : JobEnds(h, status)
  \/ RoundFails \/ Freeze

ContinualSpec == ContinualInit /\ [][ContinualNext]_continualVars

----------------------------------------------------------------------------
(* Properties *)

Unseen(model, batches) == \A case \in model.knows : case[1] \notin batches

\* Every number the trajectory reports is an honest one: the predictions of a round
\* and the gain on the next batch come from models that were trained on no label of
\* it, and each round is recorded once, from the model the round before left, although
\* a round that failed has revealed its labels and is run again, and jobs outlive the
\* rounds that submitted them.
HonestTrajectory ==
  \A k \in DOMAIN runner.history :
    LET record == runner.history[k]
    IN /\ record.round = k - 1
       /\ record.model = (IF k = 1 THEN BaseModel ELSE runner.history[k - 1].after)
       /\ Unseen(record.model, (k - 1)..Rounds)
       /\ Unseen(record.after, record.gainOn)
=============================================================================
