# A formal model of LateSignal

LateSignal replays a stream of ad clicks in event time and asks how a conversion model
should be trained when labels arrive late.  A run predicts every click with the model of
the moment, persists the prediction, delivers the click, reveals whatever truth became
available, and spends a retraining credit when a scheduler says so.  What can go wrong is
rarely in one function: truth that reaches a model too early, a record emitted twice or
never, a credit spent twice after a restart, a checkpoint that cannot be loaded, a ledger
that a resumed run contradicts.  Around the replay stands a pipeline of commands (fetch,
inspect, prepare, cache, select, lock, final run, aggregate), each launched by an operator,
each liable to die between two files it writes, each reading what another left.  These
modules state what the code promises about such things and check it.

Contents: 1 inventory, 2 plan, 3 modules, 4 runs, 5 proofs, 6 disagreements with the
documentation, 7 what is not modelled, 8 how to run it.  Paths without a prefix are under
`src/latesignal/` of the repository.

## 1. Inventory

One process runs one command; there are no threads.  Concurrency is that of a process
with its own restarts and with the commands before and after it: a run may stop between any
two durable steps and a later process takes its files up again, on another machine perhaps.
Ordering is that of event time: clicks, truth, boundaries and credits with equal or near times.

| Component | State | Operations | Hard behaviour | Correct when |
|---|---|---|---|---|
| Rolling checkpoints (`experiments/checkpoint.py`, `data/manifests.py`) | `generation-N` directories, `latest.json`, temporaries | `write`, `load_latest`, verification, cleanup | crash between durable steps, damaged files, leftovers | the pointer names whole generations, two verified generations remain, a crash loses memory only |
| Credit schedulers (`scheduling/credit.py`, `base.py`, `fixed.py`, `calibration_drift.py`, `production.py`) | decisions, evidence log, spent windows, last boundary | `decide`, `assert_complete`, `state_dict`, `load_state_dict` | partial windows, restore between decision and checkpoint, re-derivation of a stored log | one credit per window, spent by its due day; loading accepts exactly what deciding saves |
| Durable ledgers (`experiments/predictions.py`, `experiments/exposures.py`) | `identity.json`, numbered parts, `seal.json`, temporaries | open, `append`, `position`, `seal`, `verify_seal` | part durable but its checkpoint not, retries, fallback to an older checkpoint, another software stack | rows never replaced, a sealed ledger is the cohort in event order |
| Event-time engine (`simulator/*`, `experiments/runner.py`) | clock, click cursor, ledgers, pool, model, event trace, checkpoints | `_process_boundary`, `run`, `state_dict`, `load_state_dict`, resume | equal timestamps, ten parts restored one by one, checkpoint after the clock advanced | no leakage, all complete runs equal, every stop resumable |
| Per-click methods (`methods/*.py`) and Study A (`experiments/study_a.py`) | per click: registered, truth seen, what was emitted | `on_click`, `on_positive_reveal`, `on_negative_maturity`, `on_boundary`, `materialize` | one delivery spans 31 days; handlers emit for other clicks | the pool is the promised records legal by now, none twice |
| Packed methods and pools (`methods/production.py`, `training/packed.py`, `simulator/production_oracle.py`) | truth cursor, packed records, monitoring mask | `reveal_through`, `process_boundary`, `append`, `dfm_observations`, save and load, sampling | bulk delivery by cursors, truth and due records of one boundary, float32 delays, restore | same promise as the per-click methods |
| Production replay (`experiments/production_final_controller.py`, `scheduling/monitoring.py`) | day, cursors, ledgers, scheduler, trainer, monitoring ledger | `run`, `_state`, `_restore_latest`, `_decision` | composition of everything above under restart | resumed run equals uninterrupted run |
| Samplers and budget (`training/sampler.py`, `budget.py`, `trainer.py`) | recent list, reservoir heap, ids, counters | `add`, `sample`, `record_credit` | records ageing into a bounded reservoir, ids removed on eviction | no future record sampled, budget equals exposures |
| Final run (`experiments/final_executor.py`, `final_snapshots.py`, `final_evaluation.py`) | run root: four directories, manifest, compact array, evaluation, `retention.json` | `execute`, snapshots, evaluation, receipt, pruning | crash between receipt and pruning, a snapshot ahead of its checkpoint, a temporary left behind | row-level evidence goes only under a receipt; snapshots are those of the run |
| Final coordinator (`experiments/final_coordinator.py`, `production_final_runner.py`), offline references (`production_offline.py`) | plan, state file, manifest, per-run references | run or verify each run in frozen order, publish, combine | state rewritten from a launch's own list, wall-clock time in manifests | runs settle in order and once; what is published is what settled |
| Qualification, aggregation, reporting (`production_qualification.py`, `production_aggregate.py`, `reporting/render.py`) | quality gate, bootstrap cache, input, pages, manifests | three commands of their own | aggregate started early or again, array without manifest, pages without manifest | an aggregate is of the published matrix and passed the gate |
| Selection (`experiments/selection_*.py`, `production_selection.py`) | candidate roots, stage plans and results, the published pair | prepare all, score all, choose, next stage | restart anywhere, failed candidates, another commit or GPU | no score before its stage is sealed; the choice depends on stored stages only |
| Protocol lock, feasibility (`experiments/protocol_lock.py`, `feasibility_context.py`, `estimate.py`) | measurement, binding, lock | measure, bind, lock, accept | measured or bound again between selection and lock | the final stage accepts only the selection's decisions and budget |
| Data (`data/*.py`), feature caches (`features/cache.py`) | archive, candidate, lock, inspection, quarantine, stores, manifests, parts | fetch, review, inspect, prepare, build, verify | four promotions with rollback, kills and interrupts, damage, a changing server | a run reads only what comes from the archive that was reviewed |
| Online history, encoding, evaluation, bootstrap, Study B, models, command line | results | sequential passes and pure reductions | numerical | see 7 |

How they interact.  The engine and the production controller own everything else: they
call oracle, method, ledgers, sampler, scheduler and trainer in a fixed order at each
boundary and hand their `state_dict` to a checkpoint store.  The executor calls the
controller and, after a stop, constructs it again over the same directories; the coordinators
call an executor per unit, in a frozen order, at every launch.  Components
share no memory; what couples them is the set of files a crash leaves and the order of
calls at one timestamp.  The `hazards` of `PROJECT.json` name the lines where each of these
behaviours bites.

## 2. Plan

Order: what a wrong answer would silently corrupt comes first.

1. Durable state: CheckpointStore over CheckpointRegister; PartLedger over AppendLedger. *Done, proved.*
2. Credits: CreditScheduler. *Done, proved.*
3. Labels: DelayedMethods over LabelStream. *Done, proved.*
4. The engine that composes clock, oracle, ledgers, method, scheduler and checkpoints:
   EventEngine. *Done, its safety proved.*
5. Production replay over LabelStream: PackedReplay. *Done, its safety and the refinement proved.*
6. The final stage: FinalRun, FinalCoordinator, OfflineReferences, FinalStage over RunMatrix.
   *Done, its safety and the refinement proved.*
7. Selection, feasibility and lock: SelectionRun, SelectionGraph, again over RunMatrix.
   *Done, its safety and the refinement proved.*
8. The data pipeline: DataPipeline. *Done, proved.*

Left: the sampler's recency window and reservoir; the online history at equal times; the loop
of Study B.  Every safety, action and refinement property the runs check is proved.

## 3. Modules

Faulty variants.  Each component module holds a few definitions marked "Faulty variant".
They are not part of the specification: each stands for a plausible bug, and the property
it is paired with in `PROJECT.json` must be violated when it replaces the definition it
varies.

### CheckpointStore, CheckpointRegister

`RollingCheckpointStore` with the run that writes and the executor that restarts it.  A
write is BeginWrite (stage a hidden directory), Publish (rename), StagePointer and
SwapPointer (the temporary and the rename of `latest.json`), Prune for each stale
generation, EndWrite.  Crash may follow any of them; Resume is `load_latest` with its
fallback; RefuseWrite and RefuseRestart are the refusals.  Damage and DamagePointer are
the environment; a file is damaged in a way the readers pass by or in one that ends the load
(bytes that do not decode).  A state is its progress; a digest check is membership in `sound`.
CheckpointRegister is the abstract store: one durable value, and a crash that loses only
the memory.  The refinement maps the durable value to the payload the pointer names.

### CreditScheduler

The five policies of the allocation windows, as the final controller drives them: Decide
(the scheduler's `decide` and the trainer's credit), Save (the day's checkpoint), Crash,
Restore or RefuseRestore (`load_state_dict`, which derives every decision again from the
logged evidence), Finish (`assert_complete`).  A day's evidence is "none", "low" or "high";
Corrupt alters one entry of the stored state.

### PartLedger, AppendLedger, MCPartLedger

`PredictionLedgerWriter` and `ExposureLedgerWriter` as file operations (identity, part and
seal each staged, linked and unlinked), the turns of the controller that appends and
checkpoints, and its restarts.  One model stands for three ledgers, which differ in where
the next part's index comes from and in what a sealed ledger answers.  A row is its place
in the event order and the software stack that computed it.  AppendLedger is the promise:
rows appear in order, are never replaced, and a sealed ledger never changes.
MCPartLedger gives the turns of the checked run.

### DelayedMethods, LabelStream

The six per-click methods as Study A drives them: DeliverClick, EndClicks,
RevealPositive, RevealNegative, EndTruth and SpendCredit are the loop of `_deliver_through`
and the credits of `_run_method`.  The handlers are operators (OnBoundaryFixed,
OnBoundaryMature, AtClick, AtPositive, AuxiliaryOf); AddToSampler is the sampler's
admission test.  A delivery or a credit that the code refuses ends the
run as failed: ClickRefused, TruthRefused and CreditRefused are the methods' own checks (a click
met twice; truth before its click, settled before or outside its window; a credit back in time
or of something from the future), Refused the sampler's two.  The sampler's recency window and reservoir are left out: the pool is every
record ever admitted.  `fnw` emits the stream of `immediate_fake_negative` and differs in
its loss only.  The fixture is arbitrary, not only the one of `_fixture`, because the
methods are written for any stream.  LabelStream is the promise: each method settles, for
given clicks and outcomes, a set of records each with its legal time, and at each decision
the pool is exactly the part of it legal by then.  Rewind is for a process that is restored
to an earlier decision; DelayedMethods has no step that maps to it.

### PackedReplay, MCPackedReplay

`ProductionFinalController.run` hour by hour.  A boundary is Predict (`_predict_primary`), then
ProcessBoundary, which is `reveal_through`, `observe_truth` and `process_boundary` of the method
and of the initialization method in one step, since nothing between them is durable.  It is
followed by Initialize and Decide (`_apply_initialization`, `_decision`, `_spend_credit`), by
SealPrimary and SealExposures, and by Save (`_write_checkpoint`), wherever `run` has them;
Finish holds the checks after the loop.  Crash may follow any step.  RefuseRoot, Refuse and
Restore are what the executor's next start meets: a root without a checkpoint, a checkpoint
that does not load, one that does.  The cursors, the outcomes and the conditions of refusal
are the code's own (`Refuses`, `ProcessRefused`, `MethodRefuses`, `RestoreRefused`,
`EvidenceRefused`, `SealRefused`); a store is the set of its records, and a model the
sequence of what it was trained on, so a prediction names the training behind it.

Left out: the order of records at one instant, the batches a sampler draws from a pool,
the residual bins of monitoring, and everything CheckpointStore, PartLedger, CreditScheduler
and FinalRun (snapshots, intermediate predictions) model: here a checkpoint, a part and a credit are each one step, only the
latest checkpoint is loaded, and the days a credit is spent are part of the fixture.  A
fixture that spends on every decision day stands for the daily scheduler of Study A, any
other for Study B, whose decisions ask for monitoring evidence.  The constants keep the first
decision before the first evaluated day (31 < 65 in the code): a click on the second of the
first decision would otherwise be predicted before the model is initialized.  MCPackedReplay
gives the fixtures.

### EventEngine

`EventTimeEngine` with LabelOracle, the in-memory ledgers, MatureOutcomeMethod,
FixedDailyScheduler, TinyTrainer and the runner.  The phases Predict, Persist, Deliver,
Reveal, Decide and Advance are the order of `_process_boundary` and `run`; Finish is the
drained check, the audit of the trace and the written outputs; Stop ends the process
anywhere; Resume loads any checkpoint into a new output directory; Rerun starts over
when there is none.  A model is what it was trained on (credit times to record sets), so a
prediction names the training behind it.  Left out: probabilities, the unused random
generator, `checkpoint_count` (a stop requested after some checkpoints is a Stop that
follows Advance), and the manifest an interrupted run writes.  The audit accepts every
prefix of a trace it accepts, so only the complete trace is audited.

### FinalRun, OfflineReferences, FinalCoordinator, FinalStage, RunMatrix, MCFinalStage

The locked final stage in four layers, each extending the one below.  FinalRun is one online
run: OpenFresh, Resume, Reevaluate, ReuseRetention and the refusals are what `execute` meets
at a launch; Decide, WriteSnapshot, Save and the seals are the controller as far as its run
root goes; SealIntermediate and WriteManifest end it; StageArray, PublishArray, WriteCompact
and WriteEvaluation are `final_evaluation.py`; WriteReceipt, Prune and EndPrune are
`_compact_and_prune`.  OfflineReferences is `production_offline.py`: Fit, SealReference,
JoinReference, RecordReference.  FinalCoordinator is the command: PlanOnline, Record,
PublishOnline, Combine.  FinalStage adds Qualify and the aggregation, the operator who
launches each command again, Crash and MoveHost.  Weights are abstracted to the credits spent
on them and the machines that trained them, because training is deterministic on one machine;
a manifest records the launch that wrote it, because it carries wall-clock times.  A checkpoint
and what a ledger takes in, parts and seal, are one step each, which a crash comes before or
after; CheckpointStore and PartLedger take them apart, and there a retry repairs every other
state between their file operations.  The outcome that lasts is kept here: a crash inside a
JSON write of a checkpoint or a ledger (Writing) may leave its temporary (`strays`), and every
launch that opens the directory is then refused (RefuseStray).  RunMatrix
is the promise of a coordinator: runs settle one by one in a frozen order, never change, and
are published once as they settled.

### SelectionRun, SelectionGraph, MCSelectionGraph

SelectionRun is one candidate: OpenFresh to SaveSealed are `production_selection.py` as far as
its run root goes, WriteReceipt to WritePrepared the compaction of `selection_executor.py`,
Evaluate, WriteResult and PrunePredictions its scoring.  Checkpoints and ledger writes are one
step each, with the temporary a crash inside them may leave, as in FinalRun.  What the data makes of a candidate is
its fate, a loss or the credit at which a legal pool is too small; the fate is fixed at the
start and unknown to the program, the measured seconds are not fixed.  SelectionGraph is the
coordinator: FreezePlan, PrepareStage, StoreResults, Choose (`select_candidate`), the published
pair, and around it Measure, Bind, Lock and Accept (`locked_decisions`), with Crash and
MoveHost (another commit or GPU).  Digests are the plans they are digests of.

### DataPipeline, MCDataPipeline

Review, Download and SettleDownload are `fetch_dataset`; Inspect, PromoteQuarantine and
WriteInspection `inspect_locked_archive`; Prepare, PromoteNext and PublishPreparation
`prepare_data`; BuildCache, WritePart and PublishCache `build_feature_cache`; InventoryVerified
and CacheVerified are the readers.  A file stands for the archive its bytes come from, or for
Rot.  Crash is a kill and leaves the temporaries the command owned; Interrupt is a keyboard
interrupt, which runs `finally` but no `except Exception`; Fail is a step that raises, which
rolls back.  ChangeRemote and Damage are the environment.  Left out: the parsing of rows, the
choice of a time unit, damage to a manifest or in the middle of a command.

## 4. Runs

Every run but the three violations checks each of its properties against a faulty variant.

| Run | Question | Bounds, and why they are enough |
|---|---|---|
| checkpoint | Is the store a durable register under crashes, and what do damaged files cost? | 6 generations, 3 crashes, 2 damages of four kinds: a crash in one write, in the write after it and in the write that recovers from both; both retained generations damaged, or the pointer and one. |
| checkpoint_pointer | Can a crash alone make the store unusable? (violation) | 3 generations, 1 crash. |
| credits | Is every credit spent once and on time, across restores? | Five days, windows of three: a whole and a partial window, all five policies, all evidence; one crash, one altered entry. |
| ledger | Are ledgers append-only and complete, and does every run settle? | Four turns, three ledgers, 3 crashes, one lost checkpoint, one other stack. |
| ledger_fallback | Does a run that fell back keep its ledgers? (violation) | As above, one lost checkpoint, same stack. |
| methods | Do the methods emit exactly what they promise, without looking ahead? | Three clicks, wait 2, window 4, three decisions: every outcome, clicks before, between and after decisions, late and early conversions at and beside each limit. |
| engine | Are runs leak-free, equal however resumed, and do they complete? | Three clicks at times on, before and after boundaries and decisions, truth at once and later, two stops, resumption from every checkpoint. |
| replay | Does the production replay learn and predict on schedule, whatever it dies in? | All seven methods; seven clicks over five days (two in the last, one after it), on boundaries, between them and at one instant, with any successive pair converting at delays 0, the wait, just after it, the window; one click held out; both studies; one death. Two boundaries a day, wait of a day, window of two: each limit falls on a boundary, beside it, and in a later day. |
| final | Does the final stage publish what its runs settled on, and keep evidence until it is accounted for? | Two online runs with two credits and one, three decision days, two fractions (one run with a snapshot per credit, one with both at the same credit), one offline run; 2 crashes, anywhere and inside any checkpoint or ledger write, one change among two locked machines and one that is not: two runs interrupted, or one run interrupted twice. |
| final_prune | Are the row-level directories of a completed run gone? (violation) | The same. |
| selection | Does the graph settle and choose as the protocol says, and what can be locked? | Two stages of two candidates, one credit; losses tied and apart, a pool too small at the initialization, at the credit, and for a whole stage; 2 costs, 2 budgets, 2 crashes (inside a checkpoint or ledger write too), one change of commit and GPU, one measurement after the first. |
| data | Does everything a run accepts come from the reviewed archive, and does the pipeline recover? | Two archives of which one is approved, with and without a configured digest, two policies, two parts; 2 changes of the server, 2 kills, one interrupt or failure, one damage: a change while the candidate waits and back, a kill in each of two commands. |

What the deeper properties say:

- **ImplementsRegister, LossBoundedByDamage, RetainsTwoVerified**: a crash at any instant
  costs the memory only; each damaged file costs at most one acknowledged checkpoint.
- **LoadsWhatItSaves, OneCreditPerWindow, EveryCreditSpent**: the two independent
  implementations of a decision (deciding, and deriving it again when loading) agree.
- **ImplementsLedger, RowsInOrder, RefusedForReason, EventuallySettles**: parts that are
  durable before their checkpoint are found equal and in place by the resumed run.
- **ImplementsStream, NoLookAhead, ObservationLegal**: the pools at a credit are a function
  of what has happened; NoLookAhead compares with every other outcome that agrees so far.
- **NoLeakage, LearnsOnSchedule, PersistedBeforeDelivered** of the engine: each prediction
  is made by exactly the model the schedule prescribes, in resumed runs too.
- **ImplementsStream, LearnsOnSchedule, NothingRefused, EventuallySettles** of the replay: the
  vectorized method keeps the per-click methods' promise, and a run that died comes to the
  models, predictions and credits of one that did not, without meeting any of the code's
  refusals (of stores, method, truth, evidence, ledgers, seal, end, restart) but SealTied.
- **EvidenceChain, SnapshotsAreTheRun, ReportIsOfTheMatrix** of the final stage: at no instant is
  row-level evidence gone without a receipt whose links are there; a snapshot rewritten by a
  resumed run is the same model; an aggregate holds the published evidence in every input.
- **ScoredAfterSealed, RetainedUntilSettled, LockIsOfSelection** of selection: no candidate is
  trained knowing another's score; a lock that reaches the final stage is of the stored
  stages' best candidates under one budget, whatever was measured and bound in between.
- **ImplementsMatrix** of both: the code keeps files per run, a state file and a manifest; the
  abstract matrix has a sequence that grows at its end and is published once.
- **EvidenceChain, ManifestsLast, EventuallyReady** of the data: digests chain over five files
  written by four commands; what cannot be recovered from is named, and only that.

Deadlock checking is off where a system ends (done, refused, or out of the bound on crashes
and restarts): all runs but final, final_prune and selection, in which the operator can always
launch a command.  The bounds MaxCrashes, MaxDamage, MaxCorruptions, MaxDrift, MaxGeneration,
MaxRestarts, MaxMoves, MaxMeasures, MaxChanges and MaxFailures are guards of the environment's
actions (and of the number of writes) and of nothing else.

Fairness.  CreditScheduler, PartLedger, PackedReplay and EventEngine have weak fairness of the
process's own steps and of its restart: one sequential process runs to its end unless it is
stopped, and a stopped run is started again by its operator.  FinalStage, SelectionGraph and
DataPipeline have weak fairness of the running command and strong fairness of the operator's
launches: commands take turns, so that a launch is not enabled all the time, and an operator
repeats each command until it succeeds.  No fairness is assumed of crashes, damage, failures,
stops, reviews of other digests, changes of the machine or of the server.  The liveness
properties name what no repetition gets past: in FinalStage a run opened but never
checkpointed, a JSON temporary left among a run's checkpoints or in one of its ledgers, a
half-written report, a machine the lock does not name, a checkpoint of another machine; in
SelectionGraph a candidate opened but never checkpointed, such a temporary, a checkpoint of
another runtime, a budget other than the frozen one, a stage
without winner, and results without manifest; in DataPipeline a server that never offers an
acceptable archive, promotions without manifest, a temporary the readers refuse, damage.
CheckpointStore and DelayedMethods are safety only.

## 5. Proofs

TLC checks the instances above; the modules `*_proofs` prove for every value of the
constants, under the named assumptions next to the constants' declarations:

| Module | Theorems | Argument |
|---|---|---|
| CheckpointStore_proofs | TypeCorrect, PointerCorrect, RetentionCorrect, FallbackCorrect, LossCorrect, Refinement | IInv: without damage the pointer names sound generations, payloads grow with generation numbers and lead the pointer by one at most, and each place in a write fixes how progress, acknowledgement and pointer relate. Needed because the pointer alone does not say that what Prune deletes is neither of the two it names. LossInv, for a store that is damaged: a verified generation is behind what was acknowledged by the damages so far and by those that must still happen before it is selected, one for each newer generation that verifies (`Behind`). Needed because a payload is not bounded by the damage alone: an old generation may be any number of checkpoints behind as long as newer ones verify. |
| CreditScheduler_proofs | Tiling, TypeCorrect, InvariantCorrect, OneCredit, DueMet, AllCreditsSpent, NothingRefused, RoundTrip | IInv: the live state is one loading would accept, the cursor follows the last decision, and credits count spent windows. RoundTrip is then the equality of the two derivations of a decision. DueMet, AllCreditsSpent and NothingRefused assume NoSingleDayWindow. |
| PartLedger_proofs | InvariantCorrect, TypeCorrect, SealedCorrect, DurableCorrect, OrderCorrect, RefusalCorrect, Refinement | IInv: what each place in the process knows, what each checkpoint recorded, and that without damage the disk is ahead of the newest checkpoint by parts of the current turn only. |
| DataAndLabels_proofs, of DelayedMethods | StreamCorrect, TypeCorrect, NeverRefusedCorrect, ObservationCorrect, NoLookAheadCorrect, StreamImplemented | IInv: at each place of a delivery it is known which truth was delivered (Complete, by time and kind of event), which corrections were made, and the pool is the stream's records legal by then (Pools). Needed because the handlers of one delivery emit for other clicks than the one delivered, so that the pool is the promised one only together with what is still to be delivered. NoLookAheadCorrect and StreamImplemented assume ~AllowTies (section 6). |
| EventEngine_proofs | InvariantCorrect, LeakageCorrect, ScheduleCorrect, PersistenceCorrect, NothingRefused | IInv: what each model was trained on was available at its credit and no credit is later than the boundary processed last, in memory and in every checkpoint. A leak is then excluded by the engine's refusal of a click at or before the previous boundary. EngineInv is stronger: ledgers, pool, model and credits, in memory and in every checkpoint, are functions of the fixture and the boundary (Covers, Revealed, Trained), so that what was stopped and resumed leaves no trace. KeptInv, for NothingRefused: the durable ledgers never hold less than the checkpoint a restart loads, nor other rows. |
| PackedReplay_proofs | ReplayCorrect, ScheduleCorrect, PackedStreamImplemented, NothingRefusedCorrect | IInv: all that the components hold is a function of the time of the last boundary. The cursors stand behind the clicks whose time, wait or window is over (CursorsAt), the outcomes are those out by then, the stores hold the promised records legal by then (StoresAt), and the model has the credits of the decisions before (Trained); a checkpoint is such a state (Saved), and both ledgers are prefixes of the schedule (Recorded). Needed because a boundary hands the stores what lies between two times, which is the promised stream only if nothing was left over at the first. Faultless adds what the refusals compare: the truth and the evidence are in turn (Seen, Evidenced), predictions are complete (Foretold), and no ledger is ahead of the latest checkpoint by more than the credit of the next decision (Undecided, Ahead), so that the credits on disk are those a checkpoint counts. |
| FinalStage_proofs | StageCorrect, ChainUnbroken, SnapshotsTrue, ReportTrue, StageImplementsMatrix, StageGoesOn | IInv: a run root is open, or closed by a manifest whose evidence is all there until the receipt is (TrueRoot); each place of a launch knows what is done of the run it is at (AtRun); at most one run is settled and not recorded (InOrder), offline runs follow (ReferredInOrder), and what the aggregation made is of a published matrix (AggregateTrue). Needed because the coordinator writes its list anew at every launch from what it finds. GoesInv, for StageGoesOn: an open run's checkpoint counts the credits of its day, is not ahead of its exposures, and comes with every snapshot due by then, of its own machine (Replayable); a place inside a day knows what of this is still to be written (FitsRun); a reference's manifest is of an array that is there (FilesAble), and the state files list a prefix of the evidence (ListsAble). |
| SelectionGraph_proofs | ScoredCorrect, RetentionCorrect, LockCorrect, GraphImplementsMatrix, LaunchGoesOn | IInv: each place in a launch knows what is done of the candidate it is at (AtCandidate) and of the others of its stage (AtStage). Needed because neither property says where the process is: a launch that reuses a prepared candidate must not come to a score before the candidates it has not looked at. LockInv: a result is the candidate's fate, a stored stage is its results, plans and locks hold the winners of the stages before; that a winner is the best candidate rests on a finite set of costs having a least element. MatrixInv: a candidate settles after every one before it, and a launch that has opened its stages found nothing published. The refinement also rests on what the frozen order is: FlattenSeq lists each place once and in order (FlattenPlaces), and what is flattened of one value per place holds it at that place (FlattenedIs). GoesInv, for LaunchGoesOn: a resumable root's checkpoint is never ahead of its ledgers, its manifest, preparation and receipt announce evidence that is there, and whatever is past the opening runs under a budget that is bound. |
| DataAndLabels_proofs, of DataPipeline | ChainCorrect, ManifestsCorrect | Chained: every file in place is founded on the lock (Founded), and each command holds what it verified (Holds). The published digest of the rejected rows is that of the report or the report has rotted; since rot never heals, the readers' comparison of the two ties the rows to the archive. |

Each inductive invariant was first checked with TLC on the instance of its run.

Assumptions.  The named assumptions of the modules only say that bounds and times are natural
numbers, that schedules and widths are sequences of them and that what is configured is
consistent (FateConstants: a fate is a loss, or a credit of the candidate's; ToleranceConstant:
the tolerance is a natural number, since losses are compared as integers here).  Two theorems
have a hypothesis of their own: NoSingleDayWindow and ~AllowTies name the inputs for which the
code does something else (section 6).

Induction.  The library's induction principles are not available to the provers.  Where an
argument needs one, it takes the least element of a set of naturals (LeastNatural, from the
library's WFMin): the least generation, cost, click, decision, stage or run for which the claim fails.  So what the
recursive function in FlattenSeq computes is proved too (FlatteningExists, FlattenSeqIs).

ImplementsRegister and CheckpointRegister's refinement speak of behaviours without damage, as
the property itself does.  Type invariants are proved where the table says TypeCorrect; the
other modules' invariants contain the types their arguments need, and their TypeOK holds on the
instances of the runs.

Only model-checked: that under its fairness a command gets to its end (EventuallyComplete,
EventuallyDone, the EventuallySettles of the replay, the selection and the final stage, and
EventuallyReady), which the prover does not do.  What could stop a command on the way
is excluded by proof for all but the data commands: no check of the code refuses it except where
the property says so (NothingRefused of the credit scheduler and the event engine,
NothingRefusedCorrect of the replay), and in the selection and the final stage the guards of
some step hold at every place as well, a launch being refused for the reasons that Blocked
names and section 4 lists, dead launches' temporaries among them (LaunchGoesOn, StageGoesOn).  Left to TLC is that the
steps are then taken to the end.  No module has
RECURSIVE operators.

## 6. Disagreements with the documentation

Shown by runs:

- **checkpoint_pointer**: `_generation_paths` (`experiments/checkpoint.py:115`) refuses the
  temporary that a crash inside the pointer write leaves; README.md:172 promises resumable
  evidence.
- **ledger_fallback**: after a fallback to the previous checkpoint, checkpoints record a
  ledger position ahead of the run (`production_final_controller.py:902`) and the next
  restart is refused; BUILD_PLAN.md:652 promises equal ledgers.
- **final_prune**: `execute` returns a verified receipt without looking at the directories
  (`experiments/final_executor.py:292`), so that a crash between receipt and pruning leaves
  them for good; docs/experimental-protocol.md:72 says they are pruned.

Reproduced by configurations kept beside the runs:

- `DelayedMethods_tie.cfg`: `on_negative_maturity` (`methods/fixed_wait.py:89`) runs the
  boundary of all clicks, so that a click converting at that instant, at the end of its wait,
  gets a provisional negative and an early positive; BUILD_PLAN.md:426 excludes it.  The method
  and fixture of Study A do so with `wait_seconds` 172800 and `attribution_seconds` 2591999.
  The run `methods` therefore takes the fixtures without such a tie.
- `PackedReplay_tie.cfg` (module MCPackedReplay): `_PackedOracleReference.load_state_dict`
  (`experiments/production_final_controller.py:196`) expects its cursor to count every click up
  to the last boundary, day 90's included, while the run stops at the training period; with a
  click on the very second of the seal the checkpoint after it is refused.  BUILD_PLAN.md:874
  asks for resumption from every checkpoint boundary.  SealTied names this case, the only
  refusal NothingRefused allows in the run `replay`.

Met while modelling, not backed by a run:

- A generation manifest or a `latest.json` that is not UTF-8 raises an exception that
  `read_json` does not translate (`data/manifests.py:58`) and `load_latest` does not catch
  (`experiments/checkpoint.py:267` and 279): the load ends although generations verify.
- A copy stranded by a crash inside a write is a fourth full copy, never reclaimed;
  docs/experimental-protocol.md:71 budgets three.
- The midpoint of a one-day window lies outside it (`scheduling/credit.py:52`), and its
  credit is never spent; BUILD_PLAN.md:492 gives each window one credit.
- JSON temporaries of a ledger are refused like damage (`experiments/predictions.py:148`), so
  that a run of the final or of the selection stage that dies inside a seal stops its stage
  for good, as one that dies inside the pointer write does; and a sealed exposure ledger refuses a retry its docstring allows
  (`experiments/exposures.py:236` against line 135).
- docs/event-time-semantics.md decides before the last click time; the engine decides at it too
  (`simulator/engine.py:161`).
- A process that dies between the results and the manifest of a finished selection leaves a
  root that every later start refuses (`experiments/selection_coordinator.py:226`); the lock
  reads the results only and accepts the half-written pair.
- A selection may mix candidates trained on different runtimes: only a candidate in the middle
  of its training compares (`experiments/selection_executor.py:306`), neither the coordinator
  nor the lock does, while README.md:172 promises the refusal of mismatched identities.
- A candidate that turns out invalid keeps its checkpoints and exposures for good.
- A kill or a keyboard interrupt between the promotions and the manifest of `inspect` or
  `prepare` blocks that command until somebody removes files by hand: the rollback hangs on
  `except Exception`, which an interrupt passes by (`data/prepare.py:556`).
- A temporary left under the processed root makes every reader refuse although a repeated
  command succeeded (`data/prepared.py:203`), and a leftover of the manifest's own temporary
  blocks a cache, since only part temporaries are removed (`features/cache.py:36`).
- A damaged archive at its content-addressed path blocks the next download of the same bytes.
- `prepare` compares the quarantine report by its number of rows only (`data/prepare.py:501`);
  the readers' digest finds a damaged one later, which is what EvidenceChain rests on.

## 7. Not modelled

`PROJECT.json` lists every component with its status.  Numerical code (optimisers, models,
losses, metrics, bootstrap, calibration, LightGBM references, the feasibility estimate) has no
control a model checker would examine.  Parsing, hashing, the text of reports, the command line
and the repository audit are sequential and stateless; a command appears as the launch action of
the component it calls.  Study B's own loop, the online history and the sampler's reservoir are
state machines that are not modelled (section 2).  The expansion of a plan into its units is a
constant of the models (Schedule, Width, Fates).

Assumed of the environment: a rename and a link are atomic and durable in order; files are
damaged between commands, not while one reads them; one command runs at a time; a failing
`unlink` of a temporary after its link does not happen.

## 8. Running it

    tlc -workers 2 -config EventEngine.cfg EventEngine
    tlapm EventEngine_proofs.tla

The `runs` of `PROJECT.json` give the module for every configuration.  Longest run: about two
minutes; all proofs: about twenty minutes, a quarter of it FinalStage_proofs.
