---------------------------- MODULE SelectionRun ----------------------------
(***************************************************************************)
(* One candidate of the selection graph, from its frozen plan to its       *)
(* result: ProductionSelectionExecutor (selection_executor.py), the        *)
(* selection controller as far as its run root is concerned                *)
(* (production_selection.py; PackedReplay models the replay they share,    *)
(* PartLedger the ledgers) and its evaluation (selection_evaluation.py).   *)
(*                                                                         *)
(* Each durable write is a step; the process may die between two of them.  *)
(* A checkpoint and what a ledger takes in are one step each               *)
(* (CheckpointStore and PartLedger take them apart), except for the one    *)
(* outcome of dying inside them that lasts: the temporary of a JSON write, *)
(* which the layout check of the directory refuses.                        *)
(* What the data makes of a candidate is its fate: a selection loss, or    *)
(* the credit at which a legal pool is too small.  The fate is the same at *)
(* every attempt, the measured compute seconds are not.                    *)
(*                                                                         *)
(* "No value or one" is a set of at most one element.                      *)
(***************************************************************************)
EXTENDS Naturals, FiniteSets, Sequences, FiniteSetsExt

CONSTANTS
  Width,      \* Width[s]: number of candidates of stage s
  Fates,      \* assignments of a fate to every candidate of every stage
  Credits,    \* credits of a candidate
  Costs,      \* measured compute seconds
  Budgets,    \* authorised steps per credit
  Hosts,      \* runtimes: records of the code and the GPU
  FirstHost,  \* the one the operator starts on
  MaxCrashes, \* bound on crashes
  MaxMoves,   \* bound on changes of the runtime
  MaxMeasures \* bound on feasibility measurements after the first

Stages == DOMAIN Width

ASSUME SelectionConstants ==
  /\ Width \in Seq(Nat \ {0}) /\ Width # <<>>
  /\ Credits \in Nat \ {0}
  /\ Costs # {} /\ Costs \subseteq Nat /\ IsFiniteSet(Budgets) /\ Budgets # {} /\ Budgets \subseteq Nat
  /\ FirstHost \in Hosts
  /\ MaxCrashes \in Nat /\ MaxMoves \in Nat /\ MaxMeasures \in Nat

\* a candidate has a loss, or fails at its initialization or at a credit
ASSUME FateConstants ==
  \A f \in Fates : \A s \in Stages : \A c \in 1 .. Width[s] :
    /\ f[s][c].valid \in BOOLEAN
    /\ IF f[s][c].valid THEN f[s][c].loss \in Nat ELSE f[s][c].fails \in 0 .. Credits

VARIABLES
  fate,     \* what the data makes of each candidate, unknown to the program
  root,     \* root[s][c]: the files of candidate c of stage s
  pc,       \* where the process is; "off" when there is none
  stage,    \* stage of the graph the process is in
  at,       \* candidate of the stage
  budget,   \* steps per credit of this launch
  winners,  \* winners of the earlier stages, as this launch computed them
  step,     \* controller: 0 before the initialization, 1 + credits after it
  why,      \* reason of the last refusal
  strays,   \* <<s, c, place>>: a dead launch of that candidate left a temporary there
  host, crashes, moves

proc == <<stage, at, budget, winners, step, why>>
env == <<strays, host, crashes, moves>>
candidateVars == <<fate, root, pc, proc, env>>

TrainingDirs == {"checkpoints", "exposures"}

\* the directories whose layout check refuses a temporary of a JSON write
Layouts == TrainingDirs \cup {"predictions"}

EmptyRoot ==
  [dirs |-> {},        \* the directories that exist
   saved |-> {},       \* newest verified checkpoint
   exposures |-> 0,    \* credits in the exposure ledger
   sealed |-> {},      \* sealed ledgers: "predictions", "exposures"
   manifest |-> {},    \* manifest.json
   receipt |-> FALSE,  \* training-retention.json
   prepared |-> {},    \* prepared.json
   evaluated |-> FALSE,\* selection-evaluation.json
   result |-> {}]      \* candidate-result.json

\* the candidate the process is at, and what a step makes of its root
Here == root[stage][at]
Put(d) == root' = [root EXCEPT ![stage][at] = d]

Go(next) == pc' = next /\ UNCHANGED proc
Refuse(reason) ==
  pc' = "refused" /\ why' = reason /\ UNCHANGED <<stage, at, budget, winners, step>>

CandidateInit ==
  /\ fate \in Fates
  /\ root = [s \in Stages |-> [c \in 1 .. Width[s] |-> EmptyRoot]]
  /\ pc = "off" /\ stage = 1 /\ at = 1 /\ winners = <<>> /\ step = 0 /\ why = ""
  /\ strays = {} /\ budget = Max(Budgets) /\ host = FirstHost /\ crashes = 0 /\ moves = 0

-----------------------------------------------------------------------------
(***************************************************************************)
(* prepare: replay, seal, compact.                                         *)
(***************************************************************************)
\* faulty: each candidate is scored as soon as it is prepared
AfterPrepareScored(c) ==
  pc' = "score" /\ at' = c /\ UNCHANGED <<stage, budget, winners, step, why>>

\* the next candidate is prepared; scoring starts when all of them are
AfterPrepare(c) ==
  /\ IF c = Width[stage] THEN pc' = "score" /\ at' = 1
                         ELSE pc' = "prepare" /\ at' = c + 1
  /\ UNCHANGED <<stage, budget, winners, step, why>>

ReusePrepared ==
  /\ pc = "prepare" /\ Here.prepared # {}
  /\ Here.prepared = {"complete"} =>
       /\ Here.manifest # {} /\ Here.receipt
       /\ Here.result = {} => "predictions" \in Here.sealed
  /\ AfterPrepare(at)
  /\ UNCHANGED <<fate, root, env>>

\* the replay is over, the training evidence is still to be compacted
ReuseManifest ==
  /\ pc = "prepare" /\ Here.prepared = {} /\ Here.manifest # {}
  /\ Go("compact")
  /\ UNCHANGED <<fate, root, env>>

Replays == pc = "prepare" /\ Here.prepared = {} /\ Here.manifest = {}

\* a launch opens both ledgers and the checkpoints before it restores
Strayed == \E p \in Layouts : <<stage, at, p>> \in strays

OpenFresh ==
  /\ Replays /\ Here.saved = {} /\ Here.dirs = {}
  /\ Put([Here EXCEPT !.dirs = TrainingDirs \cup {"predictions"}])
  /\ pc' = "train" /\ step' = 0
  /\ UNCHANGED <<fate, stage, at, budget, winners, why, env>>

\* without a checkpoint the root must be empty
RefuseRoot ==
  /\ Replays /\ Here.saved = {} /\ Here.dirs # {}
  /\ Refuse("root")
  /\ UNCHANGED <<fate, root, env>>

\* a checkpoint names code, environment and device, and belongs to them
RefuseHost ==
  /\ (Replays /\ ~Strayed) \/ (pc = "compact" /\ ~Here.receipt)
  /\ \E s \in Here.saved : s.host # host
  /\ Refuse("host")
  /\ UNCHANGED <<fate, root, env>>

\* a temporary that a dead launch left; nothing removes it
RefuseStray ==
  /\ Replays /\ Here.saved # {} /\ Strayed
  /\ Refuse("stray")
  /\ UNCHANGED <<fate, root, env>>

\* a durable ledger may be ahead of the checkpoint, never behind it
Resume ==
  /\ Replays /\ ~Strayed
  /\ \E s \in Here.saved :
       /\ s.host = host
       /\ s.step <= Here.exposures + 1
       /\ step' = s.step
       /\ pc' = IF s.step = Credits + 1 THEN "seal" ELSE "train"
  /\ UNCHANGED <<fate, root, stage, at, budget, winners, why, env>>

Fate == fate[stage][at]
PoolTooSmall == ~Fate.valid /\ Fate.fails = step

\* the initialization (step 0) has no ledger entry of its own; a credit is
\* appended to the exposures, or compared with what a lost launch appended
Train ==
  /\ pc = "train" /\ ~PoolTooSmall
  /\ Put([Here EXCEPT !.exposures = Max({@, step})])
  /\ step' = step + 1 /\ pc' = "save"
  /\ UNCHANGED <<fate, stage, at, budget, winners, why, env>>

\* a pool without enough legal records is an outcome of the candidate
PrepareInvalid ==
  /\ pc = "train" /\ PoolTooSmall
  /\ Put([Here EXCEPT !.prepared = {"protocol_invalid"}])
  /\ AfterPrepare(at)
  /\ UNCHANGED <<fate, env>>

Saved == [step |-> step, host |-> host]

Save ==
  /\ pc = "save"
  /\ Put([Here EXCEPT !.saved = {Saved}])
  /\ Go(IF step = Credits + 1 THEN "seal" ELSE "train")
  /\ UNCHANGED <<fate, env>>

SealPredictions ==
  /\ pc = "seal"
  /\ Put([Here EXCEPT !.sealed = @ \cup {"predictions"}])
  /\ Go("seal exposures")
  /\ UNCHANGED <<fate, env>>

SealExposures ==
  /\ pc = "seal exposures" /\ Here.exposures = Credits
  /\ Put([Here EXCEPT !.sealed = @ \cup {"exposures"}])
  /\ Go("save sealed")
  /\ UNCHANGED <<fate, env>>

SaveSealed ==
  /\ pc = "save sealed"
  /\ Put([Here EXCEPT !.saved = {Saved}])
  /\ Go("manifest")
  /\ UNCHANGED <<fate, env>>

WriteManifest ==
  /\ pc = "manifest"
  /\ \E cost \in Costs : Put([Here EXCEPT !.manifest = {[cost |-> cost, host |-> host]}])
  /\ Go("compact")
  /\ UNCHANGED <<fate, env>>

WriteReceipt ==
  /\ pc = "compact" /\ ~Here.receipt
  /\ Here.sealed = {"predictions", "exposures"}
  /\ \E s \in Here.saved : s.host = host
  /\ Put([Here EXCEPT !.receipt = TRUE])
  /\ Go("prune checkpoints")
  /\ UNCHANGED <<fate, env>>

\* faulty: what a receipt announced is taken to be gone
ReuseReceiptTrusting ==
  /\ pc = "compact" /\ Here.receipt
  /\ Go("receipt")
  /\ UNCHANGED <<fate, root, env>>

ReuseReceipt ==
  /\ pc = "compact" /\ Here.receipt
  /\ Go("prune checkpoints")
  /\ UNCHANGED <<fate, root, env>>

PruneCheckpoints ==
  /\ pc = "prune checkpoints"
  /\ Put([Here EXCEPT !.dirs = @ \ {"checkpoints"}, !.saved = {}])
  /\ Go("prune exposures")
  /\ UNCHANGED <<fate, env>>

PruneExposures ==
  /\ pc = "prune exposures"
  /\ Put([Here EXCEPT !.dirs = @ \ {"exposures"}, !.exposures = 0,
                      !.sealed = @ \ {"exposures"}])
  /\ Go("receipt")
  /\ UNCHANGED <<fate, env>>

WritePrepared ==
  /\ pc = "receipt"
  /\ Put([Here EXCEPT !.prepared = {"complete"}])
  /\ AfterPrepare(at)
  /\ UNCHANGED <<fate, env>>

-----------------------------------------------------------------------------
(***************************************************************************)
(* score: join the truth, keep the aggregate, drop the predictions.        *)
(***************************************************************************)
\* faulty: a score is computed again although its result is there
ScoredNever == FALSE

Scored == Here.result # {}

LoadResult ==
  /\ pc = "score" /\ Scored
  /\ Go("prune predictions")
  /\ UNCHANGED <<fate, root, env>>

\* the sealed predictions are joined with the held-out outcomes
Evaluate ==
  /\ pc = "score" /\ ~Scored
  /\ Here.prepared = {"complete"} /\ "predictions" \in Here.sealed
  /\ Put([Here EXCEPT !.evaluated = TRUE])
  /\ Go("result")
  /\ UNCHANGED <<fate, env>>

Completed ==
  LET m == CHOOSE m \in Here.manifest : TRUE
  IN  [status |-> "complete", loss |-> Fate.loss, cost |-> m.cost]

Failed == [status |-> "protocol_invalid", loss |-> 0, cost |-> 0]

WriteResult ==
  /\ \/ pc = "result" /\ Put([Here EXCEPT !.result = {Completed}])
     \/ /\ pc = "score" /\ ~Scored /\ Here.prepared = {"protocol_invalid"}
        /\ Put([Here EXCEPT !.result = {Failed}])
  /\ Go("prune predictions")
  /\ UNCHANGED <<fate, env>>

PrunePredictions ==
  /\ pc = "prune predictions"
  /\ Put([Here EXCEPT !.dirs = @ \ {"predictions"}, !.sealed = @ \ {"predictions"}])
  /\ IF at = Width[stage] THEN pc' = "store" /\ at' = at
                          ELSE pc' = "score" /\ at' = at + 1
  /\ UNCHANGED <<fate, stage, budget, winners, step, why, env>>

CandidateStep ==
  \/ ReusePrepared \/ ReuseManifest \/ OpenFresh \/ RefuseRoot \/ RefuseHost
  \/ RefuseStray \/ Resume \/ Train \/ PrepareInvalid \/ Save \/ SealPredictions
  \/ SealExposures \/ SaveSealed \/ WriteManifest \/ WriteReceipt
  \/ ReuseReceipt \/ PruneCheckpoints \/ PruneExposures \/ WritePrepared
  \/ LoadResult \/ Evaluate \/ WriteResult \/ PrunePredictions
=============================================================================
