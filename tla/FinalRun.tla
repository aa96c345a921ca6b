------------------------------ MODULE FinalRun ------------------------------
(***************************************************************************)
(* One online run of the locked final matrix, from the empty run root to   *)
(* the retention receipt: ProductionFinalExecutor (final_executor.py), the *)
(* daily controller as far as its run root is concerned                    *)
(* (production_final_controller.py; PackedReplay models what it learns and *)
(* PartLedger how it appends), the budget snapshots (final_snapshots.py)   *)
(* and the evaluation (final_evaluation.py).                               *)
(*                                                                         *)
(* Every file the run root holds is written by a step of its own, and the  *)
(* process may die between two steps.  A restarted process knows only what *)
(* is on disk.  A checkpoint and what a ledger takes in are one step each  *)
(* (CheckpointStore and PartLedger take them apart), except for the one    *)
(* outcome of dying inside them that lasts: the temporary of a JSON write, *)
(* which the layout check of the directory refuses.  Model weights are     *)
(* abstracted to the credits spent on them and the hosts that trained      *)
(* them: training is deterministic on one host.  A manifest carries        *)
(* wall-clock timings, so two launches that write the same manifest write  *)
(* different bytes: it records the launch.                                 *)
(*                                                                         *)
(* "No value or one" is a set of at most one element.                      *)
(***************************************************************************)
EXTENDS Naturals, FiniteSets, Sequences, FiniteSetsExt

CONSTANTS
  Schedule,   \* Schedule[i]: the decision days on which run i spends a credit
  Days,       \* number of decision days
  Fractions,  \* number of budget fractions with a snapshot
  Hosts,      \* machines the operator may launch on
  Locked,     \* those whose code, data and environment equal the lock
  MaxCrashes, \* bound on crashes
  MaxMoves    \* bound on changes of the machine

Runs == DOMAIN Schedule
Online == Len(Schedule)

ASSUME FinalConstants ==
  /\ Days \in Nat \ {0} /\ Fractions \in Nat \ {0}
  /\ Schedule \in Seq(SUBSET (1 .. Days))
  /\ \A i \in Runs : Schedule[i] # {}
  /\ IsFiniteSet(Hosts) /\ Locked \subseteq Hosts /\ Locked # {}
  /\ MaxCrashes \in Nat /\ MaxMoves \in Nat

VARIABLES
  root,      \* root[i]: the files of run i
  pc,        \* where the process is; "off" when there is none
  at,        \* the run of the matrix being executed
  day,       \* the next decision day
  weights,   \* the model in memory
  due,       \* budget fractions whose snapshot is still to be written
  why,       \* reason of the last refusal
  strays,    \* <<i, place>>: a dead launch of run i left a temporary there
  host, crashes, moves

proc == <<at, day, weights, due, why>>
env == <<strays, host, crashes, moves>>
runVars == <<root, pc, proc, env>>

(***************************************************************************)
(* The files of a run.                                                     *)
(***************************************************************************)
\* the four directories that retention removes, in the order it removes them
Prunable == <<"checkpoints", "exposures", "predictions", "snapshots">>
AllDirs == {Prunable[k] : k \in DOMAIN Prunable}
Parts == 1 .. Fractions
NoModels == [f \in Parts |-> {}]
Untrained == [credits |-> 0, hosts |-> {}]

Credits(i) == Cardinality(Schedule[i])

\* the credit after which the snapshot of fraction f is due: ceil(f * credits)
Boundary(i, f) == (f * Credits(i) + Fractions - 1) \div Fractions

EmptyRoot ==
  [dirs |-> {},                  \* the directories that exist
   saved |-> {},                 \* newest verified checkpoint
   exposures |-> 0,              \* credits in the exposure ledger
   snapshots |-> NoModels,       \* published snapshots
   sealed |-> {},                \* sealed ledgers: "primary", "exposures"
   intermediate |-> NoModels,    \* model of each sealed intermediate ledger
   manifest |-> {},
   temp |-> FALSE,               \* .primary-probabilities.npy.tmp is there
   array |-> FALSE,              \* primary-probabilities.npy is there
   compact |-> FALSE,            \* compact/manifest.json is there
   evaluation |-> {}, retention |-> {}]

\* removing a directory removes what the run kept in it
Without(d, dir) ==
  LET left == [d EXCEPT !.dirs = @ \ {dir}]
  IN  CASE dir = "checkpoints" -> [left EXCEPT !.saved = {}]
        [] dir = "exposures"   -> [left EXCEPT !.exposures = 0,
                                               !.sealed = @ \ {"exposures"}]
        [] dir = "predictions" -> [left EXCEPT !.sealed = @ \ {"primary"},
                                               !.intermediate = NoModels]
        [] dir = "snapshots"   -> [left EXCEPT !.snapshots = NoModels]

\* the directories whose layout check refuses a temporary of a JSON write:
\* the checkpoints, the two ledgers of the replay, the intermediate ledgers
Opened == {"checkpoints", "primary", "exposures"}
Layouts == Opened \cup {"intermediate"}

Launched == crashes + 1

\* faulty: the outcome carries the launch that reads it back
EvidenceOfLaunch(i) ==
  [launch |-> Launched, models |-> (CHOOSE r \in root[i].retention : TRUE).evaluation]

\* what a later stage reads of a settled run
Evidence(i) ==
  LET r == CHOOSE r \in root[i].retention : TRUE
  IN  [launch |-> r.manifest.launch, models |-> r.evaluation]

Settled(i) == root[i].retention # {}

(***************************************************************************)
(* Steps of the process.                                                   *)
(***************************************************************************)
Refuse(reason) ==
  pc' = "refused" /\ why' = reason /\ UNCHANGED <<at, day, weights, due>>
Go(stage) == pc' = stage /\ UNCHANGED proc

RunInit ==
  /\ root = [i \in Runs |-> EmptyRoot]
  /\ pc = "off" /\ at = 1 /\ day = 1 /\ weights = Untrained /\ due = {} /\ why = ""
  /\ strays = {} /\ host \in Locked /\ crashes = 0 /\ moves = 0

\* the receipt is there: its chain is read back and returned as it is
ReuseRetention(i) ==
  /\ pc = "execute" /\ at = i
  /\ root[i].retention # {}
  /\ root[i].manifest # {} /\ root[i].evaluation # {}
  /\ root[i].compact /\ root[i].array
  /\ Go("record")
  /\ UNCHANGED <<root, env>>

\* the replay is over, only evaluation and retention are missing
Reevaluate(i) ==
  /\ pc = "execute" /\ at = i
  /\ root[i].retention = {} /\ root[i].manifest # {}
  /\ Go("evaluate")
  /\ UNCHANGED <<root, env>>

Opens(i) == /\ pc = "execute" /\ at = i
            /\ root[i].retention = {} /\ root[i].manifest = {}

\* a run without checkpoint starts in an empty root only
OpenFresh(i) ==
  /\ Opens(i)
  /\ root[i].saved = {} /\ root[i].dirs = {}
  /\ root' = [root EXCEPT ![i].dirs = AllDirs]
  /\ day' = 1 /\ weights' = [Untrained EXCEPT !.hosts = {host}] /\ due' = {}
  /\ pc' = "replay"
  /\ UNCHANGED <<at, why, env>>

RefuseRoot(i) ==
  /\ Opens(i)
  /\ root[i].saved = {} /\ root[i].dirs # {}
  /\ Refuse("root")
  /\ UNCHANGED <<root, env>>

\* faulty: the device is left out of the identity
SameLock(s) == s.host \in Locked

\* identity of a checkpoint: the device is part of it, the rest is locked
SameIdentity(s) == s.host = host

\* a launch opens the replay's ledgers and the checkpoints
Strayed(i) == \E p \in Opened : <<i, p>> \in strays

Resume(i) ==
  /\ Opens(i) /\ ~Strayed(i)
  /\ \E s \in root[i].saved :
       /\ SameIdentity(s)
       /\ s.weights.credits <= root[i].exposures
       /\ day' = s.day + 1 /\ weights' = s.weights /\ due' = {}
       /\ pc' = IF s.day < Days THEN "replay" ELSE "seal primary"
  /\ UNCHANGED <<root, at, why, env>>

RefuseHost(i) ==
  /\ Opens(i) /\ ~Strayed(i)
  /\ \E s \in root[i].saved : ~SameIdentity(s)
  /\ Refuse("host")
  /\ UNCHANGED <<root, env>>

\* a temporary that a dead launch left; nothing removes it
RefuseStray(i) ==
  /\ \/ Opens(i) /\ root[i].saved # {} /\ Strayed(i)
     \/ pc = "intermediate" /\ at = i /\ <<i, "intermediate">> \in strays
  /\ Refuse("stray")
  /\ UNCHANGED <<root, env>>

\* a decision day: a credit is trained, its exposures appended (a part that
\* is already there is verified) and the snapshots it completes fall due
Decide(i) ==
  /\ pc = "replay" /\ at = i
  /\ LET spent == weights.credits + 1
         reached == {f \in Parts : Boundary(i, f) = spent}
     IN  IF day \in Schedule[i]
         THEN /\ weights' = [credits |-> spent, hosts |-> weights.hosts \cup {host}]
              /\ root' = [root EXCEPT ![i].exposures = IF @ < spent THEN spent ELSE @]
              /\ due' = reached
              /\ pc' = IF reached = {} THEN "save" ELSE "snapshot"
         ELSE UNCHANGED <<weights, root, due>> /\ pc' = "save"
  /\ UNCHANGED <<at, day, why, env>>

\* FinalSnapshotStore.write: staged aside, verified and renamed in one step;
\* one that is already there must hold the same weights (a mismatch is
\* refused; no run gets that far)
WriteSnapshot(i) ==
  /\ pc = "snapshot" /\ at = i
  /\ LET f == Min(due) IN
       /\ root[i].snapshots[f] \subseteq {weights}
       /\ root' = [root EXCEPT ![i].snapshots[f] = {weights}]
       /\ due' = due \ {f}
       /\ pc' = IF due' = {} THEN "save" ELSE "snapshot"
  /\ UNCHANGED <<at, day, weights, why, env>>

Checkpoint(last) == [day |-> last, weights |-> weights, host |-> host]

Save(i) ==
  /\ pc = "save" /\ at = i
  /\ root' = [root EXCEPT ![i].saved = {Checkpoint(day)}]
  /\ day' = day + 1
  /\ pc' = IF day < Days THEN "replay" ELSE "seal primary"
  /\ UNCHANGED <<at, weights, due, why, env>>

\* all credits are spent: the ledgers are sealed, or their seals verified
SealPrimary(i) ==
  /\ pc = "seal primary" /\ at = i
  /\ weights.credits = Credits(i)
  /\ root' = [root EXCEPT ![i].sealed = @ \cup {"primary"}]
  /\ Go("seal exposures")
  /\ UNCHANGED env

SealExposures(i) ==
  /\ pc = "seal exposures" /\ at = i
  /\ root[i].exposures = Credits(i)
  /\ root' = [root EXCEPT ![i].sealed = @ \cup {"exposures"}]
  /\ Go(IF day > Days + 1 THEN "intermediate" ELSE "save sealed")
  /\ UNCHANGED env

SaveSealed(i) ==
  /\ pc = "save sealed" /\ at = i
  /\ root' = [root EXCEPT ![i].saved = {Checkpoint(Days + 1)}]
  /\ day' = Days + 2
  /\ pc' = "intermediate"
  /\ UNCHANGED <<at, weights, due, why, env>>

Unsealed(i) == {f \in Parts : root[i].intermediate[f] = {}}

\* the final cohort is scored again under each snapshot, in their order
SealIntermediate(i) ==
  /\ pc = "intermediate" /\ at = i /\ <<i, "intermediate">> \notin strays
  /\ Unsealed(i) # {}
  /\ \A f \in Parts : root[i].snapshots[f] # {}
  /\ LET f == Min(Unsealed(i))
     IN  root' = [root EXCEPT ![i].intermediate[f] = root[i].snapshots[f]]
  /\ UNCHANGED <<pc, proc, env>>

\* the manifest closes the truth-free part of the run; it is never rewritten
WriteManifest(i) ==
  /\ pc = "intermediate" /\ at = i /\ <<i, "intermediate">> \notin strays
  /\ Unsealed(i) = {} /\ root[i].manifest = {}
  /\ root' = [root EXCEPT ![i].manifest =
                {[launch |-> Launched, models |-> root[i].intermediate]}]
  /\ Go("evaluate")
  /\ UNCHANGED env

(***************************************************************************)
(* Evaluation and retention.                                               *)
(***************************************************************************)
\* the manifest's seals are verified and aligned before truth is joined
SealsAlign(i) ==
  /\ "primary" \in root[i].sealed
  /\ \A m \in root[i].manifest :
       m.models = root[i].intermediate /\ m.models = root[i].snapshots

Evaluates(i, stage) == pc = stage /\ at = i /\ SealsAlign(i)

ReuseCompact(i) ==
  /\ Evaluates(i, "evaluate")
  /\ root[i].compact /\ root[i].array
  /\ Go("score")
  /\ UNCHANGED <<root, env>>

StageArray(i) ==
  /\ Evaluates(i, "evaluate")
  /\ ~root[i].compact /\ ~root[i].temp
  /\ root' = [root EXCEPT ![i].temp = TRUE]
  /\ Go("publish array")
  /\ UNCHANGED env

\* faulty: the failing launch leaves the temporary file
TripAndLeave(i) ==
  /\ Evaluates(i, "evaluate")
  /\ ~root[i].compact /\ root[i].temp
  /\ Refuse("temp")
  /\ UNCHANGED <<root, env>>

\* a dead launch left the temporary file: opening it for exclusive creation
\* fails, and the finally clause of the failing launch removes it
TripOverTemp(i) ==
  /\ Evaluates(i, "evaluate")
  /\ ~root[i].compact /\ root[i].temp
  /\ root' = [root EXCEPT ![i].temp = FALSE]
  /\ Refuse("temp")
  /\ UNCHANGED env

PublishArray(i) ==
  /\ pc = "publish array" /\ at = i
  /\ root' = [root EXCEPT ![i].temp = FALSE, ![i].array = TRUE]
  /\ Go("compact")
  /\ UNCHANGED env

WriteCompact(i) ==
  /\ pc = "compact" /\ at = i
  /\ root' = [root EXCEPT ![i].compact = TRUE]
  /\ Go("score")
  /\ UNCHANGED env

\* truth is joined; an evaluation that is already there must be the same
WriteEvaluation(i) ==
  /\ Evaluates(i, "score")
  /\ root[i].evaluation \subseteq {root[i].intermediate}
  /\ root' = [root EXCEPT ![i].evaluation = {root[i].intermediate}]
  /\ Go("retain")
  /\ UNCHANGED env

\* everything the receipt names is read back and verified first
ChainAligns(i) ==
  /\ SealsAlign(i) /\ "exposures" \in root[i].sealed
  /\ root[i].compact /\ root[i].array
  /\ \A m \in root[i].manifest : root[i].evaluation = {m.models}
  /\ \E s \in root[i].saved : SameIdentity(s)

WriteReceipt(i) ==
  /\ pc = "retain" /\ at = i
  /\ ChainAligns(i) /\ root[i].retention = {}
  /\ root' = [root EXCEPT ![i].retention =
                {[manifest |-> m, evaluation |-> e] :
                   m \in root[i].manifest, e \in root[i].evaluation}]
  /\ Go("prune")
  /\ UNCHANGED env

\* the receipt names what this launch cannot verify on another device
RefuseReceipt(i) ==
  /\ pc = "retain" /\ at = i
  /\ \E s \in root[i].saved : ~SameIdentity(s)
  /\ Refuse("host")
  /\ UNCHANGED <<root, env>>

Left(i) == {k \in DOMAIN Prunable : Prunable[k] \in root[i].dirs}

\* faulty: directories are removed before the receipt is durable
PruneUnreceipted(i) ==
  /\ pc \in {"retain", "prune"} /\ at = i
  /\ Left(i) # {}
  /\ root' = [root EXCEPT ![i] = Without(@, Prunable[Min(Left(i))])]
  /\ UNCHANGED <<pc, proc, env>>

Prune(i) ==
  /\ pc = "prune" /\ at = i
  /\ Left(i) # {}
  /\ root' = [root EXCEPT ![i] = Without(@, Prunable[Min(Left(i))])]
  /\ UNCHANGED <<pc, proc, env>>

EndPrune(i) ==
  /\ pc = "prune" /\ at = i
  /\ Left(i) = {}
  /\ Go("record")
  /\ UNCHANGED <<root, env>>

RunStep ==
  \E i \in Runs :
    \/ ReuseRetention(i) \/ Reevaluate(i) \/ OpenFresh(i) \/ RefuseRoot(i)
    \/ Resume(i) \/ RefuseHost(i) \/ RefuseStray(i)
    \/ Decide(i) \/ WriteSnapshot(i) \/ Save(i)
    \/ SealPrimary(i) \/ SealExposures(i) \/ SaveSealed(i)
    \/ SealIntermediate(i) \/ WriteManifest(i)
    \/ ReuseCompact(i) \/ StageArray(i) \/ TripOverTemp(i) \/ PublishArray(i)
    \/ WriteCompact(i) \/ WriteEvaluation(i)
    \/ WriteReceipt(i) \/ RefuseReceipt(i) \/ Prune(i) \/ EndPrune(i)

(***************************************************************************)
(* The world around the process.                                           *)
(***************************************************************************)
Down == pc \in {"off", "refused"}

\* where the process may be inside a JSON write: latest.json of a checkpoint,
\* the seal of a ledger, the identity or the seal of an intermediate one
\* (an identity of the other two is written before the first checkpoint)
Writing ==
  {p \in Layouts :
     \/ p = "checkpoints" /\ pc \in {"save", "save sealed"}
     \/ p = "primary" /\ pc = "seal primary" /\ "primary" \notin root[at].sealed
     \/ p = "exposures" /\ pc = "seal exposures" /\ "exposures" \notin root[at].sealed
     \/ p = "intermediate" /\ pc = "intermediate" /\ Unsealed(at) # {}}

\* the process dies: memory is gone, the files stay; in a JSON write the
\* temporary may stay too, and then the file it was for is not read again
Crash ==
  /\ ~Down /\ crashes < MaxCrashes
  /\ crashes' = crashes + 1
  /\ strays' \in {strays} \cup {strays \cup {<<at, p>>} : p \in Writing}
  /\ pc' = "off" /\ at' = 1 /\ day' = 1 /\ weights' = Untrained /\ due' = {} /\ why' = ""
  /\ UNCHANGED <<root, host, moves>>

\* the operator goes on another machine
MoveHost ==
  /\ Down /\ moves < MaxMoves
  /\ moves' = moves + 1
  /\ host' \in Hosts \ {host}
  /\ UNCHANGED <<root, pc, proc, strays, crashes>>

RunTypeOK ==
  /\ \A i \in Runs :
       /\ root[i].dirs \subseteq AllDirs
       /\ root[i].exposures \in 0 .. Credits(i)
       /\ root[i].sealed \subseteq {"primary", "exposures"}
       /\ {root[i].temp, root[i].array, root[i].compact} \subseteq BOOLEAN
       /\ Cardinality(root[i].saved) <= 1 /\ Cardinality(root[i].manifest) <= 1
       /\ Cardinality(root[i].evaluation) <= 1 /\ Cardinality(root[i].retention) <= 1
       /\ \A f \in Parts : Cardinality(root[i].snapshots[f]) <= 1
  /\ at \in 1 .. Online + 1 /\ day \in 1 .. Days + 2
  /\ weights \in [credits : 0 .. Days, hosts : SUBSET Hosts]
  /\ due \subseteq Parts /\ strays \subseteq Runs \X Layouts
  /\ host \in Hosts /\ crashes \in 0 .. MaxCrashes /\ moves \in 0 .. MaxMoves
=============================================================================
