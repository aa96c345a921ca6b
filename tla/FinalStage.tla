----------------------------- MODULE FinalStage -----------------------------
(***************************************************************************)
(* The final stage as the operator drives it: `final qualify`              *)
(* (production_qualification.py), `final run` (FinalCoordinator) and       *)
(* `final aggregate` (production_aggregate.py, reporting/render.py), each  *)
(* launched again and again until it succeeds, one command at a time, with *)
(* crashes and changes of the machine in between.                          *)
(***************************************************************************)
EXTENDS FinalCoordinator

VARIABLES
  gate,       \* the quality gate is written
  aggregate   \* the files under aggregate/

stageVars == <<gate, aggregate>>
vars == <<runVars, refVars, finalVars, stageVars>>
matrixFiles == <<root, refVars, finalVars>>

\* software checks and a resume rehearsal in a scratch directory, then one file
Qualify ==
  /\ Down /\ ~gate /\ host \in Locked
  /\ gate' = TRUE
  /\ UNCHANGED <<matrixFiles, pc, proc, env, aggregate>>

LaunchAggregate ==
  /\ Down
  /\ host \in Locked
  /\ pc' = "aggregate" /\ at' = 1 /\ why' = ""
  /\ UNCHANGED <<matrixFiles, day, weights, due, env, stageVars>>

\* faulty: the quality gate is not asked for
AggregableUngated ==
  /\ final # {}
  /\ \A i \in Runs : Settled(i) /\ \A r \in root[i].retention :
       /\ root[i].manifest = {r.manifest} /\ root[i].evaluation = {r.evaluation}
       /\ root[i].compact /\ root[i].array
  /\ \A j \in References : RefSettled(j) /\ ref[j].evaluation = ref[j].manifest

\* every receipt's chain, every offline manifest, the gate and the matrix
Aggregable ==
  /\ gate /\ final # {}
  /\ \A i \in Runs : Settled(i) /\ \A r \in root[i].retention :
       /\ root[i].manifest = {r.manifest} /\ root[i].evaluation = {r.evaluation}
       /\ root[i].compact /\ root[i].array
  /\ \A j \in References : RefSettled(j) /\ ref[j].evaluation = ref[j].manifest

LoadEvidence ==
  /\ pc = "aggregate" /\ Aggregable
  /\ Go(IF Online = 0 THEN "input" ELSE "bootstrap")
  /\ UNCHANGED <<matrixFiles, env, stageVars>>

RefuseEvidence ==
  /\ pc = "aggregate" /\ ~Aggregable
  /\ Refuse("evidence")
  /\ UNCHANGED <<matrixFiles, env, stageVars>>

Bootstraps(i) == pc = "bootstrap" /\ at = i

\* the replicates of a run are an array and, after it, a manifest; without
\* the manifest the array is computed again and replaced
CacheArray(i) ==
  /\ Bootstraps(i)
  /\ aggregate.cache[i] = {}
  /\ aggregate' = [aggregate EXCEPT !.array[i] = {Evidence(i)}]
  /\ Go("cache")
  /\ UNCHANGED <<matrixFiles, env, gate>>

CacheManifest(i) ==
  /\ pc = "cache" /\ at = i
  /\ aggregate' = [aggregate EXCEPT !.cache[i] = aggregate.array[i]]
  /\ Go("bootstrap")
  /\ UNCHANGED <<matrixFiles, env, gate>>

UseCache(i) ==
  /\ Bootstraps(i)
  /\ aggregate.cache[i] = {Evidence(i)}
  /\ aggregate.array[i] = aggregate.cache[i]
  /\ at' = i + 1
  /\ pc' = IF i = Online THEN "input" ELSE "bootstrap"
  /\ UNCHANGED <<matrixFiles, day, weights, due, why, env, stageVars>>

Report == [i \in Runs |-> Evidence(i)] \o [j \in References |-> RefEvidence(j)]

WriteInput ==
  /\ pc = "input"
  /\ aggregate.input \subseteq {Report}
  /\ aggregate' = [aggregate EXCEPT !.input = {Report}]
  /\ Go("report")
  /\ UNCHANGED <<matrixFiles, env, gate>>

\* render_report writes tables and pages into an empty directory, then the
\* manifest; a directory with pages and no manifest is refused
RenderPages ==
  /\ pc = "report" /\ aggregate.report = "none"
  /\ aggregate' = [aggregate EXCEPT !.report = "pages"]
  /\ Go("report manifest")
  /\ UNCHANGED <<matrixFiles, env, gate>>

RefusePages ==
  /\ pc = "report" /\ aggregate.report = "pages"
  /\ Refuse("report")
  /\ UNCHANGED <<matrixFiles, env, stageVars>>

RenderManifest ==
  /\ pc = "report manifest"
  /\ aggregate' = [aggregate EXCEPT !.report = "complete"]
  /\ Go("report")
  /\ UNCHANGED <<matrixFiles, env, gate>>

PublishAggregate ==
  /\ pc = "report" /\ aggregate.report = "complete"
  /\ aggregate.manifest \subseteq aggregate.input
  /\ aggregate' = [aggregate EXCEPT !.manifest = aggregate.input]
  /\ pc' = "off" /\ at' = 1
  /\ UNCHANGED <<matrixFiles, day, weights, due, why, env, gate>>

AggregateStep ==
  \/ LoadEvidence \/ RefuseEvidence \/ WriteInput
  \/ RenderPages \/ RefusePages \/ RenderManifest \/ PublishAggregate
  \/ \E i \in Runs : CacheArray(i) \/ CacheManifest(i) \/ UseCache(i)

Init ==
  /\ RunInit /\ RefInit /\ FinalInit
  /\ gate = FALSE
  /\ aggregate = [array |-> [i \in Runs |-> {}], cache |-> [i \in Runs |-> {}],
                  input |-> {}, report |-> "none", manifest |-> {}]

\* a step of the running command
Work == (FinalStep /\ UNCHANGED stageVars) \/ AggregateStep

Relaunch == Launch /\ UNCHANGED stageVars

Next ==
  \/ Work \/ Relaunch \/ LaunchAggregate \/ Qualify
  \/ RefuseLock /\ UNCHANGED stageVars
  \/ /\ Crash
     /\ previous' = <<>> /\ next' = 1
     /\ UNCHANGED <<ref, list, finalVars, stageVars>>
  \/ MoveHost /\ UNCHANGED <<refVars, finalVars, stageVars>>

Spec == Init /\ [][Next]_vars

\* a command runs on unless it crashes; the operator launches each command
\* again until the report is there
FairSpec ==
  /\ Spec
  /\ WF_vars(Work)
  /\ SF_vars(Relaunch) /\ SF_vars(LaunchAggregate) /\ SF_vars(Qualify)

-----------------------------------------------------------------------------
TypeOK ==
  /\ RunTypeOK /\ RefTypeOK
  /\ Len(online.recorded) <= Online
  /\ Cardinality(final) <= 1 /\ Cardinality(aggregate.manifest) <= 1
  /\ aggregate.report \in {"none", "pages", "complete"}
  /\ {gate, online.planned, online.complete, list.complete} \subseteq BOOLEAN

\* Row-level evidence is gone only when a durable receipt accounts for it:
\* until the receipt is written, a finished replay still has all four
\* directories with everything its manifest names; afterwards manifest,
\* evaluation and compact array are the receipt's, and what the coordinator
\* recorded is the receipt's too.
EvidenceChain ==
  \A i \in Runs :
    LET d == root[i] IN
    /\ \A m \in d.manifest : d.retention = {} =>
         /\ d.dirs = AllDirs /\ d.sealed = {"primary", "exposures"}
         /\ d.snapshots = m.models /\ d.intermediate = m.models
         /\ d.saved # {} /\ d.exposures = Credits(i)
    /\ \A r \in d.retention :
         /\ d.manifest = {r.manifest} /\ d.evaluation = {r.evaluation}
         /\ d.compact /\ d.array
    /\ d.compact => d.array
    /\ i <= Len(online.recorded) => Settled(i) /\ online.recorded[i] = Evidence(i)

\* The snapshot of a budget fraction is the model after exactly the credits
\* of that fraction, trained on one machine, however often the run was
\* interrupted; so is every intermediate score of the evaluation.
SnapshotsAreTheRun ==
  \A i \in Runs :
    LET Right(models) == \A f \in Parts : \A w \in models[f] :
          w.credits = Boundary(i, f) /\ Cardinality(w.hosts) = 1
    IN  /\ Right(root[i].snapshots) /\ Right(root[i].intermediate)
        /\ \A e \in root[i].evaluation : Right(e) /\ \A f \in Parts : e[f] # {}

\* An aggregate is of the published matrix: the report's input, every cached
\* bootstrap it was computed from and the published matrix hold the same
\* evidence, in the same order, and the gate was passed.
ReportIsOfTheMatrix ==
  \A m \in aggregate.manifest :
    /\ gate /\ final = {m} /\ aggregate.report = "complete"
    /\ \A i \in Runs : aggregate.cache[i] = {m[i]} /\ aggregate.array[i] = {m[i]}

AllEvidence ==
  [launch : 1 .. MaxCrashes + 1,
   models : [Parts -> SUBSET [credits : 0 .. Days, hosts : SUBSET Hosts]]]

SettledRuns ==
  LET Done == {k \in 0 .. Online : \A i \in 1 .. k : Settled(i)}
      RefDone == {k \in 0 .. Offline : \A j \in 1 .. k : RefSettled(j)}
  IN  [i \in 1 .. Max(Done) |-> Evidence(i)]
      \o [j \in 1 .. Max(RefDone) |-> RefEvidence(j)]

Matrix == INSTANCE RunMatrix
  WITH Size <- Online + Offline, Outcomes <- AllEvidence,
       settled <- SettledRuns, published <- final

\* The stage implements the matrix: runs settle in the frozen order, what a
\* run settled on never changes across restarts, and the published matrix is
\* what was settled.
ImplementsMatrix == Matrix!Spec

Finished == final # {} /\ aggregate.manifest # {}

\* what no relaunch gets past: a run opened but never checkpointed, a
\* temporary of a JSON write among its checkpoints or in a ledger, a
\* half-written report, a machine the lock or a checkpoint does not name
Blocked ==
  \/ \E i \in Runs : root[i].dirs # {} /\ root[i].saved = {} /\ root[i].manifest = {}
  \/ strays # {}
  \/ aggregate.report = "pages"
  \/ host \notin Locked
  \/ \E i \in Runs : root[i].retention = {} /\ \E s \in root[i].saved : ~SameIdentity(s)

\* Whatever the crashes, the stage comes to its end unless it meets one of
\* those five.
EventuallySettles == <>[](Finished \/ Blocked)

\* docs/experimental-protocol.md:72 promises that the restricted row-level
\* directories of a completed run are pruned; a crash between the receipt and
\* the pruning leaves them for good, since a later launch returns the receipt
\* without looking.
PrunedWhenComplete ==
  online.complete => \A i \in Runs : root[i].dirs = {}
=============================================================================
