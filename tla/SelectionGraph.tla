--------------------------- MODULE SelectionGraph ---------------------------
(***************************************************************************)
(* The chronological selection as the operator drives it: the feasibility  *)
(* measurement bound to a runtime (feasibility_context.py), `selection     *)
(* run` with its three stages (selection_coordinator.py, selection_dag.py, *)
(* protocol_lock.select_candidate), launched again until it publishes, the *)
(* protocol lock (protocol_lock.py) and the final stage's reading of it    *)
(* (production_final.FinalPlanInputs.locked_decisions).                    *)
(***************************************************************************)
EXTENDS SelectionRun, SequencesExt

CONSTANT Tolerance  \* losses this close are tied

ASSUME ToleranceConstant == Tolerance \in Nat

VARIABLES
  planned,     \* stage-plan.json of each stage
  stored,      \* stage-results.json of each stage
  results,     \* selection-results.json
  manifest,    \* manifest.json of the selection
  measured,    \* measured feasibility: budget and GPU
  bound,       \* feasibility bound to a runtime
  measures,    \* measurements after the first
  lock,        \* the protocol lock
  accepted     \* what the final stage plans its matrix from

graphVars == <<planned, stored, results, manifest>>
lockVars == <<measured, bound, measures, lock, accepted>>
vars == <<candidateVars, graphVars, lockVars>>

Down == pc \in {"off", "refused"}

\* select_candidate: of the completed candidates within the tolerance of the
\* smallest loss, the cheapest; candidates stand in the order of parameter
\* count and digest
Winner(rs) ==
  LET Complete == {c \in DOMAIN rs : rs[c].status = "complete"}
      Tied == {c \in Complete : \A o \in Complete : rs[c].loss <= rs[o].loss + Tolerance}
  IN  CHOOSE c \in Tied : \A o \in Tied :
        \/ rs[c].cost < rs[o].cost
        \/ rs[c].cost = rs[o].cost /\ c <= o

HasWinner(rs) == \E c \in DOMAIN rs : rs[c].status = "complete"

Decisions(matrix) == [s \in DOMAIN matrix |-> Winner(matrix[s])]

-----------------------------------------------------------------------------
(***************************************************************************)
(* `selection run`.                                                        *)
(***************************************************************************)
\* the operator passes the budget that the bound feasibility selected
Launch ==
  /\ Down
  /\ \E f \in bound : budget' = f.budget
  /\ pc' = "open" /\ stage' = 1 /\ at' = 1 /\ winners' = <<>> /\ step' = 0 /\ why' = ""
  /\ UNCHANGED <<fate, root, env, graphVars, lockVars>>

\* a published selection is verified and returned, whatever the budget
ReusePublished ==
  /\ pc = "open" /\ results # {}
  /\ manifest = {Decisions(m) : m \in results}
  /\ Go("off")
  /\ UNCHANGED <<fate, root, env, graphVars, lockVars>>

\* results without manifest are refused
RefusePair ==
  /\ pc = "open" /\ results # {} /\ manifest = {}
  /\ Refuse("pair")
  /\ UNCHANGED <<fate, root, env, graphVars, lockVars>>

Start ==
  /\ pc = "open" /\ results = {}
  /\ Go("plan")
  /\ UNCHANGED <<fate, root, env, graphVars, lockVars>>

StagePlan == [base |-> winners, budget |-> budget]

\* written once, compared at every later launch
FreezePlan ==
  /\ pc = "plan" /\ planned[stage] \subseteq {StagePlan}
  /\ planned' = [planned EXCEPT ![stage] = {StagePlan}]
  /\ Go("results")
  /\ UNCHANGED <<fate, root, env, stored, results, manifest, lockVars>>

RefusePlan ==
  /\ pc = "plan" /\ ~(planned[stage] \subseteq {StagePlan})
  /\ Refuse("plan")
  /\ UNCHANGED <<fate, root, env, graphVars, lockVars>>

\* a stage with results is not touched again
ReuseResults ==
  /\ pc = "results" /\ stored[stage] # {}
  /\ Go("choose")
  /\ UNCHANGED <<fate, root, env, graphVars, lockVars>>

PrepareStage ==
  /\ pc = "results" /\ stored[stage] = {}
  /\ pc' = "prepare" /\ at' = 1
  /\ UNCHANGED <<fate, root, stage, budget, winners, step, why, env, graphVars, lockVars>>

ResultOf(s, c) == CHOOSE r \in root[s][c].result : TRUE

\* faulty: only the candidates that completed are recorded
CandidatesCompleted ==
  SelectSeq([c \in 1 .. Width[stage] |-> ResultOf(stage, c)], LAMBDA r : r.status = "complete")

Candidates == [c \in 1 .. Width[stage] |-> ResultOf(stage, c)]

StoreResults ==
  /\ pc = "store"
  /\ stored' = [stored EXCEPT ![stage] = {Candidates}]
  /\ Go("choose")
  /\ UNCHANGED <<fate, root, env, planned, results, manifest, lockVars>>

StageResults(s) == CHOOSE rs \in stored[s] : TRUE

Choose ==
  /\ pc = "choose" /\ HasWinner(StageResults(stage))
  /\ winners' = Append(winners, Winner(StageResults(stage)))
  /\ at' = 1
  /\ IF stage = Len(Width) THEN pc' = "publish" /\ stage' = stage
                           ELSE pc' = "plan" /\ stage' = stage + 1
  /\ UNCHANGED <<fate, root, budget, step, why, env, graphVars, lockVars>>

\* a stage of which no candidate completed has no winner
RefuseStage ==
  /\ pc = "choose" /\ ~HasWinner(StageResults(stage))
  /\ Refuse("no winner")
  /\ UNCHANGED <<fate, root, env, graphVars, lockVars>>

PublishResults ==
  /\ pc = "publish"
  /\ results' = {[s \in Stages |-> StageResults(s)]}
  /\ Go("publish manifest")
  /\ UNCHANGED <<fate, root, env, planned, stored, manifest, lockVars>>

PublishManifest ==
  /\ pc = "publish manifest"
  /\ manifest' = {Decisions(m) : m \in results}
  /\ Go("off")
  /\ UNCHANGED <<fate, root, env, planned, stored, results, lockVars>>

GraphStep ==
  \/ CandidateStep /\ UNCHANGED <<graphVars, lockVars>>
  \/ ReusePublished \/ RefusePair \/ Start \/ FreezePlan \/ RefusePlan
  \/ ReuseResults \/ PrepareStage \/ StoreResults \/ Choose \/ RefuseStage
  \/ PublishResults \/ PublishManifest

\* where the process may be inside a JSON write: latest.json of a checkpoint
\* or the seal of a ledger; their identities are written before the first
\* checkpoint
Writing ==
  {p \in Layouts :
     \/ p = "checkpoints" /\ pc \in {"save", "save sealed"}
     \/ p = "predictions" /\ pc = "seal" /\ p \notin Here.sealed
     \/ p = "exposures" /\ pc = "seal exposures" /\ p \notin Here.sealed}

\* in a JSON write the temporary may stay, and then the file it was for is
\* not read again
Crash ==
  /\ ~Down
  /\ crashes < MaxCrashes
  /\ crashes' = crashes + 1
  /\ strays' \in {strays} \cup {strays \cup {<<stage, at, p>>} : p \in Writing}
  /\ pc' = "off" /\ stage' = 1 /\ at' = 1 /\ winners' = <<>> /\ step' = 0 /\ why' = ""
  /\ UNCHANGED <<fate, root, budget, host, moves, graphVars, lockVars>>

\* the operator goes on with another commit or another GPU
MoveHost ==
  /\ Down
  /\ moves < MaxMoves
  /\ moves' = moves + 1
  /\ \E h \in Hosts \ {host} : host' = h
  /\ UNCHANGED <<fate, root, pc, proc, strays, crashes, graphVars, lockVars>>

-----------------------------------------------------------------------------
(***************************************************************************)
(* The commands around it.                                                 *)
(***************************************************************************)
\* a measurement is of a GPU and selects the largest budget that fits
Measure ==
  /\ Down
  /\ measures < MaxMeasures
  /\ measures' = measures + 1
  /\ \E b \in Budgets : measured' = {[budget |-> b, gpu |-> host.gpu]}
  /\ UNCHANGED <<candidateVars, graphVars, bound, lock, accepted>>

Bind ==
  /\ Down
  /\ \E m \in measured : /\ m.gpu = host.gpu
                         /\ bound' = {[budget |-> m.budget, host |-> host]}
  /\ bound' # bound
  /\ UNCHANGED <<candidateVars, graphVars, measured, measures, lock, accepted>>

\* the results file alone is asked for; feasibility must be of this runtime;
\* without a provenance file the selection counts as one of this commit; a
\* lock that is there is not replaced
Lock ==
  /\ Down /\ lock = {}
  /\ \E m \in results : \E f \in bound :
       /\ f.host = host
       /\ lock' = {[code |-> host.code, mode |-> "same_commit",
                    decisions |-> Decisions(m), budget |-> f.budget]}
  /\ UNCHANGED <<candidateVars, graphVars, measured, bound, measures, accepted>>

\* the digest of the plan that the lock's decisions and budget lead to
Digest(l, s) ==
  [stage |-> s, candidate |-> l.decisions[s],
   base |-> SubSeq(l.decisions, 1, s - 1), budget |-> l.budget]

\* the digest the winner carries in the selection results
SelectedDigest(l, s) ==
  [stage |-> s, candidate |-> l.decisions[s],
   base |-> (CHOOSE p \in planned[s] : TRUE).base,
   budget |-> (CHOOSE p \in planned[s] : TRUE).budget]

\* faulty: the lock's decisions are taken as they are
SameDecisionsTrusting(l) == TRUE

SameDecisions(l) == \A s \in Stages : Digest(l, s) = SelectedDigest(l, s)

Accept ==
  /\ Down
  /\ \E l \in lock : /\ l.code = host.code
                     /\ SameDecisions(l)
                     /\ accepted' = {l}
  /\ accepted' # accepted
  /\ UNCHANGED <<candidateVars, graphVars, measured, bound, measures, lock>>

-----------------------------------------------------------------------------
\* a first passing measurement is bound before the selection starts: it
\* selected the largest budget
Init ==
  /\ CandidateInit
  /\ planned = [s \in Stages |-> {}] /\ stored = [s \in Stages |-> {}]
  /\ results = {} /\ manifest = {} /\ lock = {} /\ accepted = {} /\ measures = 0
  /\ measured = {[budget |-> budget, gpu |-> host.gpu]}
  /\ bound = {[budget |-> budget, host |-> host]}

Next ==
  \/ GraphStep \/ Launch \/ Crash \/ MoveHost
  \/ Measure \/ Bind \/ Lock \/ Accept

Spec == Init /\ [][Next]_vars

\* the process runs on unless it crashes; the operator launches it again
FairSpec == Spec /\ WF_vars(GraphStep) /\ SF_vars(Launch)

-----------------------------------------------------------------------------
TypeOK ==
  /\ pc \in STRING /\ stage \in Stages /\ at \in 1 .. Width[stage]
  /\ strays \subseteq Stages \X Nat \X Layouts
  /\ step \in 0 .. Credits + 1 /\ budget \in Budgets /\ Len(winners) <= Len(Width)
  /\ \A s \in Stages : Cardinality(planned[s]) <= 1 /\ Cardinality(stored[s]) <= 1
  /\ Cardinality(results) <= 1 /\ Cardinality(manifest) <= 1 /\ Cardinality(bound) <= 1
  /\ Cardinality(lock) <= 1 /\ accepted \subseteq [code : {h.code : h \in Hosts},
       mode : {"same_commit"}, decisions : Seq(Nat), budget : Budgets]

Begun == (UNION {{root[s][c] : c \in 1 .. Width[s]} : s \in Stages}) \ {EmptyRoot}

\* No held-out outcome is read before every candidate of the stage is
\* prepared, and none of a stage before every earlier stage is settled,
\* across restarts: a candidate cannot be trained knowing another's score.
ScoredAfterSealed ==
  \A s \in Stages : \A c \in 1 .. Width[s] :
    root[s][c].evaluated \/ root[s][c].result # {} =>
      /\ \A o \in 1 .. Width[s] : root[s][o].prepared # {}
      /\ \A t \in 1 .. s - 1 : stored[t] # {}

\* A candidate's training evidence goes only under its receipt, its
\* predictions only with its result, and once the stage is stored nothing of
\* a completed candidate is left, however often the launch died on the way.
RetainedUntilSettled ==
  /\ \A d \in Begun :
       /\ ~(TrainingDirs \subseteq d.dirs) => d.receipt /\ d.manifest # {}
       /\ "predictions" \notin d.dirs => d.result # {}
       /\ d.prepared = {"complete"} => TrainingDirs \cap d.dirs = {}
  /\ \A s \in Stages : stored[s] # {} =>
       \A c \in 1 .. Width[s] :
         root[s][c].prepared = {"complete"} => root[s][c].dirs = {}

\* what the protocol asks of a winner
IsBest(rs, w) ==
  LET Better(o) == rs[o].status = "complete" /\ rs[o].loss + Tolerance < rs[w].loss
      Minimal(o) == rs[o].status = "complete" /\ ~\E q \in DOMAIN rs :
                      rs[q].status = "complete" /\ rs[q].loss + Tolerance < rs[o].loss
  IN  /\ rs[w].status = "complete"
      /\ \A o \in DOMAIN rs : ~Better(o)
      /\ \A o \in DOMAIN rs : Minimal(o) => rs[w].cost <= rs[o].cost

\* Every later stage is planned on winners of the stored results of the
\* stages before it, and the final stage accepts a lock only when its
\* decisions are those winners, reached under one budget that feasibility
\* selected: whatever was measured, bound and locked in between.
LockIsOfSelection ==
  /\ \A s \in Stages : \A p \in planned[s] : \A k \in DOMAIN p.base :
       stored[k] # {} /\ IsBest(StageResults(k), p.base[k])
  /\ \A l \in accepted : \A s \in Stages :
       /\ stored[s] # {} /\ IsBest(StageResults(s), l.decisions[s])
       /\ planned[s] = {[base |-> SubSeq(l.decisions, 1, s - 1), budget |-> l.budget]}

\* candidates of the graph in the order they are settled
Order == FlattenSeq([s \in Stages |-> [c \in 1 .. Width[s] |-> <<s, c>>]])
Total == Len(Order)

Outcomes == [status : {"complete", "protocol_invalid"}, loss : Nat, cost : Nat]

SettledCandidates ==
  LET Result(i) == root[Order[i][1]][Order[i][2]].result
      Open == {i \in 1 .. Total : Result(i) = {}} \cup {Total + 1}
  IN  [i \in 1 .. Min(Open) - 1 |-> CHOOSE r \in Result(i) : TRUE]

Matrix == INSTANCE RunMatrix
  WITH Size <- Total, settled <- SettledCandidates,
       published <- {FlattenSeq(m) : m \in results}

\* The graph implements the matrix of runs: every candidate settles once, in
\* the frozen order, and the published selection holds every outcome that
\* settled, the failed ones included.
ImplementsMatrix == Matrix!Spec

Published == manifest # {}

\* what no relaunch gets past: a candidate opened but never checkpointed, a
\* temporary of a JSON write among its checkpoints or in a ledger, a
\* checkpoint of another runtime, a budget other than the frozen one, a
\* stage without winner, results without manifest
Blocked ==
  \/ \E d \in Begun : d.saved = {} /\ d.prepared = {} /\ d.manifest = {}
  \/ strays # {}
  \/ \E d \in Begun : ~d.receipt /\ d.prepared = {} /\ \E s \in d.saved : s.host # host
  \/ \E s \in Stages : \E p \in planned[s] : \E f \in bound : p.budget # f.budget
  \/ \E s \in Stages : \E rs \in stored[s] : ~HasWinner(rs)
  \/ results # {} /\ manifest = {}

\* Whatever the crashes, the selection is published unless it meets one of
\* those six.
EventuallySettles == <>[](Published \/ Blocked)

=============================================================================
