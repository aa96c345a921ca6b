------------------------- MODULE FinalStage_proofs -------------------------
(* No evidence goes before the receipt that accounts for it, snapshots are  *)
(* of the fraction and the machine they name, the report is of the          *)
(* published matrix, and the stage implements the matrix: for every         *)
(* schedule, every number of fractions, machines, offline runs, crashes and *)
(* moves.                                                                   *)
EXTENDS FinalStage, FiniteSetTheorems, WellFoundedInduction, TLAPS

(* The places of a launch.                                                  *)
Sealing == {"seal primary", "seal exposures", "save sealed", "intermediate"}
Replaying == {"replay", "snapshot", "save"} \cup Sealing
Evaluating == {"evaluate", "publish array", "compact", "score", "retain"}
Closing == {"prune", "record"}
Executing == {"execute"} \cup Replaying \cup Evaluating \cup Closing
Referring == {"reference", "seal reference", "record reference"}
Referred == {"offline matrix", "close offline", "combine"}
Recorded == {"matrix", "close online", "offline"} \cup Referring \cup Referred
Reporting == {"input", "report", "report manifest"}
Aggregating == {"bootstrap", "cache"} \cup Reporting

(* One model per fraction, of one machine and exactly the fraction's credits. *)
Right(i, models) ==
  /\ models = [f \in Parts |-> models[f]]
  /\ \A f \in Parts : \A w \in models[f] :
       \E h \in Hosts : w = [credits |-> Boundary(i, f), hosts |-> {h}]

IsRoot(d) ==
  d = [dirs |-> d.dirs, saved |-> d.saved, exposures |-> d.exposures,
       snapshots |-> d.snapshots, sealed |-> d.sealed,
       intermediate |-> d.intermediate, manifest |-> d.manifest,
       temp |-> d.temp, array |-> d.array, compact |-> d.compact,
       evaluation |-> d.evaluation, retention |-> d.retention]

(* Before the manifest: the run is not begun, or has all its directories.   *)
Open(d) ==
  /\ d.retention = {} /\ d.evaluation = {}
  /\ d.dirs = AllDirs \/ (d.dirs = {} /\ d.saved = {})
  /\ \A f \in Parts : d.intermediate[f] # {} => d.intermediate[f] = d.snapshots[f]

(* From the manifest on: everything is there until the receipt is.          *)
Closed(i, d, m) ==
  /\ d.manifest = {m} /\ m.launch \in 1 .. MaxCrashes + 1
  /\ Right(i, m.models) /\ \A f \in Parts : m.models[f] # {}
  /\ d.evaluation \subseteq {m.models}
  /\ d.retention \subseteq {[manifest |-> m, evaluation |-> m.models]}
  /\ d.retention # {} => d.evaluation = {m.models} /\ d.compact /\ d.array
  /\ d.retention = {} =>
       /\ d.dirs = AllDirs /\ d.sealed = {"primary", "exposures"}
       /\ d.snapshots = m.models /\ d.intermediate = m.models
       /\ d.saved # {} /\ d.exposures = Credits(i)

TrueRoot(i, d) ==
  /\ IsRoot(d)
  /\ Right(i, d.snapshots) /\ Right(i, d.intermediate)
  /\ d.sealed \subseteq {"primary", "exposures"}
  /\ \A s \in d.saved : s.host \in Hosts /\ s.weights = [credits |-> s.weights.credits, hosts |-> {s.host}]
  /\ d.compact => d.array
  /\ d.manifest = {} => Open(d)
  /\ d.manifest # {} => \E m \in d.manifest : Closed(i, d, m)

RootsCorrect ==
  /\ root = [i \in Runs |-> root[i]]
  /\ \A i \in Runs : TrueRoot(i, root[i])
  /\ host \in Hosts /\ crashes \in 0 .. MaxCrashes

(* What a place in the launch knows of the run it is at.                    *)
AtRun ==
  /\ pc \in Executing => at \in Runs
  /\ pc \in Replaying =>
       /\ root[at].manifest = {} /\ root[at].dirs = AllDirs
       /\ weights = [credits |-> weights.credits, hosts |-> {host}]
  /\ pc = "snapshot" => /\ due # {} /\ due \subseteq Parts
                        /\ \A f \in due : Boundary(at, f) = weights.credits
  /\ pc \in Sealing => root[at].saved # {}
  /\ pc \in Sealing \ {"seal primary"} => "primary" \in root[at].sealed
  /\ pc \in {"save sealed", "intermediate"} =>
       "exposures" \in root[at].sealed /\ root[at].exposures = Credits(at)
  /\ pc \in Evaluating => root[at].manifest # {} /\ root[at].retention = {}
  /\ pc = "compact" => root[at].array
  /\ pc \in Closing => root[at].retention # {}

Last == Len(online.recorded)

(* Runs settle in order; at most one of them is settled and not recorded.   *)
InOrder ==
  /\ online = [planned |-> online.planned, recorded |-> online.recorded,
               complete |-> online.complete, matrix |-> online.matrix]
  /\ Last \in 0 .. Online
  /\ online.recorded = [i \in 1 .. Last |-> Evidence(i)]
  /\ \A i \in 1 .. Last : Settled(i)
  /\ \A i \in Runs : Settled(i) => i <= Last + 1
  /\ pc = "online" => at = 1
  /\ pc \in Executing => at <= Last + 1
  /\ pc \in Recorded => Last = Online
  /\ online.matrix # {} => online.matrix = {online.recorded} /\ Last = Online

RefReport == [j \in References |-> RefEvidence(j)]
AllReferred == \A j \in References : RefSettled(j)

(* Offline runs settle in order, and only after all online runs.            *)
ReferredInOrder ==
  /\ ref = [j \in References |->
              [array |-> ref[j].array, manifest |-> ref[j].manifest,
               evaluation |-> ref[j].evaluation]]
  /\ \A j \in References : /\ ref[j].manifest \subseteq 1 .. MaxCrashes + 1
                           /\ ref[j].evaluation \subseteq 1 .. MaxCrashes + 1
  /\ list = [planned |-> list.planned, recorded |-> list.recorded,
             complete |-> list.complete, matrix |-> list.matrix]
  /\ \A j \in References : RefSettled(j) =>
       Last = Online /\ \A k \in 1 .. j - 1 : RefSettled(k)
  /\ pc \in Referring => next \in References /\ \A k \in 1 .. next - 1 : RefSettled(k)
  /\ pc = "record reference" => RefSettled(next)
  /\ pc \in Referred => AllReferred
  /\ pc = "offline matrix" \/ Offline = 0 => list.recorded = RefReport
  /\ list.matrix # {} => list.matrix = {RefReport} /\ AllReferred

Published == Last = Online /\ AllReferred /\ final = {Report}

(* What is aggregated is of a published matrix.                             *)
AggregateTrue(a) ==
  /\ a = [array |-> a.array, cache |-> a.cache, input |-> a.input,
          report |-> a.report, manifest |-> a.manifest]
  /\ a.array = [i \in Runs |-> a.array[i]] /\ a.cache = [i \in Runs |-> a.cache[i]]
  /\ \A i \in Runs : a.array[i] # {} =>
       gate /\ final # {} /\ a.array[i] = {Evidence(i)}
  /\ \A i \in Runs : a.cache[i] # {} => a.array[i] # {} /\ a.cache[i] = a.array[i]
  /\ a.input # {} => /\ gate /\ final # {} /\ a.input = {Report}
                     /\ \A i \in Runs : a.cache[i] # {}
  /\ a.manifest # {} =>
       a.input # {} /\ a.manifest = {Report} /\ a.report = "complete"

AggregateInOrder == (final # {} => Published) /\ AggregateTrue(aggregate)

AtAggregate ==
  /\ pc = "aggregate" => at = 1
  /\ pc \in Aggregating => gate /\ final # {}
  /\ pc \in {"bootstrap", "cache"} =>
       at \in Nat /\ \A k \in Runs : k < at => aggregate.cache[k] # {}
  /\ pc = "cache" => at \in Runs /\ aggregate.array[at] # {}
  /\ pc \in Reporting => \A k \in Runs : aggregate.cache[k] # {}
  /\ pc \in Reporting \ {"input"} => aggregate.input # {}

RunsCorrect == RootsCorrect /\ AtRun
MatrixCorrect == InOrder /\ ReferredInOrder
AggregateCorrect == AggregateInOrder /\ AtAggregate
IInv == RunsCorrect /\ MatrixCorrect /\ AggregateCorrect
-----------------------------------------------------------------------------
LEMMA LeastNatural ==
  ASSUME NEW S \in SUBSET Nat, S # {}
  PROVE  \E x \in S : \A y \in S : x <= y
  <1> DEFINE R == {ss \in Nat \X Nat : ss[1] < ss[2]}
  <1>1. IsWellFoundedOn(R, Nat)
    BY NatLessThanWellFounded DEF OpToRel
  <1>2. S \subseteq Nat /\ S # {}
    OBVIOUS
  <1> HIDE DEF R
  <1>3. PICK x \in S : \A y \in S : ~(<<y, x>> \in R)
    BY <1>1, <1>2, WFMin
  <1>4. \A y \in S : ~(y < x)
    BY <1>3 DEF R
  <1> QED
    BY <1>4

LEMMA MinIn ==
  ASSUME NEW S \in SUBSET Nat, S # {}
  PROVE  Min(S) \in S
  BY LeastNatural DEF Min

LEMMA Constants ==
  /\ Online \in Nat /\ Runs = 1 .. Online
  /\ Parts \subseteq Nat /\ Parts # {}
  <1>1. Schedule \in Seq(SUBSET (1 .. Days)) /\ Fractions \in Nat \ {0}
    BY FinalConstants
  <1>2. Len(Schedule) \in Nat /\ DOMAIN Schedule = 1 .. Len(Schedule)
    BY <1>1
  <1>3. 1 .. Fractions \subseteq Nat /\ 1 \in 1 .. Fractions
    BY <1>1
  <1> QED
    BY <1>2, <1>3 DEF Online, Runs, Parts

LEMMA Initially == Init => IInv
  <1> SUFFICES ASSUME Init PROVE IInv
    OBVIOUS
  <1>1. /\ root = [i \in Runs |-> EmptyRoot] /\ pc = "off" /\ at = 1
        /\ host \in Locked /\ crashes = 0
        /\ ref = [j \in References |-> [array |-> FALSE, manifest |-> {}, evaluation |-> {}]]
        /\ list = [planned |-> FALSE, recorded |-> <<>>, complete |-> FALSE, matrix |-> {}]
        /\ online = [planned |-> FALSE, recorded |-> <<>>, complete |-> FALSE, matrix |-> {}]
        /\ final = {}
        /\ aggregate = [array |-> [i \in Runs |-> {}], cache |-> [i \in Runs |-> {}],
                        input |-> {}, report |-> "none", manifest |-> {}]
    BY DEF Init, RunInit, RefInit, FinalInit
  <1>2. \A i \in Runs : root[i] = EmptyRoot
    BY <1>1
  <1>3. \A i \in Runs : TrueRoot(i, EmptyRoot)
    <2>1. \A i \in Runs : Right(i, NoModels)
      BY DEF Right, NoModels
    <2>2. /\ IsRoot(EmptyRoot) /\ EmptyRoot.snapshots = NoModels
          /\ EmptyRoot.intermediate = NoModels /\ EmptyRoot.sealed = {}
          /\ EmptyRoot.saved = {} /\ ~EmptyRoot.compact /\ EmptyRoot.manifest = {}
          /\ EmptyRoot.retention = {} /\ EmptyRoot.evaluation = {} /\ EmptyRoot.dirs = {}
      BY DEF IsRoot, EmptyRoot
    <2>3. Open(EmptyRoot)
      BY <2>2 DEF Open, NoModels
    <2> QED
      BY <2>1, <2>2, <2>3 DEF TrueRoot
  <1>4. RootsCorrect
    BY <1>1, <1>2, <1>3, FinalConstants DEF RootsCorrect
  <1>5. AtRun
    BY <1>1 DEF AtRun, Executing, Replaying, Sealing, Evaluating, Closing
  <1>6. InOrder
    <2>1. online.recorded = <<>> /\ online.matrix = {} /\ Last = 0
      BY <1>1 DEF Last
    <2>2. <<>> = [i \in 1 .. 0 |-> Evidence(i)]
      OBVIOUS
    <2>3. \A i \in Runs : ~Settled(i)
      BY <1>2 DEF Settled, EmptyRoot
    <2> QED
      BY <1>1, <2>1, <2>2, <2>3, Constants
      DEF InOrder, Executing, Replaying, Sealing, Evaluating, Closing, Recorded, Referring, Referred
  <1>7. ReferredInOrder
    <2>1. \A j \in References : ref[j].manifest = {} /\ ref[j].evaluation = {} /\ ~RefSettled(j)
      BY <1>1 DEF RefSettled
    <2>2. Offline = 0 => list.recorded = RefReport
      BY <1>1 DEF RefReport, References
    <2>3. list.matrix = {} /\ list = [planned |-> list.planned, recorded |-> list.recorded,
             complete |-> list.complete, matrix |-> list.matrix]
      BY <1>1
    <2>4. ref = [j \in References |->
              [array |-> ref[j].array, manifest |-> ref[j].manifest,
               evaluation |-> ref[j].evaluation]]
      BY <1>1
    <2> QED
      BY <1>1, <2>1, <2>2, <2>3, <2>4 DEF ReferredInOrder, Referring, Referred
  <1>8. AggregateInOrder
    BY <1>1 DEF AggregateInOrder, AggregateTrue
  <1>9. AtAggregate
    BY <1>1 DEF AtAggregate, Aggregating, Reporting
  <1> QED
    BY <1>4, <1>5, <1>6, <1>7, <1>8, <1>9 DEF IInv, RunsCorrect, MatrixCorrect, AggregateCorrect

-----------------------------------------------------------------------------
(* What every step of a run does: it settles no run but its own, and what   *)
(* is settled stays as it is.                                               *)
RunMoves(i) ==
  /\ pc \in Executing /\ i = at /\ at' = at
  /\ pc' \in Executing \cup {"refused"}
  /\ \A j \in Runs : j # i \/ root[j].retention # {} =>
       root'[j].retention = root[j].retention

LEMMA Wrote ==
  ASSUME RootsCorrect, NEW i \in Runs, NEW d, root' = [root EXCEPT ![i] = d],
         TrueRoot(i, d), root[i].retention # {} => d.retention = root[i].retention,
         host' = host, crashes' = crashes
  PROVE  /\ RootsCorrect' /\ root'[i] = d
         /\ \A j \in Runs : j # i \/ root[j].retention # {} =>
              root'[j].retention = root[j].retention
  <1>1. /\ root' = [j \in Runs |-> root'[j]] /\ root'[i] = d
        /\ \A j \in Runs : j # i => root'[j] = root[j]
    BY DEF RootsCorrect
  <1>2. \A j \in Runs : TrueRoot(j, root'[j])
    BY <1>1 DEF RootsCorrect
  <1>3. host \in Hosts /\ crashes \in 0 .. MaxCrashes
    BY DEF RootsCorrect
  <1>4. RootsCorrect'
    BY <1>1, <1>2, <1>3 DEF RootsCorrect, TrueRoot, IsRoot, Right, Open, Closed, Credits, Boundary, AllDirs, Runs, Parts
  <1> QED
    BY <1>1, <1>4

(* Steps that write nothing.                                                *)
LEMMA ReuseRetentionKeeps ==
  ASSUME RunsCorrect, NEW i \in Runs, ReuseRetention(i)
  PROVE  RunsCorrect' /\ RunMoves(i)
  <1>1. RootsCorrect'
    BY DEF RunsCorrect, RootsCorrect, ReuseRetention, env
  <1>2. AtRun' /\ RunMoves(i)
    BY DEF ReuseRetention, Go, env, proc, AtRun, RunMoves, Executing, Replaying, Sealing, Evaluating, Closing
  <1> QED
    BY <1>1, <1>2 DEF RunsCorrect

LEMMA ReevaluateKeeps ==
  ASSUME RunsCorrect, NEW i \in Runs, Reevaluate(i)
  PROVE  RunsCorrect' /\ RunMoves(i)
  <1>1. RootsCorrect'
    BY DEF RunsCorrect, RootsCorrect, Reevaluate, env
  <1>2. AtRun' /\ RunMoves(i)
    BY DEF Reevaluate, Go, env, proc, AtRun, RunMoves, Executing, Replaying, Sealing, Evaluating, Closing
  <1> QED
    BY <1>1, <1>2 DEF RunsCorrect

LEMMA OpenFreshKeeps ==
  ASSUME RunsCorrect, NEW i \in Runs, OpenFresh(i)
  PROVE  RunsCorrect' /\ RunMoves(i)
  <1> DEFINE c == root[i]
             d == [c EXCEPT !.dirs = AllDirs]
  <1>1. /\ pc = "execute" /\ at = i /\ at' = i /\ pc' = "replay"
        /\ c.retention = {} /\ c.manifest = {}
        /\ root' = [root EXCEPT ![i] = d]
        /\ weights' = [credits |-> 0, hosts |-> {host}]
        /\ host' = host /\ crashes' = crashes
    BY DEF OpenFresh, Opens, Untrained, env
  <1>2. TrueRoot(i, c)
    BY DEF RunsCorrect, RootsCorrect
  <1>3. /\ IsRoot(d) /\ d.dirs = AllDirs
        /\ d.saved = c.saved /\ d.snapshots = c.snapshots /\ d.sealed = c.sealed
        /\ d.intermediate = c.intermediate /\ d.manifest = c.manifest
        /\ d.array = c.array /\ d.compact = c.compact
        /\ d.evaluation = c.evaluation /\ d.retention = c.retention
    BY <1>2 DEF TrueRoot, IsRoot
  <1> HIDE DEF c, d
  <1>4. TrueRoot(i, d)
    BY <1>1, <1>2, <1>3 DEF TrueRoot, Open
  <1>5. RootsCorrect' /\ root'[i] = d /\ \A j \in Runs : j # i \/ root[j].retention # {} =>
              root'[j].retention = root[j].retention
    BY <1>1, <1>3, <1>4, Wrote DEF RunsCorrect, c
  <1>6. AtRun' /\ RunMoves(i)
    BY <1>1, <1>3, <1>5 DEF AtRun, RunMoves, Executing, Replaying, Sealing, Evaluating, Closing
  <1> QED
    BY <1>5, <1>6 DEF RunsCorrect

LEMMA RefusesKeeps ==
  ASSUME RunsCorrect, NEW i \in Runs,
         RefuseRoot(i) \/ RefuseHost(i) \/ RefuseStray(i) \/ RefuseReceipt(i)
  PROVE  RunsCorrect' /\ RunMoves(i)
  <1>1. /\ pc \in {"execute", "intermediate", "retain"} /\ at = i /\ pc' = "refused" /\ at' = at
        /\ root' = root /\ host' = host /\ crashes' = crashes
    BY DEF RefuseRoot, RefuseHost, RefuseStray, RefuseReceipt, Opens, Refuse, env
  <1>2. RootsCorrect'
    BY <1>1 DEF RunsCorrect, RootsCorrect
  <1>3. AtRun' /\ RunMoves(i)
    BY <1>1 DEF AtRun, RunMoves, Executing, Replaying, Sealing, Evaluating, Closing
  <1> QED
    BY <1>2, <1>3 DEF RunsCorrect

LEMMA ResumeKeeps ==
  ASSUME RunsCorrect, NEW i \in Runs, Resume(i)
  PROVE  RunsCorrect' /\ RunMoves(i)
  <1>1. /\ pc = "execute" /\ at = i /\ at' = i /\ pc' \in {"replay", "seal primary"}
        /\ root[i].retention = {} /\ root[i].manifest = {}
        /\ root' = root /\ host' = host /\ crashes' = crashes
    BY DEF Resume, Opens, env
  <1>2. PICK s \in root[i].saved : s.host = host /\ weights' = s.weights
    BY DEF Resume, SameIdentity
  <1>3. TrueRoot(i, root[i])
    BY DEF RunsCorrect, RootsCorrect
  <1>4. /\ root[i].dirs = AllDirs
        /\ weights' = [credits |-> weights'.credits, hosts |-> {host}]
    BY <1>1, <1>2, <1>3 DEF TrueRoot, Open
  <1>5. RootsCorrect'
    BY <1>1 DEF RunsCorrect, RootsCorrect
  <1>6. AtRun' /\ RunMoves(i)
    BY <1>1, <1>2, <1>4 DEF AtRun, RunMoves, Executing, Replaying, Sealing, Evaluating, Closing
  <1> QED
    BY <1>5, <1>6 DEF RunsCorrect

LEMMA SaveKeeps ==
  ASSUME RunsCorrect, NEW i \in Runs, Save(i)
  PROVE  RunsCorrect' /\ RunMoves(i)
  <1> DEFINE c == root[i]
             d == [c EXCEPT !.saved = {Checkpoint(day)}]
  <1>1. /\ pc = "save" /\ pc' \in {"replay", "seal primary"} /\ weights' = weights
        /\ at = i /\ at' = i /\ root' = [root EXCEPT ![i] = d]
        /\ host' = host /\ crashes' = crashes
    BY DEF Save, env
  <1>2. TrueRoot(i, c)
    BY DEF RunsCorrect, RootsCorrect
  <1>3. /\ IsRoot(d)
        /\ d.saved = {Checkpoint(day)}
        /\ d.dirs = c.dirs /\ d.exposures = c.exposures /\ d.snapshots = c.snapshots
        /\ d.sealed = c.sealed /\ d.intermediate = c.intermediate /\ d.manifest = c.manifest
        /\ d.temp = c.temp /\ d.array = c.array /\ d.compact = c.compact
        /\ d.evaluation = c.evaluation /\ d.retention = c.retention
    BY <1>2 DEF TrueRoot, IsRoot
  <1>4. /\ c.manifest = {} /\ c.dirs = AllDirs /\ Open(c)
        /\ weights = [credits |-> weights.credits, hosts |-> {host}]
        /\ host \in Hosts
    BY <1>1, <1>2 DEF TrueRoot, RunsCorrect, RootsCorrect, AtRun, Replaying, Sealing
  <1>5. /\ pc \in Executing /\ pc' \in Executing /\ pc' \notin Evaluating \cup Closing
        /\ Credits(i)' = Credits(i)
    BY <1>1 DEF Executing, Replaying, Sealing, Evaluating, Closing, Credits
  <1> HIDE DEF c, d
  <1>6. TrueRoot(i, d)
    <2>1. \A s \in d.saved : s.host \in Hosts /\ s.weights = [credits |-> s.weights.credits, hosts |-> {s.host}]
      BY <1>3, <1>4 DEF Checkpoint
    <2> QED
      BY <1>2, <1>3, <1>4, <2>1 DEF TrueRoot, Open
  <1>7. RootsCorrect' /\ root'[i] = d /\ \A j \in Runs : j # i \/ root[j].retention # {} =>
              root'[j].retention = root[j].retention
    BY <1>1, <1>3, <1>6, Wrote DEF RunsCorrect, c
  <1>8. AtRun'
    BY <1>1, <1>3, <1>4, <1>5, <1>7 DEF AtRun, Evaluating, Closing, Replaying, Sealing
  <1> QED
    BY <1>1, <1>5, <1>7, <1>8 DEF RunsCorrect, RunMoves

LEMMA SealPrimaryKeeps ==
  ASSUME RunsCorrect, NEW i \in Runs, SealPrimary(i)
  PROVE  RunsCorrect' /\ RunMoves(i)
  <1> DEFINE c == root[i]
             d == [c EXCEPT !.sealed = @ \cup {"primary"}]
  <1>1. /\ pc = "seal primary" /\ pc' = "seal exposures" /\ weights' = weights
        /\ at = i /\ at' = i /\ root' = [root EXCEPT ![i] = d]
        /\ host' = host /\ crashes' = crashes
    BY DEF SealPrimary, Go, env, proc
  <1>2. TrueRoot(i, c)
    BY DEF RunsCorrect, RootsCorrect
  <1>3. /\ IsRoot(d)
        /\ d.sealed = c.sealed \cup {"primary"}
        /\ d.dirs = c.dirs /\ d.saved = c.saved /\ d.exposures = c.exposures
        /\ d.snapshots = c.snapshots /\ d.intermediate = c.intermediate /\ d.manifest = c.manifest
        /\ d.temp = c.temp /\ d.array = c.array /\ d.compact = c.compact
        /\ d.evaluation = c.evaluation /\ d.retention = c.retention
    BY <1>2 DEF TrueRoot, IsRoot
  <1>4. /\ c.manifest = {} /\ c.dirs = AllDirs /\ Open(c)
        /\ weights = [credits |-> weights.credits, hosts |-> {host}]
        /\ c.saved # {}
    BY <1>1, <1>2 DEF TrueRoot, RunsCorrect, RootsCorrect, AtRun, Replaying, Sealing
  <1>5. /\ pc \in Executing /\ pc' \in Executing /\ pc' \notin Evaluating \cup Closing
        /\ Credits(i)' = Credits(i)
    BY <1>1 DEF Executing, Replaying, Sealing, Evaluating, Closing, Credits
  <1> HIDE DEF c, d
  <1>6. TrueRoot(i, d)
    BY <1>2, <1>3, <1>4 DEF TrueRoot, Open
  <1>7. RootsCorrect' /\ root'[i] = d /\ \A j \in Runs : j # i \/ root[j].retention # {} =>
              root'[j].retention = root[j].retention
    BY <1>1, <1>3, <1>6, Wrote DEF RunsCorrect, c
  <1>8. AtRun'
    BY <1>1, <1>3, <1>4, <1>5, <1>7 DEF AtRun, Evaluating, Closing, Replaying, Sealing
  <1> QED
    BY <1>1, <1>5, <1>7, <1>8 DEF RunsCorrect, RunMoves

LEMMA SealExposuresKeeps ==
  ASSUME RunsCorrect, NEW i \in Runs, SealExposures(i)
  PROVE  RunsCorrect' /\ RunMoves(i)
  <1> DEFINE c == root[i]
             d == [c EXCEPT !.sealed = @ \cup {"exposures"}]
  <1>1. /\ pc = "seal exposures" /\ pc' \in {"intermediate", "save sealed"} /\ weights' = weights
        /\ c.exposures = Credits(i)
        /\ at = i /\ at' = i /\ root' = [root EXCEPT ![i] = d]
        /\ host' = host /\ crashes' = crashes
    BY DEF SealExposures, Go, env, proc
  <1>2. TrueRoot(i, c)
    BY DEF RunsCorrect, RootsCorrect
  <1>3. /\ IsRoot(d)
        /\ d.sealed = c.sealed \cup {"exposures"}
        /\ d.dirs = c.dirs /\ d.saved = c.saved /\ d.exposures = c.exposures
        /\ d.snapshots = c.snapshots /\ d.intermediate = c.intermediate /\ d.manifest = c.manifest
        /\ d.temp = c.temp /\ d.array = c.array /\ d.compact = c.compact
        /\ d.evaluation = c.evaluation /\ d.retention = c.retention
    BY <1>2 DEF TrueRoot, IsRoot
  <1>4. /\ c.manifest = {} /\ c.dirs = AllDirs /\ Open(c)
        /\ weights = [credits |-> weights.credits, hosts |-> {host}]
        /\ c.saved # {} /\ "primary" \in c.sealed
    BY <1>1, <1>2 DEF TrueRoot, RunsCorrect, RootsCorrect, AtRun, Replaying, Sealing
  <1>5. /\ pc \in Executing /\ pc' \in Executing /\ pc' \notin Evaluating \cup Closing
        /\ Credits(i)' = Credits(i)
    BY <1>1 DEF Executing, Replaying, Sealing, Evaluating, Closing, Credits
  <1> HIDE DEF c, d
  <1>6. TrueRoot(i, d)
    BY <1>2, <1>3, <1>4 DEF TrueRoot, Open
  <1>7. RootsCorrect' /\ root'[i] = d /\ \A j \in Runs : j # i \/ root[j].retention # {} =>
              root'[j].retention = root[j].retention
    BY <1>1, <1>3, <1>6, Wrote DEF RunsCorrect, c
  <1>8. AtRun'
    BY <1>1, <1>3, <1>4, <1>5, <1>7 DEF AtRun, Evaluating, Closing, Replaying, Sealing
  <1> QED
    BY <1>1, <1>5, <1>7, <1>8 DEF RunsCorrect, RunMoves

LEMMA SaveSealedKeeps ==
  ASSUME RunsCorrect, NEW i \in Runs, SaveSealed(i)
  PROVE  RunsCorrect' /\ RunMoves(i)
  <1> DEFINE c == root[i]
             d == [c EXCEPT !.saved = {Checkpoint(Days + 1)}]
  <1>1. /\ pc = "save sealed" /\ pc' = "intermediate" /\ weights' = weights
        /\ at = i /\ at' = i /\ root' = [root EXCEPT ![i] = d]
        /\ host' = host /\ crashes' = crashes
    BY DEF SaveSealed, env
  <1>2. TrueRoot(i, c)
    BY DEF RunsCorrect, RootsCorrect
  <1>3. /\ IsRoot(d)
        /\ d.saved = {Checkpoint(Days + 1)}
        /\ d.dirs = c.dirs /\ d.exposures = c.exposures /\ d.snapshots = c.snapshots
        /\ d.sealed = c.sealed /\ d.intermediate = c.intermediate /\ d.manifest = c.manifest
        /\ d.temp = c.temp /\ d.array = c.array /\ d.compact = c.compact
        /\ d.evaluation = c.evaluation /\ d.retention = c.retention
    BY <1>2 DEF TrueRoot, IsRoot
  <1>4. /\ c.manifest = {} /\ c.dirs = AllDirs /\ Open(c)
        /\ weights = [credits |-> weights.credits, hosts |-> {host}]
        /\ host \in Hosts /\ {"primary", "exposures"} \subseteq c.sealed /\ c.exposures = Credits(i)
    BY <1>1, <1>2 DEF TrueRoot, RunsCorrect, RootsCorrect, AtRun, Replaying, Sealing
  <1>5. /\ pc \in Executing /\ pc' \in Executing /\ pc' \notin Evaluating \cup Closing
        /\ Credits(i)' = Credits(i)
    BY <1>1 DEF Executing, Replaying, Sealing, Evaluating, Closing, Credits
  <1> HIDE DEF c, d
  <1>6. TrueRoot(i, d)
    <2>1. \A s \in d.saved : s.host \in Hosts /\ s.weights = [credits |-> s.weights.credits, hosts |-> {s.host}]
      BY <1>3, <1>4 DEF Checkpoint
    <2> QED
      BY <1>2, <1>3, <1>4, <2>1 DEF TrueRoot, Open
  <1>7. RootsCorrect' /\ root'[i] = d /\ \A j \in Runs : j # i \/ root[j].retention # {} =>
              root'[j].retention = root[j].retention
    BY <1>1, <1>3, <1>6, Wrote DEF RunsCorrect, c
  <1>8. AtRun'
    BY <1>1, <1>3, <1>4, <1>5, <1>7 DEF AtRun, Evaluating, Closing, Replaying, Sealing
  <1> QED
    BY <1>1, <1>5, <1>7, <1>8 DEF RunsCorrect, RunMoves

LEMMA DecideKeeps ==
  ASSUME RunsCorrect, NEW i \in Runs, Decide(i)
  PROVE  RunsCorrect' /\ RunMoves(i)
  <1> DEFINE c == root[i]
             d == [c EXCEPT !.exposures = IF day \in Schedule[i] /\ @ < weights.credits + 1 THEN weights.credits + 1 ELSE @]
  <1>1. /\ pc = "replay" /\ pc' \in {"save", "snapshot"}
        /\ pc' = "snapshot" => due' # {} /\ due' \subseteq Parts /\ \A f \in due' : Boundary(i, f) = weights'.credits
        /\ weights = [credits |-> weights.credits, hosts |-> {host}] => weights' = [credits |-> weights'.credits, hosts |-> {host}]
        /\ at = i /\ at' = i /\ root' = [root EXCEPT ![i] = d]
        /\ host' = host /\ crashes' = crashes
    BY DEF Decide, env, RunsCorrect, RootsCorrect, TrueRoot, IsRoot
  <1>2. TrueRoot(i, c)
    BY DEF RunsCorrect, RootsCorrect
  <1>3. /\ IsRoot(d)
        /\ d.dirs = c.dirs /\ d.saved = c.saved /\ d.snapshots = c.snapshots
        /\ d.sealed = c.sealed /\ d.intermediate = c.intermediate /\ d.manifest = c.manifest
        /\ d.temp = c.temp /\ d.array = c.array /\ d.compact = c.compact
        /\ d.evaluation = c.evaluation /\ d.retention = c.retention
    BY <1>2 DEF TrueRoot, IsRoot
  <1>4. /\ c.manifest = {} /\ c.dirs = AllDirs /\ Open(c)
        /\ weights = [credits |-> weights.credits, hosts |-> {host}]
    BY <1>1, <1>2 DEF TrueRoot, RunsCorrect, RootsCorrect, AtRun, Replaying, Sealing
  <1>5. /\ pc \in Executing /\ pc' \in Executing /\ pc' \notin Evaluating \cup Closing
        /\ Credits(i)' = Credits(i)
    BY <1>1 DEF Executing, Replaying, Sealing, Evaluating, Closing, Credits
  <1> HIDE DEF c, d
  <1>6. TrueRoot(i, d)
    BY <1>2, <1>3, <1>4 DEF TrueRoot, Open
  <1>7. RootsCorrect' /\ root'[i] = d /\ \A j \in Runs : j # i \/ root[j].retention # {} =>
              root'[j].retention = root[j].retention
    BY <1>1, <1>3, <1>6, Wrote DEF RunsCorrect, c
  <1>8. AtRun'
    BY <1>1, <1>3, <1>4, <1>5, <1>7 DEF AtRun, Evaluating, Closing, Replaying, Sealing
  <1> QED
    BY <1>1, <1>5, <1>7, <1>8 DEF RunsCorrect, RunMoves

LEMMA WriteSnapshotKeeps ==
  ASSUME RunsCorrect, NEW i \in Runs, WriteSnapshot(i)
  PROVE  RunsCorrect' /\ RunMoves(i)
  <1> DEFINE c == root[i]
             f == Min(due)
             d == [c EXCEPT !.snapshots = [@ EXCEPT ![f] = {weights}]]
  <1>1. /\ pc = "snapshot" /\ pc' \in {"save", "snapshot"} /\ weights' = weights
        /\ c.snapshots[f] \subseteq {weights}
        /\ due' = due \ {f} /\ (pc' = "snapshot" => due' # {})
        /\ at = i /\ at' = i /\ root' = [root EXCEPT ![i] = d]
        /\ host' = host /\ crashes' = crashes
    BY DEF WriteSnapshot, env
  <1>2. TrueRoot(i, c)
    BY DEF RunsCorrect, RootsCorrect
  <1>3. /\ IsRoot(d)
        /\ d.snapshots = [c.snapshots EXCEPT ![f] = {weights}]
        /\ d.dirs = c.dirs /\ d.saved = c.saved /\ d.exposures = c.exposures
        /\ d.sealed = c.sealed /\ d.intermediate = c.intermediate /\ d.manifest = c.manifest
        /\ d.temp = c.temp /\ d.array = c.array /\ d.compact = c.compact
        /\ d.evaluation = c.evaluation /\ d.retention = c.retention
    BY <1>2 DEF TrueRoot, IsRoot
  <1>a. f \in due
    <2>1. due # {} /\ due \subseteq Nat
      BY <1>1, Constants DEF RunsCorrect, AtRun
    <2> QED
      BY <2>1, MinIn
  <1>4. /\ c.manifest = {} /\ c.dirs = AllDirs /\ Open(c)
        /\ weights = [credits |-> weights.credits, hosts |-> {host}]
        /\ due # {} /\ due \subseteq Parts /\ f \in due
        /\ \A g \in due : Boundary(i, g) = weights.credits
        /\ host \in Hosts
    BY <1>1, <1>2, <1>a DEF TrueRoot, RunsCorrect, RootsCorrect, AtRun, Replaying, Sealing
  <1>5. /\ pc \in Executing /\ pc' \in Executing /\ pc' \notin Evaluating \cup Closing
        /\ Credits(i)' = Credits(i)
    BY <1>1 DEF Executing, Replaying, Sealing, Evaluating, Closing, Credits
  <1> HIDE DEF c, d, f
  <1>6. TrueRoot(i, d)
    <2> DEFINE was == c.snapshots
               now == d.snapshots
    <2>1. was = [g \in Parts |-> was[g]] /\ Right(i, was) /\ now = [was EXCEPT ![f] = {weights}]
      BY <1>2, <1>3 DEF TrueRoot, Right
    <2>2. weights = [credits |-> Boundary(i, f), hosts |-> {host}] /\ host \in Hosts /\ f \in Parts
      BY <1>4
    <2> HIDE DEF was, now
    <2>a. /\ now = [g \in Parts |-> now[g]]
          /\ \A g \in Parts : now[g] = IF g = f THEN {weights} ELSE was[g]
      BY <2>1, <2>2
    <2>b. Right(i, now)
      BY <2>1, <2>2, <2>a DEF Right
    <2>c. was[f] = {} \/ was[f] = {weights}
      BY <1>1 DEF was
    <2>d. /\ \A g \in Parts : c.intermediate[g] # {} => c.intermediate[g] = was[g]
          /\ d.intermediate = c.intermediate
      BY <1>3, <1>4 DEF Open, was
    <2>3. \A g \in Parts : d.intermediate[g] # {} => d.intermediate[g] = now[g]
      BY <2>a, <2>c, <2>d
    <2> QED
      BY <1>2, <1>3, <1>4, <2>b, <2>3 DEF TrueRoot, Open, now
  <1>7. RootsCorrect' /\ root'[i] = d /\ \A j \in Runs : j # i \/ root[j].retention # {} =>
              root'[j].retention = root[j].retention
    BY <1>1, <1>3, <1>6, Wrote DEF RunsCorrect, c
  <1>8. AtRun'
    BY <1>1, <1>3, <1>4, <1>5, <1>7 DEF AtRun, Evaluating, Closing, Replaying, Sealing
  <1> QED
    BY <1>1, <1>5, <1>7, <1>8 DEF RunsCorrect, RunMoves

LEMMA SealIntermediateKeeps ==
  ASSUME RunsCorrect, NEW i \in Runs, SealIntermediate(i)
  PROVE  RunsCorrect' /\ RunMoves(i)
  <1> DEFINE c == root[i]
             f == Min(Unsealed(i))
             d == [c EXCEPT !.intermediate = [@ EXCEPT ![f] = c.snapshots[f]]]
  <1>1. /\ pc = "intermediate" /\ pc' = pc /\ weights' = weights
        /\ Unsealed(i) # {}
        /\ at = i /\ at' = i /\ root' = [root EXCEPT ![i] = d]
        /\ host' = host /\ crashes' = crashes
    BY DEF SealIntermediate, env, proc
  <1>2. TrueRoot(i, c)
    BY DEF RunsCorrect, RootsCorrect
  <1>3. /\ IsRoot(d)
        /\ d.intermediate = [c.intermediate EXCEPT ![f] = c.snapshots[f]]
        /\ d.dirs = c.dirs /\ d.saved = c.saved /\ d.exposures = c.exposures
        /\ d.snapshots = c.snapshots /\ d.sealed = c.sealed /\ d.manifest = c.manifest
        /\ d.temp = c.temp /\ d.array = c.array /\ d.compact = c.compact
        /\ d.evaluation = c.evaluation /\ d.retention = c.retention
    BY <1>2 DEF TrueRoot, IsRoot
  <1>a. f \in Unsealed(i) /\ Unsealed(i) \subseteq Parts
    <2>1. Unsealed(i) \subseteq Parts
      BY DEF Unsealed
    <2> QED
      BY <1>1, <2>1, Constants, MinIn
  <1>4. /\ c.manifest = {} /\ c.dirs = AllDirs /\ Open(c)
        /\ weights = [credits |-> weights.credits, hosts |-> {host}]
        /\ f \in Parts
        /\ c.saved # {} /\ {"primary", "exposures"} \subseteq c.sealed /\ c.exposures = Credits(i)
    BY <1>1, <1>2, <1>a DEF TrueRoot, RunsCorrect, RootsCorrect, AtRun, Replaying, Sealing
  <1>5. /\ pc \in Executing /\ pc' \in Executing /\ pc' \notin Evaluating \cup Closing
        /\ Credits(i)' = Credits(i)
    BY <1>1 DEF Executing, Replaying, Sealing, Evaluating, Closing, Credits
  <1> HIDE DEF c, d, f
  <1>6. TrueRoot(i, d)
    <2>1. \A g \in Parts : d.intermediate[g] = IF g = f THEN c.snapshots[g] ELSE c.intermediate[g]
      BY <1>2, <1>3, <1>4 DEF TrueRoot, Right
    <2>2. Right(i, d.intermediate)
      BY <1>2, <1>3, <1>4, <2>1 DEF TrueRoot, Right
    <2> QED
      BY <1>2, <1>3, <1>4, <2>1, <2>2 DEF TrueRoot, Open
  <1>7. RootsCorrect' /\ root'[i] = d /\ \A j \in Runs : j # i \/ root[j].retention # {} =>
              root'[j].retention = root[j].retention
    BY <1>1, <1>3, <1>6, Wrote DEF RunsCorrect, c
  <1>8. AtRun'
    BY <1>1, <1>3, <1>4, <1>5, <1>7 DEF AtRun, Evaluating, Closing, Replaying, Sealing
  <1> QED
    BY <1>1, <1>5, <1>7, <1>8 DEF RunsCorrect, RunMoves

LEMMA WriteManifestKeeps ==
  ASSUME RunsCorrect, NEW i \in Runs, WriteManifest(i)
  PROVE  RunsCorrect' /\ RunMoves(i)
  <1> DEFINE c == root[i]
             m == [launch |-> Launched, models |-> c.intermediate]
             d == [c EXCEPT !.manifest = {m}]
  <1>1. /\ pc = "intermediate" /\ pc' = "evaluate"
        /\ \A f \in Parts : c.intermediate[f] # {}
        /\ at = i /\ at' = i /\ root' = [root EXCEPT ![i] = d]
        /\ host' = host /\ crashes' = crashes
    BY DEF WriteManifest, Go, env, proc, Unsealed
  <1>2. TrueRoot(i, c)
    BY DEF RunsCorrect, RootsCorrect
  <1>3. /\ IsRoot(d) /\ d.manifest = {m}
        /\ d.dirs = c.dirs /\ d.saved = c.saved /\ d.exposures = c.exposures
        /\ d.snapshots = c.snapshots /\ d.sealed = c.sealed /\ d.intermediate = c.intermediate
        /\ d.temp = c.temp /\ d.array = c.array /\ d.compact = c.compact
        /\ d.evaluation = c.evaluation /\ d.retention = c.retention
    BY <1>2 DEF TrueRoot, IsRoot
  <1>4. /\ c.manifest = {} /\ c.dirs = AllDirs /\ Open(c) /\ c.saved # {}
        /\ {"primary", "exposures"} \subseteq c.sealed /\ c.exposures = Credits(i)
    BY <1>1, <1>2 DEF TrueRoot, RunsCorrect, AtRun, Replaying, Sealing
  <1>5. /\ pc \in Executing /\ pc' \in Evaluating /\ pc' \in Executing
        /\ pc' \notin Replaying \cup Closing
    BY <1>1 DEF Executing, Replaying, Sealing, Evaluating, Closing
  <1>6. m.launch \in 1 .. MaxCrashes + 1 /\ m.models = c.intermediate
    <2>1. crashes \in 0 .. MaxCrashes /\ MaxCrashes \in Nat
      BY FinalConstants DEF RunsCorrect, RootsCorrect
    <2> QED
      BY <2>1 DEF Launched
  <1> HIDE DEF c, d, m
  <1>7. TrueRoot(i, d)
    <2>1. c.snapshots = c.intermediate
      <3>1. \A f \in Parts : c.intermediate[f] = c.snapshots[f]
        BY <1>1, <1>4 DEF Open, c
      <3>2. /\ c.snapshots = [f \in Parts |-> c.snapshots[f]]
            /\ c.intermediate = [f \in Parts |-> c.intermediate[f]]
        BY <1>2 DEF TrueRoot, Right
      <3> HIDE DEF c
      <3> QED
        BY <3>1, <3>2
    <2>2. \A f \in Parts : c.intermediate[f] # {}
      BY <1>1 DEF c
    <2>3. Right(i, c.intermediate) /\ c.sealed = {"primary", "exposures"}
      BY <1>2, <1>4 DEF TrueRoot
    <2>4. c.evaluation = {} /\ c.retention = {}
      BY <1>4 DEF Open
    <2>5. Closed(i, d, m)
      BY <1>3, <1>4, <1>6, <2>1, <2>2, <2>3, <2>4 DEF Closed
    <2> QED
      BY <1>2, <1>3, <2>5 DEF TrueRoot
  <1>8. RootsCorrect' /\ root'[i] = d /\ \A j \in Runs : j # i \/ root[j].retention # {} =>
              root'[j].retention = root[j].retention
    BY <1>1, <1>3, <1>7, Wrote DEF RunsCorrect, c
  <1>9. AtRun'
    BY <1>1, <1>3, <1>4, <1>5, <1>8 DEF AtRun, Open, Replaying, Closing
  <1> QED
    BY <1>1, <1>5, <1>8, <1>9 DEF RunsCorrect, RunMoves

LEMMA ReuseCompactKeeps ==
  ASSUME RunsCorrect, NEW i \in Runs, ReuseCompact(i)
  PROVE  RunsCorrect' /\ RunMoves(i)
  <1>1. /\ pc = "evaluate" /\ pc' = "score" /\ at = i /\ at' = at
        /\ root' = root /\ host' = host /\ crashes' = crashes
    BY DEF ReuseCompact, Evaluates, Go, env, proc
  <1>2. RootsCorrect'
    BY <1>1 DEF RunsCorrect, RootsCorrect
  <1>3. AtRun' /\ RunMoves(i)
    BY <1>1 DEF RunsCorrect, AtRun, RunMoves, Executing, Replaying, Sealing, Evaluating, Closing
  <1> QED
    BY <1>2, <1>3 DEF RunsCorrect

LEMMA StageArrayKeeps ==
  ASSUME RunsCorrect, NEW i \in Runs, StageArray(i)
  PROVE  RunsCorrect' /\ RunMoves(i)
  <1> DEFINE c == root[i]
             yes == TRUE
             d == [c EXCEPT !.temp = yes]
  <1>1. /\ pc = "evaluate" /\ pc' = "publish array"
        /\ at = i /\ at' = i /\ root' = [root EXCEPT ![i] = d]
        /\ host' = host /\ crashes' = crashes
    BY DEF StageArray, Evaluates, Go, env, proc
  <1>2. TrueRoot(i, c)
    BY DEF RunsCorrect, RootsCorrect
  <1>3. yes
    OBVIOUS
  <1> HIDE DEF yes
  <1>4. /\ IsRoot(d) /\ d.temp = yes
        /\ d.dirs = c.dirs /\ d.saved = c.saved /\ d.exposures = c.exposures
        /\ d.snapshots = c.snapshots /\ d.sealed = c.sealed /\ d.intermediate = c.intermediate
        /\ d.manifest = c.manifest /\ d.array = c.array /\ d.compact = c.compact
        /\ d.evaluation = c.evaluation /\ d.retention = c.retention
    BY <1>2 DEF TrueRoot, IsRoot
  <1>5. c.manifest # {} /\ c.retention = {}
    BY <1>1 DEF RunsCorrect, AtRun, Evaluating
  <1>6. /\ pc \in Executing /\ pc' \in Executing \cup {"refused"}
        /\ pc' \notin Replaying \cup Closing
    BY <1>1 DEF Executing, Replaying, Sealing, Evaluating, Closing
  <1> HIDE DEF c, d
  <1>7. TrueRoot(i, d)
    <2>1. PICK m \in c.manifest : Closed(i, c, m)
      BY <1>2, <1>5 DEF TrueRoot
    <2>2. Closed(i, d, m)
      BY <1>3, <1>4, <1>5, <2>1 DEF Closed
    <2> QED
      BY <1>1, <1>2, <1>3, <1>4, <1>5, <2>1, <2>2 DEF TrueRoot, c
  <1>8. RootsCorrect' /\ root'[i] = d /\ \A j \in Runs : j # i \/ root[j].retention # {} =>
              root'[j].retention = root[j].retention
    BY <1>1, <1>4, <1>7, Wrote DEF RunsCorrect, c
  <1>9. AtRun'
    BY <1>1, <1>3, <1>4, <1>5, <1>6, <1>8 DEF AtRun, Replaying, Sealing, Closing
  <1> QED
    BY <1>1, <1>6, <1>8, <1>9 DEF RunsCorrect, RunMoves

LEMMA TripOverTempKeeps ==
  ASSUME RunsCorrect, NEW i \in Runs, TripOverTemp(i)
  PROVE  RunsCorrect' /\ RunMoves(i)
  <1> DEFINE c == root[i]
             no == FALSE
             d == [c EXCEPT !.temp = no]
  <1>1. /\ pc = "evaluate" /\ pc' = "refused"
        /\ at = i /\ at' = i /\ root' = [root EXCEPT ![i] = d]
        /\ host' = host /\ crashes' = crashes
    BY DEF TripOverTemp, Evaluates, Refuse, env, proc
  <1>2. TrueRoot(i, c)
    BY DEF RunsCorrect, RootsCorrect
  <1>3. ~no
    OBVIOUS
  <1> HIDE DEF no
  <1>4. /\ IsRoot(d) /\ d.temp = no
        /\ d.dirs = c.dirs /\ d.saved = c.saved /\ d.exposures = c.exposures
        /\ d.snapshots = c.snapshots /\ d.sealed = c.sealed /\ d.intermediate = c.intermediate
        /\ d.manifest = c.manifest /\ d.array = c.array /\ d.compact = c.compact
        /\ d.evaluation = c.evaluation /\ d.retention = c.retention
    BY <1>2 DEF TrueRoot, IsRoot
  <1>5. c.manifest # {} /\ c.retention = {}
    BY <1>1 DEF RunsCorrect, AtRun, Evaluating
  <1>6. /\ pc \in Executing /\ pc' \in Executing \cup {"refused"}
        /\ pc' \notin Replaying \cup Closing
    BY <1>1 DEF Executing, Replaying, Sealing, Evaluating, Closing
  <1> HIDE DEF c, d
  <1>7. TrueRoot(i, d)
    <2>1. PICK m \in c.manifest : Closed(i, c, m)
      BY <1>2, <1>5 DEF TrueRoot
    <2>2. Closed(i, d, m)
      BY <1>3, <1>4, <1>5, <2>1 DEF Closed
    <2> QED
      BY <1>1, <1>2, <1>3, <1>4, <1>5, <2>1, <2>2 DEF TrueRoot, c
  <1>8. RootsCorrect' /\ root'[i] = d /\ \A j \in Runs : j # i \/ root[j].retention # {} =>
              root'[j].retention = root[j].retention
    BY <1>1, <1>4, <1>7, Wrote DEF RunsCorrect, c
  <1>9. AtRun'
    BY <1>1, <1>3, <1>4, <1>5, <1>6, <1>8 DEF AtRun, Replaying, Sealing, Closing
  <1> QED
    BY <1>1, <1>6, <1>8, <1>9 DEF RunsCorrect, RunMoves

LEMMA PublishArrayKeeps ==
  ASSUME RunsCorrect, NEW i \in Runs, PublishArray(i)
  PROVE  RunsCorrect' /\ RunMoves(i)
  <1> DEFINE c == root[i]
             yes == TRUE
             no == FALSE
             e == [c EXCEPT !.temp = no]
             d == [e EXCEPT !.array = yes]
  <1>1. /\ pc = "publish array" /\ pc' = "compact"
        /\ at = i /\ at' = i /\ root' = [root EXCEPT ![i] = d]
        /\ host' = host /\ crashes' = crashes
    BY DEF PublishArray, Go, env, proc
  <1>2. TrueRoot(i, c)
    BY DEF RunsCorrect, RootsCorrect
  <1>3. yes /\ ~no
    OBVIOUS
  <1> HIDE DEF yes, no
  <1>4. /\ IsRoot(d) /\ d.temp = no /\ d.array = yes
        /\ d.dirs = c.dirs /\ d.saved = c.saved /\ d.exposures = c.exposures
        /\ d.snapshots = c.snapshots /\ d.sealed = c.sealed /\ d.intermediate = c.intermediate
        /\ d.manifest = c.manifest /\ d.compact = c.compact /\ d.evaluation = c.evaluation
        /\ d.retention = c.retention
    <2>1. /\ IsRoot(e) /\ e.temp = no
          /\ e.dirs = c.dirs /\ e.saved = c.saved /\ e.exposures = c.exposures
          /\ e.snapshots = c.snapshots /\ e.sealed = c.sealed /\ e.intermediate = c.intermediate
          /\ e.manifest = c.manifest /\ e.array = c.array /\ e.compact = c.compact
          /\ e.evaluation = c.evaluation /\ e.retention = c.retention
      BY <1>2 DEF TrueRoot, IsRoot
    <2> HIDE DEF e
    <2> QED
      BY <2>1 DEF IsRoot
  <1>5. c.manifest # {} /\ c.retention = {}
    BY <1>1 DEF RunsCorrect, AtRun, Evaluating
  <1>6. /\ pc \in Executing /\ pc' \in Executing \cup {"refused"}
        /\ pc' \notin Replaying \cup Closing
    BY <1>1 DEF Executing, Replaying, Sealing, Evaluating, Closing
  <1> HIDE DEF c, d
  <1>7. TrueRoot(i, d)
    <2>1. PICK m \in c.manifest : Closed(i, c, m)
      BY <1>2, <1>5 DEF TrueRoot
    <2>2. Closed(i, d, m)
      BY <1>3, <1>4, <1>5, <2>1 DEF Closed
    <2> QED
      BY <1>1, <1>2, <1>3, <1>4, <1>5, <2>1, <2>2 DEF TrueRoot, c
  <1>8. RootsCorrect' /\ root'[i] = d /\ \A j \in Runs : j # i \/ root[j].retention # {} =>
              root'[j].retention = root[j].retention
    BY <1>1, <1>4, <1>7, Wrote DEF RunsCorrect, c
  <1>9. AtRun'
    BY <1>1, <1>3, <1>4, <1>5, <1>6, <1>8 DEF AtRun, Replaying, Sealing, Closing
  <1> QED
    BY <1>1, <1>6, <1>8, <1>9 DEF RunsCorrect, RunMoves

LEMMA WriteCompactKeeps ==
  ASSUME RunsCorrect, NEW i \in Runs, WriteCompact(i)
  PROVE  RunsCorrect' /\ RunMoves(i)
  <1> DEFINE c == root[i]
             yes == TRUE
             d == [c EXCEPT !.compact = yes]
  <1>1. /\ pc = "compact" /\ pc' = "score"
        /\ at = i /\ at' = i /\ root' = [root EXCEPT ![i] = d]
        /\ host' = host /\ crashes' = crashes
    BY DEF WriteCompact, Go, env, proc
  <1>2. TrueRoot(i, c)
    BY DEF RunsCorrect, RootsCorrect
  <1>3. yes
    OBVIOUS
  <1> HIDE DEF yes
  <1>4. /\ IsRoot(d) /\ d.compact = yes
        /\ d.dirs = c.dirs /\ d.saved = c.saved /\ d.exposures = c.exposures
        /\ d.snapshots = c.snapshots /\ d.sealed = c.sealed /\ d.intermediate = c.intermediate
        /\ d.manifest = c.manifest /\ d.temp = c.temp /\ d.array = c.array
        /\ d.evaluation = c.evaluation /\ d.retention = c.retention
    BY <1>2 DEF TrueRoot, IsRoot
  <1>5. c.manifest # {} /\ c.retention = {} /\ c.array
    BY <1>1 DEF RunsCorrect, AtRun, Evaluating
  <1>6. /\ pc \in Executing /\ pc' \in Executing \cup {"refused"}
        /\ pc' \notin Replaying \cup Closing
    BY <1>1 DEF Executing, Replaying, Sealing, Evaluating, Closing
  <1> HIDE DEF c, d
  <1>7. TrueRoot(i, d)
    <2>1. PICK m \in c.manifest : Closed(i, c, m)
      BY <1>2, <1>5 DEF TrueRoot
    <2>2. Closed(i, d, m)
      BY <1>3, <1>4, <1>5, <2>1 DEF Closed
    <2> QED
      BY <1>1, <1>2, <1>3, <1>4, <1>5, <2>1, <2>2 DEF TrueRoot, c
  <1>8. RootsCorrect' /\ root'[i] = d /\ \A j \in Runs : j # i \/ root[j].retention # {} =>
              root'[j].retention = root[j].retention
    BY <1>1, <1>4, <1>7, Wrote DEF RunsCorrect, c
  <1>9. AtRun'
    BY <1>1, <1>3, <1>4, <1>5, <1>6, <1>8 DEF AtRun, Replaying, Sealing, Closing
  <1> QED
    BY <1>1, <1>6, <1>8, <1>9 DEF RunsCorrect, RunMoves

LEMMA WriteEvaluationKeeps ==
  ASSUME RunsCorrect, NEW i \in Runs, WriteEvaluation(i)
  PROVE  RunsCorrect' /\ RunMoves(i)
  <1> DEFINE c == root[i]
             d == [c EXCEPT !.evaluation = {c.intermediate}]
  <1>1. /\ pc = "score" /\ pc' = "retain"
        /\ at = i /\ at' = i /\ root' = [root EXCEPT ![i] = d]
        /\ host' = host /\ crashes' = crashes
    BY DEF WriteEvaluation, Evaluates, Go, env, proc
  <1>2. TrueRoot(i, c)
    BY DEF RunsCorrect, RootsCorrect
  <1>4. /\ IsRoot(d) /\ d.evaluation = {c.intermediate}
        /\ d.dirs = c.dirs /\ d.saved = c.saved /\ d.exposures = c.exposures
        /\ d.snapshots = c.snapshots /\ d.sealed = c.sealed /\ d.intermediate = c.intermediate
        /\ d.manifest = c.manifest /\ d.temp = c.temp /\ d.array = c.array
        /\ d.compact = c.compact /\ d.retention = c.retention
    BY <1>2 DEF TrueRoot, IsRoot
  <1>5. c.manifest # {} /\ c.retention = {}
    BY <1>1 DEF RunsCorrect, AtRun, Evaluating
  <1>6. /\ pc \in Executing /\ pc' \in Executing \cup {"refused"}
        /\ pc' \notin Replaying \cup Closing
    BY <1>1 DEF Executing, Replaying, Sealing, Evaluating, Closing
  <1> HIDE DEF c, d
  <1>7. TrueRoot(i, d)
    <2>1. PICK m \in c.manifest : Closed(i, c, m)
      BY <1>2, <1>5 DEF TrueRoot
    <2>2. Closed(i, d, m)
      BY <1>4, <1>5, <2>1 DEF Closed
    <2> QED
      BY <1>1, <1>2, <1>4, <1>5, <2>1, <2>2 DEF TrueRoot, c
  <1>8. RootsCorrect' /\ root'[i] = d /\ \A j \in Runs : j # i \/ root[j].retention # {} =>
              root'[j].retention = root[j].retention
    BY <1>1, <1>4, <1>7, Wrote DEF RunsCorrect, c
  <1>9. AtRun'
    BY <1>1, <1>4, <1>5, <1>6, <1>8 DEF AtRun, Replaying, Sealing, Closing
  <1> QED
    BY <1>1, <1>6, <1>8, <1>9 DEF RunsCorrect, RunMoves

LEMMA WriteReceiptKeeps ==
  ASSUME RunsCorrect, NEW i \in Runs, WriteReceipt(i)
  PROVE  RunsCorrect' /\ RunMoves(i)
  <1> DEFINE c == root[i]
             receipts == {[manifest |-> m, evaluation |-> e] : m \in c.manifest, e \in c.evaluation}
             d == [c EXCEPT !.retention = receipts]
  <1>1. /\ pc = "retain" /\ pc' = "prune" /\ c.compact /\ c.array
        /\ \A m \in c.manifest : c.evaluation = {m.models}
        /\ at = i /\ at' = i /\ root' = [root EXCEPT ![i] = d]
        /\ host' = host /\ crashes' = crashes
    BY DEF WriteReceipt, ChainAligns, Go, env, proc
  <1>2. TrueRoot(i, c)
    BY DEF RunsCorrect, RootsCorrect
  <1>3. c.manifest # {} /\ c.retention = {}
    BY <1>1 DEF RunsCorrect, AtRun, Evaluating
  <1>4. PICK m \in c.manifest : Closed(i, c, m)
    BY <1>2, <1>3 DEF TrueRoot
  <1>5. c.manifest = {m} /\ c.evaluation = {m.models}
    BY <1>1, <1>4 DEF Closed
  <1>6. receipts = {[manifest |-> m, evaluation |-> m.models]}
    BY <1>5
  <1> HIDE DEF receipts
  <1>7. /\ IsRoot(d) /\ d.retention = receipts
        /\ d.dirs = c.dirs /\ d.saved = c.saved /\ d.exposures = c.exposures
        /\ d.snapshots = c.snapshots /\ d.sealed = c.sealed /\ d.intermediate = c.intermediate
        /\ d.manifest = c.manifest /\ d.temp = c.temp /\ d.array = c.array
        /\ d.compact = c.compact /\ d.evaluation = c.evaluation
    BY <1>2 DEF TrueRoot, IsRoot
  <1>8. /\ pc \in Executing /\ pc' \in Closing /\ pc' \in Executing
        /\ pc' \notin Replaying \cup Evaluating
    BY <1>1 DEF Executing, Replaying, Sealing, Evaluating, Closing
  <1> HIDE DEF c, d
  <1>9. TrueRoot(i, d)
    <2>1. c.compact /\ c.array
      BY <1>1 DEF c
    <2>2. d.retention # {}
      BY <1>6, <1>7
    <2>3. Closed(i, d, m)
      BY <1>4, <1>5, <1>6, <1>7, <2>1, <2>2 DEF Closed
    <2> QED
      BY <1>2, <1>4, <1>7, <2>1, <2>3 DEF TrueRoot
  <1>10. RootsCorrect' /\ root'[i] = d /\ \A j \in Runs : j # i \/ root[j].retention # {} =>
              root'[j].retention = root[j].retention
    BY <1>1, <1>3, <1>9, Wrote DEF RunsCorrect, c
  <1>11. AtRun'
    <2>1. d.retention # {}
      BY <1>6, <1>7
    <2> QED
      BY <1>1, <1>8, <1>10, <2>1 DEF AtRun, Replaying, Sealing
  <1> QED
    BY <1>1, <1>8, <1>10, <1>11 DEF RunsCorrect, RunMoves

(* Removing a directory touches no link of the chain.                       *)
LEMMA WithoutKeeps ==
  ASSUME NEW i \in Runs, NEW c, TrueRoot(i, c), c.retention # {}, NEW dir \in AllDirs
  PROVE  TrueRoot(i, Without(c, dir)) /\ Without(c, dir).retention = c.retention
  <1> DEFINE left == [c EXCEPT !.dirs = @ \ {dir}]
             d == Without(c, dir)
             none == {}
  <1>1. /\ IsRoot(left)
        /\ left.saved = c.saved /\ left.exposures = c.exposures
        /\ left.snapshots = c.snapshots /\ left.sealed = c.sealed /\ left.intermediate = c.intermediate
        /\ left.manifest = c.manifest /\ left.temp = c.temp /\ left.array = c.array
        /\ left.compact = c.compact /\ left.evaluation = c.evaluation /\ left.retention = c.retention
    BY DEF TrueRoot, IsRoot
  <1>2. /\ dir = "checkpoints" => d = [left EXCEPT !.saved = none]
        /\ dir = "exposures" => d = [left EXCEPT !.exposures = 0, !.sealed = @ \ {"exposures"}]
        /\ dir = "predictions" => d = [left EXCEPT !.sealed = @ \ {"primary"}, !.intermediate = NoModels]
        /\ dir = "snapshots" => d = [left EXCEPT !.snapshots = NoModels]
    BY DEF Without
  <1>3. dir \in {"checkpoints", "exposures", "predictions", "snapshots"}
    <2>1. AllDirs = {Prunable[k] : k \in 1 .. 4}
      BY DEF AllDirs, Prunable
    <2> QED
      BY <2>1 DEF Prunable
  <1>4. none = {}
    OBVIOUS
  <1> HIDE DEF left, d, none
  <1>5. /\ IsRoot(d) /\ d.manifest = c.manifest /\ d.array = c.array /\ d.compact = c.compact
        /\ d.evaluation = c.evaluation /\ d.retention = c.retention
        /\ d.saved \subseteq c.saved /\ d.sealed \subseteq c.sealed
        /\ d.snapshots \in {c.snapshots, NoModels} /\ d.intermediate \in {c.intermediate, NoModels}
    <2>1. CASE dir = "checkpoints"
      <3>1. /\ IsRoot(d) /\ d.saved = none /\ d.manifest = left.manifest /\ d.array = left.array
            /\ d.compact = left.compact /\ d.evaluation = left.evaluation
            /\ d.retention = left.retention /\ d.sealed = left.sealed
            /\ d.snapshots = left.snapshots /\ d.intermediate = left.intermediate
        BY <1>1, <1>2, <2>1 DEF IsRoot
      <3> QED
        BY <1>1, <1>4, <3>1
    <2>2. CASE dir = "exposures"
      <3> DEFINE e == [left EXCEPT !.exposures = 0]
                 rest == left.sealed \ {"exposures"}
      <3>1. /\ IsRoot(e) /\ e.saved = left.saved /\ e.manifest = left.manifest /\ e.array = left.array
            /\ e.compact = left.compact /\ e.evaluation = left.evaluation
            /\ e.retention = left.retention /\ e.sealed = left.sealed
            /\ e.snapshots = left.snapshots /\ e.intermediate = left.intermediate
        BY <1>1 DEF IsRoot
      <3>2. d = [e EXCEPT !.sealed = rest] /\ rest \subseteq left.sealed
        BY <1>1, <1>2, <2>2 DEF IsRoot
      <3> HIDE DEF e, rest
      <3>3. /\ IsRoot(d) /\ d.saved = e.saved /\ d.manifest = e.manifest /\ d.array = e.array
            /\ d.compact = e.compact /\ d.evaluation = e.evaluation
            /\ d.retention = e.retention /\ d.sealed = rest
            /\ d.snapshots = e.snapshots /\ d.intermediate = e.intermediate
        BY <3>1, <3>2 DEF IsRoot
      <3> QED
        BY <1>1, <3>1, <3>2, <3>3
    <2>3. CASE dir = "predictions"
      <3> DEFINE rest == left.sealed \ {"primary"}
                 e == [left EXCEPT !.sealed = rest]
      <3>1. rest \subseteq left.sealed
        OBVIOUS
      <3>2. d = [e EXCEPT !.intermediate = NoModels]
        BY <1>1, <1>2, <2>3 DEF IsRoot
      <3> HIDE DEF rest
      <3>3. /\ IsRoot(e) /\ e.saved = left.saved /\ e.manifest = left.manifest /\ e.array = left.array
            /\ e.compact = left.compact /\ e.evaluation = left.evaluation
            /\ e.retention = left.retention /\ e.sealed = rest
            /\ e.snapshots = left.snapshots /\ e.intermediate = left.intermediate
        BY <1>1 DEF IsRoot
      <3> HIDE DEF e
      <3>4. /\ IsRoot(d) /\ d.saved = e.saved /\ d.manifest = e.manifest /\ d.array = e.array
            /\ d.compact = e.compact /\ d.evaluation = e.evaluation
            /\ d.retention = e.retention /\ d.sealed = e.sealed
            /\ d.snapshots = e.snapshots /\ d.intermediate = NoModels
        BY <3>2, <3>3 DEF IsRoot
      <3> QED
        BY <1>1, <3>1, <3>3, <3>4
    <2>4. CASE dir = "snapshots"
      <3>1. /\ IsRoot(d) /\ d.saved = left.saved /\ d.manifest = left.manifest /\ d.array = left.array
            /\ d.compact = left.compact /\ d.evaluation = left.evaluation
            /\ d.retention = left.retention /\ d.sealed = left.sealed
            /\ d.snapshots = NoModels /\ d.intermediate = left.intermediate
        BY <1>1, <1>2, <2>4 DEF IsRoot
      <3> QED
        BY <1>1, <3>1
    <2> QED
      BY <1>3, <2>1, <2>2, <2>3, <2>4
  <1>6. Right(i, NoModels)
    BY DEF Right, NoModels
  <1>7. PICK m \in c.manifest : Closed(i, c, m)
    BY DEF TrueRoot, Open
  <1>8. Closed(i, d, m)
    BY <1>5, <1>7 DEF Closed
  <1>9. TrueRoot(i, d)
    BY <1>5, <1>6, <1>7, <1>8 DEF TrueRoot
  <1> QED
    BY <1>5, <1>9 DEF d

LEMMA PruneKeeps ==
  ASSUME RunsCorrect, NEW i \in Runs, Prune(i)
  PROVE  RunsCorrect' /\ RunMoves(i)
  <1> DEFINE c == root[i]
             dir == Prunable[Min(Left(i))]
             d == Without(c, dir)
  <1>1. /\ pc = "prune" /\ pc' = "prune" /\ Left(i) # {}
        /\ at = i /\ at' = i /\ root' = [root EXCEPT ![i] = d]
        /\ host' = host /\ crashes' = crashes
    BY DEF Prune, env, proc
  <1>2. TrueRoot(i, c) /\ c.retention # {}
    BY <1>1 DEF RunsCorrect, RootsCorrect, AtRun, Closing
  <1>3. dir \in AllDirs
    <2>1. Left(i) \subseteq DOMAIN Prunable /\ DOMAIN Prunable \subseteq Nat
      BY DEF Left, Prunable
    <2>2. Min(Left(i)) \in DOMAIN Prunable
      BY <1>1, <2>1, MinIn
    <2> QED
      BY <2>2 DEF AllDirs
  <1>4. /\ pc \in Executing /\ pc' \in Closing /\ pc' \in Executing
        /\ pc' \notin Replaying \cup Evaluating
    BY <1>1 DEF Executing, Replaying, Sealing, Evaluating, Closing
  <1> HIDE DEF c, d, dir
  <1>5. TrueRoot(i, d) /\ d.retention = c.retention
    BY <1>2, <1>3, WithoutKeeps DEF d
  <1>6. RootsCorrect' /\ root'[i] = d /\ \A j \in Runs : j # i \/ root[j].retention # {} =>
              root'[j].retention = root[j].retention
    BY <1>1, <1>5, Wrote DEF RunsCorrect, c
  <1>7. AtRun'
    BY <1>1, <1>2, <1>4, <1>5, <1>6 DEF AtRun, Replaying, Sealing
  <1> QED
    BY <1>1, <1>4, <1>6, <1>7 DEF RunsCorrect, RunMoves

LEMMA EndPruneKeeps ==
  ASSUME RunsCorrect, NEW i \in Runs, EndPrune(i)
  PROVE  RunsCorrect' /\ RunMoves(i)
  <1>1. /\ pc = "prune" /\ pc' = "record" /\ at = i /\ at' = at
        /\ root' = root /\ host' = host /\ crashes' = crashes
    BY DEF EndPrune, Go, env, proc
  <1>2. RootsCorrect'
    BY <1>1 DEF RunsCorrect, RootsCorrect
  <1>3. AtRun' /\ RunMoves(i)
    BY <1>1 DEF RunsCorrect, AtRun, RunMoves, Executing, Replaying, Sealing, Evaluating, Closing
  <1> QED
    BY <1>2, <1>3 DEF RunsCorrect

LEMMA RunStepKeeps ==
  ASSUME RunsCorrect, RunStep
  PROVE  RunsCorrect' /\ \E i \in Runs : RunMoves(i)
  BY ReuseRetentionKeeps, ReevaluateKeeps, OpenFreshKeeps, RefusesKeeps, ResumeKeeps,
     DecideKeeps, WriteSnapshotKeeps, SaveKeeps, SealPrimaryKeeps, SealExposuresKeeps,
     SaveSealedKeeps, SealIntermediateKeeps, WriteManifestKeeps, ReuseCompactKeeps,
     StageArrayKeeps, TripOverTempKeeps, PublishArrayKeeps, WriteCompactKeeps,
     WriteEvaluationKeeps, WriteReceiptKeeps, PruneKeeps, EndPruneKeeps
  DEF RunStep

-----------------------------------------------------------------------------
(* What is settled, online or offline, stays as it is.                      *)
Frozen ==
  /\ \A i \in Runs : Settled(i) => root'[i].retention = root[i].retention
  /\ \A j \in References : RefSettled(j) => ref'[j].evaluation = ref[j].evaluation

LEMMA FrozenEvidence ==
  ASSUME Frozen
  PROVE  /\ \A i \in Runs : Settled(i) => Settled(i)' /\ Evidence(i)' = Evidence(i)
         /\ \A j \in References : RefSettled(j) => RefSettled(j)' /\ RefEvidence(j)' = RefEvidence(j)
  BY DEF Frozen, Settled, Evidence, RefSettled, RefEvidence, NoModels

LEMMA FrozenReport ==
  ASSUME InOrder, Frozen, Last = Online, AllReferred
  PROVE  /\ AllReferred' /\ RefReport' = RefReport /\ Report' = Report
         /\ \A i \in Runs : Settled(i) /\ Settled(i)' /\ Evidence(i)' = Evidence(i)
  <1>1. \A i \in Runs : Settled(i) /\ Settled(i)' /\ Evidence(i)' = Evidence(i)
    BY FrozenEvidence, Constants DEF InOrder
  <1>2. \A j \in References : RefSettled(j)' /\ RefEvidence(j)' = RefEvidence(j)
    BY FrozenEvidence DEF AllReferred
  <1>3. AllReferred' /\ RefReport' = RefReport
    BY <1>2 DEF AllReferred, RefReport, References
  <1>4. [i \in Runs |-> Evidence(i)'] = [i \in Runs |-> Evidence(i)]
    BY <1>1
  <1>5. Report' = Report
    BY <1>2, <1>4 DEF Report, Runs, References
  <1> QED
    BY <1>1, <1>3, <1>5

LEMMA PublishedStays ==
  ASSUME InOrder, Frozen, Published, final' = final, online'.recorded = online.recorded
  PROVE  Published'
  BY FrozenReport DEF Published, Last, Online

LEMMA AggregateStays ==
  ASSUME InOrder, AggregateInOrder, Frozen, aggregate' = aggregate, gate => gate',
         final # {} => final' = final, final' # {} => Published'
  PROVE  AggregateInOrder'
  <1>1. CASE final # {}
    <2>1. Published
      BY <1>1 DEF AggregateInOrder
    <2>2. Report' = Report /\ \A i \in Runs : Evidence(i)' = Evidence(i)
      BY <2>1, FrozenReport DEF Published
    <2> QED
      BY <1>1, <2>2 DEF AggregateInOrder, AggregateTrue, Runs
  <1>2. CASE final = {}
    BY <1>2 DEF AggregateInOrder, AggregateTrue, Runs
  <1> QED
    BY <1>1, <1>2

LEMMA ReferredStays ==
  ASSUME InOrder, ReferredInOrder, ref' = ref, list' = list, Last = Online => Last' = Online,
         pc' \notin Referring \cup Referred
  PROVE  ReferredInOrder'
  <1>1. /\ \A j \in References : RefSettled(j)' = RefSettled(j)
        /\ RefReport' = RefReport /\ AllReferred' = AllReferred /\ References' = References
    BY DEF RefSettled, RefReport, RefEvidence, AllReferred, NoModels, References
  <1>2. pc' \notin Referring /\ pc' \notin Referred /\ pc' # "offline matrix" /\ pc' # "record reference"
    BY DEF Referring, Referred
  <1>3. \A j \in References : \A k \in 1 .. j - 1 : k \in References
    BY OfflineConstants DEF References
  <1>4. \A j \in References : RefSettled(j)' =>
          Last' = Online /\ \A k \in 1 .. j - 1 : RefSettled(k)'
    BY <1>1, <1>3 DEF ReferredInOrder
  <1>5. /\ ref' = [j \in References |->
              [array |-> ref'[j].array, manifest |-> ref'[j].manifest,
               evaluation |-> ref'[j].evaluation]]
        /\ \A j \in References : /\ ref'[j].manifest \subseteq 1 .. MaxCrashes + 1
                                 /\ ref'[j].evaluation \subseteq 1 .. MaxCrashes + 1
        /\ list' = [planned |-> list'.planned, recorded |-> list'.recorded,
                   complete |-> list'.complete, matrix |-> list'.matrix]
    BY DEF ReferredInOrder
  <1>6. /\ Offline = 0 => list'.recorded = RefReport'
        /\ list'.matrix # {} => list'.matrix = {RefReport'} /\ AllReferred'
    BY <1>1 DEF ReferredInOrder
  <1> QED
    BY <1>1, <1>2, <1>4, <1>5, <1>6 DEF ReferredInOrder, Online

LEMMA Places ==
  /\ \A p \in Executing \cup {"refused", "off"} :
       /\ p \notin Recorded \cup Referring \cup Referred \cup Aggregating
       /\ p \notin {"online", "aggregate"}
  /\ \A p \in Recorded : p \notin Executing \cup Aggregating \cup {"online", "aggregate"}
  /\ \A p \in Aggregating \cup {"aggregate"} : p \notin Executing \cup Recorded \cup Referring \cup Referred \cup {"online"}
  /\ Referring \subseteq Recorded /\ Referred \subseteq Recorded /\ Reporting \subseteq Aggregating
  /\ Replaying \cup Evaluating \cup Closing \subseteq Executing
  /\ Sealing \subseteq Replaying
  BY DEF Executing, Replaying, Sealing, Evaluating, Closing, Recorded, Referring, Referred,
         Aggregating, Reporting

LEMMA RunStepOrders ==
  ASSUME IInv, RunStep, UNCHANGED <<refVars, finalVars, stageVars>>
  PROVE  IInv' /\ Frozen
  <1>1. /\ InOrder /\ ReferredInOrder /\ AggregateInOrder /\ AtAggregate /\ RunsCorrect
    BY DEF IInv, MatrixCorrect, AggregateCorrect
  <1>2. RunsCorrect'
    BY <1>1, RunStepKeeps
  <1>3. PICK i \in Runs : RunMoves(i)
    BY <1>1, RunStepKeeps
  <1>4. /\ ref' = ref /\ list' = list /\ online' = online /\ final' = final
        /\ gate' = gate /\ aggregate' = aggregate /\ Last' = Last
    BY DEF refVars, finalVars, stageVars, Last
  <1>5. Frozen
    BY <1>3, <1>4 DEF Frozen, RunMoves, Settled
  <1>6. /\ pc' \notin Recorded \cup Referring \cup Referred \cup Aggregating
        /\ pc' \notin {"online", "aggregate"} /\ pc \in Executing /\ at' = at /\ i = at
    BY <1>3, Places DEF RunMoves
  <1>7. InOrder'
    <2>1. at <= Last + 1
      BY <1>1, <1>6 DEF InOrder
    <2>2. \A k \in Runs : Settled(k)' => k <= Last + 1
      BY <1>1, <1>3, <1>6, <2>1 DEF InOrder, RunMoves, Settled
    <2>3. \A k \in 1 .. Last : k \in Runs /\ Settled(k) /\ Settled(k)' /\ Evidence(k)' = Evidence(k)
      BY <1>1, <1>5, FrozenEvidence, Constants DEF InOrder
    <2>4. online.recorded = [k \in 1 .. Last |-> Evidence(k)']
      BY <1>1, <2>3 DEF InOrder
    <2>5. Runs' = Runs /\ Online' = Online
      BY DEF Runs, Online
    <2> QED
      BY <1>1, <1>4, <1>6, <2>1, <2>2, <2>3, <2>4, <2>5 DEF InOrder
  <1>8. ReferredInOrder'
    BY <1>1, <1>4, <1>6, ReferredStays
  <1>9. AggregateInOrder'
    <2>1. final' # {} => Published'
      BY <1>1, <1>4, <1>5, PublishedStays DEF AggregateInOrder
    <2> QED
      BY <1>1, <1>4, <1>5, <2>1, AggregateStays
  <1>10. AtAggregate'
    BY <1>6, Places DEF AtAggregate, Aggregating, Reporting
  <1> QED
    BY <1>2, <1>5, <1>7, <1>8, <1>9, <1>10 DEF IInv, MatrixCorrect, AggregateCorrect

-----------------------------------------------------------------------------
(* The offline references.                                                  *)
LEMMA RefTyped ==
  /\ \A j \in References : \A k \in 1 .. j - 1 : k \in References /\ k # j
  /\ \A j \in References : j = Offline => References = (1 .. j - 1) \cup {j}
  /\ \A j \in References : j # Offline => j + 1 \in References /\ 1 .. (j + 1) - 1 = (1 .. j - 1) \cup {j}
  /\ Offline = 0 => References = {}
  /\ Offline # 0 => 1 \in References /\ 1 .. 1 - 1 = {}
  /\ \A j \in References : j = Offline => 1 .. j = References
  BY OfflineConstants DEF References

(* What a reference step shares with the others.                            *)
LEMMA ReferenceFrame ==
  ASSUME ReferredInOrder, online' = online,
         /\ ref' = [j \in References |->
              [array |-> ref'[j].array, manifest |-> ref'[j].manifest,
               evaluation |-> ref'[j].evaluation]],
         \A j \in References : /\ ref'[j].manifest \subseteq 1 .. MaxCrashes + 1
                               /\ ref'[j].evaluation \subseteq 1 .. MaxCrashes + 1,
         list' = [planned |-> list'.planned, recorded |-> list'.recorded,
                  complete |-> list'.complete, matrix |-> list'.matrix],
         \A j \in References : RefSettled(j)' =>
           Last = Online /\ \A k \in 1 .. j - 1 : RefSettled(k)',
         pc' \in Referring => next' \in References /\ \A k \in 1 .. next' - 1 : RefSettled(k)',
         pc' = "record reference" => RefSettled(next)',
         pc' \in Referred => AllReferred',
         pc' = "offline matrix" \/ Offline = 0 => list'.recorded = RefReport',
         list'.matrix # {} => list'.matrix = {RefReport'} /\ AllReferred'
  PROVE  ReferredInOrder'
  <1>1. Last' = Last /\ Online' = Online /\ References' = References
    BY DEF Last, Online, References
  <1> QED
    BY <1>1 DEF ReferredInOrder

(* Steps that leave the references' files alone.                            *)
LEMMA ListFrame ==
  ASSUME ReferredInOrder, online' = online, ref' = ref,
         list' = [planned |-> list'.planned, recorded |-> list'.recorded,
                  complete |-> list'.complete, matrix |-> list'.matrix],
         pc' \in Referring => next' \in References /\ \A k \in 1 .. next' - 1 : RefSettled(k),
         pc' = "record reference" => next' = next /\ RefSettled(next),
         pc' \in Referred => AllReferred,
         pc' = "offline matrix" \/ Offline = 0 => list'.recorded = RefReport,
         list'.matrix # {} => list'.matrix = {RefReport} /\ AllReferred
  PROVE  ReferredInOrder'
  <1>1. /\ \A j : RefSettled(j)' = RefSettled(j)
        /\ RefReport' = RefReport /\ AllReferred' = AllReferred
    BY DEF RefSettled, RefReport, RefEvidence, AllReferred, NoModels, References, Parts
  <1>2. RefSettled(next) /\ next' = next => RefSettled(next)'
    BY DEF RefSettled
  <1>3. /\ ref' = [j \in References |->
              [array |-> ref'[j].array, manifest |-> ref'[j].manifest,
               evaluation |-> ref'[j].evaluation]]
        /\ \A j \in References : /\ ref'[j].manifest \subseteq 1 .. MaxCrashes + 1
                                 /\ ref'[j].evaluation \subseteq 1 .. MaxCrashes + 1
    BY DEF ReferredInOrder
  <1>4. \A j \in References : RefSettled(j)' =>
           Last = Online /\ \A k \in 1 .. j - 1 : RefSettled(k)'
    BY <1>1 DEF ReferredInOrder
  <1> HIDE DEF RefSettled
  <1> QED
    BY <1>1, <1>2, <1>3, <1>4, ReferenceFrame

LEMMA PlanReferencesOrders ==
  ASSUME InOrder, ReferredInOrder, PlanReferences, online' = online
  PROVE  ReferredInOrder' /\ Frozen
  <1>1. /\ pc = "offline" /\ pc' = IF Offline = 0 THEN "offline matrix" ELSE "reference"
        /\ list' = [list EXCEPT !.planned = TRUE] /\ next' = 1 /\ ref' = ref /\ root' = root
    BY DEF PlanReferences, Go
  <1> DEFINE yes == TRUE
  <1>2. list' = [list EXCEPT !.planned = yes]
    BY <1>1
  <1> HIDE DEF yes
  <1>3. /\ list' = [planned |-> list'.planned, recorded |-> list'.recorded,
                  complete |-> list'.complete, matrix |-> list'.matrix]
        /\ list'.recorded = list.recorded /\ list'.matrix = list.matrix
    BY <1>2 DEF ReferredInOrder
  <1>4. pc' = "offline matrix" => Offline = 0
    BY <1>1
  <1>5. pc' \in Referring => Offline # 0
    BY <1>1 DEF Referring
  <1>6. pc' \in Referred => AllReferred
    <2>1. pc' \in Referred => Offline = 0
      BY <1>1 DEF Referred
    <2>2. Offline = 0 => References = {}
      BY DEF References
    <2> QED
      BY <2>1, <2>2 DEF AllReferred
  <1>7. ReferredInOrder'
    BY <1>1, <1>3, <1>4, <1>5, <1>6, RefTyped, ListFrame DEF ReferredInOrder
  <1> QED
    BY <1>1, <1>7 DEF Frozen

LEMMA ReuseReferenceOrders ==
  ASSUME InOrder, ReferredInOrder, NEW j \in References, ReuseReference(j), online' = online
  PROVE  ReferredInOrder' /\ Frozen
  <1>1. /\ pc = "reference" /\ next = j /\ RefSettled(j) /\ pc' = "record reference"
        /\ list' = list /\ next' = next /\ ref' = ref /\ root' = root
    BY DEF ReuseReference, RefStage, Go, refVars
  <1>2. pc \in Referring /\ pc' \notin Referred
    BY <1>1 DEF Referring, Referred
  <1>3. ReferredInOrder'
    BY <1>1, <1>2, ListFrame DEF ReferredInOrder
  <1> QED
    BY <1>1, <1>3 DEF Frozen

LEMMA RecordReferenceOrders ==
  ASSUME InOrder, ReferredInOrder, NEW j \in References, RecordReference(j), online' = online
  PROVE  ReferredInOrder' /\ Frozen
  <1> DEFINE now == [k \in 1 .. j |-> RefEvidence(k)]
             no == FALSE
             mid == [list EXCEPT !.recorded = now]
  <1>1. /\ pc = "record reference" /\ next = j
        /\ pc' = IF j = Offline THEN "offline matrix" ELSE "reference"
        /\ list' = [mid EXCEPT !.complete = no]
        /\ next' = IF j = Offline THEN 1 ELSE j + 1
        /\ ref' = ref /\ root' = root
    BY DEF RecordReference, RefStage, Go
  <1>2. pc \in Referring /\ (j # Offline => pc' \notin Referred) /\ (j = Offline => pc' \notin Referring)
        /\ pc' # "record reference"
    BY <1>1 DEF Referring, Referred
  <1>3. RefSettled(j) /\ \A k \in 1 .. j - 1 : RefSettled(k)
    BY <1>1, <1>2 DEF ReferredInOrder
  <1>4. j = Offline => AllReferred /\ now = RefReport
    <2>1. j = Offline => References = (1 .. j - 1) \cup {j} /\ 1 .. j = References
      BY RefTyped
    <2> QED
      BY <1>3, <2>1 DEF AllReferred, RefReport
  <1> HIDE DEF now, no
  <1>5. /\ mid = [planned |-> mid.planned, recorded |-> mid.recorded,
                  complete |-> mid.complete, matrix |-> mid.matrix]
        /\ mid.recorded = now /\ mid.matrix = list.matrix
    <2>1. list = [planned |-> list.planned, recorded |-> list.recorded,
                  complete |-> list.complete, matrix |-> list.matrix]
      BY DEF ReferredInOrder
    <2> QED
      BY <2>1
  <1> HIDE DEF mid
  <1>6. /\ list' = [planned |-> list'.planned, recorded |-> list'.recorded,
                  complete |-> list'.complete, matrix |-> list'.matrix]
        /\ list'.recorded = now /\ list'.matrix = list.matrix
    <2>1. list' = [mid EXCEPT !.complete = no]
      BY <1>1 DEF mid
    <2> QED
      BY <1>5, <2>1
  <1>7. pc' \in Referring => next' \in References /\ \A k \in 1 .. next' - 1 : RefSettled(k)
    <2>1. CASE j = Offline
      BY <1>2, <2>1
    <2>2. CASE j # Offline
      <3>1. j + 1 \in References /\ 1 .. (j + 1) - 1 = (1 .. j - 1) \cup {j} /\ next' = j + 1
        BY <1>1, <2>2, RefTyped
      <3> QED
        BY <1>3, <3>1
    <2> QED
      BY <2>1, <2>2
  <1>8. pc' = "offline matrix" \/ Offline = 0 => j = Offline
    <2>1. Offline = 0 => References = {}
      BY DEF References
    <2>2. j # Offline => pc' = "reference"
      BY <1>1
    <2> QED
      BY <2>1, <2>2
  <1>9. ReferredInOrder'
    BY <1>1, <1>2, <1>4, <1>6, <1>7, <1>8, ListFrame DEF ReferredInOrder
  <1> QED
    BY <1>1, <1>9 DEF Frozen

LEMMA PublishReferencesOrders ==
  ASSUME InOrder, ReferredInOrder, PublishReferences, online' = online
  PROVE  ReferredInOrder' /\ Frozen
  <1> DEFINE bound == {list.recorded}
  <1>1. /\ pc = "offline matrix" /\ pc' = "close offline"
        /\ list' = [list EXCEPT !.matrix = bound]
        /\ next' = next /\ ref' = ref /\ root' = root
    BY DEF PublishReferences, Go
  <1>2. pc \in Referred /\ pc' \notin Referring /\ pc' # "record reference" /\ pc' # "offline matrix"
    BY <1>1 DEF Referring, Referred
  <1>3. AllReferred /\ bound = {RefReport}
    BY <1>1, <1>2 DEF ReferredInOrder
  <1> HIDE DEF bound
  <1>4. /\ list' = [planned |-> list'.planned, recorded |-> list'.recorded,
                  complete |-> list'.complete, matrix |-> list'.matrix]
        /\ list'.recorded = list.recorded /\ list'.matrix = bound
    BY <1>1 DEF ReferredInOrder
  <1>5. ReferredInOrder'
    BY <1>1, <1>2, <1>3, <1>4, ListFrame DEF ReferredInOrder
  <1> QED
    BY <1>1, <1>5 DEF Frozen

LEMMA CompleteReferencesOrders ==
  ASSUME InOrder, ReferredInOrder, CompleteReferences, online' = online
  PROVE  ReferredInOrder' /\ Frozen
  <1> DEFINE yes == TRUE
  <1>1. /\ pc = "close offline" /\ pc' = "combine"
        /\ list' = [list EXCEPT !.complete = yes]
        /\ next' = next /\ ref' = ref /\ root' = root
    BY DEF CompleteReferences, Go
  <1>2. pc \in Referred /\ pc' \notin Referring /\ pc' # "record reference" /\ pc' # "offline matrix"
    BY <1>1 DEF Referring, Referred
  <1> HIDE DEF yes
  <1>3. /\ list' = [planned |-> list'.planned, recorded |-> list'.recorded,
                  complete |-> list'.complete, matrix |-> list'.matrix]
        /\ list'.recorded = list.recorded /\ list'.matrix = list.matrix
    BY <1>1 DEF ReferredInOrder
  <1>4. ReferredInOrder'
    BY <1>1, <1>2, <1>3, ListFrame DEF ReferredInOrder
  <1> QED
    BY <1>1, <1>4 DEF Frozen

IsFile(f) == f = [array |-> f.array, manifest |-> f.manifest, evaluation |-> f.evaluation]

(* A step that writes the files of the reference being executed.            *)
WritesFile(j, file) ==
  /\ pc \in {"reference", "seal reference"} /\ pc' \in {"reference", "seal reference"}
  /\ next = j /\ next' = next /\ list' = list /\ root' = root
  /\ ref' = [ref EXCEPT ![j] = file] /\ IsFile(file)
  /\ file.manifest = ref[j].manifest \/ file.manifest \subseteq 1 .. MaxCrashes + 1
  /\ file.evaluation = ref[j].evaluation
       \/ (~RefSettled(j) /\ file.evaluation \subseteq 1 .. MaxCrashes + 1)

LEMMA FileSteps ==
  ASSUME InOrder, ReferredInOrder, NEW j \in References, NEW file, online' = online,
         WritesFile(j, file)
  PROVE  ReferredInOrder' /\ Frozen
  <1> USE DEF WritesFile
  <1>1. /\ pc \in Referring /\ pc \in Recorded
        /\ pc' \notin Referred /\ pc' # "record reference" /\ pc' # "offline matrix"
    BY DEF Referring, Referred, Recorded
  <1>2. Last = Online /\ \A k \in 1 .. j - 1 : RefSettled(k)
    BY <1>1 DEF InOrder, ReferredInOrder
  <1>3. /\ ref' = [k \in References |-> ref'[k]] /\ ref'[j] = file
        /\ \A k \in References : k # j => ref'[k] = ref[k]
    <2>1. ref = [k \in References |-> ref[k]]
      BY DEF ReferredInOrder
    <2> QED
      BY <2>1
  <1>4. \A k \in References :
          /\ ref'[k] = [array |-> ref'[k].array, manifest |-> ref'[k].manifest, evaluation |-> ref'[k].evaluation]
          /\ ref'[k].manifest \subseteq 1 .. MaxCrashes + 1
          /\ ref'[k].evaluation \subseteq 1 .. MaxCrashes + 1
    <2>1. /\ ref[j].manifest \subseteq 1 .. MaxCrashes + 1
          /\ ref[j].evaluation \subseteq 1 .. MaxCrashes + 1
      BY DEF ReferredInOrder
    <2>a. file = [array |-> file.array, manifest |-> file.manifest, evaluation |-> file.evaluation]
      BY DEF IsFile
    <2>2. \A k \in References :
            /\ ref[k] = [array |-> ref[k].array, manifest |-> ref[k].manifest, evaluation |-> ref[k].evaluation]
            /\ ref[k].manifest \subseteq 1 .. MaxCrashes + 1
            /\ ref[k].evaluation \subseteq 1 .. MaxCrashes + 1
      BY DEF ReferredInOrder
    <2>3. TAKE k \in References
    <2>4. CASE k = j
      BY <1>3, <2>1, <2>4, <2>a
    <2>5. CASE k # j
      BY <1>3, <2>2, <2>5
    <2> QED
      BY <2>4, <2>5
  <1>5. Frozen
    BY <1>3 DEF Frozen, RefSettled
  <1>6. \A k \in References : k # j => RefSettled(k)' = RefSettled(k)
    BY <1>3 DEF RefSettled
  <1>7. \A k \in References : RefSettled(k) => RefSettled(k)' /\ RefEvidence(k)' = RefEvidence(k)
    BY <1>5, FrozenEvidence
  <1>8. \A k \in 1 .. j - 1 : RefSettled(k)'
    BY <1>2, <1>7, RefTyped
  <1>9. \A k \in References : RefSettled(k)' =>
          Last = Online /\ \A l \in 1 .. k - 1 : RefSettled(l)'
    <2>1. TAKE k \in References
    <2>2. CASE k = j
      BY <1>2, <1>8, <2>2
    <2>3. CASE k # j
      BY <1>2, <1>6, <1>7, <2>3, RefTyped DEF ReferredInOrder
    <2> QED
      BY <2>2, <2>3
  <1>10. list'.matrix # {} => list'.matrix = {RefReport'} /\ AllReferred'
    <2>1. AllReferred => AllReferred' /\ RefReport' = RefReport
      BY <1>7 DEF AllReferred, RefReport, References
    <2> QED
      BY <2>1 DEF ReferredInOrder
  <1>11. Offline # 0
    BY RefTyped
  <1>12. ref' = [k \in References |->
              [array |-> ref'[k].array, manifest |-> ref'[k].manifest,
               evaluation |-> ref'[k].evaluation]]
    BY <1>3, <1>4
  <1>13. list' = [planned |-> list'.planned, recorded |-> list'.recorded,
                  complete |-> list'.complete, matrix |-> list'.matrix]
    BY DEF ReferredInOrder
  <1>14. ReferredInOrder'
    BY <1>1, <1>4, <1>8, <1>9, <1>10, <1>11, <1>12, <1>13, ReferenceFrame
  <1> QED
    BY <1>5, <1>14

LEMMA FitOrders ==
  ASSUME InOrder, ReferredInOrder, NEW j \in References, Fit(j), online' = online
  PROVE  ReferredInOrder' /\ Frozen
  <1> DEFINE yes == TRUE
             file == [ref[j] EXCEPT !.array = yes]
  <1>1. /\ pc = "reference" /\ next = j /\ pc' = "seal reference"
        /\ ref' = [ref EXCEPT ![j] = file]
        /\ next' = next /\ list' = list /\ root' = root
    BY DEF Fit, RefStage, Go
  <1>2. /\ IsFile(file)
        /\ file.manifest = ref[j].manifest /\ file.evaluation = ref[j].evaluation
    <2>1. ref[j] = [array |-> ref[j].array, manifest |-> ref[j].manifest, evaluation |-> ref[j].evaluation]
      BY DEF ReferredInOrder
    <2> HIDE DEF yes
    <2> QED
      BY <2>1 DEF IsFile
  <1>9. pc \in {"reference", "seal reference"} /\ pc' \in {"reference", "seal reference"}
    BY <1>1
  <1> HIDE DEF file
  <1>10. /\ file.manifest = ref[j].manifest \/ file.manifest \subseteq 1 .. MaxCrashes + 1
         /\ file.evaluation = ref[j].evaluation
              \/ (~RefSettled(j) /\ file.evaluation \subseteq 1 .. MaxCrashes + 1)
    BY <1>2
  <1>11. /\ next = j /\ next' = next /\ list' = list /\ root' = root
         /\ ref' = [ref EXCEPT ![j] = file] /\ IsFile(file)
    BY <1>1, <1>2
  <1>12. WritesFile(j, file)
    BY <1>9, <1>10, <1>11 DEF WritesFile
  <1> QED
    BY <1>12, FileSteps

LEMMA SealReferenceOrders ==
  ASSUME InOrder, ReferredInOrder, NEW j \in References, SealReference(j), online' = online,
         crashes \in 0 .. MaxCrashes
  PROVE  ReferredInOrder' /\ Frozen
  <1> DEFINE sealed == {Launched}
             file == [ref[j] EXCEPT !.manifest = sealed]
  <1>1. /\ pc = "seal reference" /\ next = j /\ pc' = "reference"
        /\ ref' = [ref EXCEPT ![j] = file]
        /\ next' = next /\ list' = list /\ root' = root
    BY DEF SealReference, RefStage, Go
  <1>2. sealed \subseteq 1 .. MaxCrashes + 1
    BY FinalConstants DEF Launched
  <1> HIDE DEF sealed
  <1>3. /\ IsFile(file)
        /\ file.manifest = sealed /\ file.evaluation = ref[j].evaluation
    <2>1. ref[j] = [array |-> ref[j].array, manifest |-> ref[j].manifest, evaluation |-> ref[j].evaluation]
      BY DEF ReferredInOrder
    <2> QED
      BY <2>1 DEF IsFile
  <1>9. pc \in {"reference", "seal reference"} /\ pc' \in {"reference", "seal reference"}
    BY <1>1
  <1> HIDE DEF file
  <1>10. /\ file.manifest = ref[j].manifest \/ file.manifest \subseteq 1 .. MaxCrashes + 1
         /\ file.evaluation = ref[j].evaluation
              \/ (~RefSettled(j) /\ file.evaluation \subseteq 1 .. MaxCrashes + 1)
    BY <1>2, <1>3
  <1>11. /\ next = j /\ next' = next /\ list' = list /\ root' = root
         /\ ref' = [ref EXCEPT ![j] = file] /\ IsFile(file)
    BY <1>1, <1>2, <1>3
  <1>12. WritesFile(j, file)
    BY <1>9, <1>10, <1>11 DEF WritesFile
  <1> QED
    BY <1>12, FileSteps

LEMMA JoinReferenceOrders ==
  ASSUME InOrder, ReferredInOrder, NEW j \in References, JoinReference(j), online' = online
  PROVE  ReferredInOrder' /\ Frozen
  <1> DEFINE file == [ref[j] EXCEPT !.evaluation = ref[j].manifest]
  <1>1. /\ pc = "reference" /\ next = j /\ pc' = "reference"
        /\ ~RefSettled(j) /\ ref[j].manifest # {}
        /\ ref' = [ref EXCEPT ![j] = file]
        /\ next' = next /\ list' = list /\ root' = root
    BY DEF JoinReference, RefStage, Go
  <1>2. /\ IsFile(file)
        /\ file.manifest = ref[j].manifest /\ file.evaluation = ref[j].manifest
    <2>1. ref[j] = [array |-> ref[j].array, manifest |-> ref[j].manifest, evaluation |-> ref[j].evaluation]
      BY DEF ReferredInOrder
    <2> QED
      BY <2>1 DEF IsFile
  <1>3. file.manifest \subseteq 1 .. MaxCrashes + 1
    BY <1>2 DEF ReferredInOrder
  <1>9. pc \in {"reference", "seal reference"} /\ pc' \in {"reference", "seal reference"}
    BY <1>1
  <1> HIDE DEF file
  <1>10. /\ file.manifest = ref[j].manifest \/ file.manifest \subseteq 1 .. MaxCrashes + 1
         /\ file.evaluation = ref[j].evaluation
              \/ (~RefSettled(j) /\ file.evaluation \subseteq 1 .. MaxCrashes + 1)
    BY <1>1, <1>2, <1>3
  <1>11. /\ next = j /\ next' = next /\ list' = list /\ root' = root
         /\ ref' = [ref EXCEPT ![j] = file] /\ IsFile(file)
    BY <1>1, <1>2, <1>3
  <1>12. WritesFile(j, file)
    BY <1>9, <1>10, <1>11 DEF WritesFile
  <1> QED
    BY <1>12, FileSteps

(* Steps that write no run and record nothing.                              *)
LEMMA SameRootsInOrder ==
  ASSUME InOrder, root' = root,
         online' = [planned |-> online'.planned, recorded |-> online'.recorded,
                    complete |-> online'.complete, matrix |-> online'.matrix],
         online'.recorded = online.recorded,
         online'.matrix # {} => online'.matrix = {online.recorded} /\ Last = Online,
         pc' = "online" => at' = 1,
         pc' \in Executing => at' <= Last + 1,
         pc' \in Recorded => Last = Online
  PROVE  InOrder'
  <1>1. Last' = Last /\ Online' = Online /\ Runs' = Runs
    BY DEF Last, Online, Runs
  <1>2. \A i : Evidence(i)' = Evidence(i) /\ Settled(i)' = Settled(i)
    BY DEF Evidence, Settled
  <1>3. online'.recorded = [i \in 1 .. Last |-> Evidence(i)']
    BY <1>2 DEF InOrder
  <1> QED
    BY <1>1, <1>2, <1>3 DEF InOrder

LEMMA AtRunElsewhere ==
  ASSUME pc' \notin Executing \/ (pc' = "execute" /\ at' \in Runs)
  PROVE  AtRun'
  <1>1. CASE pc' \notin Executing
    <2>1. /\ pc' \notin Replaying \cup Sealing \cup Evaluating \cup Closing
          /\ pc' \notin {"snapshot", "compact", "save sealed", "intermediate"}
      BY <1>1 DEF Executing, Replaying, Sealing, Evaluating, Closing
    <2> QED
      BY <1>1, <2>1 DEF AtRun
  <1>2. CASE pc' = "execute" /\ at' \in Runs
    BY <1>2 DEF AtRun, Replaying, Sealing, Evaluating, Closing, Runs
  <1> QED
    BY <1>1, <1>2

(* Steps of the other commands and of the world leave the matrix alone.     *)
LEMMA OutOfMatrix ==
  ASSUME IInv, root' = root, ref' = ref, list' = list, online' = online, final' = final,
         host' \in Hosts, crashes' \in 0 .. MaxCrashes,
         pc' \notin Executing \cup Recorded, pc' = "online" => at' = 1
  PROVE  /\ RunsCorrect' /\ MatrixCorrect' /\ Frozen
         /\ final' # {} => Published'
         /\ aggregate' = aggregate /\ (gate => gate') => AggregateInOrder'
  <1>1. /\ InOrder /\ ReferredInOrder /\ AggregateInOrder /\ RootsCorrect
    BY DEF IInv, MatrixCorrect, AggregateCorrect, RunsCorrect
  <1>2. RunsCorrect'
    BY <1>1, AtRunElsewhere DEF RunsCorrect, RootsCorrect
  <1>3. Frozen
    BY DEF Frozen
  <1>4. InOrder'
    <2>1. /\ online' = [planned |-> online'.planned, recorded |-> online'.recorded,
                      complete |-> online'.complete, matrix |-> online'.matrix]
          /\ online'.matrix # {} => online'.matrix = {online.recorded} /\ Last = Online
      BY <1>1 DEF InOrder
    <2> QED
      BY <1>1, <2>1, SameRootsInOrder
  <1>5. ReferredInOrder'
    <2>1. Last' = Last /\ pc' \notin Referring \cup Referred
      BY Places DEF Last
    <2> QED
      BY <1>1, <2>1, ReferredStays
  <1>6. final' # {} => Published'
    BY <1>1, <1>3, PublishedStays DEF AggregateInOrder
  <1>7. aggregate' = aggregate /\ (gate => gate') => AggregateInOrder'
    BY <1>1, <1>3, <1>6, AggregateStays
  <1> QED
    BY <1>2, <1>3, <1>4, <1>5, <1>6, <1>7 DEF MatrixCorrect

LEMMA RefStepOrders ==
  ASSUME IInv, RefStep, UNCHANGED <<finalVars, stageVars>>
  PROVE  IInv' /\ Frozen
  <1>1. /\ InOrder /\ ReferredInOrder /\ AggregateInOrder /\ AtAggregate
        /\ RootsCorrect /\ AtRun
    BY DEF IInv, MatrixCorrect, AggregateCorrect, RunsCorrect
  <1>2. /\ online' = online /\ final' = final /\ gate' = gate /\ aggregate' = aggregate
        /\ Last' = Last
    BY DEF finalVars, stageVars, Last
  <1>3. crashes \in 0 .. MaxCrashes
    BY <1>1 DEF RootsCorrect
  <1>4. ReferredInOrder' /\ Frozen
    BY <1>1, <1>2, <1>3, PlanReferencesOrders, PublishReferencesOrders, CompleteReferencesOrders,
       ReuseReferenceOrders, FitOrders, SealReferenceOrders, JoinReferenceOrders,
       RecordReferenceOrders DEF RefStep
  <1>5. /\ root' = root /\ at' = at /\ host' = host /\ crashes' = crashes
        /\ pc \in {"offline", "offline matrix", "close offline", "reference",
                   "seal reference", "record reference"}
        /\ pc' \in {"offline matrix", "close offline", "reference",
                    "seal reference", "record reference", "combine"}
    BY DEF RefStep, PlanReferences, PublishReferences, CompleteReferences, ReuseReference,
           Fit, SealReference, JoinReference, RecordReference, RefStage, Go, env, proc
  <1>6. pc \in Recorded /\ pc' \in Recorded
    BY <1>5 DEF Recorded, Referring, Referred
  <1>7. RootsCorrect'
    BY <1>1, <1>5 DEF RootsCorrect
  <1>8. AtRun'
    BY <1>5 DEF AtRun, Executing, Replaying, Sealing, Evaluating, Closing
  <1>9. InOrder'
    <2>1. online' = [planned |-> online'.planned, recorded |-> online'.recorded,
                    complete |-> online'.complete, matrix |-> online'.matrix]
      BY <1>1, <1>2 DEF InOrder
    <2>2. /\ online'.recorded = online.recorded
          /\ online'.matrix # {} => online'.matrix = {online.recorded} /\ Last = Online
          /\ Last = Online
      BY <1>1, <1>2, <1>6 DEF InOrder
    <2>3. pc' # "online" /\ pc' \notin Executing
      BY <1>5 DEF Executing, Replaying, Sealing, Evaluating, Closing
    <2> QED
      BY <1>1, <1>5, <2>1, <2>2, <2>3, SameRootsInOrder
  <1>10. AggregateInOrder'
    <2>1. final' # {} => Published'
      BY <1>1, <1>2, <1>4, PublishedStays DEF AggregateInOrder
    <2> QED
      BY <1>1, <1>2, <1>4, <2>1, AggregateStays
  <1>11. AtAggregate'
    BY <1>5 DEF AtAggregate, Aggregating, Reporting
  <1> QED
    BY <1>4, <1>7, <1>8, <1>9, <1>10, <1>11 DEF IInv, MatrixCorrect, AggregateCorrect, RunsCorrect

-----------------------------------------------------------------------------
(* The coordinator.                                                         *)
LEMMA PlanOnlineOrders ==
  ASSUME IInv, PlanOnline, UNCHANGED stageVars
  PROVE  IInv' /\ Frozen
  <1> DEFINE yes == TRUE
  <1>1. /\ InOrder /\ ReferredInOrder /\ AggregateInOrder /\ AtAggregate
        /\ RootsCorrect /\ AtRun
    BY DEF IInv, MatrixCorrect, AggregateCorrect, RunsCorrect
  <1>2. /\ pc = "online" /\ pc' = IF Online = 0 THEN "matrix" ELSE "execute"
        /\ online' = [online EXCEPT !.planned = yes]
        /\ root' = root /\ at' = at /\ host' = host /\ crashes' = crashes
        /\ ref' = ref /\ list' = list /\ final' = final /\ gate' = gate /\ aggregate' = aggregate
    BY DEF PlanOnline, Go, env, proc, refVars, stageVars
  <1> HIDE DEF yes
  <1>3. /\ online' = [planned |-> online'.planned, recorded |-> online'.recorded,
                    complete |-> online'.complete, matrix |-> online'.matrix]
        /\ online'.recorded = online.recorded /\ online'.matrix = online.matrix
    <2>1. online = [planned |-> online.planned, recorded |-> online.recorded,
                    complete |-> online.complete, matrix |-> online.matrix]
      BY <1>1 DEF InOrder
    <2> QED
      BY <1>2, <2>1
  <1>4. /\ Last' = Last /\ at = 1 /\ Frozen
    BY <1>1, <1>2, <1>3 DEF Last, InOrder, Frozen
  <1>5. RootsCorrect'
    BY <1>1, <1>2 DEF RootsCorrect
  <1>6. AtRun'
    <2>1. pc' \in Executing => Online # 0 /\ pc' = "execute"
      BY <1>2 DEF Executing, Replaying, Sealing, Evaluating, Closing
    <2>2. Online # 0 => at' \in Runs
      BY <1>2, <1>4, Constants
    <2> QED
      BY <2>1, <2>2, AtRunElsewhere
  <1>7. InOrder'
    <2>1. pc' # "online" /\ (pc' \in Recorded => Online = 0)
      BY <1>2 DEF Recorded, Referring, Referred
    <2>2. pc' \in Recorded => Last = Online
      BY <1>1, <2>1, Constants DEF InOrder
    <2>3. at' <= Last + 1
      BY <1>1, <1>2, <1>4, Constants DEF InOrder
    <2>4. online'.matrix # {} => online'.matrix = {online.recorded} /\ Last = Online
      BY <1>1, <1>3 DEF InOrder
    <2> QED
      BY <1>1, <1>2, <1>3, <2>1, <2>2, <2>3, <2>4, SameRootsInOrder
  <1>8. ReferredInOrder'
    <2>1. pc' \notin Referring \cup Referred
      BY <1>2 DEF Referring, Referred
    <2> QED
      BY <1>1, <1>2, <1>4, <2>1, ReferredStays
  <1>9. AggregateInOrder'
    <2>1. final' # {} => Published'
      BY <1>1, <1>2, <1>3, <1>4, PublishedStays DEF AggregateInOrder
    <2> QED
      BY <1>1, <1>2, <1>4, <2>1, AggregateStays
  <1>10. AtAggregate'
    BY <1>2 DEF AtAggregate, Aggregating, Reporting
  <1> QED
    BY <1>4, <1>5, <1>6, <1>7, <1>8, <1>9, <1>10
    DEF IInv, MatrixCorrect, AggregateCorrect, RunsCorrect

LEMMA RecordOrders ==
  ASSUME IInv, NEW i \in Runs, Record(i), UNCHANGED stageVars
  PROVE  IInv' /\ Frozen
  <1>1. /\ InOrder /\ ReferredInOrder /\ AggregateInOrder /\ AtAggregate
        /\ RootsCorrect /\ AtRun
    BY DEF IInv, MatrixCorrect, AggregateCorrect, RunsCorrect
  <1>2. /\ pc = "record" /\ at = i /\ at' = i + 1
        /\ pc' = IF i = Online THEN "matrix" ELSE "execute"
        /\ root' = root /\ host' = host /\ crashes' = crashes
        /\ ref' = ref /\ list' = list /\ final' = final /\ gate' = gate /\ aggregate' = aggregate
    BY DEF Record, env, refVars, stageVars
  <1>3. /\ i <= Last => online' = online
        /\ ~(i <= Last) => online' = [online EXCEPT !.recorded = Append(@, Evidence(i))]
    BY DEF Record, Last
  <1>4. /\ pc \in Executing /\ pc \in Closing /\ pc' \notin Referring \cup Referred
        /\ pc' # "online" /\ (pc' \in Executing => pc' = "execute" /\ i # Online)
        /\ (pc' \in Recorded => i = Online)
    BY <1>2 DEF Executing, Replaying, Sealing, Evaluating, Closing, Referring, Referred, Recorded
  <1>5. /\ i <= Last + 1 /\ Settled(i) /\ Last \in 0 .. Online /\ Online \in Nat
        /\ Runs = 1 .. Online /\ i \in 1 .. Online
    BY <1>1, <1>2, <1>4, Constants DEF InOrder, AtRun, Settled
  <1>6. Frozen
    BY <1>2 DEF Frozen
  <1>7. \A k : Evidence(k)' = Evidence(k) /\ Settled(k)' = Settled(k)
    BY <1>2 DEF Evidence, Settled
  <1>8. /\ online' = [planned |-> online'.planned, recorded |-> online'.recorded,
                    complete |-> online'.complete, matrix |-> online'.matrix]
        /\ online'.matrix = online.matrix
        /\ online'.recorded = [k \in 1 .. Last' |-> Evidence(k)]
        /\ Last' = IF i <= Last THEN Last ELSE i
        /\ Last = Online => Last' = Online /\ online' = online
    <2>1. /\ online = [planned |-> online.planned, recorded |-> online.recorded,
                      complete |-> online.complete, matrix |-> online.matrix]
          /\ online.recorded = [k \in 1 .. Last |-> Evidence(k)]
      BY <1>1 DEF InOrder
    <2>2. CASE i <= Last
      BY <1>3, <2>1, <2>2 DEF Last
    <2>3. CASE ~(i <= Last)
      <3>1. i = Last + 1 /\ Last # Online
        BY <1>5, <2>3
      <3> DEFINE more == Append(online.recorded, Evidence(i))
      <3>2. online' = [online EXCEPT !.recorded = more]
        BY <1>3, <2>3
      <3>3. more = [k \in 1 .. Last + 1 |-> Evidence(k)] /\ Len(more) = Last + 1
        <4>1. more = [k \in 1 .. Last + 1 |-> IF k = Last + 1 THEN Evidence(i) ELSE online.recorded[k]]
          BY <1>5, <2>1
        <4> QED
          BY <1>5, <2>1, <3>1, <4>1
      <3> HIDE DEF more
      <3>4. /\ online' = [planned |-> online'.planned, recorded |-> online'.recorded,
                        complete |-> online'.complete, matrix |-> online'.matrix]
            /\ online'.matrix = online.matrix /\ online'.recorded = more
        BY <2>1, <3>2
      <3> QED
        BY <2>3, <3>1, <3>3, <3>4 DEF Last
    <2> QED
      BY <2>2, <2>3
  <1>9. InOrder'
    <2>1. Online' = Online /\ Runs' = Runs
      BY DEF Online, Runs
    <2>2. /\ Last' \in 0 .. Online /\ Last <= Last' /\ at' <= Last' + 1
          /\ (pc' \in Recorded => Last' = Online)
      BY <1>2, <1>4, <1>5, <1>8
    <2>3. \A k \in 1 .. Last' : Settled(k)'
      BY <1>1, <1>5, <1>7, <1>8 DEF InOrder
    <2>4. \A k \in Runs : Settled(k)' => k <= Last' + 1
      BY <1>1, <1>5, <1>7, <2>2 DEF InOrder
    <2>5. online'.matrix # {} => online'.matrix = {online'.recorded} /\ Last' = Online
      BY <1>1, <1>8 DEF InOrder
    <2> QED
      BY <1>4, <1>7, <1>8, <2>1, <2>2, <2>3, <2>4, <2>5 DEF InOrder
  <1>10. RootsCorrect'
    BY <1>1, <1>2 DEF RootsCorrect
  <1>11. AtRun'
    <2>1. i # Online => at' \in Runs
      BY <1>2, <1>5
    <2> QED
      BY <1>4, <2>1, AtRunElsewhere
  <1>12. ReferredInOrder'
    BY <1>1, <1>2, <1>4, <1>8, ReferredStays
  <1>13. AggregateInOrder'
    <2>1. final' # {} => Published'
      BY <1>1, <1>2, <1>6, <1>8, PublishedStays DEF AggregateInOrder, Published
    <2> QED
      BY <1>1, <1>2, <1>6, <2>1, AggregateStays
  <1>14. AtAggregate'
    BY <1>2 DEF AtAggregate, Aggregating, Reporting
  <1> QED
    BY <1>6, <1>9, <1>10, <1>11, <1>12, <1>13, <1>14
    DEF IInv, MatrixCorrect, AggregateCorrect, RunsCorrect

LEMMA PublishOnlineOrders ==
  ASSUME IInv, PublishOnline \/ CompleteOnline, UNCHANGED stageVars
  PROVE  IInv' /\ Frozen
  <1> DEFINE bound == {online.recorded}
             yes == TRUE
  <1>1. /\ InOrder /\ ReferredInOrder /\ AggregateInOrder /\ AtAggregate
        /\ RootsCorrect /\ AtRun
    BY DEF IInv, MatrixCorrect, AggregateCorrect, RunsCorrect
  <1>2. /\ pc \in {"matrix", "close online"} /\ pc' \in {"close online", "offline"}
        /\ online' = [online EXCEPT !.matrix = bound] \/ online' = [online EXCEPT !.complete = yes]
        /\ root' = root /\ at' = at /\ host' = host /\ crashes' = crashes
        /\ ref' = ref /\ list' = list /\ final' = final /\ gate' = gate /\ aggregate' = aggregate
    BY DEF PublishOnline, CompleteOnline, Go, env, proc, refVars, stageVars
  <1>3. Last = Online /\ Frozen
    BY <1>1, <1>2 DEF InOrder, Recorded, Frozen
  <1>4. bound = {online.recorded}
    OBVIOUS
  <1> HIDE DEF yes, bound
  <1>5. /\ online' = [planned |-> online'.planned, recorded |-> online'.recorded,
                    complete |-> online'.complete, matrix |-> online'.matrix]
        /\ online'.recorded = online.recorded /\ online'.matrix \in {online.matrix, bound}
    <2>1. online = [planned |-> online.planned, recorded |-> online.recorded,
                    complete |-> online.complete, matrix |-> online.matrix]
      BY <1>1 DEF InOrder
    <2>2. CASE online' = [online EXCEPT !.matrix = bound]
      BY <2>1, <2>2
    <2>3. CASE online' = [online EXCEPT !.complete = yes]
      BY <2>1, <2>3
    <2> QED
      BY <1>2, <2>2, <2>3
  <1>6. InOrder'
    <2>1. online'.matrix # {} => online'.matrix = {online.recorded} /\ Last = Online
      BY <1>1, <1>3, <1>4, <1>5 DEF InOrder
    <2>2. pc' # "online" /\ pc' \notin Executing
      BY <1>2 DEF Executing, Replaying, Sealing, Evaluating, Closing
    <2> QED
      BY <1>1, <1>2, <1>3, <1>5, <2>1, <2>2, SameRootsInOrder
  <1>7. RunsCorrect'
    <2>1. RootsCorrect'
      BY <1>1, <1>2 DEF RootsCorrect
    <2>2. pc' \notin Executing
      BY <1>2 DEF Executing, Replaying, Sealing, Evaluating, Closing
    <2> QED
      BY <2>1, <2>2, AtRunElsewhere DEF RunsCorrect
  <1>8. ReferredInOrder'
    <2>1. Last' = Last /\ pc' \notin Referring \cup Referred
      BY <1>2, <1>5 DEF Last, Referring, Referred
    <2> QED
      BY <1>1, <1>2, <2>1, ReferredStays
  <1>9. AggregateInOrder'
    <2>1. final' # {} => Published'
      BY <1>1, <1>2, <1>3, <1>5, PublishedStays DEF AggregateInOrder
    <2> QED
      BY <1>1, <1>2, <1>3, <2>1, AggregateStays
  <1>10. AtAggregate'
    BY <1>2 DEF AtAggregate, Aggregating, Reporting
  <1> QED
    BY <1>3, <1>6, <1>7, <1>8, <1>9, <1>10 DEF IInv, MatrixCorrect, AggregateCorrect

LEMMA CombineOrders ==
  ASSUME IInv, Combine, UNCHANGED stageVars
  PROVE  IInv' /\ Frozen
  <1>1. /\ InOrder /\ ReferredInOrder /\ AggregateInOrder /\ AtAggregate
        /\ RootsCorrect /\ AtRun
    BY DEF IInv, MatrixCorrect, AggregateCorrect, RunsCorrect
  <1>2. /\ pc = "combine" /\ pc' = "off"
        /\ final' = {m \o n : m \in online.matrix, n \in list.matrix} /\ final \subseteq final'
        /\ root' = root /\ host' = host /\ crashes' = crashes
        /\ ref' = ref /\ list' = list /\ online' = online /\ gate' = gate /\ aggregate' = aggregate
    BY DEF Combine, env, refVars, stageVars
  <1>3. /\ Last = Online /\ AllReferred /\ Frozen
    BY <1>1, <1>2 DEF InOrder, ReferredInOrder, Recorded, Referred, Frozen
  <1>4. final' # {} => final' = {Report}
    <2>1. SUFFICES ASSUME final' # {} PROVE final' = {Report}
      OBVIOUS
    <2>2. online.matrix # {} /\ list.matrix # {}
      BY <1>2, <2>1
    <2>3. online.matrix = {online.recorded} /\ list.matrix = {RefReport}
      BY <1>1, <2>2 DEF InOrder, ReferredInOrder
    <2>4. online.recorded = [i \in Runs |-> Evidence(i)]
      BY <1>1, <1>3, Constants DEF InOrder
    <2>5. Report = online.recorded \o RefReport
      BY <2>4 DEF Report, RefReport
    <2> QED
      BY <1>2, <2>3, <2>5
  <1>5. Report' = Report /\ AllReferred' /\ Last' = Online
    BY <1>1, <1>2, <1>3, FrozenReport DEF Last
  <1>6. final' # {} => Published'
    BY <1>4, <1>5 DEF Published, Online
  <1>7. final # {} => final' = final
    BY <1>1, <1>2, <1>4 DEF AggregateInOrder, Published
  <1>8. AggregateInOrder'
    BY <1>1, <1>2, <1>3, <1>6, <1>7, AggregateStays
  <1>9. pc' \notin Executing \cup Recorded \cup Referring \cup Referred /\ pc' # "online"
    BY <1>2 DEF Executing, Replaying, Sealing, Evaluating, Closing, Recorded, Referring, Referred
  <1>10. RunsCorrect'
    BY <1>1, <1>2, <1>9, AtRunElsewhere DEF RunsCorrect, RootsCorrect
  <1>11. InOrder'
    <2>1. /\ online' = [planned |-> online'.planned, recorded |-> online'.recorded,
                      complete |-> online'.complete, matrix |-> online'.matrix]
          /\ online'.matrix # {} => online'.matrix = {online.recorded} /\ Last = Online
      BY <1>1, <1>2 DEF InOrder
    <2> QED
      BY <1>1, <1>2, <1>9, <2>1, SameRootsInOrder
  <1>12. ReferredInOrder'
    BY <1>1, <1>2, <1>3, <1>5, <1>9, ReferredStays
  <1>13. AtAggregate'
    BY <1>2 DEF AtAggregate, Aggregating, Reporting
  <1> QED
    BY <1>3, <1>8, <1>10, <1>11, <1>12, <1>13 DEF IInv, MatrixCorrect, AggregateCorrect

LEMMA FinalStepOrders ==
  ASSUME IInv, FinalStep, UNCHANGED stageVars
  PROVE  IInv' /\ Frozen
  <1>1. CASE RunStep /\ UNCHANGED <<refVars, finalVars>>
    BY <1>1, RunStepOrders
  <1>2. CASE RefStep /\ UNCHANGED finalVars
    BY <1>2, RefStepOrders
  <1>3. CASE \E i \in Runs : Record(i)
    BY <1>3, RecordOrders
  <1> QED
    BY <1>1, <1>2, <1>3, PlanOnlineOrders, PublishOnlineOrders, CombineOrders DEF FinalStep

-----------------------------------------------------------------------------
(* The aggregation.                                                         *)
(* A step of the aggregation writes one file under aggregate/, or none.     *)
LEMMA AggregateFrame ==
  ASSUME IInv, UNCHANGED <<matrixFiles, env, gate>>, pc' \notin Executing \cup Recorded \cup {"online"},
         AggregateTrue(aggregate'), AtAggregate'
  PROVE  IInv' /\ Frozen
  <1>1. /\ root' = root /\ ref' = ref /\ list' = list /\ online' = online /\ final' = final
        /\ host' = host /\ crashes' = crashes /\ gate' = gate
    BY DEF matrixFiles, refVars, finalVars, env
  <1>2. host' \in Hosts /\ crashes' \in 0 .. MaxCrashes
    BY <1>1 DEF IInv, RunsCorrect, RootsCorrect
  <1>3. /\ RunsCorrect' /\ MatrixCorrect' /\ Frozen
        /\ final' # {} => Published'
    BY <1>1, <1>2, OutOfMatrix
  <1>4. (\A i : Evidence(i)' = Evidence(i)) /\ Report' = Report /\ Runs' = Runs
    BY <1>1 DEF Evidence, Report, RefEvidence, References, NoModels, Parts, Runs
  <1>5. AggregateTrue(aggregate)'
    BY <1>1, <1>4 DEF AggregateTrue
  <1> QED
    BY <1>3, <1>5 DEF IInv, AggregateCorrect, AggregateInOrder

LEMMA AtAggregateElsewhere ==
  ASSUME pc' \notin Aggregating \cup {"aggregate"}
  PROVE  AtAggregate'
  BY DEF AtAggregate, Aggregating, Reporting

LEMMA LoadEvidenceKeeps ==
  ASSUME IInv, LoadEvidence
  PROVE  IInv' /\ Frozen
  <1>1. /\ pc = "aggregate" /\ at' = at /\ aggregate' = aggregate
        /\ pc' = IF Online = 0 THEN "input" ELSE "bootstrap"
        /\ gate /\ gate' = gate /\ final # {} /\ final' = final
    BY DEF LoadEvidence, Aggregable, Go, proc, stageVars, matrixFiles, finalVars
  <1>2. at = 1 /\ AggregateTrue(aggregate)
    BY <1>1 DEF IInv, AggregateCorrect, AtAggregate, AggregateInOrder
  <1>3. AtAggregate'
    <2>1. \A k \in Runs : ~(k < 1)
      BY Constants
    <2>2. pc' \notin {"cache", "aggregate"} /\ pc' \notin Reporting \ {"input"}
      BY <1>1 DEF Reporting
    <2>3. Runs' = Runs
      BY DEF Runs
    <2>4. pc' \in Reporting => Runs = {}
      BY <1>1, Constants DEF Reporting
    <2> QED
      BY <1>1, <1>2, <2>1, <2>2, <2>3, <2>4 DEF AtAggregate
  <1>4. pc' \notin Executing \cup Recorded \cup {"online"}
    BY <1>1 DEF Executing, Replaying, Sealing, Evaluating, Closing, Recorded, Referring, Referred
  <1>5. UNCHANGED <<matrixFiles, env, gate>>
    BY DEF LoadEvidence, stageVars
  <1> QED
    BY <1>1, <1>2, <1>3, <1>4, <1>5, AggregateFrame

LEMMA RefusesAggregate ==
  ASSUME IInv, RefuseEvidence \/ RefusePages
  PROVE  IInv' /\ Frozen
  <1>1. pc' = "refused" /\ aggregate' = aggregate /\ UNCHANGED <<matrixFiles, env, gate>>
    BY DEF RefuseEvidence, RefusePages, Refuse, stageVars
  <1>2. pc' \notin Executing \cup Recorded \cup {"online"} /\ pc' \notin Aggregating \cup {"aggregate"}
    BY <1>1 DEF Executing, Replaying, Sealing, Evaluating, Closing, Recorded, Referring, Referred,
                Aggregating, Reporting
  <1>3. AggregateTrue(aggregate)
    BY DEF IInv, AggregateCorrect, AggregateInOrder
  <1> QED
    BY <1>1, <1>2, <1>3, AtAggregateElsewhere, AggregateFrame

LEMMA CacheArrayKeeps ==
  ASSUME IInv, NEW i \in Runs, CacheArray(i)
  PROVE  IInv' /\ Frozen
  <1> DEFINE a == aggregate
             now == [a.array EXCEPT ![i] = {Evidence(i)}]
             b == [a EXCEPT !.array = now]
  <1>1. /\ pc = "bootstrap" /\ pc' = "cache" /\ at = i /\ at' = at /\ a.cache[i] = {}
        /\ aggregate' = b /\ UNCHANGED <<matrixFiles, env, gate>>
    BY DEF CacheArray, Bootstraps, Go, proc, stageVars
  <1>2. AggregateTrue(a) /\ AtAggregate /\ (final # {} => Published)
    BY DEF IInv, AggregateCorrect, AggregateInOrder
  <1>3. gate /\ final # {} /\ gate' = gate /\ final' = final
    BY <1>1, <1>2 DEF AtAggregate, Aggregating, Reporting, matrixFiles, finalVars
  <1>4. pc' \notin Executing \cup Recorded \cup {"online"} /\ (pc' \in Aggregating \/ pc' = "off")
        /\ pc' # "aggregate"
    BY <1>1 DEF Executing, Replaying, Sealing, Evaluating, Closing, Recorded, Referring, Referred,
                Aggregating, Reporting
  <1>5. /\ b = [array |-> b.array, cache |-> b.cache, input |-> b.input,
                report |-> b.report, manifest |-> b.manifest]
        /\ b.array = now
        /\ b.cache = a.cache /\ b.input = a.input /\ b.report = a.report /\ b.manifest = a.manifest
    <2>1. a = [array |-> a.array, cache |-> a.cache, input |-> a.input,
               report |-> a.report, manifest |-> a.manifest]
      BY <1>2 DEF AggregateTrue
    <2> HIDE DEF a
    <2> QED
      BY <2>1
  <1>a. now = [k \in Runs |-> IF k = i THEN {Evidence(i)} ELSE a.array[k]]
    BY <1>2 DEF AggregateTrue
  <1> HIDE DEF a, b, now
  <1>6. AggregateTrue(b)
    <2>1. a.input = {}
      BY <1>1, <1>2 DEF AggregateTrue, a
    <2> QED
      BY <1>1, <1>2, <1>3, <1>5, <1>a, <2>1 DEF AggregateTrue, a
  <1>7. AtAggregate'
    <2>1. aggregate'.cache = a.cache /\ aggregate'.array[i] # {}
      BY <1>1, <1>5, <1>a
    <2>2. at \in Nat /\ \A k \in Runs : k < at => a.cache[k] # {}
      BY <1>1, <1>2 DEF AtAggregate, a
    <2>3. Runs' = Runs /\ pc' \notin Reporting /\ pc' # "aggregate"
      BY <1>1 DEF Runs, Reporting
    <2>4. at' \in Nat /\ \A k \in Runs : k < at' => aggregate'.cache[k] # {}
      BY <1>1, <2>1, <2>2
    <2>5. at' \in Runs /\ aggregate'.array[at'] # {}
      BY <1>1, <2>1
    <2> QED
      BY <1>3, <2>3, <2>4, <2>5 DEF AtAggregate
  <1> QED
    BY <1>1, <1>4, <1>6, <1>7, AggregateFrame

LEMMA CacheManifestKeeps ==
  ASSUME IInv, NEW i \in Runs, CacheManifest(i)
  PROVE  IInv' /\ Frozen
  <1> DEFINE a == aggregate
             now == [a.cache EXCEPT ![i] = a.array[i]]
             b == [a EXCEPT !.cache = now]
  <1>1. /\ pc = "cache" /\ pc' = "bootstrap" /\ at = i /\ at' = at
        /\ aggregate' = b /\ UNCHANGED <<matrixFiles, env, gate>>
    BY DEF CacheManifest, Bootstraps, Go, proc, stageVars
  <1>2. AggregateTrue(a) /\ AtAggregate /\ (final # {} => Published)
    BY DEF IInv, AggregateCorrect, AggregateInOrder
  <1>3. gate /\ final # {} /\ gate' = gate /\ final' = final
    BY <1>1, <1>2 DEF AtAggregate, Aggregating, Reporting, matrixFiles, finalVars
  <1>4. pc' \notin Executing \cup Recorded \cup {"online"} /\ (pc' \in Aggregating \/ pc' = "off")
        /\ pc' # "aggregate"
    BY <1>1 DEF Executing, Replaying, Sealing, Evaluating, Closing, Recorded, Referring, Referred,
                Aggregating, Reporting
  <1>5. /\ b = [array |-> b.array, cache |-> b.cache, input |-> b.input,
                report |-> b.report, manifest |-> b.manifest]
        /\ b.cache = now
        /\ b.array = a.array /\ b.input = a.input /\ b.report = a.report /\ b.manifest = a.manifest
    <2>1. a = [array |-> a.array, cache |-> a.cache, input |-> a.input,
               report |-> a.report, manifest |-> a.manifest]
      BY <1>2 DEF AggregateTrue
    <2> HIDE DEF a
    <2> QED
      BY <2>1
  <1>a. now = [k \in Runs |-> IF k = i THEN a.array[i] ELSE a.cache[k]]
    BY <1>2 DEF AggregateTrue
  <1>b. a.array[i] # {} /\ at \in Nat /\ \A k \in Runs : k < at => a.cache[k] # {}
    BY <1>1, <1>2 DEF AtAggregate
  <1> HIDE DEF a, b, now
  <1>6. AggregateTrue(b)
    BY <1>2, <1>5, <1>a, <1>b DEF AggregateTrue
  <1>7. AtAggregate'
    <2>1. \A k \in Runs : k < at' => aggregate'.cache[k] # {}
      BY <1>1, <1>5, <1>a, <1>b
    <2>2. Runs' = Runs /\ pc' \notin Reporting
      BY <1>1 DEF Runs, Reporting
    <2> QED
      BY <1>1, <1>3, <1>b, <2>1, <2>2 DEF AtAggregate
  <1> QED
    BY <1>1, <1>4, <1>6, <1>7, AggregateFrame

LEMMA UseCacheKeeps ==
  ASSUME IInv, NEW i \in Runs, UseCache(i)
  PROVE  IInv' /\ Frozen
  <1>1. /\ pc = "bootstrap" /\ at = i /\ at' = i + 1 /\ aggregate.cache[i] # {}
        /\ pc' = IF i = Online THEN "input" ELSE "bootstrap"
        /\ aggregate' = aggregate /\ UNCHANGED <<matrixFiles, env, gate>>
    BY DEF UseCache, Bootstraps, stageVars
  <1>2. AggregateTrue(aggregate) /\ AtAggregate
    BY DEF IInv, AggregateCorrect, AggregateInOrder
  <1>3. gate /\ final # {} /\ gate' = gate /\ final' = final
    BY <1>1, <1>2 DEF AtAggregate, Aggregating, Reporting, matrixFiles, finalVars
  <1>4. pc' \notin Executing \cup Recorded \cup {"online"} /\ pc' \in {"bootstrap", "input"}
    BY <1>1 DEF Executing, Replaying, Sealing, Evaluating, Closing, Recorded, Referring, Referred
  <1>5. \A k \in Runs : k < i + 1 => aggregate.cache[k] # {}
    <2>1. \A k \in Runs : k < i => aggregate.cache[k] # {}
      BY <1>1, <1>2 DEF AtAggregate
    <2>2. \A k \in Runs : k < i + 1 => k < i \/ k = i
      BY Constants
    <2> QED
      BY <1>1, <2>1, <2>2
  <1>6. AtAggregate'
    <2>1. at' \in Nat /\ Runs' = Runs
      BY <1>1, Constants DEF Runs
    <2>2. pc' = "input" => \A k \in Runs : aggregate.cache[k] # {}
      BY <1>1, <1>5, Constants
    <2>3. pc' \in Reporting => pc' = "input"
      BY <1>4 DEF Reporting
    <2> QED
      BY <1>1, <1>3, <1>4, <1>5, <2>1, <2>2, <2>3 DEF AtAggregate
  <1> QED
    BY <1>1, <1>2, <1>4, <1>6, AggregateFrame

LEMMA WriteInputKeeps ==
  ASSUME IInv, WriteInput
  PROVE  IInv' /\ Frozen
  <1> DEFINE a == aggregate
             now == {Report}
             b == [a EXCEPT !.input = now]
  <1>1. /\ pc = "input" /\ pc' = "report"
        /\ aggregate' = b /\ UNCHANGED <<matrixFiles, env, gate>>
    BY DEF WriteInput, Bootstraps, Go, proc, stageVars
  <1>2. AggregateTrue(a) /\ AtAggregate /\ (final # {} => Published)
    BY DEF IInv, AggregateCorrect, AggregateInOrder
  <1>3. gate /\ final # {} /\ gate' = gate /\ final' = final
    BY <1>1, <1>2 DEF AtAggregate, Aggregating, Reporting, matrixFiles, finalVars
  <1>4. pc' \notin Executing \cup Recorded \cup {"online"} /\ (pc' \in Aggregating \/ pc' = "off")
        /\ pc' # "aggregate"
    BY <1>1 DEF Executing, Replaying, Sealing, Evaluating, Closing, Recorded, Referring, Referred,
                Aggregating, Reporting
  <1>5. /\ b = [array |-> b.array, cache |-> b.cache, input |-> b.input,
                report |-> b.report, manifest |-> b.manifest]
        /\ b.input = now
        /\ b.array = a.array /\ b.cache = a.cache /\ b.report = a.report /\ b.manifest = a.manifest
    <2>1. a = [array |-> a.array, cache |-> a.cache, input |-> a.input,
               report |-> a.report, manifest |-> a.manifest]
      BY <1>2 DEF AggregateTrue
    <2> HIDE DEF a
    <2> QED
      BY <2>1
  <1>a. (\A k \in Runs : a.cache[k] # {})
    BY <1>1, <1>2 DEF AtAggregate, Reporting
  <1> HIDE DEF a, b
  <1>6. AggregateTrue(b)
    BY <1>2, <1>3, <1>5, <1>a DEF AggregateTrue
  <1>7. AtAggregate'
    <2>1. aggregate'.cache = a.cache /\ aggregate'.input # {} /\ Runs' = Runs
      BY <1>1, <1>5, <1>a DEF Runs
    <2>2. pc' \notin {"bootstrap", "cache"}
      BY <1>1
    <2> QED
      BY <1>3, <1>4, <1>a, <2>1, <2>2 DEF AtAggregate
  <1> QED
    BY <1>1, <1>4, <1>6, <1>7, AggregateFrame

LEMMA RenderPagesKeeps ==
  ASSUME IInv, RenderPages
  PROVE  IInv' /\ Frozen
  <1> DEFINE a == aggregate
             now == "pages"
             b == [a EXCEPT !.report = now]
  <1>1. /\ pc = "report" /\ pc' = "report manifest"
        /\ aggregate' = b /\ UNCHANGED <<matrixFiles, env, gate>>
    BY DEF RenderPages, Bootstraps, Go, proc, stageVars
  <1>2. AggregateTrue(a) /\ AtAggregate /\ (final # {} => Published)
    BY DEF IInv, AggregateCorrect, AggregateInOrder
  <1>3. gate /\ final # {} /\ gate' = gate /\ final' = final
    BY <1>1, <1>2 DEF AtAggregate, Aggregating, Reporting, matrixFiles, finalVars
  <1>4. pc' \notin Executing \cup Recorded \cup {"online"} /\ (pc' \in Aggregating \/ pc' = "off")
        /\ pc' # "aggregate"
    BY <1>1 DEF Executing, Replaying, Sealing, Evaluating, Closing, Recorded, Referring, Referred,
                Aggregating, Reporting
  <1>5. /\ b = [array |-> b.array, cache |-> b.cache, input |-> b.input,
                report |-> b.report, manifest |-> b.manifest]
        /\ b.report = now
        /\ b.array = a.array /\ b.cache = a.cache /\ b.input = a.input /\ b.manifest = a.manifest
    <2>1. a = [array |-> a.array, cache |-> a.cache, input |-> a.input,
               report |-> a.report, manifest |-> a.manifest]
      BY <1>2 DEF AggregateTrue
    <2> HIDE DEF a
    <2> QED
      BY <2>1
  <1>a. (\A k \in Runs : a.cache[k] # {}) /\ a.input # {}
    BY <1>1, <1>2 DEF AtAggregate, Reporting
  <1>b. a.report = "none"
    BY DEF RenderPages
  <1> HIDE DEF a, b
  <1>6. AggregateTrue(b)
    BY <1>2, <1>5, <1>b DEF AggregateTrue
  <1>7. AtAggregate'
    <2>1. aggregate'.cache = a.cache /\ aggregate'.input # {} /\ Runs' = Runs
      BY <1>1, <1>5, <1>a DEF Runs
    <2>2. pc' \notin {"bootstrap", "cache"}
      BY <1>1
    <2> QED
      BY <1>3, <1>4, <1>a, <2>1, <2>2 DEF AtAggregate
  <1> QED
    BY <1>1, <1>4, <1>6, <1>7, AggregateFrame

LEMMA RenderManifestKeeps ==
  ASSUME IInv, RenderManifest
  PROVE  IInv' /\ Frozen
  <1> DEFINE a == aggregate
             now == "complete"
             b == [a EXCEPT !.report = now]
  <1>1. /\ pc = "report manifest" /\ pc' = "report"
        /\ aggregate' = b /\ UNCHANGED <<matrixFiles, env, gate>>
    BY DEF RenderManifest, Bootstraps, Go, proc, stageVars
  <1>2. AggregateTrue(a) /\ AtAggregate /\ (final # {} => Published)
    BY DEF IInv, AggregateCorrect, AggregateInOrder
  <1>3. gate /\ final # {} /\ gate' = gate /\ final' = final
    BY <1>1, <1>2 DEF AtAggregate, Aggregating, Reporting, matrixFiles, finalVars
  <1>4. pc' \notin Executing \cup Recorded \cup {"online"} /\ (pc' \in Aggregating \/ pc' = "off")
        /\ pc' # "aggregate"
    BY <1>1 DEF Executing, Replaying, Sealing, Evaluating, Closing, Recorded, Referring, Referred,
                Aggregating, Reporting
  <1>5. /\ b = [array |-> b.array, cache |-> b.cache, input |-> b.input,
                report |-> b.report, manifest |-> b.manifest]
        /\ b.report = now
        /\ b.array = a.array /\ b.cache = a.cache /\ b.input = a.input /\ b.manifest = a.manifest
    <2>1. a = [array |-> a.array, cache |-> a.cache, input |-> a.input,
               report |-> a.report, manifest |-> a.manifest]
      BY <1>2 DEF AggregateTrue
    <2> HIDE DEF a
    <2> QED
      BY <2>1
  <1>a. (\A k \in Runs : a.cache[k] # {}) /\ a.input # {}
    BY <1>1, <1>2 DEF AtAggregate, Reporting
  <1> HIDE DEF a, b
  <1>6. AggregateTrue(b)
    BY <1>2, <1>5 DEF AggregateTrue
  <1>7. AtAggregate'
    <2>1. aggregate'.cache = a.cache /\ aggregate'.input # {} /\ Runs' = Runs
      BY <1>1, <1>5, <1>a DEF Runs
    <2>2. pc' \notin {"bootstrap", "cache"}
      BY <1>1
    <2> QED
      BY <1>3, <1>4, <1>a, <2>1, <2>2 DEF AtAggregate
  <1> QED
    BY <1>1, <1>4, <1>6, <1>7, AggregateFrame

LEMMA PublishAggregateKeeps ==
  ASSUME IInv, PublishAggregate
  PROVE  IInv' /\ Frozen
  <1> DEFINE a == aggregate
             now == a.input
             b == [a EXCEPT !.manifest = now]
  <1>1. /\ pc = "report" /\ pc' = "off"
        /\ aggregate' = b /\ UNCHANGED <<matrixFiles, env, gate>>
    BY DEF PublishAggregate, Bootstraps, Go, proc, stageVars
  <1>2. AggregateTrue(a) /\ AtAggregate /\ (final # {} => Published)
    BY DEF IInv, AggregateCorrect, AggregateInOrder
  <1>3. gate /\ final # {} /\ gate' = gate /\ final' = final
    BY <1>1, <1>2 DEF AtAggregate, Aggregating, Reporting, matrixFiles, finalVars
  <1>4. pc' \notin Executing \cup Recorded \cup {"online"} /\ (pc' \in Aggregating \/ pc' = "off")
        /\ pc' # "aggregate"
    BY <1>1 DEF Executing, Replaying, Sealing, Evaluating, Closing, Recorded, Referring, Referred,
                Aggregating, Reporting
  <1>5. /\ b = [array |-> b.array, cache |-> b.cache, input |-> b.input,
                report |-> b.report, manifest |-> b.manifest]
        /\ b.manifest = now
        /\ b.array = a.array /\ b.cache = a.cache /\ b.input = a.input /\ b.report = a.report
    <2>1. a = [array |-> a.array, cache |-> a.cache, input |-> a.input,
               report |-> a.report, manifest |-> a.manifest]
      BY <1>2 DEF AggregateTrue
    <2> HIDE DEF a
    <2> QED
      BY <2>1
  <1>a. (\A k \in Runs : a.cache[k] # {}) /\ a.input # {}
    BY <1>1, <1>2 DEF AtAggregate, Reporting
  <1>b. a.report = "complete"
    BY DEF PublishAggregate
  <1> HIDE DEF a, b
  <1>6. AggregateTrue(b)
    BY <1>2, <1>5, <1>a, <1>b DEF AggregateTrue
  <1>7. AtAggregate'
    BY <1>1 DEF AtAggregate, Aggregating, Reporting
  <1> QED
    BY <1>1, <1>4, <1>6, <1>7, AggregateFrame

LEMMA AggregateStepKeeps ==
  ASSUME IInv, AggregateStep
  PROVE  IInv' /\ Frozen
  BY LoadEvidenceKeeps, RefusesAggregate, CacheArrayKeeps, CacheManifestKeeps, UseCacheKeeps,
     WriteInputKeeps, RenderPagesKeeps, RenderManifestKeeps, PublishAggregateKeeps
  DEF AggregateStep

-----------------------------------------------------------------------------
(* The operator, the machine and the crashes.                               *)
WorldStep ==
  \/ Relaunch \/ LaunchAggregate \/ Qualify
  \/ RefuseLock /\ UNCHANGED stageVars
  \/ /\ Crash
     /\ previous' = <<>> /\ next' = 1
     /\ UNCHANGED <<ref, list, finalVars, stageVars>>
  \/ MoveHost /\ UNCHANGED <<refVars, finalVars, stageVars>>

LEMMA WorldKeeps ==
  ASSUME IInv, WorldStep
  PROVE  IInv' /\ Frozen
  <1>1. /\ root' = root /\ ref' = ref /\ list' = list /\ online' = online /\ final' = final
        /\ aggregate' = aggregate
    BY DEF WorldStep, Relaunch, Launch, LaunchAggregate, Qualify, RefuseLock, Refuse, Crash, MoveHost,
           matrixFiles, refVars, finalVars, stageVars, env, proc
  <1>2. gate => gate'
    BY DEF WorldStep, Relaunch, Launch, LaunchAggregate, Qualify, RefuseLock, Crash, MoveHost, stageVars
  <1>3. host' \in Hosts /\ crashes' \in 0 .. MaxCrashes
    <2>1. host \in Hosts /\ crashes \in 0 .. MaxCrashes
      BY DEF IInv, RunsCorrect, RootsCorrect
    <2>2. \/ host' = host /\ crashes' = crashes
          \/ host' = host /\ crashes' = crashes + 1 /\ crashes < MaxCrashes
          \/ host' \in Hosts /\ crashes' = crashes
      BY DEF WorldStep, Relaunch, Launch, LaunchAggregate, Qualify, RefuseLock, Crash, MoveHost,
             matrixFiles, env
    <2> QED
      BY <2>1, <2>2, FinalConstants
  <1>4. /\ pc' \in {"online", "aggregate", "refused", "off"}
        /\ pc' \in {"online", "aggregate"} => at' = 1
    BY DEF WorldStep, Relaunch, Launch, LaunchAggregate, Qualify, RefuseLock, Refuse, Crash, MoveHost, Down
  <1>5. pc' \notin Executing \cup Recorded /\ pc' \notin Aggregating
    BY <1>4 DEF Executing, Replaying, Sealing, Evaluating, Closing, Recorded, Referring, Referred,
                Aggregating, Reporting
  <1>6. RunsCorrect' /\ MatrixCorrect' /\ Frozen /\ AggregateInOrder'
    BY <1>1, <1>2, <1>3, <1>4, <1>5, OutOfMatrix
  <1>7. AtAggregate'
    BY <1>4, <1>5 DEF AtAggregate, Aggregating, Reporting
  <1> QED
    BY <1>6, <1>7 DEF IInv, AggregateCorrect

LEMMA Inductive ==
  ASSUME IInv, [Next]_vars
  PROVE  IInv' /\ Frozen
  <1>1. CASE Next
    <2>1. (FinalStep /\ UNCHANGED stageVars) \/ AggregateStep \/ WorldStep
      BY <1>1 DEF Next, Work, WorldStep
    <2> QED
      BY <2>1, FinalStepOrders, AggregateStepKeeps, WorldKeeps
  <1>2. CASE UNCHANGED vars
    <2>1. /\ root' = root /\ ref' = ref /\ list' = list /\ online' = online /\ final' = final
          /\ host' = host /\ crashes' = crashes /\ gate' = gate /\ aggregate' = aggregate
          /\ pc' = pc /\ at' = at /\ weights' = weights /\ due' = due /\ next' = next
      BY <1>2 DEF vars, runVars, refVars, finalVars, stageVars, proc, env
    <2>2. Frozen
      BY <2>1 DEF Frozen
    <2>3. /\ \A i : Evidence(i)' = Evidence(i) /\ Settled(i)' = Settled(i) /\ RefSettled(i)' = RefSettled(i)
                   /\ Credits(i)' = Credits(i)
          /\ Last' = Last /\ Report' = Report /\ RefReport' = RefReport /\ AllReferred' = AllReferred
          /\ Runs' = Runs /\ Online' = Online
      BY <2>1 DEF Evidence, Settled, RefSettled, Last, Report, RefReport, RefEvidence, AllReferred,
                  NoModels, References, Parts, Runs, Online, Credits
    <2>4. RootsCorrect'
      BY <2>1 DEF IInv, RunsCorrect, RootsCorrect
    <2>5. AtRun'
      BY <2>1, <2>3 DEF IInv, RunsCorrect, AtRun
    <2>6. InOrder'
      BY <2>1, <2>3 DEF IInv, MatrixCorrect, InOrder
    <2>7. ReferredInOrder'
      BY <2>1, <2>3 DEF IInv, MatrixCorrect, ReferredInOrder
    <2>8. AggregateInOrder'
      BY <2>1, <2>3 DEF IInv, AggregateCorrect, AggregateInOrder, AggregateTrue, Published
    <2>9. AtAggregate'
      BY <2>1, <2>3 DEF IInv, AggregateCorrect, AtAggregate
    <2> QED
      BY <2>2, <2>4, <2>5, <2>6, <2>7, <2>8, <2>9 DEF IInv, RunsCorrect, MatrixCorrect, AggregateCorrect
  <1> QED
    BY <1>1, <1>2

-----------------------------------------------------------------------------
(* The places of a launch, the order of the runs and the files of every run *)
(* are as the code means them, whatever it is interrupted by: the inductive *)
(* invariant the three theorems below and the refinement rest on.           *)
THEOREM StageCorrect == Spec => []IInv
  <1>1. IInv /\ [Next]_vars => IInv'
    BY Inductive
  <1> QED
    BY Initially, <1>1, PTL DEF Spec

LEMMA ChainOfIInv == IInv => EvidenceChain
  <1> SUFFICES ASSUME IInv, NEW i \in Runs
               PROVE  LET d == root[i] IN
                 /\ \A m \in d.manifest : d.retention = {} =>
                      /\ d.dirs = AllDirs /\ d.sealed = {"primary", "exposures"}
                      /\ d.snapshots = m.models /\ d.intermediate = m.models
                      /\ d.saved # {} /\ d.exposures = Credits(i)
                 /\ \A r \in d.retention :
                      /\ d.manifest = {r.manifest} /\ d.evaluation = {r.evaluation}
                      /\ d.compact /\ d.array
                 /\ d.compact => d.array
                 /\ i <= Len(online.recorded) => Settled(i) /\ online.recorded[i] = Evidence(i)
    BY DEF EvidenceChain
  <1> DEFINE d == root[i]
  <1>1. TrueRoot(i, d)
    BY DEF IInv, RunsCorrect, RootsCorrect
  <1>2. i <= Len(online.recorded) => Settled(i) /\ online.recorded[i] = Evidence(i)
    BY Constants DEF IInv, MatrixCorrect, InOrder, Last
  <1> HIDE DEF d
  <1>3. \A m \in d.manifest : d.retention = {} =>
          /\ d.dirs = AllDirs /\ d.sealed = {"primary", "exposures"}
          /\ d.snapshots = m.models /\ d.intermediate = m.models
          /\ d.saved # {} /\ d.exposures = Credits(i)
    BY <1>1 DEF TrueRoot, Closed
  <1>4. \A r \in d.retention :
          /\ d.manifest = {r.manifest} /\ d.evaluation = {r.evaluation}
          /\ d.compact /\ d.array
    BY <1>1 DEF TrueRoot, Closed, Open
  <1> QED
    BY <1>1, <1>2, <1>3, <1>4 DEF TrueRoot, d

(* No row-level evidence of a run is removed before its receipt is durable, *)
(* and from then on what the receipt names is what is there: retention      *)
(* (final_executor.py) prunes nothing a relaunch would have to make again.  *)
THEOREM ChainUnbroken == Spec => []EvidenceChain
  BY StageCorrect, ChainOfIInv, PTL

LEMMA SnapshotsOfIInv == IInv => SnapshotsAreTheRun
  <1> SUFFICES ASSUME IInv, NEW i \in Runs
               PROVE  /\ \A f \in Parts : \A w \in root[i].snapshots[f] \cup root[i].intermediate[f] :
                           w.credits = Boundary(i, f) /\ Cardinality(w.hosts) = 1
                      /\ \A e \in root[i].evaluation : \A f \in Parts :
                           /\ e[f] # {}
                           /\ \A w \in e[f] : w.credits = Boundary(i, f) /\ Cardinality(w.hosts) = 1
    BY DEF SnapshotsAreTheRun
  <1> DEFINE d == root[i]
  <1>1. TrueRoot(i, d)
    BY DEF IInv, RunsCorrect, RootsCorrect
  <1> HIDE DEF d
  <1>2. ASSUME NEW models, Right(i, models), NEW f \in Parts, NEW w \in models[f]
        PROVE  w.credits = Boundary(i, f) /\ Cardinality(w.hosts) = 1
    <2>1. PICK h \in Hosts : w = [credits |-> Boundary(i, f), hosts |-> {h}]
      BY <1>2 DEF Right
    <2> QED
      BY <2>1, FS_Singleton
  <1>3. Right(i, d.snapshots) /\ Right(i, d.intermediate)
    BY <1>1 DEF TrueRoot
  <1>4. \A e \in d.evaluation : Right(i, e) /\ \A f \in Parts : e[f] # {}
    BY <1>1 DEF TrueRoot, Open, Closed
  <1> QED
    BY <1>2, <1>3, <1>4 DEF d

(* A snapshot, and every score made with it, is the model after exactly the *)
(* credits of its fraction, trained by one machine: the executor refuses to *)
(* resume a run on another device, and a snapshot written again is compared *)
(* with the one that is there.                                              *)
THEOREM SnapshotsTrue == Spec => []SnapshotsAreTheRun
  BY StageCorrect, SnapshotsOfIInv, PTL

LEMMA ReportAt ==
  /\ Len(Report) = Online + Offline
  /\ \A i \in Runs : Report[i] = Evidence(i)
  <1> DEFINE a == [i \in Runs |-> Evidence(i)]
             b == RefReport
  <1>1. a \in Seq({a[i] : i \in Runs}) /\ Len(a) = Online
    BY Constants
  <1>2. b \in Seq({b[j] : j \in References}) /\ Len(b) = Offline
    BY OfflineConstants DEF References, RefReport
  <1>3. Report = a \o b
    BY DEF Report, RefReport
  <1>4. \A i \in Runs : a[i] = Evidence(i)
    OBVIOUS
  <1> HIDE DEF a, b
  <1> QED
    BY <1>1, <1>2, <1>3, <1>4, Constants

LEMMA ReportOfIInv == IInv => ReportIsOfTheMatrix
  <1> SUFFICES ASSUME IInv, NEW m \in aggregate.manifest
               PROVE  /\ gate /\ final = {m} /\ aggregate.report = "complete"
                      /\ \A i \in Runs : aggregate.cache[i] = {m[i]} /\ aggregate.array[i] = {m[i]}
    BY DEF ReportIsOfTheMatrix
  <1>1. AggregateTrue(aggregate) /\ (final # {} => Published)
    BY DEF IInv, AggregateCorrect, AggregateInOrder
  <1>2. m = Report /\ gate /\ final = {Report} /\ aggregate.report = "complete"
    BY <1>1 DEF AggregateTrue, Published
  <1>3. \A i \in Runs : aggregate.cache[i] = {Evidence(i)} /\ aggregate.array[i] = {Evidence(i)}
    BY <1>1 DEF AggregateTrue
  <1> QED
    BY <1>2, <1>3, ReportAt

(* A report is of the matrix that was published, computed from bootstraps   *)
(* of that evidence and of no other, and only after the quality gate: the   *)
(* files under aggregate/ survive any number of interrupted launches, and   *)
(* each launch compares what it finds with the evidence it has loaded.      *)
THEOREM ReportTrue == Spec => []ReportIsOfTheMatrix
  BY StageCorrect, ReportOfIInv, PTL

-----------------------------------------------------------------------------
(* The stage implements the matrix.                                         *)
OnlineSettled == {i \in Runs : Settled(i)}
OfflineSettled == {j \in References : RefSettled(j)}

(* k online and l offline runs are settled, from the first of each on.      *)
Counted(k, l) ==
  /\ k \in 0 .. Online /\ 1 .. k \subseteq OnlineSettled /\ k + 1 \notin OnlineSettled
  /\ l \in 0 .. Offline /\ 1 .. l \subseteq OfflineSettled /\ l + 1 \notin OfflineSettled

UpTo(k, l) == [i \in 1 .. k |-> Evidence(i)] \o [j \in 1 .. l |-> RefEvidence(j)]

LEMMA Prefix ==
  ASSUME NEW n \in Nat, NEW S \in SUBSET (1 .. n)
  PROVE  \E k \in 0 .. n : 1 .. k \subseteq S /\ k + 1 \notin S
  <1> DEFINE T == {k \in Nat : k + 1 \notin S}
  <1>1. n \in T
    OBVIOUS
  <1>2. T \in SUBSET Nat /\ T # {}
    BY <1>1
  <1> HIDE DEF T
  <1>3. PICK k \in T : \A q \in T : k <= q
    BY <1>2, LeastNatural
  <1>4. k \in Nat /\ k + 1 \notin S /\ k <= n
    BY <1>1, <1>3 DEF T
  <1>5. ASSUME NEW q \in 1 .. k PROVE q \in S
    <2>1. q - 1 \in Nat /\ q - 1 < k /\ k \in Nat /\ (q - 1) + 1 = q
      BY <1>4
    <2>2. q - 1 \notin T
      BY <1>3, <2>1
    <2> QED
      BY <2>1, <2>2 DEF T
  <1> QED
    BY <1>4, <1>5

LEMMA PrefixMax ==
  ASSUME NEW n \in Nat, NEW S, NEW k \in 0 .. n, 1 .. k \subseteq S, k + 1 \notin S
  PROVE  Max({q \in 0 .. n : \A i \in 1 .. q : i \in S}) = k
  <1> DEFINE D == {q \in 0 .. n : \A i \in 1 .. q : i \in S}
  <1>1. k \in D
    OBVIOUS
  <1>2. \A q \in D : q \in Nat /\ q <= k
    <2>1. TAKE q \in D
    <2>2. q > k => k + 1 \in 1 .. q
      OBVIOUS
    <2> QED
      BY <2>2
  <1> HIDE DEF D
  <1>3. \A x \in D : (\A y \in D : x >= y) => x = k
    BY <1>1, <1>2
  <1>4. \A y \in D : k >= y
    BY <1>1, <1>2
  <1>5. Max(D) = k
    BY <1>1, <1>3, <1>4 DEF Max
  <1> QED
    BY <1>5 DEF D

LEMMA CountedRuns ==
  \A k, l : Counted(k, l) => SettledRuns = UpTo(k, l)
  <1> SUFFICES ASSUME NEW k, NEW l, Counted(k, l) PROVE SettledRuns = UpTo(k, l)
    OBVIOUS
  <1> DEFINE Done == {q \in 0 .. Online : \A i \in 1 .. q : Settled(i)}
             RefDone == {q \in 0 .. Offline : \A j \in 1 .. q : RefSettled(j)}
  <1>1. Done = {q \in 0 .. Online : \A i \in 1 .. q : i \in OnlineSettled}
    <2>1. \A q \in 0 .. Online : \A i \in 1 .. q : i \in Runs
      BY Constants
    <2> QED
      BY <2>1 DEF OnlineSettled
  <1>2. RefDone = {q \in 0 .. Offline : \A j \in 1 .. q : j \in OfflineSettled}
    <2>1. \A q \in 0 .. Offline : \A j \in 1 .. q : j \in References
      BY OfflineConstants DEF References
    <2> QED
      BY <2>1 DEF OfflineSettled
  <1>3. Max(Done) = k
    BY <1>1, PrefixMax, Constants DEF Counted
  <1>4. Max(RefDone) = l
    BY <1>2, PrefixMax, OfflineConstants DEF Counted
  <1>5. SettledRuns = [i \in 1 .. Max(Done) |-> Evidence(i)]
                      \o [j \in 1 .. Max(RefDone) |-> RefEvidence(j)]
    BY DEF SettledRuns
  <1> HIDE DEF Done, RefDone
  <1> QED
    BY <1>3, <1>4, <1>5 DEF UpTo

LEMMA SomeCount == \E k, l : Counted(k, l)
  BY Prefix, Constants, OfflineConstants DEF Counted, OnlineSettled, OfflineSettled, References

LEMMA Concatenated ==
  ASSUME NEW k \in Nat, NEW l \in Nat, NEW a, NEW b,
         a = [i \in 1 .. k |-> a[i]], b = [j \in 1 .. l |-> b[j]]
  PROVE  /\ a \o b = [n \in 1 .. k + l |-> (a \o b)[n]]
         /\ \A n \in 1 .. k : (a \o b)[n] = a[n]
         /\ \A n \in 1 .. l : (a \o b)[k + n] = b[n]
  <1>1. a \in Seq({a[i] : i \in 1 .. k} \cup {b[j] : j \in 1 .. l}) /\ Len(a) = k
    OBVIOUS
  <1>2. b \in Seq({a[i] : i \in 1 .. k} \cup {b[j] : j \in 1 .. l}) /\ Len(b) = l
    OBVIOUS
  <1>3. /\ a \o b \in Seq({a[i] : i \in 1 .. k} \cup {b[j] : j \in 1 .. l})
        /\ Len(a \o b) = k + l
    BY <1>1, <1>2
  <1> QED
    BY <1>1, <1>2, <1>3

(* t is s, of length n, with one more element.                              *)
OneMore(s, t, n) ==
  /\ n \in Nat /\ s = [i \in 1 .. n |-> s[i]] /\ t = [i \in 1 .. n + 1 |-> t[i]]
  /\ \A i \in 1 .. n : t[i] = s[i]

LEMMA Extended ==
  ASSUME NEW n, NEW s, NEW t, OneMore(s, t, n)
  PROVE  /\ Len(s) = n /\ Len(t) = n + 1 /\ SubSeq(t, 1, n) = s
  <1> USE DEF OneMore
  <1>1. /\ s \in Seq({s[i] : i \in 1 .. n}) /\ Len(s) = n
        /\ t \in Seq({t[i] : i \in 1 .. n + 1}) /\ Len(t) = n + 1
    OBVIOUS
  <1>2. SubSeq(t, 1, n) = [i \in 1 .. n |-> t[i]]
    BY <1>1
  <1> QED
    BY <1>1, <1>2

(* How a step settles runs: none, the next online run, or the next offline. *)
NoneSettles ==
  /\ \A i \in Runs : Settled(i)' = Settled(i)
  /\ \A j \in References : RefSettled(j)' = RefSettled(j)

RunSettles(i) ==
  /\ i = Last + 1 /\ ~Settled(i) /\ Settled(i)'
  /\ \A k \in Runs : k # i => Settled(k)' = Settled(k)
  /\ \A j \in References : RefSettled(j)' = RefSettled(j)

ReferenceSettles(j) ==
  /\ Last = Online /\ (\A k \in 1 .. j - 1 : RefSettled(k))
  /\ ~RefSettled(j) /\ RefSettled(j)'
  /\ \A k \in References : k # j => RefSettled(k)' = RefSettled(k)
  /\ \A i \in Runs : Settled(i)' = Settled(i)

LEMMA StepSettles ==
  ASSUME IInv, [Next]_vars
  PROVE  \/ NoneSettles
         \/ final' = final /\ \E i \in Runs : RunSettles(i)
         \/ final' = final /\ \E j \in References : ReferenceSettles(j)
  <1>1. InOrder /\ ReferredInOrder /\ RunsCorrect
    BY DEF IInv, MatrixCorrect
  <1>2. CASE RunStep /\ UNCHANGED <<refVars, finalVars>>
    <2>1. PICK i \in Runs : RunMoves(i)
      BY <1>1, <1>2, RunStepKeeps
    <2>2. /\ ref' = ref /\ final' = final /\ i = at /\ at <= Last + 1
      BY <1>1, <1>2, <2>1 DEF refVars, finalVars, RunMoves, InOrder
    <2>3. /\ \A k \in Runs : k # i => Settled(k)' = Settled(k)
          /\ Settled(i) => Settled(i)'
          /\ \A j \in References : RefSettled(j)' = RefSettled(j)
      BY <2>1, <2>2 DEF RunMoves, Settled, RefSettled
    <2>4. ~Settled(i) => i = Last + 1
      BY <1>1, <2>2, Constants DEF InOrder
    <2> QED
      BY <2>2, <2>3, <2>4 DEF NoneSettles, RunSettles, Settled
  <1>3. CASE RefStep /\ UNCHANGED finalVars
    <2>1. /\ root' = root /\ final' = final
      BY <1>3 DEF RefStep, PlanReferences, PublishReferences, CompleteReferences, ReuseReference,
                  Fit, SealReference, JoinReference, RecordReference, finalVars
    <2>2. CASE \E j \in References : JoinReference(j)
      <3>1. PICK j \in References : JoinReference(j)
        BY <2>2
      <3>2. \A k \in References : k # j => ref'[k] = ref[k]
        BY <3>1 DEF JoinReference, ReferredInOrder
      <3>3. pc = "reference" /\ next = j /\ ~RefSettled(j)
        BY <3>1 DEF JoinReference, RefStage
      <3>4. Last = Online /\ \A k \in 1 .. j - 1 : RefSettled(k)
        BY <1>1, <3>3 DEF InOrder, ReferredInOrder, Recorded, Referring
      <3> QED
        BY <2>1, <3>2, <3>3, <3>4 DEF NoneSettles, ReferenceSettles, Settled, RefSettled
    <2>3. CASE \E j \in References : Fit(j) \/ SealReference(j)
      <3>1. PICK j \in References : Fit(j) \/ SealReference(j)
        BY <2>3
      <3>2. /\ ref = [k \in References |-> ref[k]]
            /\ ref[j] = [array |-> ref[j].array, manifest |-> ref[j].manifest, evaluation |-> ref[j].evaluation]
        BY <1>1 DEF ReferredInOrder
      <3>3. \E file : ref' = [ref EXCEPT ![j] = file] /\ file.evaluation = ref[j].evaluation
        BY <3>1, <3>2 DEF Fit, SealReference
      <3>4. \A k \in References : ref'[k].evaluation = ref[k].evaluation
        BY <3>2, <3>3
      <3> QED
        BY <2>1, <3>4 DEF NoneSettles, Settled, RefSettled
    <2>4. CASE ref' = ref
      BY <2>1, <2>4 DEF NoneSettles, Settled, RefSettled
    <2> QED
      BY <1>3, <2>2, <2>3, <2>4
      DEF RefStep, PlanReferences, PublishReferences, CompleteReferences, ReuseReference,
          RecordReference, refVars
  <1>4. CASE root' = root /\ ref' = ref
    BY <1>4 DEF NoneSettles, Settled, RefSettled
  <1>5. \/ RunStep /\ UNCHANGED <<refVars, finalVars>>
        \/ RefStep /\ UNCHANGED finalVars
        \/ root' = root /\ ref' = ref
    <2>1. CASE AggregateStep
      BY <2>1 DEF AggregateStep, LoadEvidence, RefuseEvidence, WriteInput, RenderPages, RefusePages,
                  RenderManifest, PublishAggregate, CacheArray, CacheManifest, UseCache,
                  matrixFiles, refVars
    <2>2. CASE WorldStep
      BY <2>2 DEF WorldStep, Relaunch, Launch, LaunchAggregate, Qualify, RefuseLock, Crash, MoveHost,
                  matrixFiles, refVars, finalVars, stageVars
    <2>3. CASE FinalStep
      <3>1. CASE PlanOnline \/ PublishOnline \/ CompleteOnline
        BY <3>1 DEF PlanOnline, PublishOnline, CompleteOnline, refVars
      <3>2. CASE Combine
        BY <3>2 DEF Combine, refVars
      <3>3. CASE \E i \in Runs : Record(i)
        BY <3>3 DEF Record, refVars
      <3> QED
        BY <2>3, <3>1, <3>2, <3>3 DEF FinalStep
    <2>4. CASE UNCHANGED vars
      BY <2>4 DEF vars, runVars, refVars
    <2> QED
      BY <2>1, <2>2, <2>3, <2>4 DEF Next, Work, WorldStep
  <1> QED
    BY <1>2, <1>3, <1>4, <1>5

LEMMA BoundaryInRange ==
  ASSUME NEW i \in Runs, NEW f \in Parts
  PROVE  Boundary(i, f) \in 0 .. Days
  <1> DEFINE c == Credits(i)
  <1>1. c \in Nat /\ c <= Days /\ Days \in Nat
    <2>1. Schedule[i] \in SUBSET (1 .. Days) /\ Days \in Nat
      BY FinalConstants DEF Runs
    <2>2. IsFiniteSet(1 .. Days) /\ Cardinality(1 .. Days) = Days
      BY <2>1, FS_Interval
    <2>3. IsFiniteSet(Schedule[i]) /\ Cardinality(Schedule[i]) <= Days
      BY <2>1, <2>2, FS_Subset
    <2> QED
      BY <2>1, <2>3, FS_CardinalityType DEF Credits
  <1>2. f \in Nat /\ f <= Fractions /\ Fractions \in Nat /\ Fractions > 0
    BY FinalConstants DEF Parts
  <1> HIDE DEF c
  <1>3. f * c \in Nat /\ f * c <= Fractions * c
    BY <1>1, <1>2
  <1>4. /\ f * c + Fractions - 1 \in Nat
        /\ f * c + Fractions - 1 < Fractions * (c + 1)
    BY <1>1, <1>2, <1>3
  <1>5. \A n, q, k \in Nat : q > 0 /\ n < q * (k + 1) => n \div q \in 0 .. k
    OBVIOUS
  <1>6. (f * c + Fractions - 1) \div Fractions \in 0 .. c
    BY <1>1, <1>2, <1>4, <1>5
  <1> QED
    BY <1>1, <1>6 DEF Boundary, c

LEMMA OutcomesOfIInv ==
  IInv => /\ \A i \in Runs : Settled(i) => Evidence(i) \in AllEvidence
          /\ \A j \in References : RefSettled(j) => RefEvidence(j) \in AllEvidence
  <1> SUFFICES ASSUME IInv
               PROVE  /\ \A i \in Runs : Settled(i) => Evidence(i) \in AllEvidence
                      /\ \A j \in References : RefSettled(j) => RefEvidence(j) \in AllEvidence
    OBVIOUS
  <1>1. ASSUME NEW i \in Runs, Settled(i) PROVE Evidence(i) \in AllEvidence
    <2> DEFINE d == root[i]
               q == CHOOSE r \in d.retention : TRUE
    <2>1. TrueRoot(i, d) /\ d.retention # {}
      BY <1>1 DEF IInv, RunsCorrect, RootsCorrect, Settled
    <2>a. Evidence(i) = [launch |-> q.manifest.launch, models |-> q.evaluation]
      BY DEF Evidence
    <2> HIDE DEF d
    <2>2. PICK m \in d.manifest : Closed(i, d, m)
      BY <2>1 DEF TrueRoot, Open
    <2>3. d.retention = {[manifest |-> m, evaluation |-> m.models]}
      BY <2>1, <2>2 DEF Closed
    <2>4. q = [manifest |-> m, evaluation |-> m.models]
      BY <2>3
    <2> HIDE DEF q
    <2>5. Evidence(i) = [launch |-> m.launch, models |-> m.models]
      BY <2>4, <2>a
    <2>6. m.launch \in 1 .. MaxCrashes + 1 /\ Right(i, m.models)
      BY <2>2 DEF Closed
    <2>7. \A f \in Parts : m.models[f] \in SUBSET [credits : 0 .. Days, hosts : SUBSET Hosts]
      BY <2>6, BoundaryInRange DEF Right
    <2>8. m.models \in [Parts -> SUBSET [credits : 0 .. Days, hosts : SUBSET Hosts]]
      BY <2>6, <2>7 DEF Right
    <2> QED
      BY <2>5, <2>6, <2>8 DEF AllEvidence
  <1>2. ASSUME NEW j \in References, RefSettled(j) PROVE RefEvidence(j) \in AllEvidence
    <2>1. (CHOOSE e \in ref[j].evaluation : TRUE) \in 1 .. MaxCrashes + 1
      BY <1>2 DEF IInv, MatrixCorrect, ReferredInOrder, RefSettled
    <2>2. NoModels \in [Parts -> SUBSET [credits : 0 .. Days, hosts : SUBSET Hosts]]
      BY DEF NoModels
    <2> QED
      BY <2>1, <2>2 DEF RefEvidence, AllEvidence
  <1> QED
    BY <1>1, <1>2

LEMMA FinalSteps ==
  ASSUME IInv, IInv', [Next]_vars
  PROVE  \/ final' = final
         \/ final = {} /\ Published' /\ root' = root /\ ref' = ref
  <1>1. CASE Combine
    <2>1. (final # {} => final = {Report}) /\ (final' # {} => Published' /\ final' = {Report'})
      BY DEF IInv, AggregateCorrect, AggregateInOrder, Published
    <2>2. root' = root /\ ref' = ref /\ final \subseteq final'
      BY <1>1 DEF Combine, refVars
    <2> QED
      BY <2>1, <2>2
  <1>2. CASE FinalStep /\ ~Combine
    <2>1. CASE PlanOnline \/ PublishOnline \/ CompleteOnline
      BY <2>1 DEF PlanOnline, PublishOnline, CompleteOnline
    <2>2. CASE \E i \in Runs : Record(i)
      BY <2>2 DEF Record
    <2> QED
      BY <1>2, <2>1, <2>2 DEF FinalStep, finalVars
  <1>3. CASE AggregateStep
    BY <1>3 DEF AggregateStep, LoadEvidence, RefuseEvidence, WriteInput, RenderPages, RefusePages,
                RenderManifest, PublishAggregate, CacheArray, CacheManifest, UseCache,
                matrixFiles, finalVars
  <1>4. CASE WorldStep
    BY <1>4 DEF WorldStep, Relaunch, Launch, LaunchAggregate, Qualify, RefuseLock, Crash, MoveHost,
                matrixFiles, refVars, finalVars, stageVars
  <1>5. CASE UNCHANGED vars
    BY <1>5 DEF vars, finalVars
  <1> QED
    BY <1>1, <1>2, <1>3, <1>4, <1>5 DEF Next, Work, WorldStep

LEMMA UpToAt ==
  \A k \in Nat, l \in Nat :
    /\ UpTo(k, l) = [n \in 1 .. k + l |-> UpTo(k, l)[n]]
    /\ \A n \in 1 .. k : UpTo(k, l)[n] = Evidence(n)
    /\ \A n \in 1 .. l : UpTo(k, l)[k + n] = RefEvidence(n)
  <1> TAKE k \in Nat, l \in Nat
  <1> DEFINE a == [i \in 1 .. k |-> Evidence(i)]
             b == [j \in 1 .. l |-> RefEvidence(j)]
  <1>1. /\ a = [i \in 1 .. k |-> a[i]] /\ b = [j \in 1 .. l |-> b[j]]
        /\ (\A n \in 1 .. k : a[n] = Evidence(n)) /\ \A n \in 1 .. l : b[n] = RefEvidence(n)
    OBVIOUS
  <1>2. UpTo(k, l) = a \o b
    BY DEF UpTo
  <1> HIDE DEF a, b
  <1> QED
    BY <1>1, <1>2, Concatenated

LEMMA NoneSettlesMaps ==
  ASSUME IInv, IInv', [Next]_vars, Frozen, NoneSettles
  PROVE  [Matrix!Next]_<<SettledRuns, final>>
  <1>1. SettledRuns' = SettledRuns
    <2>1. PICK k, l : Counted(k, l)
      BY SomeCount
    <2>2. Counted(k, l)'
      <3>1. OnlineSettled' = OnlineSettled /\ OfflineSettled' = OfflineSettled
        BY DEF NoneSettles, OnlineSettled, OfflineSettled, Runs, References
      <3> QED
        BY <2>1, <3>1 DEF Counted, Online
    <2>3. UpTo(k, l)' = UpTo(k, l)
      <3>1. \A i \in 1 .. k : Evidence(i)' = Evidence(i)
        BY <2>1, FrozenEvidence DEF Counted, OnlineSettled
      <3>2. \A j \in 1 .. l : RefEvidence(j)' = RefEvidence(j)
        BY <2>1, FrozenEvidence DEF Counted, OfflineSettled
      <3> QED
        BY <3>1, <3>2 DEF UpTo
    <2>4. CountedRuns'
      BY CountedRuns, PTL
    <2> QED
      BY <2>1, <2>2, <2>3, <2>4, CountedRuns DEF CountedRuns
  <1>2. CASE final' = final
    BY <1>1, <1>2
  <1>3. CASE final = {} /\ Published' /\ root' = root /\ ref' = ref
    <2>1. Counted(Online, Offline)
      <3>1. Last' = Online /\ AllReferred'
        BY <1>3 DEF Published, Online
      <3>2. \A i \in Runs : Settled(i)
        BY <3>1, Constants DEF IInv, MatrixCorrect, InOrder, NoneSettles, Runs
      <3>3. \A j \in References : RefSettled(j)
        BY <3>1 DEF AllReferred, NoneSettles, References
      <3> QED
        BY <3>2, <3>3, Constants, OfflineConstants DEF Counted, OnlineSettled, OfflineSettled, References
    <2>2. SettledRuns = Report
      BY <2>1, CountedRuns, Constants DEF UpTo, Report, References
    <2>3. final' = {Report'} /\ Report' = Report
      BY <1>3 DEF Published, Report, Evidence, RefEvidence, NoModels, Runs, References
    <2>4. Len(SettledRuns) = Online + Offline
      BY <2>2, ReportAt
    <2> QED
      BY <1>1, <1>3, <2>2, <2>3, <2>4 DEF Matrix!Next, Matrix!Publish
  <1> QED
    BY <1>2, <1>3, FinalSteps

LEMMA RunSettlesMaps ==
  ASSUME IInv, IInv', Frozen, NEW i \in Runs, RunSettles(i), final' = final
  PROVE  Matrix!Settle
  <1>1. InOrder /\ ReferredInOrder /\ Last \in Nat /\ i \in Nat /\ i <= Online /\ Last = i - 1
    BY Constants DEF IInv, MatrixCorrect, InOrder, RunSettles
  <1>2. \A j \in References : ~RefSettled(j) /\ ~RefSettled(j)'
    <2>1. Last # Online
      BY <1>1, Constants
    <2>2. \A j \in References : ~RefSettled(j)
      BY <1>1, <2>1 DEF ReferredInOrder
    <2> QED
      BY <2>2 DEF RunSettles
  <1>3. Counted(i - 1, 0)
    <2>1. 1 .. i - 1 \subseteq OnlineSettled /\ i \notin OnlineSettled
      BY <1>1, Constants DEF OnlineSettled, InOrder, RunSettles
    <2>2. 1 \notin OfflineSettled
      BY <1>2 DEF OfflineSettled
    <2> QED
      BY <1>1, <2>1, <2>2, OfflineConstants, Constants DEF Counted
  <1>4. Counted(i, 0)'
    <2>1. /\ 1 .. i \subseteq OnlineSettled' /\ i + 1 \notin OnlineSettled'
      <3>1. \A k \in 1 .. i : k \in Runs /\ Settled(k)'
        BY <1>1, Constants DEF InOrder, RunSettles
      <3>2. i + 1 \in Runs => ~Settled(i + 1)'
        BY <1>1, Constants DEF InOrder, RunSettles
      <3> QED
        BY <3>1, <3>2 DEF OnlineSettled, Runs
    <2>2. 1 \notin OfflineSettled'
      BY <1>2 DEF OfflineSettled, References
    <2>3. Online' = Online /\ 1 .. 0 = {}
      BY DEF Online
    <2> QED
      BY <1>1, <2>1, <2>2, <2>3, OfflineConstants, Constants DEF Counted
  <1>5. SettledRuns = UpTo(i - 1, 0) /\ SettledRuns' = UpTo(i, 0)'
    <2>1. CountedRuns'
      BY CountedRuns, PTL
    <2> QED
      BY <1>3, <1>4, <2>1, CountedRuns DEF CountedRuns
  <1> DEFINE s == SettledRuns
             t == SettledRuns'
  <1>6. /\ s = [n \in 1 .. i - 1 |-> s[n]] /\ t = [n \in 1 .. (i - 1) + 1 |-> t[n]]
        /\ \A n \in 1 .. i - 1 : s[n] = Evidence(n)
        /\ \A n \in 1 .. i : t[n] = Evidence(n)'
    <2>1. UpToAt'
      BY UpToAt, PTL
    <2>2. i - 1 \in Nat /\ (i - 1) + 0 = i - 1 /\ i + 0 = (i - 1) + 1 /\ 0 \in Nat /\ i \in Nat
      BY <1>1, Constants
    <2>3. /\ s = [n \in 1 .. (i - 1) + 0 |-> s[n]]
          /\ \A n \in 1 .. i - 1 : s[n] = Evidence(n)
      BY <1>5, <2>2, UpToAt
    <2>4. /\ t = [n \in 1 .. i + 0 |-> t[n]]
          /\ \A n \in 1 .. i : t[n] = Evidence(n)'
      BY <1>5, <2>1, <2>2 DEF UpToAt
    <2> QED
      BY <2>2, <2>3, <2>4
  <1>7. \A n \in 1 .. i - 1 : Evidence(n)' = Evidence(n)
    BY <1>1, Constants, FrozenEvidence DEF InOrder
  <1>8. Evidence(i)' \in AllEvidence
    <2>1. OutcomesOfIInv'
      BY OutcomesOfIInv, PTL
    <2> QED
      BY <2>1 DEF OutcomesOfIInv, RunSettles, Runs, AllEvidence, Parts
  <1> HIDE DEF s, t
  <1>9. ASSUME NEW n \in 1 .. i - 1 PROVE t[n] = s[n]
    <2>1. n \in 1 .. i
      BY <1>1
    <2>2. s[n] = Evidence(n) /\ t[n] = Evidence(n)'
      BY <1>6, <2>1
    <2> QED
      BY <1>7, <2>2
  <1>10. i - 1 \in Nat
    BY <1>1, Constants
  <1>11. OneMore(s, t, i - 1)
    BY <1>6, <1>9, <1>10 DEF OneMore
  <1>12. /\ Len(s) = i - 1 /\ Len(t) = (i - 1) + 1 /\ SubSeq(t, 1, i - 1) = s
    BY <1>11, Extended
  <1>13. i \in 1 .. i /\ (i - 1) + 1 = i /\ i - 1 < Online + Offline
    BY <1>1, Constants, OfflineConstants
  <1>14. t[(i - 1) + 1] \in AllEvidence
    BY <1>6, <1>8, <1>13
  <1> QED
    BY <1>12, <1>13, <1>14 DEF Matrix!Settle, s, t

LEMMA ReferenceSettlesMaps ==
  ASSUME IInv, IInv', Frozen, NEW j \in References, ReferenceSettles(j), final' = final
  PROVE  Matrix!Settle
  <1>1. /\ InOrder /\ ReferredInOrder /\ Last = Online /\ Online \in Nat
        /\ j \in Nat /\ j <= Offline /\ j >= 1 /\ Offline \in Nat
    BY Constants, OfflineConstants DEF IInv, MatrixCorrect, ReferenceSettles, References
  <1>2. \A i \in Runs : Settled(i) /\ Settled(i)' /\ Evidence(i)' = Evidence(i)
    BY <1>1, FrozenEvidence, Constants DEF InOrder
  <1>3. Counted(Online, j - 1)
    <2>1. 1 .. Online \subseteq OnlineSettled /\ Online + 1 \notin OnlineSettled
      BY <1>2, Constants DEF OnlineSettled
    <2>2. /\ 1 .. j - 1 \subseteq OfflineSettled /\ j \notin OfflineSettled
      BY RefTyped DEF OfflineSettled, ReferenceSettles
    <2> QED
      BY <1>1, <2>1, <2>2 DEF Counted
  <1>4. Counted(Online, j)'
    <2>1. 1 .. Online \subseteq OnlineSettled' /\ Online + 1 \notin OnlineSettled'
      BY <1>2, Constants DEF OnlineSettled, Runs
    <2>2. 1 .. j \subseteq OfflineSettled'
      <3>1. \A k \in 1 .. j - 1 : k \in References /\ RefSettled(k)'
        BY RefTyped DEF ReferenceSettles
      <3>2. \A k \in 1 .. j : k = j \/ k \in 1 .. j - 1
        BY <1>1
      <3> QED
        BY <3>1, <3>2 DEF OfflineSettled, ReferenceSettles, References
    <2>3. j + 1 \notin OfflineSettled'
      <3>1. j + 1 \in References => ~RefSettled(j + 1)
        <4>1. j \in 1 .. (j + 1) - 1 /\ j + 1 # j
          BY <1>1
        <4> QED
          BY <1>1, <4>1 DEF ReferredInOrder, ReferenceSettles
      <3>2. j + 1 \in References => ~RefSettled(j + 1)'
        BY <1>1, <3>1 DEF ReferenceSettles
      <3> QED
        BY <3>2 DEF OfflineSettled, References
    <2> QED
      BY <1>1, <2>1, <2>2, <2>3 DEF Counted, Online
  <1>5. SettledRuns = UpTo(Online, j - 1) /\ SettledRuns' = UpTo(Online, j)'
    <2>1. CountedRuns'
      BY CountedRuns, PTL
    <2> QED
      BY <1>3, <1>4, <2>1, CountedRuns DEF CountedRuns, Online
  <1> DEFINE s == SettledRuns
             t == SettledRuns'
             m == Online + (j - 1)
  <1>6. /\ s = [n \in 1 .. m |-> s[n]] /\ t = [n \in 1 .. m + 1 |-> t[n]]
        /\ \A n \in 1 .. Online : s[n] = Evidence(n) /\ t[n] = Evidence(n)'
        /\ \A n \in 1 .. j - 1 : s[Online + n] = RefEvidence(n)
        /\ \A n \in 1 .. j : t[Online + n] = RefEvidence(n)'
    <2>1. UpToAt'
      BY UpToAt, PTL
    <2>2. j - 1 \in Nat /\ j \in Nat /\ Online \in Nat /\ m + 1 = Online + j
      BY <1>1
    <2>3. /\ s = [n \in 1 .. m |-> s[n]]
          /\ \A n \in 1 .. Online : s[n] = Evidence(n)
          /\ \A n \in 1 .. j - 1 : s[Online + n] = RefEvidence(n)
      BY <1>5, <2>2, UpToAt
    <2>4. /\ t = [n \in 1 .. Online + j |-> t[n]]
          /\ \A n \in 1 .. Online : t[n] = Evidence(n)'
          /\ \A n \in 1 .. j : t[Online + n] = RefEvidence(n)'
      BY <1>5, <2>1, <2>2 DEF UpToAt, Online
    <2> QED
      BY <2>2, <2>3, <2>4
  <1>7. \A n \in 1 .. Online : Evidence(n)' = Evidence(n)
    BY <1>2, Constants
  <1>8. \A n \in 1 .. j - 1 : RefEvidence(n)' = RefEvidence(n)
    BY FrozenEvidence, RefTyped DEF ReferenceSettles
  <1>9. RefEvidence(j)' \in AllEvidence
    <2>1. OutcomesOfIInv'
      BY OutcomesOfIInv, PTL
    <2> QED
      BY <2>1 DEF OutcomesOfIInv, ReferenceSettles, References, AllEvidence, Parts
  <1> HIDE DEF s, t
  <1>10. m \in Nat
    BY <1>1
  <1>11. ASSUME NEW n \in 1 .. m PROVE t[n] = s[n]
    <2>1. CASE n \in 1 .. Online
      BY <1>6, <1>7, <2>1
    <2>2. CASE n \notin 1 .. Online
      <3>1. n - Online \in 1 .. j - 1 /\ n - Online \in 1 .. j /\ n = Online + (n - Online)
        BY <1>1, <1>11, <2>2
      <3>2. s[Online + (n - Online)] = RefEvidence(n - Online)
        BY <1>6, <3>1
      <3>3. t[Online + (n - Online)] = RefEvidence(n - Online)'
        BY <1>6, <3>1
      <3> QED
        BY <1>8, <3>1, <3>2, <3>3
    <2> QED
      BY <2>1, <2>2
  <1>12. t[m + 1] = RefEvidence(j)'
    <2>1. j \in 1 .. j /\ m + 1 = Online + j
      BY <1>1
    <2>2. t[Online + j] = RefEvidence(j)'
      BY <1>6, <2>1
    <2> QED
      BY <2>1, <2>2
  <1>13. m < Online + Offline
    BY <1>1
  <1> HIDE DEF m
  <1>14. OneMore(s, t, m)
    BY <1>6, <1>10, <1>11 DEF OneMore
  <1>15. Len(s) = m /\ Len(t) = m + 1 /\ SubSeq(t, 1, m) = s
    BY <1>14, Extended
  <1>16. t[m + 1] \in AllEvidence
    BY <1>9, <1>12
  <1> QED
    BY <1>13, <1>15, <1>16 DEF Matrix!Settle, s, t

LEMMA NothingSettled == Init => Matrix!Init
  <1> SUFFICES ASSUME Init PROVE SettledRuns = <<>> /\ final = {}
    BY DEF Matrix!Init
  <1>1. \A i \in Runs : ~Settled(i)
    BY DEF Init, RunInit, EmptyRoot, Settled
  <1>2. \A j \in References : ~RefSettled(j)
    BY DEF Init, RefInit, RefSettled
  <1>3. Counted(0, 0)
    BY <1>1, <1>2, Constants, OfflineConstants DEF Counted, OnlineSettled, OfflineSettled
  <1>4. UpTo(0, 0) = <<>>
    BY DEF UpTo
  <1> QED
    BY <1>3, <1>4, CountedRuns DEF Init, FinalInit

(* The stage, however often it is interrupted, restarted and moved, settles *)
(* its runs in the frozen order, never changes what a run settled on, and   *)
(* publishes exactly the settled matrix, once.                              *)
THEOREM StageImplementsMatrix == Spec => ImplementsMatrix
  <1>1. IInv /\ [Next]_vars => IInv' /\ [Matrix!Next]_<<SettledRuns, final>>
    <2> SUFFICES ASSUME IInv, [Next]_vars
                 PROVE  IInv' /\ [Matrix!Next]_<<SettledRuns, final>>
      OBVIOUS
    <2>1. IInv' /\ Frozen
      BY Inductive
    <2> QED
      BY <2>1, StepSettles, NoneSettlesMaps, RunSettlesMaps, ReferenceSettlesMaps DEF Matrix!Next
  <1>2. Init => IInv /\ Matrix!Init
    BY Initially, NothingSettled
  <1> QED
    BY <1>1, <1>2, PTL DEF Spec, ImplementsMatrix, Matrix!Spec, Matrix!matrixVars

-----------------------------------------------------------------------------
(* A launch goes on: what the guards of its steps ask of the files is there, *)
(* and it is refused for the reasons of Blocked and Retried only.            *)

(* Credits of run i up to day n.                                            *)
Spent(i, n) == Cardinality({k \in Schedule[i] : k <= n})

(* An open run may be replayed from what it has: its checkpoint is of the   *)
(* credits of its day, no ledger is behind it, and the snapshots are those  *)
(* of its machine, up to its credits at least.                              *)
Resumable(i, d, s) ==
  /\ s.day \in 1 .. Days + 1 /\ s.weights.credits = Spent(i, s.day)
  /\ s.weights.credits <= d.exposures
  /\ \A t \in d.saved : t.host = s.host
  /\ \A f \in Parts :
       /\ \A w \in d.snapshots[f] : w.hosts = {s.host}
       /\ Boundary(i, f) <= s.weights.credits => d.snapshots[f] # {}

Replayable(i, d) ==
  d.manifest = {} =>
    /\ d.exposures \in 0 .. Credits(i)
    /\ d.dirs = {} => \A f \in Parts : d.snapshots[f] = {}
    /\ \A s \in d.saved : Resumable(i, d, s)

AllReplayable == \A i \in Runs : Replayable(i, root[i])

(* What a place in the launch, with next day n, model w and snapshots u     *)
(* due, on machine h, knows of its run.                                     *)
Replays(place, i, d, w, u, h) ==
  /\ w.credits \in 0 .. Credits(i) /\ w.credits <= d.exposures
  /\ \A s \in d.saved : s.host = h
  /\ \A f \in Parts :
       /\ \A m \in d.snapshots[f] : m.hosts = {h}
       /\ Boundary(i, f) <= w.credits =>
            d.snapshots[f] # {} \/ (place = "snapshot" /\ f \in u)

OnDay(place, i, n, w) ==
  /\ place = "replay" => n \in 1 .. Days /\ w.credits = Spent(i, n - 1)
  /\ place \in {"snapshot", "save"} => n \in 1 .. Days /\ w.credits = Spent(i, n)
  /\ place \in Sealing => w.credits = Credits(i)

FitsRun(place, i, d, n, w, u, h) ==
  /\ place \in Replaying => Replays(place, i, d, w, u, h) /\ OnDay(place, i, n, w)
  /\ place \in {"score", "retain"} => d.compact
  /\ place = "retain" => d.evaluation # {}

AtReplay == FitsRun(pc, at, root[at], day, weights, due, host)
RunsAble == AllReplayable /\ AtReplay

LEMMA SpentNext ==
  ASSUME NEW i \in Runs
  PROVE  /\ Credits(i) \in Nat \ {0} /\ Spent(i, 0) = 0 /\ Days \in Nat \ {0}
         /\ \A n \in Nat : Spent(i, n) \in 0 .. Credits(i)
         /\ \A n \in 1 .. Days : Spent(i, n) = Spent(i, n - 1) + (IF n \in Schedule[i] THEN 1 ELSE 0)
         /\ \A n \in Nat : n >= Days => Spent(i, n) = Credits(i)
  <1> DEFINE S == Schedule[i]
             Upto(n) == {k \in S : k <= n}
  <1>1. Days \in Nat \ {0} /\ S \in SUBSET (1 .. Days) /\ S # {}
    BY FinalConstants DEF Runs
  <1>2. IsFiniteSet(S)
    BY <1>1, FS_Interval, FS_Subset
  <1> HIDE DEF S
  <1>a. \A k \in S : k \in Nat /\ k >= 1 /\ k <= Days
    BY <1>1
  <1>3. \A n \in Nat : Upto(n) \in SUBSET S
    OBVIOUS
  <1>4. \A n \in Nat : IsFiniteSet(Upto(n)) /\ Cardinality(Upto(n)) <= Cardinality(S)
    BY <1>2, <1>3, FS_Subset
  <1>5. \A n \in Nat : Cardinality(Upto(n)) \in Nat
    BY <1>4, FS_CardinalityType
  <1>6. Cardinality(S) \in Nat /\ Cardinality(S) # 0
    BY <1>1, <1>2, FS_CardinalityType, FS_EmptySet
  <1>7. Upto(0) = {}
    BY <1>a
  <1>8. Cardinality(Upto(0)) = 0
    BY <1>7, FS_EmptySet
  <1>9. ASSUME NEW n \in 1 .. Days
        PROVE  Cardinality(Upto(n)) = Cardinality(Upto(n - 1)) + (IF n \in S THEN 1 ELSE 0)
    <2>1. n - 1 \in Nat /\ n \notin Upto(n - 1) /\ n \in Nat /\ \A k \in Nat : k <= n <=> k <= n - 1 \/ k = n
      BY <1>1
    <2>2. CASE n \in S
      <3>1. Upto(n) = Upto(n - 1) \cup {n}
        BY <1>a, <2>1, <2>2
      <3>2. IsFiniteSet(Upto(n - 1))
        BY <1>4, <2>1
      <3> HIDE DEF Upto
      <3> QED
        BY <2>1, <2>2, <3>1, <3>2, FS_AddElement
    <2>3. CASE n \notin S
      <3>1. Upto(n) = Upto(n - 1)
        BY <1>a, <2>1, <2>3
      <3>2. Cardinality(Upto(n - 1)) \in Nat
        BY <1>5, <2>1
      <3> HIDE DEF Upto
      <3> QED
        BY <2>3, <3>1, <3>2
    <2> QED
      BY <2>2, <2>3
  <1>10. ASSUME NEW n \in Nat, n >= Days PROVE Upto(n) = S
    <2>1. \A k \in S : k <= n
      BY <1>1, <1>a, <1>10
    <2> QED
      BY <2>1
  <1>11. \A n : Spent(i, n) = Cardinality(Upto(n))
    BY DEF Spent, S
  <1>12. Credits(i) = Cardinality(S)
    BY DEF Credits, S
  <1> HIDE DEF Upto
  <1>13. \A n \in Nat : Spent(i, n) \in 0 .. Credits(i)
    BY <1>4, <1>5, <1>6, <1>11, <1>12
  <1>14. Credits(i) \in Nat \ {0} /\ Spent(i, 0) = 0 /\ Days \in Nat \ {0}
    BY <1>1, <1>6, <1>8, <1>11, <1>12
  <1>15. \A n \in 1 .. Days : Spent(i, n) = Spent(i, n - 1) + (IF n \in Schedule[i] THEN 1 ELSE 0)
    BY <1>9, <1>11 DEF S
  <1>16. \A n \in Nat : n >= Days => Spent(i, n) = Credits(i)
    BY <1>10, <1>11, <1>12
  <1> QED
    BY <1>13, <1>14, <1>15, <1>16

(* The first snapshot is due after the first credit or later, the last with *)
(* the last credit or before.                                               *)
LEMMA BoundaryPositive ==
  ASSUME NEW i \in Runs, NEW f \in Parts
  PROVE  Boundary(i, f) \in 1 .. Credits(i)
  <1> DEFINE c == Credits(i)
  <1>1. c \in Nat /\ c >= 1
    BY SpentNext
  <1>2. f \in Nat /\ f >= 1 /\ f <= Fractions /\ Fractions \in Nat /\ Fractions > 0
    BY FinalConstants DEF Parts
  <1> HIDE DEF c
  <1>3. f * c \in Nat /\ f * c <= Fractions * c /\ f * c >= 1
    BY <1>1, <1>2
  <1>4. /\ f * c + Fractions - 1 \in Nat /\ f * c + Fractions - 1 >= Fractions
        /\ f * c + Fractions - 1 < Fractions * (c + 1)
    BY <1>1, <1>2, <1>3
  <1>5. \A n, q, k \in Nat : q > 0 /\ n >= q /\ n < q * (k + 1) => n \div q \in 1 .. k
    <2>1. \A n, q, k \in Nat : q > 0 /\ n < q * (k + 1) => n \div q \in 0 .. k
      OBVIOUS
    <2>2. \A n, q \in Nat : q > 0 /\ n >= q => n \div q >= 1
      OBVIOUS
    <2> QED
      BY <2>1, <2>2
  <1>6. (f * c + Fractions - 1) \div Fractions \in 1 .. c
    BY <1>1, <1>2, <1>4, <1>5
  <1> QED
    BY <1>6 DEF Boundary, c

(* A step that leaves the run roots alone, and one that writes the root of  *)
(* the run it is at.                                                        *)
LEMMA RootsStay ==
  ASSUME AllReplayable, root' = root
  PROVE  AllReplayable'
  <1>1. ASSUME NEW i \in Runs PROVE Replayable(i, root[i])'
    <2>1. Replayable(i, root[i]) /\ root'[i] = root[i]
      BY DEF AllReplayable
    <2> QED
      BY <2>1 DEF Replayable, Resumable, Runs, Spent, Credits, Boundary, Parts
  <1> QED
    BY <1>1 DEF AllReplayable, Runs

LEMMA StaysRun ==
  ASSUME AllReplayable, root' = root, pc' \notin Replaying \cup {"score", "retain"}
  PROVE  RunsAble'
  <1>1. AtReplay'
    BY DEF AtReplay, FitsRun
  <1> QED
    BY <1>1, RootsStay DEF RunsAble

LEMMA PutsRun ==
  ASSUME RootsCorrect, AllReplayable, NEW i \in Runs, NEW d,
         root' = [root EXCEPT ![i] = d], at' = i, Replayable(i, d),
         FitsRun(pc', i, d, day', weights', due', host')
  PROVE  RunsAble'
  <1>1. root'[i] = d /\ \A j \in Runs : j # i => root'[j] = root[j]
    BY DEF RootsCorrect
  <1>2. \A j \in Runs : Replayable(j, root'[j])
    BY <1>1 DEF AllReplayable
  <1>3. AllReplayable'
    BY <1>2 DEF AllReplayable, Replayable, Resumable, Runs, Spent, Credits, Boundary, Parts
  <1>4. AtReplay'
    BY <1>1 DEF AtReplay, FitsRun, Replays, OnDay, Sealing, Replaying, Spent, Credits, Boundary, Parts
  <1> QED
    BY <1>3, <1>4 DEF RunsAble

(* What holds of a run that is being replayed.                              *)
LEMMA AtOpen ==
  ASSUME RunsCorrect, RunsAble, NEW i \in Runs, at = i, pc \in Replaying
  PROVE  /\ TrueRoot(i, root[i]) /\ root[i].manifest = {} /\ root[i].dirs = AllDirs
         /\ weights = [credits |-> weights.credits, hosts |-> {host}]
         /\ Replays(pc, i, root[i], weights, due, host) /\ OnDay(pc, i, day, weights)
         /\ root[i].exposures \in 0 .. Credits(i)
         /\ \A s \in root[i].saved : Resumable(i, root[i], s)
  <1>1. TrueRoot(i, root[i]) /\ Replayable(i, root[i])
    BY DEF RunsCorrect, RootsCorrect, RunsAble, AllReplayable
  <1>2. /\ root[i].manifest = {} /\ root[i].dirs = AllDirs
        /\ weights = [credits |-> weights.credits, hosts |-> {host}]
    BY DEF RunsCorrect, AtRun
  <1>3. Replays(pc, i, root[i], weights, due, host) /\ OnDay(pc, i, day, weights)
    BY DEF RunsAble, AtReplay, FitsRun
  <1> QED
    BY <1>1, <1>2, <1>3 DEF Replayable

LEMMA SomeDirs == AllDirs # {}
  <1>1. 1 \in DOMAIN Prunable
    BY DEF Prunable
  <1> QED
    BY <1>1 DEF AllDirs

(* What a replay reads of a root is untouched.                              *)
LEMMA SameReplay ==
  ASSUME NEW i \in Runs, NEW c, NEW d, d.exposures = c.exposures, d.dirs = c.dirs,
         d.saved = c.saved, d.snapshots = c.snapshots, d.manifest = c.manifest
  PROVE  /\ Replayable(i, c) => Replayable(i, d)
         /\ \A p, q, n, w, u, h : p \in Sealing /\ q \in Sealing
              /\ Replays(p, i, c, w, u, h) /\ OnDay(p, i, n, w) => FitsRun(q, i, d, n, w, u, h)
  <1>1. Replayable(i, c) => Replayable(i, d)
    BY DEF Replayable, Resumable
  <1>2. ASSUME NEW p, NEW q, NEW n, NEW w, NEW u, NEW h, p \in Sealing, q \in Sealing,
               Replays(p, i, c, w, u, h), OnDay(p, i, n, w)
        PROVE  FitsRun(q, i, d, n, w, u, h)
    <2>1. p # "snapshot" /\ q # "snapshot" /\ q \notin {"replay", "snapshot", "save", "score", "retain"}
      BY <1>2 DEF Sealing
    <2>2. Replays(q, i, d, w, u, h) /\ OnDay(q, i, n, w)
      BY <1>2, <2>1 DEF Replays, OnDay
    <2> QED
      BY <2>1, <2>2 DEF FitsRun
  <1> QED
    BY <1>1, <1>2

LEMMA OpenFreshReplays ==
  ASSUME RunsCorrect, RunsAble, NEW i \in Runs, OpenFresh(i)
  PROVE  RunsAble'
  <1> DEFINE c == root[i]
             d == [c EXCEPT !.dirs = AllDirs]
  <1>1. /\ at' = i /\ pc' = "replay" /\ c.manifest = {} /\ c.saved = {} /\ c.dirs = {}
        /\ root' = [root EXCEPT ![i] = d] /\ day' = 1 /\ due' = {} /\ host' = host
        /\ weights' = [credits |-> 0, hosts |-> {host}]
    BY DEF OpenFresh, Opens, Untrained, env
  <1>2. TrueRoot(i, c) /\ Replayable(i, c)
    BY DEF RunsCorrect, RootsCorrect, RunsAble, AllReplayable
  <1>3. /\ d.dirs = AllDirs /\ d.saved = c.saved /\ d.snapshots = c.snapshots
        /\ d.exposures = c.exposures /\ d.manifest = c.manifest
    BY <1>2 DEF TrueRoot, IsRoot
  <1> HIDE DEF c, d
  <1>4. c.exposures \in 0 .. Credits(i) /\ \A f \in Parts : c.snapshots[f] = {}
    BY <1>1, <1>2 DEF Replayable
  <1>5. Replayable(i, d)
    BY <1>1, <1>3, <1>4, SomeDirs DEF Replayable
  <1>6. /\ weights'.credits = 0 /\ Credits(i) \in Nat
        /\ \A f \in Parts : ~(Boundary(i, f) <= 0)
    BY <1>1, SpentNext, BoundaryPositive
  <1>7. Replays(pc', i, d, weights', due', host')
    BY <1>1, <1>3, <1>4, <1>6 DEF Replays
  <1>8. OnDay(pc', i, day', weights')
    <2>1. 1 \in 1 .. Days /\ 0 = Spent(i, 1 - 1)
      BY SpentNext
    <2> QED
      BY <1>1, <1>6, <2>1 DEF OnDay, Sealing
  <1> QED
    BY <1>1, <1>5, <1>7, <1>8, PutsRun DEF FitsRun, RunsCorrect, RunsAble

LEMMA ResumeReplays ==
  ASSUME RunsCorrect, RunsAble, NEW i \in Runs, Resume(i)
  PROVE  RunsAble'
  <1> DEFINE c == root[i]
  <1>1. PICK s \in c.saved :
          /\ s.host = host /\ day' = s.day + 1 /\ weights' = s.weights /\ due' = {}
          /\ pc' = IF s.day < Days THEN "replay" ELSE "seal primary"
    BY DEF Resume, SameIdentity
  <1>2. /\ at' = i /\ c.manifest = {} /\ root' = root /\ host' = host
    BY DEF Resume, Opens, env
  <1>3. root' = [root EXCEPT ![i] = c]
    BY <1>2 DEF RunsCorrect, RootsCorrect
  <1>4. Replayable(i, c)
    BY DEF RunsAble, AllReplayable
  <1> HIDE DEF c
  <1>5. c.exposures \in 0 .. Credits(i) /\ Resumable(i, c, s)
    BY <1>1, <1>2, <1>4 DEF Replayable
  <1>6. /\ s.day \in 1 .. Days + 1 /\ s.weights.credits = Spent(i, s.day)
        /\ s.weights.credits <= c.exposures
    BY <1>5 DEF Resumable
  <1>7. Spent(i, s.day) \in 0 .. Credits(i)
    BY <1>6, SpentNext
  <1>8. Replays(pc', i, c, weights', due', host')
    BY <1>1, <1>2, <1>5, <1>6, <1>7 DEF Replays, Resumable
  <1>9. OnDay(pc', i, day', weights')
    <2>1. CASE s.day < Days
      <3>1. s.day + 1 \in 1 .. Days /\ (s.day + 1) - 1 = s.day
        BY <1>6, <2>1, SpentNext
      <3> QED
        BY <1>1, <1>6, <2>1, <3>1 DEF OnDay, Sealing
    <2>2. CASE ~(s.day < Days)
      <3>1. Spent(i, s.day) = Credits(i)
        BY <1>6, <2>2, SpentNext
      <3> QED
        BY <1>1, <1>6, <2>2, <3>1 DEF OnDay
    <2> QED
      BY <2>1, <2>2
  <1>10. pc' \notin {"score", "retain"}
    BY <1>1
  <1> QED
    BY <1>2, <1>3, <1>4, <1>8, <1>9, <1>10, PutsRun DEF FitsRun, RunsCorrect, RunsAble

LEMMA DecideReplays ==
  ASSUME RunsCorrect, RunsAble, NEW i \in Runs, Decide(i)
  PROVE  RunsAble'
  <1> DEFINE c == root[i]
             spent == weights.credits + 1
             spends == day \in Schedule[i]
             d == [c EXCEPT !.exposures = IF spends /\ @ < spent THEN spent ELSE @]
  <1>1. /\ pc = "replay" /\ at = i /\ at' = i /\ day' = day /\ host' = host
        /\ pc' \in {"save", "snapshot"} /\ root' = [root EXCEPT ![i] = d]
        /\ spends => /\ weights'.credits = spent
                     /\ due' = {f \in Parts : Boundary(i, f) = spent}
                     /\ pc' = IF due' = {} THEN "save" ELSE "snapshot"
        /\ ~spends => weights' = weights /\ pc' = "save"
    BY DEF Decide, env, RunsCorrect, RootsCorrect, TrueRoot, IsRoot
  <1>2. /\ TrueRoot(i, c) /\ c.manifest = {} /\ c.dirs = AllDirs
        /\ Replays(pc, i, c, weights, due, host) /\ OnDay(pc, i, day, weights)
        /\ c.exposures \in 0 .. Credits(i) /\ \A s \in c.saved : Resumable(i, c, s)
    BY <1>1, AtOpen DEF Replaying
  <1>3. /\ d.dirs = c.dirs /\ d.saved = c.saved /\ d.snapshots = c.snapshots
        /\ d.manifest = c.manifest
        /\ d.exposures = IF spends /\ c.exposures < spent THEN spent ELSE c.exposures
    BY <1>2 DEF TrueRoot, IsRoot
  <1>4. /\ day \in 1 .. Days /\ weights.credits = Spent(i, day - 1)
        /\ weights.credits \in 0 .. Credits(i) /\ weights.credits <= c.exposures
        /\ Credits(i) \in Nat
    BY <1>1, <1>2, SpentNext DEF OnDay, Replays
  <1>5. /\ Spent(i, day) = IF spends THEN spent ELSE weights.credits
        /\ Spent(i, day) \in 0 .. Credits(i)
    <2>1. Spent(i, day) = Spent(i, day - 1) + (IF day \in Schedule[i] THEN 1 ELSE 0)
      BY <1>4, SpentNext
    <2>2. day \in Nat
      BY <1>4, SpentNext
    <2> QED
      BY <1>4, <2>1, <2>2, SpentNext
  <1>6. /\ weights'.credits = Spent(i, day) /\ weights'.credits <= d.exposures
        /\ d.exposures \in 0 .. Credits(i) /\ c.exposures <= d.exposures
    BY <1>1, <1>3, <1>4, <1>5, <1>2
  <1>7. /\ \A s \in c.saved : s.host = host
        /\ \A f \in Parts :
             /\ \A m \in c.snapshots[f] : m.hosts = {host}
             /\ Boundary(i, f) <= weights.credits => c.snapshots[f] # {}
    BY <1>1, <1>2 DEF Replays
  <1>8. \A f \in Parts : Boundary(i, f) <= weights'.credits =>
          Boundary(i, f) <= weights.credits \/ (pc' = "snapshot" /\ f \in due')
    <2>1. TAKE f \in Parts
    <2>2. Boundary(i, f) \in Nat
      BY BoundaryPositive, SpentNext
    <2>3. CASE spends
      <3>1. Boundary(i, f) <= spent => Boundary(i, f) <= weights.credits \/ Boundary(i, f) = spent
        BY <1>4, <2>2
      <3>2. Boundary(i, f) = spent => f \in due' /\ pc' = "snapshot"
        BY <1>1, <2>3
      <3> QED
        BY <1>1, <2>3, <3>1, <3>2
    <2>4. CASE ~spends
      BY <1>1, <2>4
    <2> QED
      BY <2>3, <2>4
  <1> HIDE DEF c, d, spent, spends
  <1>9. \A s \in d.saved : Resumable(i, d, s)
    <2>1. TAKE s \in d.saved
    <2>2. Resumable(i, c, s)
      BY <1>2, <1>3
    <2>3. s.weights.credits <= d.exposures
      <3>1. s.weights.credits \in 0 .. Credits(i)
        BY <2>2, SpentNext DEF Resumable
      <3>2. s.weights.credits <= c.exposures
        BY <2>2 DEF Resumable
      <3> QED
        BY <1>2, <1>4, <1>6, <3>1, <3>2
    <2> QED
      BY <1>3, <2>2, <2>3 DEF Resumable
  <1>10. Replayable(i, d)
    BY <1>2, <1>3, <1>6, <1>9, SomeDirs DEF Replayable
  <1>11. Replays(pc', i, d, weights', due', host')
    <2>1. weights'.credits \in 0 .. Credits(i)
      BY <1>5, <1>6
    <2> QED
      BY <1>1, <1>3, <1>6, <1>7, <1>8, <2>1 DEF Replays
  <1>12. OnDay(pc', i, day', weights')
    BY <1>1, <1>4, <1>6 DEF OnDay, Sealing
  <1>13. pc' \notin {"score", "retain"}
    BY <1>1
  <1> QED
    BY <1>1, <1>10, <1>11, <1>12, <1>13, PutsRun DEF FitsRun, RunsCorrect, RunsAble

LEMMA WriteSnapshotReplays ==
  ASSUME RunsCorrect, RunsAble, NEW i \in Runs, WriteSnapshot(i)
  PROVE  RunsAble'
  <1> DEFINE c == root[i]
             f == Min(due)
             d == [c EXCEPT !.snapshots = [@ EXCEPT ![f] = {weights}]]
  <1>1. /\ pc = "snapshot" /\ weights' = weights /\ day' = day /\ due' = due \ {f}
        /\ pc' = IF due' = {} THEN "save" ELSE "snapshot"
        /\ at = i /\ at' = i /\ host' = host /\ root' = [root EXCEPT ![i] = d]
    BY DEF WriteSnapshot, env
  <1>2. /\ TrueRoot(i, c) /\ c.manifest = {} /\ c.dirs = AllDirs
        /\ weights = [credits |-> weights.credits, hosts |-> {host}]
        /\ Replays(pc, i, c, weights, due, host) /\ OnDay(pc, i, day, weights)
        /\ c.exposures \in 0 .. Credits(i) /\ \A s \in c.saved : Resumable(i, c, s)
    BY <1>1, AtOpen DEF Replaying
  <1>3. /\ d.snapshots = [c.snapshots EXCEPT ![f] = {weights}] /\ d.dirs = c.dirs
        /\ d.saved = c.saved /\ d.exposures = c.exposures /\ d.manifest = c.manifest
    BY <1>2 DEF TrueRoot, IsRoot
  <1>4. /\ weights.hosts = {host} /\ \A s \in c.saved : s.host = host
        /\ \A g \in Parts : \A m \in c.snapshots[g] : m.hosts = {host}
        /\ \A g \in Parts : Boundary(i, g) <= weights.credits => c.snapshots[g] # {} \/ g \in due
    BY <1>2 DEF Replays
  <1> HIDE DEF c, d, f
  <1>5. \A g \in Parts : d.snapshots[g] = IF g = f THEN {weights} ELSE c.snapshots[g]
    BY <1>2, <1>3 DEF TrueRoot, Right
  <1>6. \A g \in Parts : /\ \A m \in d.snapshots[g] : m.hosts = {host}
                         /\ c.snapshots[g] # {} => d.snapshots[g] # {}
    BY <1>4, <1>5
  <1>7. \A s \in d.saved : Resumable(i, d, s)
    BY <1>2, <1>3, <1>4, <1>6 DEF Resumable
  <1>8. Replayable(i, d)
    BY <1>2, <1>3, <1>7, SomeDirs DEF Replayable
  <1>9. \A g \in Parts : Boundary(i, g) <= weights.credits =>
          d.snapshots[g] # {} \/ (pc' = "snapshot" /\ g \in due')
    BY <1>1, <1>4, <1>5
  <1>10. Replays(pc', i, d, weights', due', host')
    BY <1>1, <1>2, <1>3, <1>6, <1>9 DEF Replays
  <1>11. OnDay(pc', i, day', weights')
    BY <1>1, <1>2 DEF OnDay, Sealing
  <1>12. pc' \notin {"score", "retain"}
    BY <1>1
  <1> QED
    BY <1>1, <1>8, <1>10, <1>11, <1>12, PutsRun DEF FitsRun, RunsCorrect, RunsAble

(* A checkpoint of day n, taken by the model and on the machine in memory,  *)
(* may be resumed from.                                                     *)
LEMMA CheckpointReplays ==
  ASSUME NEW i \in Runs, NEW c, NEW d, NEW n \in 1 .. Days + 1, Replays("save", i, c, weights, due, host),
         weights.credits = Spent(i, n), c.exposures \in 0 .. Credits(i), c.dirs = AllDirs,
         d.saved = {Checkpoint(n)}, d.exposures = c.exposures, d.dirs = c.dirs,
         d.snapshots = c.snapshots, d.manifest = c.manifest
  PROVE  Replayable(i, d) /\ Replays("save", i, d, weights, due, host)
  <1>1. \A s \in d.saved : s.day = n /\ s.weights = weights /\ s.host = host
    BY DEF Checkpoint
  <1>2. \A g \in Parts : /\ \A m \in d.snapshots[g] : m.hosts = {host}
                         /\ Boundary(i, g) <= weights.credits => d.snapshots[g] # {}
    BY DEF Replays
  <1>3. weights.credits <= d.exposures
    BY DEF Replays
  <1>4. \A s \in d.saved : Resumable(i, d, s)
    BY <1>1, <1>2, <1>3 DEF Resumable
  <1>5. Replayable(i, d)
    BY <1>4, SomeDirs DEF Replayable
  <1> QED
    BY <1>1, <1>2, <1>3, <1>5 DEF Replays

LEMMA SaveReplays ==
  ASSUME RunsCorrect, RunsAble, NEW i \in Runs, Save(i)
  PROVE  RunsAble'
  <1> DEFINE c == root[i]
             d == [c EXCEPT !.saved = {Checkpoint(day)}]
  <1>1. /\ pc = "save" /\ weights' = weights /\ day' = day + 1 /\ due' = due
        /\ pc' = IF day < Days THEN "replay" ELSE "seal primary"
        /\ at = i /\ at' = i /\ host' = host /\ root' = [root EXCEPT ![i] = d]
    BY DEF Save, env
  <1>2. /\ TrueRoot(i, c) /\ c.dirs = AllDirs
        /\ Replays("save", i, c, weights, due, host) /\ OnDay(pc, i, day, weights)
        /\ c.exposures \in 0 .. Credits(i)
    BY <1>1, AtOpen DEF Replaying
  <1>3. /\ d.saved = {Checkpoint(day)} /\ d.dirs = c.dirs
        /\ d.snapshots = c.snapshots /\ d.exposures = c.exposures /\ d.manifest = c.manifest
    BY <1>2 DEF TrueRoot, IsRoot
  <1>4. day \in 1 .. Days /\ day \in 1 .. Days + 1 /\ weights.credits = Spent(i, day)
    <2>1. day \in 1 .. Days /\ weights.credits = Spent(i, day)
      BY <1>1, <1>2 DEF OnDay
    <2> QED
      BY <2>1, SpentNext
  <1> HIDE DEF c, d
  <1>5. Replayable(i, d) /\ Replays("save", i, d, weights, due, host)
    BY <1>2, <1>3, <1>4, CheckpointReplays
  <1>6. Replays(pc', i, d, weights', due', host')
    BY <1>1, <1>5 DEF Replays
  <1>7. OnDay(pc', i, day', weights')
    <2>1. CASE day < Days
      <3>1. day + 1 \in 1 .. Days /\ (day + 1) - 1 = day
        BY <1>4, <2>1, SpentNext
      <3> QED
        BY <1>1, <1>4, <2>1, <3>1 DEF OnDay, Sealing
    <2>2. CASE ~(day < Days)
      <3>1. day \in Nat /\ day >= Days
        BY <1>4, <2>2, SpentNext
      <3>2. Spent(i, day) = Credits(i)
        BY <3>1, SpentNext
      <3> QED
        BY <1>1, <1>4, <2>2, <3>2 DEF OnDay
    <2> QED
      BY <2>1, <2>2
  <1>8. pc' \notin {"score", "retain"}
    BY <1>1
  <1> QED
    BY <1>1, <1>5, <1>6, <1>7, <1>8, PutsRun DEF FitsRun, RunsCorrect, RunsAble

LEMMA SaveSealedReplays ==
  ASSUME RunsCorrect, RunsAble, NEW i \in Runs, SaveSealed(i)
  PROVE  RunsAble'
  <1> DEFINE c == root[i]
             d == [c EXCEPT !.saved = {Checkpoint(Days + 1)}]
  <1>1. /\ pc = "save sealed" /\ weights' = weights /\ due' = due
        /\ pc' = "intermediate"
        /\ at = i /\ at' = i /\ host' = host /\ root' = [root EXCEPT ![i] = d]
    BY DEF SaveSealed, env
  <1>2. /\ TrueRoot(i, c) /\ c.dirs = AllDirs
        /\ Replays(pc, i, c, weights, due, host) /\ OnDay(pc, i, day, weights)
        /\ c.exposures \in 0 .. Credits(i)
    BY <1>1, AtOpen DEF Replaying, Sealing
  <1>3. /\ d.saved = {Checkpoint(Days + 1)} /\ d.dirs = c.dirs
        /\ d.snapshots = c.snapshots /\ d.exposures = c.exposures /\ d.manifest = c.manifest
    BY <1>2 DEF TrueRoot, IsRoot
  <1> HIDE DEF c, d
  <1>4. weights.credits = Credits(i) /\ Replays("save", i, c, weights, due, host)
    BY <1>1, <1>2 DEF OnDay, Sealing, Replays
  <1>5. Days + 1 \in 1 .. Days + 1 /\ Credits(i) = Spent(i, Days + 1)
    BY SpentNext
  <1>6. Replayable(i, d) /\ Replays("save", i, d, weights, due, host)
    BY <1>2, <1>3, <1>4, <1>5, CheckpointReplays
  <1>7. Replays(pc', i, d, weights', due', host')
    BY <1>1, <1>6 DEF Replays
  <1>8. OnDay(pc', i, day', weights')
    BY <1>1, <1>4 DEF OnDay
  <1>9. pc' \notin {"score", "retain"}
    BY <1>1
  <1> QED
    BY <1>1, <1>6, <1>7, <1>8, <1>9, PutsRun DEF FitsRun, RunsCorrect, RunsAble

(* The seals and the intermediate scores change nothing of it.              *)
LEMMA SealsReplay ==
  ASSUME RunsCorrect, RunsAble, NEW i \in Runs,
         SealPrimary(i) \/ SealExposures(i) \/ SealIntermediate(i)
  PROVE  RunsAble'
  <1> DEFINE c == root[i]
  <1>1. /\ pc \in Sealing /\ pc' \in Sealing /\ weights' = weights /\ day' = day /\ due' = due
        /\ at = i /\ at' = i /\ host' = host
    BY DEF SealPrimary, SealExposures, SealIntermediate, Go, proc, env, Sealing
  <1>2. /\ TrueRoot(i, c) /\ Replays(pc, i, c, weights, due, host) /\ OnDay(pc, i, day, weights)
        /\ Replayable(i, c)
    BY <1>1, AtOpen DEF Replaying, RunsAble, AllReplayable
  <1>3. PICK d : /\ root' = [root EXCEPT ![i] = d] /\ d.exposures = c.exposures /\ d.dirs = c.dirs
                 /\ d.saved = c.saved /\ d.snapshots = c.snapshots /\ d.manifest = c.manifest
    <2>1. CASE SealPrimary(i)
      <3> DEFINE d == [c EXCEPT !.sealed = @ \cup {"primary"}]
      <3>1. root' = [root EXCEPT ![i] = d]
        BY <2>1 DEF SealPrimary
      <3>2. /\ d.exposures = c.exposures /\ d.dirs = c.dirs
            /\ d.saved = c.saved /\ d.snapshots = c.snapshots /\ d.manifest = c.manifest
        BY <1>2 DEF TrueRoot, IsRoot
      <3> QED
        BY <3>1, <3>2
    <2>2. CASE SealExposures(i)
      <3> DEFINE d == [c EXCEPT !.sealed = @ \cup {"exposures"}]
      <3>1. root' = [root EXCEPT ![i] = d]
        BY <2>2 DEF SealExposures
      <3>2. /\ d.exposures = c.exposures /\ d.dirs = c.dirs
            /\ d.saved = c.saved /\ d.snapshots = c.snapshots /\ d.manifest = c.manifest
        BY <1>2 DEF TrueRoot, IsRoot
      <3> QED
        BY <3>1, <3>2
    <2>3. CASE SealIntermediate(i)
      <3> DEFINE f == Min(Unsealed(i))
                 d == [c EXCEPT !.intermediate = [@ EXCEPT ![f] = c.snapshots[f]]]
      <3>1. root' = [root EXCEPT ![i] = d]
        BY <2>3 DEF SealIntermediate
      <3>2. /\ d.exposures = c.exposures /\ d.dirs = c.dirs
            /\ d.saved = c.saved /\ d.snapshots = c.snapshots /\ d.manifest = c.manifest
        BY <1>2 DEF TrueRoot, IsRoot
      <3> QED
        BY <3>1, <3>2
    <2> QED
      BY <2>1, <2>2, <2>3
  <1> HIDE DEF c
  <1>4. Replayable(i, d) /\ FitsRun(pc', i, d, day', weights', due', host')
    BY <1>1, <1>2, <1>3, SameReplay
  <1> QED
    BY <1>1, <1>3, <1>4, PutsRun DEF RunsCorrect, RunsAble

(* A run whose manifest is there is not replayed again.                     *)
LEMMA ClosedRun ==
  ASSUME RootsCorrect, AllReplayable, NEW i \in Runs, NEW d,
         root' = [root EXCEPT ![i] = d], at' = i, d.manifest # {}, pc' \notin Replaying,
         pc' \in {"score", "retain"} => d.compact, pc' = "retain" => d.evaluation # {}
  PROVE  RunsAble'
  <1>1. Replayable(i, d)
    BY DEF Replayable
  <1>2. FitsRun(pc', i, d, day', weights', due', host')
    BY DEF FitsRun
  <1> QED
    BY <1>1, <1>2, PutsRun

LEMMA WriteManifestReplays ==
  ASSUME RunsCorrect, RunsAble, NEW i \in Runs, WriteManifest(i)
  PROVE  RunsAble'
  <1> DEFINE c == root[i]
             made == {[launch |-> Launched, models |-> c.intermediate]}
             d == [c EXCEPT !.manifest = made]
  <1>1. /\ pc' = "evaluate" /\ at' = i /\ root' = [root EXCEPT ![i] = d]
    BY DEF WriteManifest, Go, proc
  <1>2. made # {}
    OBVIOUS
  <1> HIDE DEF made
  <1>3. TrueRoot(i, c)
    BY DEF RunsCorrect, RootsCorrect
  <1>4. d.manifest # {}
    BY <1>2, <1>3 DEF TrueRoot, IsRoot
  <1>5. pc' \notin Replaying \cup {"score", "retain"}
    BY <1>1 DEF Replaying, Sealing
  <1> HIDE DEF c, d
  <1> QED
    BY <1>1, <1>4, <1>5, ClosedRun DEF RunsCorrect, RunsAble

LEMMA ReuseCompactReplays ==
  ASSUME RunsCorrect, RunsAble, NEW i \in Runs, ReuseCompact(i)
  PROVE  RunsAble'
  <1> DEFINE c == root[i]
  <1>1. /\ pc = "evaluate" /\ pc' = "score" /\ at = i /\ at' = i /\ root' = root /\ c.compact
    BY DEF ReuseCompact, Evaluates, Go, proc
  <1>2. root' = [root EXCEPT ![i] = c]
    BY <1>1 DEF RunsCorrect, RootsCorrect
  <1>3. c.manifest # {}
    BY <1>1 DEF RunsCorrect, AtRun, Evaluating
  <1>4. pc' \notin Replaying /\ pc' # "retain"
    BY <1>1 DEF Replaying, Sealing
  <1> HIDE DEF c
  <1> QED
    BY <1>1, <1>2, <1>3, <1>4, ClosedRun DEF RunsCorrect, RunsAble

LEMMA WriteCompactReplays ==
  ASSUME RunsCorrect, RunsAble, NEW i \in Runs, WriteCompact(i)
  PROVE  RunsAble'
  <1> DEFINE c == root[i]
             yes == TRUE
             d == [c EXCEPT !.compact = yes]
  <1>1. /\ pc = "compact" /\ pc' = "score" /\ at = i /\ at' = i /\ root' = [root EXCEPT ![i] = d]
    BY DEF WriteCompact, Go, proc
  <1>2. yes
    OBVIOUS
  <1> HIDE DEF yes
  <1>3. c.manifest # {} /\ TrueRoot(i, c)
    BY <1>1 DEF RunsCorrect, RootsCorrect, AtRun, Evaluating
  <1>4. d.manifest = c.manifest /\ d.compact = yes
    BY <1>3 DEF TrueRoot, IsRoot
  <1>5. pc' \notin Replaying /\ pc' # "retain"
    BY <1>1 DEF Replaying, Sealing
  <1> HIDE DEF c, d
  <1> QED
    BY <1>1, <1>2, <1>3, <1>4, <1>5, ClosedRun DEF RunsCorrect, RunsAble

LEMMA WriteEvaluationReplays ==
  ASSUME RunsCorrect, RunsAble, NEW i \in Runs, WriteEvaluation(i)
  PROVE  RunsAble'
  <1> DEFINE c == root[i]
             d == [c EXCEPT !.evaluation = {c.intermediate}]
  <1>1. /\ pc = "score" /\ pc' = "retain" /\ at = i /\ at' = i /\ root' = [root EXCEPT ![i] = d]
    BY DEF WriteEvaluation, Evaluates, Go, proc
  <1>2. c.manifest # {} /\ TrueRoot(i, c) /\ c.compact
    BY <1>1 DEF RunsCorrect, RootsCorrect, AtRun, Evaluating, RunsAble, AtReplay, FitsRun
  <1>3. d.manifest = c.manifest /\ d.compact = c.compact /\ d.evaluation = {c.intermediate}
    BY <1>2 DEF TrueRoot, IsRoot
  <1>4. pc' \notin Replaying
    BY <1>1 DEF Replaying, Sealing
  <1> HIDE DEF c, d
  <1> QED
    BY <1>1, <1>2, <1>3, <1>4, ClosedRun DEF RunsCorrect, RunsAble

LEMMA WriteReceiptReplays ==
  ASSUME RunsCorrect, RunsAble, NEW i \in Runs, WriteReceipt(i)
  PROVE  RunsAble'
  <1> DEFINE c == root[i]
             receipts == {[manifest |-> m, evaluation |-> e] : m \in c.manifest, e \in c.evaluation}
             d == [c EXCEPT !.retention = receipts]
  <1>1. /\ pc = "retain" /\ pc' = "prune" /\ at = i /\ at' = i /\ root' = [root EXCEPT ![i] = d]
    BY DEF WriteReceipt, Go, proc
  <1> HIDE DEF receipts
  <1>2. c.manifest # {} /\ TrueRoot(i, c)
    BY <1>1 DEF RunsCorrect, RootsCorrect, AtRun, Evaluating
  <1>3. d.manifest = c.manifest
    BY <1>2 DEF TrueRoot, IsRoot
  <1>4. pc' \notin Replaying \cup {"score", "retain"}
    BY <1>1 DEF Replaying, Sealing
  <1> HIDE DEF c, d
  <1> QED
    BY <1>1, <1>2, <1>3, <1>4, ClosedRun DEF RunsCorrect, RunsAble

LEMMA ArrayReplays ==
  ASSUME RunsCorrect, RunsAble, NEW i \in Runs, StageArray(i) \/ TripOverTemp(i) \/ PublishArray(i)
  PROVE  RunsAble'
  <1> DEFINE c == root[i]
  <1>1. /\ pc \in {"evaluate", "publish array"} /\ pc' \in {"publish array", "compact", "refused"}
        /\ at = i /\ at' = i
    BY DEF StageArray, TripOverTemp, PublishArray, Evaluates, Go, Refuse, proc
  <1>2. c.manifest # {} /\ TrueRoot(i, c)
    BY <1>1 DEF RunsCorrect, RootsCorrect, AtRun, Evaluating
  <1>3. PICK d : root' = [root EXCEPT ![i] = d] /\ d.manifest = c.manifest
    <2> DEFINE yes == TRUE
               no == FALSE
    <2>1. CASE StageArray(i)
      <3> DEFINE d == [c EXCEPT !.temp = yes]
      <3>1. root' = [root EXCEPT ![i] = d]
        BY <2>1 DEF StageArray
      <3> HIDE DEF yes
      <3>2. d.manifest = c.manifest
        BY <1>2 DEF TrueRoot, IsRoot
      <3> QED
        BY <3>1, <3>2
    <2>2. CASE TripOverTemp(i)
      <3> DEFINE d == [c EXCEPT !.temp = no]
      <3>1. root' = [root EXCEPT ![i] = d]
        BY <2>2 DEF TripOverTemp
      <3> HIDE DEF no
      <3>2. d.manifest = c.manifest
        BY <1>2 DEF TrueRoot, IsRoot
      <3> QED
        BY <3>1, <3>2
    <2>3. CASE PublishArray(i)
      <3> DEFINE e == [c EXCEPT !.temp = no]
                 d == [e EXCEPT !.array = yes]
      <3>1. root' = [root EXCEPT ![i] = d]
        BY <2>3 DEF PublishArray
      <3> HIDE DEF yes, no
      <3>2. IsRoot(e) /\ e.manifest = c.manifest
        BY <1>2 DEF TrueRoot, IsRoot
      <3> HIDE DEF e
      <3>3. d.manifest = c.manifest
        BY <3>2 DEF IsRoot
      <3> QED
        BY <3>1, <3>3
    <2> QED
      BY <2>1, <2>2, <2>3
  <1>4. pc' \notin Replaying \cup {"score", "retain"}
    BY <1>1 DEF Replaying, Sealing
  <1> HIDE DEF c
  <1> QED
    BY <1>1, <1>2, <1>3, <1>4, ClosedRun DEF RunsCorrect, RunsAble

LEMMA PruneReplays ==
  ASSUME RunsCorrect, RunsAble, NEW i \in Runs, Prune(i)
  PROVE  RunsAble'
  <1>1. RunsCorrect' /\ RunMoves(i)
    BY PruneKeeps
  <1> DEFINE d == Without(root[i], Prunable[Min(Left(i))])
  <1>2. pc' = "prune" /\ at' = i /\ root' = [root EXCEPT ![i] = d]
    BY DEF Prune, proc
  <1> HIDE DEF d
  <1>3. root'[i] = d
    BY <1>2 DEF RunsCorrect, RootsCorrect
  <1>4. TrueRoot(i, root[i])
    BY DEF RunsCorrect, RootsCorrect
  <1>5. d.manifest # {}
    <2>1. root[i].retention # {} /\ d.retention = root[i].retention
      BY <1>1, <1>3 DEF RunsCorrect, AtRun, Closing, RunMoves, Prune
    <2>2. /\ root' = [j \in Runs |-> root'[j]] /\ \A j \in Runs : TrueRoot(j, root[j])'
      BY <1>1 DEF RunsCorrect, RootsCorrect
    <2>3. d.manifest = {} => d.retention = {}
      BY <1>3, <2>2 DEF TrueRoot, Open
    <2> QED
      BY <2>1, <2>3
  <1>6. pc' \notin Replaying \cup {"score", "retain"}
    BY <1>2 DEF Replaying, Sealing
  <1> QED
    BY <1>2, <1>5, <1>6, ClosedRun DEF RunsCorrect, RunsAble

LEMMA RunStepReplays ==
  ASSUME RunsCorrect, RunsAble, RunStep
  PROVE  RunsAble'
  <1>1. PICK i \in Runs :
          \/ ReuseRetention(i) \/ Reevaluate(i) \/ OpenFresh(i) \/ RefuseRoot(i)
          \/ Resume(i) \/ RefuseHost(i) \/ RefuseStray(i)
          \/ Decide(i) \/ WriteSnapshot(i) \/ Save(i)
          \/ SealPrimary(i) \/ SealExposures(i) \/ SaveSealed(i)
          \/ SealIntermediate(i) \/ WriteManifest(i)
          \/ ReuseCompact(i) \/ StageArray(i) \/ TripOverTemp(i) \/ PublishArray(i)
          \/ WriteCompact(i) \/ WriteEvaluation(i)
          \/ WriteReceipt(i) \/ RefuseReceipt(i) \/ Prune(i) \/ EndPrune(i)
    BY DEF RunStep
  <1>2. CASE \/ ReuseRetention(i) \/ Reevaluate(i) \/ RefuseRoot(i) \/ RefuseHost(i)
             \/ RefuseStray(i) \/ RefuseReceipt(i) \/ EndPrune(i)
    <2>1. root' = root /\ pc' \in {"record", "evaluate", "refused"}
      BY <1>2 DEF ReuseRetention, Reevaluate, RefuseRoot, RefuseHost, RefuseStray,
                  RefuseReceipt, EndPrune, Go, Refuse
    <2>2. pc' \notin Replaying \cup {"score", "retain"}
      BY <2>1 DEF Replaying, Sealing
    <2> QED
      BY <2>1, <2>2, StaysRun DEF RunsAble
  <1> QED
    BY <1>1, <1>2, OpenFreshReplays, ResumeReplays, DecideReplays, WriteSnapshotReplays,
       SaveReplays, SealsReplay, SaveSealedReplays, WriteManifestReplays, ReuseCompactReplays,
       ArrayReplays, WriteCompactReplays, WriteEvaluationReplays, WriteReceiptReplays, PruneReplays

-----------------------------------------------------------------------------
(* The places a step other than of a run leads to.                          *)
Apart == {"off", "refused", "online", "aggregate", "execute"} \cup Recorded \cup Aggregating
StagePlaces == Executing \cup Apart

LEMMA OtherSteps ==
  ASSUME [Next]_vars, pc \in StagePlaces
  PROVE  \/ RunStep /\ UNCHANGED <<refVars, finalVars, stageVars>>
         \/ root' = root /\ pc' \in Apart
         \/ UNCHANGED vars
  <1> USE DEF Apart, Recorded, Referring, Referred, Aggregating, Reporting
  <1>1. CASE FinalStep /\ UNCHANGED stageVars
    <2>1. CASE RunStep /\ UNCHANGED <<refVars, finalVars>>
      BY <1>1, <2>1
    <2>2. CASE RefStep
      BY <2>2 DEF RefStep, PlanReferences, PublishReferences, CompleteReferences, ReuseReference,
                  Fit, SealReference, JoinReference, RecordReference, Go
    <2>3. CASE PlanOnline \/ PublishOnline \/ CompleteOnline
      BY <2>3 DEF PlanOnline, PublishOnline, CompleteOnline, Go
    <2>4. CASE Combine
      BY <2>4 DEF Combine
    <2>5. CASE \E i \in Runs : Record(i)
      <3>1. PICK i \in Runs : Record(i)
        BY <2>5
      <3>2. root' = root /\ pc' \in {"matrix", "execute"}
        BY <3>1 DEF Record
      <3> QED
        BY <3>2
    <2> QED
      BY <1>1, <2>1, <2>2, <2>3, <2>4, <2>5 DEF FinalStep
  <1>2. CASE AggregateStep
    BY <1>2 DEF AggregateStep, LoadEvidence, RefuseEvidence, WriteInput, RenderPages, RefusePages,
                RenderManifest, PublishAggregate, CacheArray, CacheManifest, UseCache, Go, Refuse,
                matrixFiles
  <1>3. CASE WorldStep /\ ~Qualify
    BY <1>3 DEF WorldStep, Relaunch, Launch, LaunchAggregate, RefuseLock, Crash, MoveHost, Down,
                Refuse, matrixFiles
  <1>4. CASE Qualify
    BY <1>4 DEF Qualify, Down, matrixFiles
  <1> QED
    BY <1>1, <1>2, <1>3, <1>4 DEF Next, Work, WorldStep

LEMMA PlacesKept ==
  ASSUME IInv, pc \in StagePlaces, [Next]_vars
  PROVE  pc' \in StagePlaces
  <1>1. CASE RunStep
    <2>1. \E i \in Runs : RunMoves(i)
      BY <1>1, RunStepKeeps DEF IInv
    <2> QED
      BY <2>1 DEF RunMoves, StagePlaces, Apart
  <1>2. CASE UNCHANGED vars
    BY <1>2 DEF vars, runVars
  <1> QED
    BY <1>1, <1>2, OtherSteps DEF StagePlaces

LEMMA RunsAbleKept ==
  ASSUME IInv, RunsAble, pc \in StagePlaces, [Next]_vars
  PROVE  RunsAble'
  <1>1. CASE RunStep
    BY <1>1, RunStepReplays DEF IInv
  <1>2. CASE root' = root /\ pc' \in Apart
    <2>1. pc' \notin Replaying \cup {"score", "retain"}
      BY <1>2 DEF Apart, Replaying, Sealing, Recorded, Referring, Referred, Aggregating, Reporting
    <2> QED
      BY <1>2, <2>1, StaysRun DEF RunsAble
  <1>3. CASE UNCHANGED vars
    <2>1. /\ root' = root /\ pc' = pc /\ at' = at /\ day' = day /\ weights' = weights
          /\ due' = due /\ host' = host
      BY <1>3 DEF vars, runVars, proc, env
    <2>2. AllReplayable'
      BY <2>1, RootsStay DEF RunsAble
    <2>3. AtReplay'
      BY <2>1 DEF RunsAble, AtReplay, FitsRun, Replays, OnDay, Sealing, Replaying, Spent, Credits, Boundary, Parts
    <2> QED
      BY <2>2, <2>3 DEF RunsAble
  <1> QED
    BY <1>1, <1>2, <1>3, OtherSteps

(* A manifest is of an array that is there, an evaluation of its manifest.  *)
FileAble(f) ==
  /\ f.manifest # {} => f.array
  /\ f.evaluation # {} => f.evaluation = f.manifest
FilesAble ==
  /\ \A j \in References : FileAble(ref[j])
  /\ pc = "seal reference" => ref[next].array /\ ~RefSettled(next)

LEMMA FilesPut ==
  ASSUME ReferredInOrder, FilesAble, NEW j \in References, NEW file,
         ref' = [ref EXCEPT ![j] = file], FileAble(file), next' = j,
         pc' = "seal reference" => file.array /\ file.evaluation = {}
  PROVE  FilesAble'
  <1>1. ref'[j] = file /\ \A k \in References : k # j => ref'[k] = ref[k]
    BY DEF ReferredInOrder
  <1>2. \A k \in References : FileAble(ref'[k])
    BY <1>1 DEF FilesAble
  <1>3. \A k \in References : FileAble(ref[k])'
    BY <1>2 DEF FileAble
  <1> QED
    BY <1>1, <1>3 DEF FilesAble, RefSettled, References

LEMMA FilesAbleKept ==
  ASSUME IInv, FilesAble, pc \in StagePlaces, [Next]_vars
  PROVE  FilesAble'
  <1>0. \A j \in References :
          ref[j] = [array |-> ref[j].array, manifest |-> ref[j].manifest, evaluation |-> ref[j].evaluation]
    <2>1. ref = [j \in References |->
              [array |-> ref[j].array, manifest |-> ref[j].manifest, evaluation |-> ref[j].evaluation]]
      BY DEF IInv, MatrixCorrect, ReferredInOrder
    <2> QED
      BY <2>1
  <1>1. ASSUME NEW j \in References, Fit(j) PROVE FilesAble'
    <2> DEFINE yes == TRUE
               file == [ref[j] EXCEPT !.array = yes]
    <2>1. /\ next' = j /\ ref' = [ref EXCEPT ![j] = file] /\ ~RefSettled(j)
      BY <1>1 DEF Fit, RefStage
    <2>2. yes
      OBVIOUS
    <2> HIDE DEF yes
    <2>3. /\ file.array = yes /\ file.evaluation = ref[j].evaluation /\ file.manifest = ref[j].manifest
      BY <1>0
    <2> HIDE DEF file
    <2>4. FileAble(file) /\ file.evaluation = {} /\ file.array
      BY <2>1, <2>2, <2>3 DEF FileAble, RefSettled
    <2> QED
      BY <2>1, <2>4, FilesPut DEF IInv, MatrixCorrect
  <1>2. ASSUME NEW j \in References, SealReference(j) PROVE FilesAble'
    <2> DEFINE sealed == {Launched}
               file == [ref[j] EXCEPT !.manifest = sealed]
    <2> HIDE DEF sealed
    <2>1. /\ pc = "seal reference" /\ pc' = "reference" /\ next = j /\ next' = j
          /\ ref' = [ref EXCEPT ![j] = file]
      BY <1>2 DEF SealReference, RefStage, Go, sealed
    <2>2. /\ file.array = ref[j].array /\ file.evaluation = ref[j].evaluation
      BY <1>0
    <2> HIDE DEF file
    <2>3. FileAble(file)
      BY <2>1, <2>2 DEF FileAble, FilesAble, RefSettled
    <2> QED
      BY <2>1, <2>3, FilesPut DEF IInv, MatrixCorrect
  <1>3. ASSUME NEW j \in References, JoinReference(j) PROVE FilesAble'
    <2> DEFINE m == ref[j].manifest
               file == [ref[j] EXCEPT !.evaluation = m]
    <2>1. /\ pc' = "reference" /\ next' = j /\ ref' = [ref EXCEPT ![j] = file] /\ ref[j].array
      BY <1>3 DEF JoinReference, RefStage, Go
    <2>2. /\ file.array = ref[j].array /\ file.evaluation = m /\ file.manifest = m
      BY <1>0
    <2> HIDE DEF file
    <2>3. FileAble(file)
      BY <2>1, <2>2 DEF FileAble
    <2> QED
      BY <2>1, <2>3, FilesPut DEF IInv, MatrixCorrect
  <1>4. CASE ref' = ref /\ pc' # "seal reference"
    BY <1>4 DEF FilesAble, FileAble, References
  <1>5. CASE UNCHANGED vars
    BY <1>5 DEF FilesAble, FileAble, References, RefSettled, vars, runVars, refVars
  <1>6. \/ ref' = ref /\ pc' # "seal reference"
        \/ UNCHANGED vars
        \/ \E j \in References : Fit(j) \/ SealReference(j) \/ JoinReference(j)
    <2>1. CASE RunStep /\ UNCHANGED <<refVars, finalVars, stageVars>>
      <3>1. \E i \in Runs : RunMoves(i)
        BY <2>1, RunStepKeeps DEF IInv
      <3>2. pc' # "seal reference"
        BY <3>1 DEF RunMoves, Executing, Replaying, Sealing, Evaluating, Closing
      <3> QED
        BY <2>1, <3>2 DEF refVars
    <2>2. CASE RefStep
      BY <2>2 DEF RefStep, PlanReferences, PublishReferences, CompleteReferences, ReuseReference,
                  RecordReference, Go, refVars
    <2>3. CASE PlanOnline \/ PublishOnline \/ CompleteOnline
      BY <2>3 DEF PlanOnline, PublishOnline, CompleteOnline, Go, refVars
    <2>4. CASE Combine
      <3>1. ref' = ref /\ pc' = "off"
        BY <2>4 DEF Combine, refVars
      <3> QED
        BY <3>1
    <2>5. CASE \E i \in Runs : Record(i)
      <3>1. PICK i \in Runs : Record(i)
        BY <2>5
      <3>2. ref' = ref /\ pc' \in {"matrix", "execute"}
        BY <3>1 DEF Record, refVars
      <3> QED
        BY <3>2
    <2>6. CASE AggregateStep
      BY <2>6 DEF AggregateStep, LoadEvidence, RefuseEvidence, WriteInput, RenderPages, RefusePages,
                RenderManifest, PublishAggregate, CacheArray, CacheManifest, UseCache, Go, Refuse,
                matrixFiles, refVars
    <2>7. CASE WorldStep
      BY <2>7 DEF WorldStep, Relaunch, Launch, LaunchAggregate, RefuseLock, Crash, MoveHost, Down,
                Refuse, Qualify, matrixFiles, refVars
    <2> QED
      BY <2>1, <2>2, <2>3, <2>4, <2>5, <2>6, <2>7 DEF Next, Work, FinalStep, WorldStep
  <1> QED
    BY <1>1, <1>2, <1>3, <1>4, <1>5, <1>6

(* What a state file records, and a launch read of it, is a prefix of the   *)
(* evidence.                                                                *)
ListsReferences(l) ==
  \E k \in 0 .. Offline : /\ l = [j \in 1 .. k |-> RefEvidence(j)]
                          /\ \A j \in 1 .. k : RefSettled(j)
ListsAble == ListsReferences(list.recorded) /\ ListsReferences(previous)

LEMMA ListsNothing == ListsReferences(<<>>)
  <1>1. <<>> = [j \in 1 .. 0 |-> RefEvidence(j)] /\ 1 .. 0 = {} /\ 0 \in 0 .. Offline
    BY OfflineConstants
  <1> QED
    BY <1>1 DEF ListsReferences

LEMMA ListStays ==
  ASSUME Frozen, NEW l, ListsReferences(l)
  PROVE  \E k \in 0 .. Offline : /\ l = [j \in 1 .. k |-> RefEvidence(j)']
                                 /\ \A j \in 1 .. k : RefSettled(j)'
  <1>1. PICK k \in 0 .. Offline : /\ l = [j \in 1 .. k |-> RefEvidence(j)]
                                  /\ \A j \in 1 .. k : RefSettled(j)
    BY DEF ListsReferences
  <1>2. 1 .. k \subseteq References
    BY OfflineConstants DEF References
  <1>3. \A j \in 1 .. k : RefSettled(j)' /\ RefEvidence(j)' = RefEvidence(j)
    BY <1>1, <1>2, FrozenEvidence
  <1>4. l = [j \in 1 .. k |-> RefEvidence(j)']
    BY <1>1, <1>3
  <1> QED
    BY <1>3, <1>4

LEMMA ListsStay ==
  ASSUME Frozen, ListsAble, list'.recorded \in {list.recorded, <<>>},
         previous' \in {previous, list.recorded, <<>>}
  PROVE  ListsAble'
  <1>1. \A l \in {list.recorded, previous, <<>>} : ListsReferences(l)
    BY ListsNothing DEF ListsAble
  <1>2. \A l \in {list.recorded, previous, <<>>} :
          \E k \in 0 .. Offline : /\ l = [j \in 1 .. k |-> RefEvidence(j)']
                                  /\ \A j \in 1 .. k : RefSettled(j)'
    BY <1>1, ListStays
  <1> HIDE DEF RefEvidence
  <1> QED
    BY <1>2 DEF ListsAble, ListsReferences

LEMMA ListsAbleKept ==
  ASSUME IInv, Frozen, ListsAble, [Next]_vars
  PROVE  ListsAble'
  <1>0. list = [planned |-> list.planned, recorded |-> list.recorded,
                complete |-> list.complete, matrix |-> list.matrix]
    BY DEF IInv, MatrixCorrect, ReferredInOrder
  <1>1. CASE PlanReferences
    <2> DEFINE yes == TRUE
    <2>1. list' = [list EXCEPT !.planned = yes] /\ previous' = list.recorded
      BY <1>1 DEF PlanReferences
    <2> HIDE DEF yes
    <2>2. list'.recorded = list.recorded
      BY <1>0, <2>1
    <2> QED
      BY <2>1, <2>2, ListsStay
  <1>2. CASE PublishReferences
    <2> DEFINE bound == {list.recorded}
    <2>1. list' = [list EXCEPT !.matrix = bound] /\ previous' = previous
      BY <1>2 DEF PublishReferences
    <2> HIDE DEF bound
    <2>2. list'.recorded = list.recorded
      BY <1>0, <2>1
    <2> QED
      BY <2>1, <2>2, ListsStay
  <1>3. CASE CompleteReferences
    <2> DEFINE yes == TRUE
    <2>1. list' = [list EXCEPT !.complete = yes] /\ previous' = <<>>
      BY <1>3 DEF CompleteReferences
    <2> HIDE DEF yes
    <2>2. list'.recorded = list.recorded
      BY <1>0, <2>1
    <2> QED
      BY <2>1, <2>2, ListsStay
  <1>4. ASSUME NEW j \in References, RecordReference(j) PROVE ListsAble'
    <2> DEFINE now == [k \in 1 .. j |-> RefEvidence(k)]
               no == FALSE
               mid == [list EXCEPT !.recorded = now]
    <2>1. /\ pc = "record reference" /\ next = j /\ previous' = previous
          /\ list' = [mid EXCEPT !.complete = no] /\ ref' = ref
      BY <1>4 DEF RecordReference, RefStage
    <2>2. j \in 0 .. Offline /\ \A k \in 1 .. j : RefSettled(k)
      <3>1. RefSettled(j) /\ \A k \in 1 .. j - 1 : RefSettled(k)
        BY <2>1 DEF IInv, MatrixCorrect, ReferredInOrder, Referring
      <3>2. j \in Nat /\ j <= Offline /\ \A k \in 1 .. j : k = j \/ k \in 1 .. j - 1
        BY OfflineConstants DEF References
      <3> QED
        BY <3>1, <3>2
    <2>3. ListsReferences(now)
      BY <2>2 DEF ListsReferences
    <2> HIDE DEF now, no
    <2>4. /\ mid = [planned |-> mid.planned, recorded |-> mid.recorded,
                    complete |-> mid.complete, matrix |-> mid.matrix]
          /\ mid.recorded = now
      BY <1>0
    <2> HIDE DEF mid
    <2>5. list'.recorded = now
      BY <2>1, <2>4
    <2>6. \A l \in {now, previous} :
            \E k \in 0 .. Offline : /\ l = [i \in 1 .. k |-> RefEvidence(i)']
                                    /\ \A i \in 1 .. k : RefSettled(i)'
      BY <2>3, ListStays DEF ListsAble
    <2> QED
      BY <2>1, <2>5, <2>6 DEF ListsAble, ListsReferences
  <1>5. CASE list' = list /\ previous' \in {previous, <<>>}
    BY <1>5, ListsStay
  <1>6. \/ PlanReferences \/ PublishReferences \/ CompleteReferences
        \/ (\E j \in References : RecordReference(j))
        \/ list' = list /\ previous' \in {previous, <<>>}
    <2>1. CASE RunStep /\ UNCHANGED <<refVars, finalVars, stageVars>>
      BY <2>1 DEF refVars
    <2>2. CASE RefStep
      BY <2>2 DEF RefStep, ReuseReference, Fit, SealReference, JoinReference, refVars
    <2>3. CASE PlanOnline \/ PublishOnline \/ CompleteOnline
      BY <2>3 DEF PlanOnline, PublishOnline, CompleteOnline, Go, refVars
    <2>4. CASE Combine
      <3>1. list' = list /\ previous' = previous
        BY <2>4 DEF Combine, refVars
      <3> QED
        BY <3>1
    <2>5. CASE \E i \in Runs : Record(i)
      <3>1. list' = list /\ previous' = previous
        BY <2>5 DEF Record, refVars
      <3> QED
        BY <3>1
    <2>6. CASE AggregateStep
      BY <2>6 DEF AggregateStep, LoadEvidence, RefuseEvidence, WriteInput, RenderPages, RefusePages,
                RenderManifest, PublishAggregate, CacheArray, CacheManifest, UseCache,
                matrixFiles, refVars
    <2>7. CASE WorldStep
      BY <2>7 DEF WorldStep, Relaunch, Launch, LaunchAggregate, RefuseLock, Crash, MoveHost, Qualify,
                matrixFiles, refVars
    <2>8. CASE UNCHANGED vars
      BY <2>8 DEF vars, refVars
    <2> QED
      BY <2>1, <2>2, <2>3, <2>4, <2>5, <2>6, <2>7, <2>8 DEF Next, Work, FinalStep, WorldStep
  <1> QED
    BY <1>1, <1>2, <1>3, <1>4, <1>5, <1>6

(* What was published on the way, and how far the report is.                *)
PublishedOnline == {"close online", "offline"} \cup Referring \cup Referred
FurtherAble ==
  /\ pc \in PublishedOnline => online.matrix # {}
  /\ pc \in {"close offline", "combine"} => list.matrix # {}
  /\ aggregate.report \in {"none", "pages", "complete"}
  /\ pc = "bootstrap" => at \in Runs

LEMMA OnlineListed ==
  ASSUME IInv, FurtherAble, FinalStep \/ AggregateStep \/ WorldStep, pc' \in PublishedOnline
  PROVE  online'.matrix # {}
  <1>0. online = [planned |-> online.planned, recorded |-> online.recorded,
                  complete |-> online.complete, matrix |-> online.matrix]
    BY DEF IInv, MatrixCorrect, InOrder
  <1> USE DEF PublishedOnline, Referring, Referred
  <1>1. CASE RunStep
    <2>1. \E i \in Runs : RunMoves(i)
      BY <1>1, RunStepKeeps DEF IInv
    <2> QED
      BY <2>1 DEF RunMoves, Executing, Replaying, Sealing, Evaluating, Closing
  <1>2. CASE RefStep /\ UNCHANGED finalVars
    <2>1. pc \in PublishedOnline
      BY <1>2 DEF RefStep, PlanReferences, PublishReferences, CompleteReferences, ReuseReference,
                  Fit, SealReference, JoinReference, RecordReference, RefStage
    <2> QED
      BY <1>2, <2>1 DEF FurtherAble, finalVars
  <1>3. CASE PublishOnline
    <2> DEFINE bound == {online.recorded}
    <2>1. online' = [online EXCEPT !.matrix = bound]
      BY <1>3 DEF PublishOnline
    <2>2. bound # {}
      OBVIOUS
    <2> HIDE DEF bound
    <2> QED
      BY <1>0, <2>1, <2>2
  <1>4. CASE CompleteOnline
    <2> DEFINE yes == TRUE
    <2>1. online' = [online EXCEPT !.complete = yes] /\ pc = "close online"
      BY <1>4 DEF CompleteOnline
    <2> HIDE DEF yes
    <2>2. online'.matrix = online.matrix
      BY <1>0, <2>1
    <2> QED
      BY <2>1, <2>2 DEF FurtherAble
  <1>5. CASE PlanOnline
    BY <1>5 DEF PlanOnline, Go
  <1>6. CASE Combine
    <2>1. pc' = "off"
      BY <1>6 DEF Combine
    <2> QED
      BY <2>1
  <1>7. CASE \E i \in Runs : Record(i)
    <2>1. pc' \in {"matrix", "execute"}
      BY <1>7 DEF Record
    <2> QED
      BY <2>1
  <1>8. CASE AggregateStep
    BY <1>8 DEF AggregateStep, LoadEvidence, RefuseEvidence, WriteInput, RenderPages, RefusePages,
                RenderManifest, PublishAggregate, CacheArray, CacheManifest, UseCache, Go, Refuse
  <1>9. CASE WorldStep
    <2>1. pc' \in {"online", "aggregate", "refused", "off"}
      BY <1>9 DEF WorldStep, Relaunch, Launch, LaunchAggregate, RefuseLock, Refuse, Crash, MoveHost, Qualify, Down
    <2> QED
      BY <2>1
  <1> QED
    BY <1>1, <1>2, <1>3, <1>4, <1>5, <1>6, <1>7, <1>8, <1>9 DEF FinalStep

LEMMA OfflineListed ==
  ASSUME IInv, FurtherAble, FinalStep \/ AggregateStep \/ WorldStep, pc' \in {"close offline", "combine"}
  PROVE  list'.matrix # {}
  <1>0. list = [planned |-> list.planned, recorded |-> list.recorded,
                complete |-> list.complete, matrix |-> list.matrix]
    BY DEF IInv, MatrixCorrect, ReferredInOrder
  <1>1. CASE RunStep
    <2>1. \E i \in Runs : RunMoves(i)
      BY <1>1, RunStepKeeps DEF IInv
    <2> QED
      BY <2>1 DEF RunMoves, Executing, Replaying, Sealing, Evaluating, Closing
  <1>2. CASE PublishReferences
    <2> DEFINE bound == {list.recorded}
    <2>1. list' = [list EXCEPT !.matrix = bound]
      BY <1>2 DEF PublishReferences
    <2>2. bound # {}
      OBVIOUS
    <2> HIDE DEF bound
    <2> QED
      BY <1>0, <2>1, <2>2
  <1>3. CASE CompleteReferences
    <2> DEFINE yes == TRUE
    <2>1. list' = [list EXCEPT !.complete = yes] /\ pc = "close offline"
      BY <1>3 DEF CompleteReferences
    <2> HIDE DEF yes
    <2>2. list'.matrix = list.matrix
      BY <1>0, <2>1
    <2> QED
      BY <2>1, <2>2 DEF FurtherAble
  <1>4. CASE RefStep /\ ~PublishReferences /\ ~CompleteReferences
    BY <1>4 DEF RefStep, PlanReferences, ReuseReference, Fit, SealReference, JoinReference,
                RecordReference, Go
  <1>5. CASE PlanOnline \/ PublishOnline \/ CompleteOnline
    BY <1>5 DEF PlanOnline, PublishOnline, CompleteOnline, Go
  <1>6. CASE Combine
    <2>1. pc' = "off"
      BY <1>6 DEF Combine
    <2> QED
      BY <2>1
  <1>7. CASE \E i \in Runs : Record(i)
    <2>1. pc' \in {"matrix", "execute"}
      BY <1>7 DEF Record
    <2> QED
      BY <2>1
  <1>8. CASE AggregateStep
    BY <1>8 DEF AggregateStep, LoadEvidence, RefuseEvidence, WriteInput, RenderPages, RefusePages,
                RenderManifest, PublishAggregate, CacheArray, CacheManifest, UseCache, Go, Refuse
  <1>9. CASE WorldStep
    <2>1. pc' \in {"online", "aggregate", "refused", "off"}
      BY <1>9 DEF WorldStep, Relaunch, Launch, LaunchAggregate, RefuseLock, Refuse, Crash, MoveHost, Qualify, Down
    <2> QED
      BY <2>1
  <1> QED
    BY <1>1, <1>2, <1>3, <1>4, <1>5, <1>6, <1>7, <1>8, <1>9 DEF FinalStep

LEMMA ReportKept ==
  ASSUME IInv, FurtherAble, [Next]_vars
  PROVE  aggregate'.report \in {"none", "pages", "complete"}
  <1> DEFINE a == aggregate
  <1>0. a = [array |-> a.array, cache |-> a.cache, input |-> a.input,
             report |-> a.report, manifest |-> a.manifest]
    BY DEF IInv, AggregateCorrect, AggregateInOrder, AggregateTrue
  <1>1. CASE aggregate' = a
    BY <1>1 DEF FurtherAble
  <1>2. ASSUME NEW x, \/ aggregate' = [a EXCEPT !.array = x] \/ aggregate' = [a EXCEPT !.cache = x]
                      \/ aggregate' = [a EXCEPT !.input = x] \/ aggregate' = [a EXCEPT !.manifest = x]
        PROVE  aggregate'.report \in {"none", "pages", "complete"}
    <2>1. aggregate'.report = a.report
      BY <1>0, <1>2
    <2> QED
      BY <2>1 DEF FurtherAble
  <1>3. CASE RenderPages \/ RenderManifest
    <2>1. PICK x \in {"pages", "complete"} : aggregate' = [a EXCEPT !.report = x]
      BY <1>3 DEF RenderPages, RenderManifest
    <2> QED
      BY <1>0, <2>1
  <1>4. CASE \E i \in Runs : CacheArray(i) \/ CacheManifest(i)
    <2>1. PICK i \in Runs : CacheArray(i) \/ CacheManifest(i)
      BY <1>4
    <2>2. \/ aggregate' = [a EXCEPT !.array = [@ EXCEPT ![i] = {Evidence(i)}]]
          \/ aggregate' = [a EXCEPT !.cache = [@ EXCEPT ![i] = a.array[i]]]
      BY <2>1 DEF CacheArray, CacheManifest
    <2> QED
      BY <1>0, <1>2, <2>2
  <1>5. CASE WriteInput \/ PublishAggregate
    <2>1. \/ aggregate' = [a EXCEPT !.input = {Report}]
          \/ aggregate' = [a EXCEPT !.manifest = a.input]
      BY <1>5 DEF WriteInput, PublishAggregate
    <2> QED
      BY <1>2, <2>1
  <1>6. CASE LoadEvidence \/ RefuseEvidence \/ RefusePages \/ \E i \in Runs : UseCache(i)
    BY <1>1, <1>6 DEF LoadEvidence, RefuseEvidence, RefusePages, UseCache, stageVars
  <1>7. CASE (FinalStep /\ UNCHANGED stageVars) \/ UNCHANGED vars
    BY <1>1, <1>7 DEF stageVars, vars
  <1>8. CASE WorldStep
    BY <1>1, <1>8 DEF WorldStep, Relaunch, LaunchAggregate, Qualify, stageVars
  <1> QED
    BY <1>3, <1>4, <1>5, <1>6, <1>7, <1>8 DEF Next, Work, AggregateStep, WorldStep

LEMMA AtBootstrap ==
  ASSUME IInv, FinalStep \/ AggregateStep \/ WorldStep, pc' = "bootstrap"
  PROVE  at' \in Runs
  <1>1. CASE LoadEvidence
    <2>1. at' = at /\ pc = "aggregate" /\ Online # 0
      BY <1>1 DEF LoadEvidence, Go, proc
    <2> QED
      BY <2>1, Constants DEF IInv, AggregateCorrect, AtAggregate
  <1>2. CASE \E i \in Runs : CacheArray(i) \/ CacheManifest(i)
    BY <1>2 DEF CacheArray, CacheManifest, Go, proc
  <1>3. CASE \E i \in Runs : UseCache(i)
    <2>1. PICK i \in Runs : at' = i + 1 /\ i # Online
      BY <1>3 DEF UseCache
    <2> QED
      BY <2>1, Constants
  <1>4. CASE RunStep
    <2>1. \E i \in Runs : RunMoves(i)
      BY <1>4, RunStepKeeps DEF IInv
    <2> QED
      BY <2>1 DEF RunMoves, Executing, Replaying, Sealing, Evaluating, Closing
  <1>5. CASE RefStep
    BY <1>5 DEF RefStep, PlanReferences, PublishReferences, CompleteReferences, ReuseReference, Fit,
                SealReference, JoinReference, RecordReference, Go
  <1>6. CASE PlanOnline \/ PublishOnline \/ CompleteOnline
    BY <1>6 DEF PlanOnline, PublishOnline, CompleteOnline, Go
  <1>7. CASE Combine
    <2>1. pc' = "off"
      BY <1>7 DEF Combine
    <2> QED
      BY <2>1
  <1>8. CASE \E i \in Runs : Record(i)
    <2>1. pc' \in {"matrix", "execute"}
      BY <1>8 DEF Record
    <2> QED
      BY <2>1
  <1>9. CASE \/ RefuseEvidence \/ WriteInput \/ RenderPages \/ RefusePages \/ RenderManifest
             \/ PublishAggregate
    BY <1>9 DEF RefuseEvidence, WriteInput, RenderPages, RefusePages, RenderManifest,
                PublishAggregate, Go, Refuse
  <1>10. CASE WorldStep
    <2>1. pc' \in {"online", "aggregate", "refused", "off"}
      BY <1>10 DEF WorldStep, Relaunch, Launch, LaunchAggregate, RefuseLock, Refuse, Crash, MoveHost, Qualify, Down
    <2> QED
      BY <2>1
  <1> QED
    BY <1>1, <1>2, <1>3, <1>4, <1>5, <1>6, <1>7, <1>8, <1>9, <1>10 DEF FinalStep, AggregateStep

LEMMA FurtherAbleKept ==
  ASSUME IInv, FurtherAble, [Next]_vars
  PROVE  FurtherAble'
  <1>1. CASE FinalStep \/ AggregateStep \/ WorldStep
    <2>1. Runs' = Runs
      BY DEF Runs
    <2> QED
      BY <1>1, <2>1, OnlineListed, OfflineListed, ReportKept, AtBootstrap
      DEF FurtherAble, PublishedOnline, Referring, Referred
  <1>2. CASE UNCHANGED vars
    BY <1>2 DEF vars, runVars, proc, refVars, finalVars, stageVars, FurtherAble, PublishedOnline,
                Referring, Referred, Runs
  <1> QED
    BY <1>1, <1>2 DEF Next, Work, WorldStep

GoesInv ==
  /\ IInv /\ RunsAble /\ FilesAble /\ ListsAble /\ FurtherAble
  /\ pc \in StagePlaces

LEMMA GoesInvInitially == Init => GoesInv
  <1> SUFFICES ASSUME Init PROVE GoesInv
    OBVIOUS
  <1>1. /\ root = [i \in Runs |-> EmptyRoot] /\ pc = "off" /\ previous = <<>>
        /\ ref = [j \in References |-> [array |-> FALSE, manifest |-> {}, evaluation |-> {}]]
        /\ list.recorded = <<>> /\ aggregate.report = "none"
    BY DEF Init, RunInit, RefInit
  <1>2. IInv
    BY Initially
  <1>3. RunsAble
    <2>1. /\ EmptyRoot.exposures = 0 /\ EmptyRoot.saved = {} /\ EmptyRoot.snapshots = NoModels
      BY DEF EmptyRoot
    <2>2. \A i \in Runs : 0 \in 0 .. Credits(i)
      BY SpentNext
    <2>3. \A i \in Runs : Replayable(i, EmptyRoot)
      BY <2>1, <2>2 DEF Replayable, NoModels
    <2> QED
      BY <1>1, <2>3 DEF RunsAble, AllReplayable, AtReplay, FitsRun, Replaying, Sealing
  <1>4. FilesAble
    BY <1>1 DEF FilesAble, FileAble
  <1>5. ListsAble
    BY <1>1, ListsNothing DEF ListsAble
  <1>6. FurtherAble /\ pc \in StagePlaces
    BY <1>1 DEF FurtherAble, PublishedOnline, Referring, Referred, StagePlaces, Apart
  <1> QED
    BY <1>2, <1>3, <1>4, <1>5, <1>6 DEF GoesInv

LEMMA GoesInvKept == GoesInv /\ [Next]_vars => GoesInv'
  <1> SUFFICES ASSUME GoesInv, [Next]_vars PROVE GoesInv'
    OBVIOUS
  <1>1. /\ IInv /\ RunsAble /\ FilesAble /\ ListsAble /\ FurtherAble /\ pc \in StagePlaces
    BY DEF GoesInv
  <1>2. IInv' /\ Frozen
    BY <1>1, Inductive
  <1>3. pc' \in StagePlaces
    BY <1>1, PlacesKept
  <1>4. RunsAble' /\ FilesAble' /\ ListsAble' /\ FurtherAble'
    BY <1>1, <1>2, RunsAbleKept, FilesAbleKept, ListsAbleKept, FurtherAbleKept
  <1>5. StagePlaces' = StagePlaces
    BY DEF StagePlaces
  <1> QED
    BY <1>2, <1>3, <1>4 DEF GoesInv, StagePlaces, Apart

(* What the steps of a run check before they write.                         *)
RunProceeds ==
  /\ pc \in Executing => at \in Runs
  /\ pc = "execute" =>
       LET d == root[at] IN
       \/ /\ d.retention # {} /\ d.manifest # {} /\ d.evaluation # {} /\ d.compact /\ d.array
       \/ d.retention = {} /\ d.manifest # {}
       \/ /\ d.retention = {} /\ d.manifest = {}
          /\ \A s \in d.saved : s.weights.credits <= d.exposures
  /\ pc = "snapshot" => due # {} /\ root[at].snapshots[Min(due)] \subseteq {weights}
  /\ pc = "seal primary" => weights.credits = Credits(at)
  /\ pc = "seal exposures" => root[at].exposures = Credits(at)
  /\ pc = "intermediate" => root[at].manifest = {} /\ \A f \in Parts : root[at].snapshots[f] # {}
  /\ pc \in {"evaluate", "score"} => SealsAlign(at) /\ (root[at].compact => root[at].array)
  /\ pc = "score" => root[at].evaluation \subseteq {root[at].intermediate}
  /\ pc = "retain" => /\ root[at].retention = {}
                      /\ ChainAligns(at) \/ \E s \in root[at].saved : ~SameIdentity(s)

(* A combined report that is there is the one the two matrices give.        *)
CombinesOnce == \A r \in final : \E m \in online.matrix, n \in list.matrix : r = m \o n

(* What the coordinators compare with what they find.                       *)
MatrixProceeds ==
  /\ pc = "record" /\ at <= Last => online.recorded[at] = Evidence(at)
  /\ pc = "matrix" => online.matrix \subseteq {online.recorded}
  /\ pc \in Referring => next \in References
  /\ pc = "reference" =>
       /\ RefSettled(next) => ref[next].array /\ ref[next].evaluation = ref[next].manifest
       /\ ref[next].manifest # {} => ref[next].array
  /\ pc = "record reference" /\ next <= Len(previous) => previous[next] = RefEvidence(next)
  /\ pc = "offline matrix" => list.matrix \subseteq {list.recorded}
  /\ pc = "combine" => /\ online.matrix # {} /\ list.matrix # {}
                       /\ CombinesOnce

(* What the aggregation finds under aggregate/.                             *)
AggregateProceeds ==
  /\ pc \in {"bootstrap", "cache"} => at \in Runs
  /\ pc = "bootstrap" /\ aggregate.cache[at] # {} =>
       /\ aggregate.cache[at] = {Evidence(at)} /\ aggregate.array[at] = aggregate.cache[at]
  /\ pc = "input" => aggregate.input \subseteq {Report}
  /\ pc = "report" => /\ aggregate.report \in {"none", "pages", "complete"}
                      /\ aggregate.manifest \subseteq aggregate.input

(* At every place of a launch the guards of one of its steps hold and what  *)
(* the step reads is there.                                                 *)
Proceeds == pc \in StagePlaces /\ RunProceeds /\ MatrixProceeds /\ AggregateProceeds

LEMMA RunGoesOn == GoesInv => RunProceeds
  <1> SUFFICES ASSUME GoesInv, pc \in Executing PROVE RunProceeds
    BY DEF RunProceeds, Executing, Replaying, Sealing, Evaluating, Closing
  <1> DEFINE d == root[at]
  <1>1. RunsCorrect /\ RunsAble /\ at \in Runs
    BY DEF GoesInv, IInv, RunsCorrect, AtRun
  <1>2. TrueRoot(at, d) /\ Replayable(at, d) /\ FitsRun(pc, at, d, day, weights, due, host)
    BY <1>1 DEF RunsCorrect, RootsCorrect, RunsAble, AllReplayable, AtReplay
  <1>3. d.manifest # {} => \E m \in d.manifest : Closed(at, d, m)
    BY <1>2 DEF TrueRoot
  <1>4. pc \in Evaluating => d.manifest # {} /\ d.retention = {}
    BY <1>1 DEF RunsCorrect, AtRun
  <1>5. pc = "execute" =>
       \/ /\ d.retention # {} /\ d.manifest # {} /\ d.evaluation # {} /\ d.compact /\ d.array
       \/ d.retention = {} /\ d.manifest # {}
       \/ /\ d.retention = {} /\ d.manifest = {}
          /\ \A s \in d.saved : s.weights.credits <= d.exposures
    <2>1. d.manifest = {} => d.retention = {} /\ \A s \in d.saved : s.weights.credits <= d.exposures
      BY <1>2 DEF TrueRoot, Open, Replayable, Resumable
    <2>2. d.manifest # {} /\ d.retention # {} => d.evaluation # {} /\ d.compact /\ d.array
      BY <1>3 DEF Closed
    <2> QED
      BY <2>1, <2>2
  <1>6. ASSUME pc = "snapshot" PROVE due # {} /\ d.snapshots[Min(due)] \subseteq {weights}
    <2>1. /\ due # {} /\ due \subseteq Parts /\ \A f \in due : Boundary(at, f) = weights.credits
          /\ weights = [credits |-> weights.credits, hosts |-> {host}]
      BY <1>1, <1>6 DEF RunsCorrect, AtRun, Replaying
    <2>2. Min(due) \in due /\ Min(due) \in Parts
      BY <2>1, Constants, MinIn
    <2>3. \A f \in Parts : \A w \in d.snapshots[f] : w.hosts = {host}
      BY <1>2, <1>6 DEF FitsRun, Replays, Replaying
    <2>4. \A f \in Parts : \A w \in d.snapshots[f] :
            \E h \in Hosts : w = [credits |-> Boundary(at, f), hosts |-> {h}]
      BY <1>2 DEF TrueRoot, Right
    <2>5. ASSUME NEW w \in d.snapshots[Min(due)] PROVE w = weights
      <3>1. PICK h \in Hosts : w = [credits |-> Boundary(at, Min(due)), hosts |-> {h}]
        BY <2>2, <2>4
      <3>2. w.hosts = {host} /\ Boundary(at, Min(due)) = weights.credits
        BY <2>1, <2>2, <2>3
      <3>3. {h} = {host}
        BY <3>1, <3>2
      <3> QED
        BY <2>1, <3>1, <3>2, <3>3
    <2> QED
      BY <2>1, <2>5
  <1>7. ASSUME pc \in Sealing
        PROVE  /\ weights.credits = Credits(at) /\ d.exposures = Credits(at) /\ d.manifest = {}
               /\ \A f \in Parts : d.snapshots[f] # {}
    <2>1. /\ d.manifest = {} /\ weights.credits = Credits(at)
          /\ Replays(pc, at, d, weights, due, host) /\ d.exposures \in 0 .. Credits(at)
      BY <1>1, <1>7, AtOpen DEF Replaying, OnDay
    <2>2. weights.credits <= d.exposures /\ Credits(at) \in Nat
      BY <1>1, <2>1, SpentNext DEF Replays
    <2>3. d.exposures = Credits(at)
      BY <2>1, <2>2
    <2>4. \A f \in Parts : Boundary(at, f) <= weights.credits
      BY <1>1, <2>1, <2>2, BoundaryPositive
    <2>5. pc # "snapshot"
      BY <1>7 DEF Sealing
    <2> QED
      BY <2>1, <2>3, <2>4, <2>5 DEF Replays
  <1>8. pc \in Evaluating =>
          /\ SealsAlign(at) /\ "exposures" \in d.sealed /\ d.saved # {}
          /\ d.evaluation \subseteq {d.intermediate}
          /\ \A m \in d.manifest : d.evaluation \subseteq {m.models}
    <2> SUFFICES ASSUME pc \in Evaluating
                 PROVE  /\ SealsAlign(at) /\ "exposures" \in d.sealed /\ d.saved # {}
                        /\ d.evaluation \subseteq {d.intermediate}
                        /\ \A m \in d.manifest : d.evaluation \subseteq {m.models}
      OBVIOUS
    <2>1. PICK m \in d.manifest : Closed(at, d, m)
      BY <1>3, <1>4
    <2>2. /\ d.manifest = {m} /\ d.sealed = {"primary", "exposures"}
          /\ d.snapshots = m.models /\ d.intermediate = m.models
          /\ d.saved # {} /\ d.evaluation \subseteq {m.models}
      BY <1>4, <2>1 DEF Closed
    <2> QED
      BY <2>2 DEF SealsAlign
  <1>9. d.compact => d.array
    BY <1>2 DEF TrueRoot
  <1>10. pc = "retain" => /\ d.retention = {}
                          /\ ChainAligns(at) \/ \E s \in d.saved : ~SameIdentity(s)
    <2>1. pc = "retain" => /\ d.compact /\ d.array /\ d.evaluation # {} /\ d.retention = {}
                           /\ SealsAlign(at) /\ "exposures" \in d.sealed /\ d.saved # {}
                           /\ \A m \in d.manifest : d.evaluation = {m.models}
      BY <1>2, <1>4, <1>8, <1>9 DEF FitsRun, Evaluating
    <2> QED
      BY <2>1 DEF ChainAligns
  <1> QED
    BY <1>1, <1>5, <1>6, <1>7, <1>8, <1>9, <1>10 DEF RunProceeds, Sealing, Evaluating

LEMMA MatrixGoesOn == GoesInv => MatrixProceeds
  <1> SUFFICES ASSUME GoesInv PROVE MatrixProceeds
    OBVIOUS
  <1>1. /\ InOrder /\ ReferredInOrder /\ AggregateInOrder /\ RunsCorrect
        /\ FilesAble /\ ListsAble /\ FurtherAble
    BY DEF GoesInv, IInv, MatrixCorrect, AggregateCorrect
  <1>2. pc = "record" /\ at <= Last => online.recorded[at] = Evidence(at)
    <2>1. pc = "record" => at \in Runs
      BY <1>1 DEF RunsCorrect, AtRun, Executing, Closing
    <2>2. pc = "record" /\ at <= Last => at \in 1 .. Last
      BY <1>1, <2>1, Constants DEF InOrder
    <2> QED
      BY <1>1, <2>2 DEF InOrder
  <1>3. pc = "matrix" => online.matrix \subseteq {online.recorded}
    BY <1>1 DEF InOrder
  <1>4. pc \in Referring => next \in References
    BY <1>1 DEF ReferredInOrder
  <1>5. pc = "reference" =>
       /\ RefSettled(next) => ref[next].array /\ ref[next].evaluation = ref[next].manifest
       /\ ref[next].manifest # {} => ref[next].array
    BY <1>1, <1>4 DEF FilesAble, FileAble, RefSettled, Referring
  <1>6. ASSUME pc = "record reference", next <= Len(previous) PROVE previous[next] = RefEvidence(next)
    <2>0. next \in 1 .. Offline
      BY <1>4, <1>6 DEF Referring, References
    <2>1. PICK k \in 0 .. Offline : previous = [j \in 1 .. k |-> RefEvidence(j)]
      BY <1>1 DEF ListsAble, ListsReferences
    <2>2. k \in Nat /\ next \in Nat /\ next >= 1
      BY <2>0, OfflineConstants
    <2> HIDE DEF RefEvidence
    <2>3. Len(previous) = k
      <3>1. DOMAIN previous = 1 .. k /\ previous \in Seq({RefEvidence(j) : j \in 1 .. k})
        BY <2>1, <2>2
      <3> QED
        BY <2>2, <3>1
    <2>4. next <= k
      BY <1>6, <2>3
    <2>5. next \in 1 .. k
      BY <2>2, <2>4
    <2> QED
      BY <2>1, <2>5
  <1>7. pc = "offline matrix" => list.matrix \subseteq {list.recorded}
    BY <1>1 DEF ReferredInOrder
  <1>8. ASSUME pc = "combine"
        PROVE  /\ online.matrix # {} /\ list.matrix # {}
               /\ CombinesOnce
    <2>1. online.matrix # {} /\ list.matrix # {}
      BY <1>1, <1>8 DEF FurtherAble, PublishedOnline, Referred
    <2>2. online.matrix = {online.recorded} /\ list.matrix = {RefReport} /\ Last = Online
      BY <1>1, <2>1 DEF InOrder, ReferredInOrder
    <2>3. online.recorded = [i \in Runs |-> Evidence(i)]
      BY <1>1, <2>2, Constants DEF InOrder
    <2>4. Report = online.recorded \o RefReport
      BY <2>3 DEF Report, RefReport
    <2>5. final \subseteq {Report}
      BY <1>1 DEF AggregateInOrder, Published
    <2>6. \E m \in online.matrix, n \in list.matrix : Report = m \o n
      BY <2>2, <2>4
    <2>7. CombinesOnce
      BY <2>5, <2>6 DEF CombinesOnce
    <2> QED
      BY <2>1, <2>7
  <1> QED
    BY <1>2, <1>3, <1>4, <1>5, <1>6, <1>7, <1>8 DEF MatrixProceeds

LEMMA AggregateGoesOn == GoesInv => AggregateProceeds
  <1> SUFFICES ASSUME GoesInv PROVE AggregateProceeds
    OBVIOUS
  <1>1. AggregateTrue(aggregate) /\ AtAggregate /\ FurtherAble
    BY DEF GoesInv, IInv, AggregateCorrect, AggregateInOrder
  <1>2. pc \in {"bootstrap", "cache"} => at \in Runs
    BY <1>1 DEF FurtherAble, AtAggregate
  <1>3. \A i \in Runs : aggregate.cache[i] # {} =>
          aggregate.cache[i] = {Evidence(i)} /\ aggregate.array[i] = aggregate.cache[i]
    BY <1>1 DEF AggregateTrue
  <1>4. aggregate.input \subseteq {Report} /\ aggregate.manifest \subseteq aggregate.input
    BY <1>1 DEF AggregateTrue
  <1>5. aggregate.report \in {"none", "pages", "complete"}
    BY <1>1 DEF FurtherAble
  <1> QED
    BY <1>2, <1>3, <1>4, <1>5 DEF AggregateProceeds

(* Once the matrix is bound, every chain verifies.                          *)
LEMMA PublishedVerifies ==
  ASSUME GoesInv, gate, final # {}
  PROVE  Aggregable
  <1>1. /\ InOrder /\ RunsCorrect /\ FilesAble /\ Last = Online /\ AllReferred
    BY DEF GoesInv, IInv, MatrixCorrect, AggregateCorrect, AggregateInOrder, Published
  <1>2. \A i \in Runs : Settled(i)
    BY <1>1, Constants DEF InOrder
  <1>3. ASSUME NEW i \in Runs, NEW r \in root[i].retention
        PROVE  /\ root[i].manifest = {r.manifest} /\ root[i].evaluation = {r.evaluation}
               /\ root[i].compact /\ root[i].array
    <2> DEFINE d == root[i]
    <2>1. TrueRoot(i, d) /\ r \in d.retention
      BY <1>1, <1>3 DEF RunsCorrect, RootsCorrect
    <2> HIDE DEF d
    <2>2. d.manifest # {}
      BY <2>1 DEF TrueRoot, Open
    <2>3. PICK m \in d.manifest : Closed(i, d, m)
      BY <2>1, <2>2 DEF TrueRoot
    <2>4. r = [manifest |-> m, evaluation |-> m.models]
      BY <2>1, <2>3 DEF Closed
    <2>5. d.manifest = {r.manifest} /\ d.evaluation = {r.evaluation} /\ d.compact /\ d.array
      BY <2>1, <2>3, <2>4 DEF Closed
    <2> QED
      BY <2>5 DEF d
  <1>4. \A j \in References : RefSettled(j) /\ ref[j].evaluation = ref[j].manifest
    BY <1>1 DEF AllReferred, FilesAble, FileAble, RefSettled
  <1> QED
    BY <1>2, <1>3, <1>4 DEF Aggregable

(* A run trips over the file of a dead launch once, and an aggregation is   *)
(* too early.                                                               *)
Retried ==
  \/ pc = "evaluate" /\ root[at].temp
  \/ pc = "aggregate" /\ (~gate \/ final = {})

RefusedForReason == pc' = "refused" => pc = "refused" \/ Blocked \/ Retried

LEMMA RefusesForReason ==
  ASSUME GoesInv, [Next]_vars
  PROVE  RefusedForReason
  <1> SUFFICES ASSUME pc' = "refused" PROVE pc = "refused" \/ Blocked \/ Retried
    BY DEF RefusedForReason
  <1>1. CASE RunStep
    <2>1. PICK i \in Runs : \/ RefuseRoot(i) \/ RefuseHost(i) \/ RefuseStray(i)
                          \/ TripOverTemp(i) \/ RefuseReceipt(i)
      BY <1>1 DEF RunStep, ReuseRetention, Reevaluate, OpenFresh, Resume, Decide, WriteSnapshot, Save,
                  SealPrimary, SealExposures, SaveSealed, SealIntermediate, WriteManifest,
                  ReuseCompact, StageArray, PublishArray, WriteCompact, WriteEvaluation,
                  WriteReceipt, Prune, EndPrune, Go
    <2>2. CASE RefuseRoot(i)
      BY <2>2 DEF RefuseRoot, Opens, Blocked
    <2>3. CASE RefuseHost(i)
      BY <2>3 DEF RefuseHost, Opens, Blocked
    <2>6. CASE RefuseStray(i)
      BY <2>6 DEF RefuseStray, Strayed, Blocked
    <2>4. CASE TripOverTemp(i)
      BY <2>4 DEF TripOverTemp, Evaluates, Retried
    <2>5. CASE RefuseReceipt(i)
      <3>1. root[i].retention = {}
        BY <2>5 DEF RefuseReceipt, GoesInv, IInv, RunsCorrect, AtRun, Evaluating
      <3> QED
        BY <2>5, <3>1 DEF RefuseReceipt, Blocked
    <2> QED
      BY <2>1, <2>2, <2>3, <2>4, <2>5, <2>6
  <1>2. CASE RefStep
    BY <1>2 DEF RefStep, PlanReferences, PublishReferences, CompleteReferences, ReuseReference, Fit,
                SealReference, JoinReference, RecordReference, Go
  <1>3. CASE PlanOnline \/ PublishOnline \/ CompleteOnline
    BY <1>3 DEF PlanOnline, PublishOnline, CompleteOnline, Go
  <1>4. CASE Combine
    <2>1. pc' = "off"
      BY <1>4 DEF Combine
    <2> QED
      BY <2>1
  <1>5. CASE \E i \in Runs : Record(i)
    <2>1. pc' \in {"matrix", "execute"}
      BY <1>5 DEF Record
    <2> QED
      BY <2>1
  <1>6. CASE RefuseEvidence
    <2>1. pc = "aggregate" /\ ~Aggregable
      BY <1>6 DEF RefuseEvidence
    <2> QED
      BY <2>1, PublishedVerifies DEF Retried
  <1>7. CASE RefusePages
    BY <1>7 DEF RefusePages, Blocked
  <1>8. CASE AggregateStep /\ ~RefuseEvidence /\ ~RefusePages
    BY <1>8 DEF AggregateStep, LoadEvidence, WriteInput, RenderPages, RenderManifest,
                PublishAggregate, CacheArray, CacheManifest, UseCache, Go
  <1>9. CASE RefuseLock
    BY <1>9 DEF RefuseLock, Blocked
  <1>10. CASE WorldStep /\ ~RefuseLock
    BY <1>10 DEF WorldStep, Relaunch, Launch, LaunchAggregate, Crash, MoveHost, Qualify, matrixFiles
  <1>11. CASE UNCHANGED vars
    BY <1>11 DEF vars, runVars
  <1> QED
    BY <1>1, <1>2, <1>3, <1>4, <1>5, <1>6, <1>7, <1>8, <1>9, <1>10, <1>11
    DEF Next, Work, FinalStep, WorldStep

(* A command stops only where it is done or killed, and is refused only for *)
(* one of the five reasons of Blocked, once over a file that a dead launch  *)
(* left, or because it comes before what it reads (final_executor.py,       *)
(* final_coordinator.py, production_offline.py, production_aggregate.py):   *)
(* every other check of a run, a list or an aggregate passes, however often *)
(* the launches before died and wherever the operator moved in between.  It *)
(* is the safety half of EventuallySettles.                                 *)
THEOREM StageGoesOn == Spec => []Proceeds /\ [][RefusedForReason]_vars
<1>1. GoesInv => Proceeds
  BY RunGoesOn, MatrixGoesOn, AggregateGoesOn DEF GoesInv, Proceeds
<1>2. GoesInv /\ [Next]_vars => [RefusedForReason]_vars
  BY RefusesForReason
<1>3. Spec => []GoesInv
  BY GoesInvInitially, GoesInvKept, PTL DEF Spec
<1>4. Spec => []Proceeds
  BY <1>1, <1>3, PTL
<1>5. Spec => [][RefusedForReason]_vars
  BY <1>2, <1>3, PTL DEF Spec
<1> QED
  BY <1>4, <1>5, PTL

=============================================================================
