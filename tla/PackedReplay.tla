----------------------------- MODULE PackedReplay -----------------------------
(***************************************************************************)
(* A final production run (experiments/production_final_controller.py):    *)
(* the hourly replay that predicts the clicks of the evaluation days,      *)
(* reveals the truth that is due (simulator/production_oracle.py), moves   *)
(* the packed delayed-label method (methods/production.py) and its record  *)
(* stores (training/packed.py) to the boundary, initializes the model once *)
(* the first day is mature, spends training credits at daily decisions,    *)
(* writes a checkpoint after each decision and after the seal, and goes on *)
(* revealing until the last truth.  The process may die anywhere; the      *)
(* executor starts it again from its latest checkpoint.                    *)
(*                                                                         *)
(* Time counts from the origin.  A store is the set of its records: a      *)
(* batch is sorted the same way each time.  Training is deterministic, so  *)
(* a model is the sequence of what it was trained on.  The checkpoint      *)
(* store, the ledgers' files, the scheduler's choice of days, the sampler  *)
(* and the snapshots are not in this module: a checkpoint is written in a  *)
(* step, and so is the part of a boundary or of a credit.                  *)
(***************************************************************************)
EXTENDS Integers, Sequences, FiniteSets

CONSTANTS
  NumClicks,     \* features.click_days.size
  Hour,          \* HOUR_SECONDS
  HoursPerDay,   \* 24
  Attribution,   \* attribution_days, 30
  WaitDays,      \* wait_days
  EvaluationDay, \* FINAL_FIRST_CLICK_DAY, 65
  LastDay,       \* FINAL_LAST_CLICK_DAY and FINAL_LAST_DECISION_DAY, 89
  MonitorDays,   \* days of a monitoring cohort, 7
  Methods,       \* the methods checked
  Fixtures,      \* the data, its monitoring members and its credit days
  MaxCrashes     \* bound on the deaths of the process

AllMethods == {"complete_wait", "immediate_fake_negative", "fixed_wait", "dfm",
               "fnw", "es_dfm", "oracle_reference"}

Clicks == 0 .. NumClicks - 1
Day == HoursPerDay * Hour
Window == Attribution * Day
Wait == WaitDays * Day
Never == Window + 1 \* the delay of a click that does not convert

FirstDecision == Attribution + 1 \* FINAL_FIRST_DECISION_DAY, 31
SealDay == LastDay + 1
DrainDay == SealDay + Attribution
DecisionDays == FirstDecision .. LastDay

\* _read_truth_file, and the controller's constructor.
IsFixture(f) ==
  /\ f.time \in [Clicks -> Nat] /\ f.time[0] = 0
  /\ \A b, c \in Clicks : b <= c => f.time[b] <= f.time[c]
  /\ \A d \in 0 .. LastDay : \E c \in Clicks : f.time[c] \div Day = d
  /\ f.delay \in [Clicks -> 0 .. Never]
  /\ f.monitored \subseteq Clicks
  /\ f.credits \subseteq DecisionDays

ASSUME ReplayConstants ==
  /\ NumClicks \in Nat \ {0} /\ Hour \in Nat \ {0} /\ HoursPerDay \in Nat \ {0}
  /\ WaitDays \in Nat \ {0} /\ Attribution \in Nat /\ WaitDays < Attribution
  /\ EvaluationDay \in Nat /\ LastDay \in Nat
  /\ FirstDecision < EvaluationDay /\ EvaluationDay <= LastDay
  /\ MonitorDays \in Nat \ {0}
  /\ Methods \subseteq AllMethods
  /\ \A f \in Fixtures : IsFixture(f)
  /\ MaxCrashes \in Nat

VARIABLES
  method,      \* plan.method
  data,        \* the fixture
  pc,          \* where run() is
  next,        \* next_boundary_index
  state,       \* the components a checkpoint saves
  seed,        \* initialization_store, not saved
  predictions, \* the primary prediction ledger on disk
  exposures,   \* the exposure ledger on disk
  sealed,      \* which of the two is sealed
  checkpoint,  \* the latest checkpoint: next_boundary_index, state, credits on disk
  crashes

fixture == <<method, data>>
disk == <<predictions, exposures, sealed, checkpoint>>
vars == <<fixture, pc, next, state, seed, disk, crashes>>

-----------------------------------------------------------------------------
(* The data.                                                               *)

ClickDay(c) == data.time[c] \div Day
Converts(c) == data.delay[c] # Never
Label(c) == IF Converts(c) THEN 1 ELSE 0
AvailableAt(c) == data.time[c] + IF Converts(c) THEN data.delay[c] ELSE Window

TrainingClicks == {c \in Clicks : ClickDay(c) <= LastDay}
TrainingLimit == Cardinality(TrainingClicks)
EvaluationClicks == {c \in Clicks : ClickDay(c) \in EvaluationDay .. LastDay}
DecisionTimes == {d * Day : d \in data.credits}
StudyB == data.credits # DecisionDays

\* searchsorted(click_times, t, side="right"), of the first n clicks.
ClickedBy(n, t) == Cardinality({c \in 0 .. n - 1 : data.time[c] <= t})

Boundary == next * Hour
IsDecision(i) == i % HoursPerDay = 0 /\ i \div HoursPerDay \in DecisionDays
FirstDecisionTime == FirstDecision * Day

Record(c, kind, target, at) == [click |-> c, kind |-> kind, target |-> target, at |-> at]

-----------------------------------------------------------------------------
(* _predict_primary.                                                       *)

\* The clicks of the boundary, up to the training limit.
Arriving ==
  LET end == ClickedBy(NumClicks, Boundary)
  IN state.clickCursor .. (IF end < TrainingLimit THEN end ELSE TrainingLimit) - 1

Fail == pc' = "failed" /\ UNCHANGED <<next, state, seed, disk>>

\* What is on disk already must be what is predicted now.
Predict ==
  /\ pc = "predict" /\ next <= DrainDay * HoursPerDay
  /\ LET refs == IF "primary" \in sealed THEN {} ELSE Arriving \cap EvaluationClicks
     IN IF \E c \in refs \cap DOMAIN predictions : predictions[c] # state.model
        THEN Fail
        ELSE /\ predictions' = [c \in DOMAIN predictions \cup refs |->
                                 IF c \in refs THEN state.model ELSE predictions[c]]
             /\ pc' = "process"
             /\ UNCHANGED <<next, state, seed, exposures, sealed, checkpoint>>
  /\ UNCHANGED <<fixture, crashes>>

-----------------------------------------------------------------------------
(* reveal_through, observe_truth and process_boundary.                     *)

Truth == {c \in TrainingClicks : state.lastTime < AvailableAt(c) /\ AvailableAt(c) <= Boundary}

Packed == method # "oracle_reference"
Waits == method \in {"fixed_wait", "es_dfm"}
Settles == method \in {"complete_wait", "es_dfm"}

Legal(cs) == cs \ data.monitored

\* _register_clicks, or the oracle's process_boundary.
AtClicks ==
  CASE method \in {"immediate_fake_negative", "fnw"} ->
         {Record(c, "provisional", 0, data.time[c]) : c \in Legal(Arriving)}
    [] method = "dfm" -> {Record(c, "dfm_click", 0, data.time[c]) : c \in Legal(Arriving)}
    [] method = "oracle_reference" ->
         {Record(c, "final", Label(c), data.time[c]) : c \in Legal(Arriving)}
    [] OTHER -> {}

\* _register_truth
AtTruth ==
  LET positives == {c \in Legal(Truth) : Converts(c)}
      IsEarly(c) == Waits /\ AvailableAt(c) <= data.time[c] + Wait
  IN IF Waits \/ method \in {"immediate_fake_negative", "fnw"}
     THEN {Record(c, IF IsEarly(c) THEN "early_positive" ELSE "correction", 1,
                  AvailableAt(c)) : c \in positives}
     ELSE {}

\* The outcomes after the truth of the boundary is registered.
Outcomes ==
  [c \in Clicks |-> IF Packed /\ c \in Truth
                    THEN (IF Converts(c) THEN "positive" ELSE "negative")
                    ELSE state.outcome[c]]

Converted(c) == Outcomes[c] = "positive"
ConvertedLate(c) == Converted(c) /\ data.delay[c] > Wait

ClickCursor == state.clickCursor + Cardinality(Arriving)
DueCursor == IF Waits THEN ClickedBy(ClickCursor, Boundary - Wait) ELSE 0
MaturityCursor == IF Settles THEN ClickedBy(ClickCursor, Boundary - Window) ELSE 0

\* Faulty variant: a conversion seen after the wait withholds the record.
AtDueUnseen ==
  {Record(c, "provisional", 0, data.time[c] + Wait) :
     c \in {b \in Legal(state.dueCursor .. DueCursor - 1) : ~Converted(b)}}

\* _emit_due
AtDue ==
  {Record(c, "provisional", 0, data.time[c] + Wait) :
     c \in {b \in Legal(state.dueCursor .. DueCursor - 1) :
              ~Converted(b) \/ ConvertedLate(b)}}

\* _emit_mature.  Its records have the kind "final"; the two auxiliary stores
\* are told apart by the kinds "q_dp" and "q_tn".
Mature == Legal(state.maturityCursor .. MaturityCursor - 1)
Finals(cs) == {Record(c, "final", IF Converted(c) THEN 1 ELSE 0, data.time[c] + Window) : c \in cs}
AtMaturity == IF method = "complete_wait" THEN Finals(Mature) ELSE {}
DelayTargets ==
  IF method = "es_dfm"
  THEN {Record(c, "q_dp", IF ConvertedLate(c) THEN 1 ELSE 0, data.time[c] + Window) : c \in Mature}
  ELSE {}
NegativeTargets ==
  IF method = "es_dfm"
  THEN {Record(c, "q_tn", IF ConvertedLate(c) THEN 0 ELSE 1, data.time[c] + Window) :
          c \in {b \in Mature : ~Converted(b) \/ ConvertedLate(b)}}
  ELSE {}

\* What PackedRecordStore.append refuses.
Refuses(store, batch) ==
  \E r \in batch :
    \/ r.at > Boundary
    \/ \E p \in store : r.at < p.at \/ (r.click = p.click /\ r.kind = p.kind)

Pending == AtClicks \cup AtTruth \cup AtDue \cup AtMaturity

ProcessRefused ==
  \/ Boundary < state.lastTime
  \/ \E c \in Truth \cap data.monitored : c \in state.observed
  \/ Packed /\ \E c \in Truth : c >= ClickCursor \/ state.outcome[c] # "unresolved"
  \/ Settles /\ \E c \in state.maturityCursor .. MaturityCursor - 1 :
                  Outcomes[c] = "unresolved"
  \/ Refuses(state.main, Pending)
  \/ Refuses(state.qtn, NegativeTargets) \/ Refuses(state.qdp, DelayTargets)

\* The initialization method: complete_wait on the clicks of the first day.
AtSeed ==
  LET ripe == {c \in Legal(0 .. ClickCursor - 1) :
                 /\ ClickDay(c) = 0
                 /\ state.lastTime < data.time[c] + Window
                 /\ data.time[c] + Window <= Boundary}
  IN {Record(c, "final", Label(c), data.time[c] + Window) : c \in ripe}

\* Where run() goes after the truth of boundary i is processed.
PlaceAfter(i) ==
  CASE i = FirstDecision * HoursPerDay -> "initialize"
    [] i # FirstDecision * HoursPerDay /\ IsDecision(i) -> "decide"
    [] i = SealDay * HoursPerDay -> "seal primary"
    [] OTHER -> "predict"

ProcessBoundary ==
  /\ pc = "process"
  /\ IF ProcessRefused THEN Fail
     ELSE /\ state' = [state EXCEPT
               !.clickCursor = ClickCursor, !.dueCursor = DueCursor,
               !.maturityCursor = MaturityCursor, !.lastTime = Boundary,
               !.outcome = Outcomes, !.main = @ \cup Pending,
               !.qtn = @ \cup NegativeTargets, !.qdp = @ \cup DelayTargets,
               !.observed = @ \cup (Truth \cap data.monitored),
               !.truthEvents = @ + Cardinality(Truth)]
          /\ seed' = IF state.model = <<>> THEN seed \cup AtSeed ELSE seed
          /\ pc' = PlaceAfter(next)
          /\ next' = IF PlaceAfter(next) = "predict" THEN next + 1 ELSE next
          /\ UNCHANGED disk
  /\ UNCHANGED <<fixture, crashes>>

-----------------------------------------------------------------------------
(* _apply_initialization, _decision and _spend_credit.                     *)

Training(main, qtn, qdp) == [at |-> Boundary, main |-> main, qtn |-> qtn, qdp |-> qdp]

\* The run ends: INSUFFICIENT_LEGAL_POOL or INSUFFICIENT_LEGAL_AUXILIARY_POOL.
Insufficient == pc' = "insufficient" /\ UNCHANGED <<next, state, seed, disk>>

OfFirstDay(rs) == {r \in rs : ClickDay(r.click) = 0}

\* The only training that uses the seed; afterwards it is dropped.
Initialize ==
  /\ pc = "initialize"
  /\ LET qtn == OfFirstDay(state.qtn)  qdp == OfFirstDay(state.qdp)
     IN IF seed = {} \/ (method = "es_dfm" /\ (qtn = {} \/ qdp = {}))
        THEN Insufficient
        ELSE /\ state' = [state EXCEPT !.model = <<Training(seed, qtn, qdp)>>]
             /\ seed' = {}
             /\ pc' = "decide"
             /\ UNCHANGED <<next, disk>>
  /\ UNCHANGED <<fixture, crashes>>

\* dfm_observations: what a sampled click of dfm is at the boundary.
Observed(r) ==
  LET elapsed == Boundary - data.time[r.click]
  IN IF state.outcome[r.click] = "positive"
     THEN Record(r.click, r.kind, 1, data.delay[r.click])
     ELSE Record(r.click, r.kind, 0, IF elapsed < Window THEN elapsed ELSE Window)
Examples == IF method = "dfm" THEN {Observed(r) : r \in state.main} ELSE state.main

\* The auxiliary update is skipped at the first decision.
Credit ==
  IF Boundary = FirstDecisionTime THEN Training(Examples, {}, {})
  ELSE Training(Examples, state.qtn, state.qdp)
CreditInsufficient ==
  \/ state.main = {}
  \/ method = "es_dfm" /\ Boundary # FirstDecisionTime /\ (state.qtn = {} \/ state.qdp = {})

\* Faulty variant: the cohort ends with the day whose window is still open.
EvidenceUnripe(day) ==
  \/ day # (IF state.evidenceDay = -1 THEN FirstDecision ELSE state.evidenceDay + 1)
  \/ \E c \in data.monitored :
       /\ ClickDay(c) \in day - Attribution - MonitorDays + 1 .. day - Attribution
       /\ c \notin state.observed

\* The evidence of Study B: every day in turn, on a mature cohort.
EvidenceRefused(day) ==
  \/ day # (IF state.evidenceDay = -1 THEN FirstDecision ELSE state.evidenceDay + 1)
  \/ \E c \in data.monitored :
       /\ ClickDay(c) \in day - Attribution - MonitorDays .. day - Attribution - 1
       /\ c \notin state.observed

Credits == Len(state.model) - 1

\* A credit already in the ledger must be the one spent now.
Decide ==
  /\ pc = "decide"
  /\ LET day == next \div HoursPerDay
         known == Credits < Len(exposures)
         decided == [state EXCEPT !.evidenceDay = IF StudyB THEN day ELSE @]
     IN \/ /\ StudyB /\ EvidenceRefused(day)
           /\ Fail
        \/ /\ StudyB => ~EvidenceRefused(day)
           /\ day \notin data.credits
           /\ state' = decided
           /\ pc' = "save"
           /\ UNCHANGED <<next, seed, disk>>
        \/ /\ StudyB => ~EvidenceRefused(day)
           /\ day \in data.credits
           /\ IF CreditInsufficient THEN Insufficient
              ELSE IF known /\ exposures[Credits + 1] # Credit THEN Fail
              ELSE /\ state' = [decided EXCEPT !.model = Append(@, Credit)]
                   /\ exposures' = IF known THEN exposures ELSE Append(exposures, Credit)
                   /\ pc' = "save"
                   /\ UNCHANGED <<next, seed, predictions, sealed, checkpoint>>
  /\ UNCHANGED <<fixture, crashes>>

-----------------------------------------------------------------------------
(* Sealing, checkpoints and the end.                                       *)

SealRefused ==
  \/ Credits # Cardinality(data.credits)
  \/ "primary" \notin sealed /\ DOMAIN predictions # EvaluationClicks
  \/ "exposures" \notin sealed /\ Len(exposures) # Cardinality(data.credits)

\* assert_complete and _seal_primary_and_exposures
SealPrimary ==
  /\ pc = "seal primary"
  /\ IF SealRefused THEN Fail
     ELSE /\ sealed' = sealed \cup {"primary"}
          /\ pc' = "seal exposures"
          /\ UNCHANGED <<next, state, seed, predictions, exposures, checkpoint>>
  /\ UNCHANGED <<fixture, crashes>>

SealExposures ==
  /\ pc = "seal exposures"
  /\ sealed' = sealed \cup {"exposures"}
  /\ pc' = "save"
  /\ UNCHANGED <<fixture, next, state, seed, predictions, exposures, checkpoint, crashes>>

\* Faulty variant: the checkpoint names the boundary just processed.
SaveUnadvanced ==
  /\ pc = "save"
  /\ checkpoint' = [next |-> next, state |-> state, credits |-> Len(exposures)]
  /\ next' = next + 1
  /\ pc' = "predict"
  /\ UNCHANGED <<fixture, state, seed, predictions, exposures, sealed, crashes>>

\* _write_checkpoint
Save ==
  /\ pc = "save"
  /\ checkpoint' = [next |-> next + 1, state |-> state, credits |-> Len(exposures)]
  /\ next' = next + 1
  /\ pc' = "predict"
  /\ UNCHANGED <<fixture, state, seed, predictions, exposures, sealed, crashes>>

Finish ==
  /\ pc = "predict" /\ next > DrainDay * HoursPerDay
  /\ pc' = IF /\ state.clickCursor = TrainingLimit
              /\ state.truthEvents = TrainingLimit
           THEN "done" ELSE "failed"
  /\ UNCHANGED <<fixture, next, state, seed, disk, crashes>>

-----------------------------------------------------------------------------
(* The process dies and execute() starts it again.                         *)

NoCheckpoint == [next |-> 0]

Running == pc \notin {"down", "done", "insufficient", "failed", "refused", "stuck"}

Crash ==
  /\ Running /\ crashes < MaxCrashes
  /\ crashes' = crashes + 1
  /\ pc' = "down"
  /\ UNCHANGED <<fixture, next, state, seed, disk>>

\* Without a checkpoint the new process finds a root that is not empty.
RefuseRoot ==
  /\ pc = "down" /\ checkpoint = NoCheckpoint
  /\ pc' = "stuck"
  /\ UNCHANGED <<fixture, next, state, seed, disk, crashes>>

\* load_state_dict of the method.
MethodRefuses(s) ==
  \/ ~Packed /\ s.clickCursor # ClickedBy(NumClicks, s.lastTime)
  \/ Packed /\ \E c \in s.clickCursor .. NumClicks - 1 : s.outcome[c] # "unresolved"
  \/ Waits /\ s.dueCursor # ClickedBy(s.clickCursor, s.lastTime - Wait)
  \/ Settles /\ s.maturityCursor # ClickedBy(s.clickCursor, s.lastTime - Window)

\* _restore_latest
RestoreRefused ==
  LET s == checkpoint.state
      seen == ClickedBy(NumClicks, (checkpoint.next - 1) * Hour)
  IN \/ MethodRefuses(s)
     \/ checkpoint.next \notin FirstDecision * HoursPerDay + 1 .. SealDay * HoursPerDay + 1
     \/ checkpoint.next # s.lastTime \div Hour + 1
     \/ s.clickCursor # (IF seen < TrainingLimit THEN seen ELSE TrainingLimit)
     \/ checkpoint.credits # Len(s.model) - 1 \/ Len(exposures) < checkpoint.credits

Refuse ==
  /\ pc = "down" /\ checkpoint # NoCheckpoint /\ RestoreRefused
  /\ pc' = "refused"
  /\ UNCHANGED <<fixture, next, state, seed, disk, crashes>>

\* Faulty variant: the credits of the main trainer are not restored.
RestoreUntrained ==
  /\ pc = "down" /\ checkpoint # NoCheckpoint /\ ~RestoreRefused
  /\ next' = checkpoint.next
  /\ state' = [checkpoint.state EXCEPT !.model = <<Head(@)>>]
  /\ seed' = {}
  /\ pc' = "predict"
  /\ UNCHANGED <<fixture, disk, crashes>>

Restore ==
  /\ pc = "down" /\ checkpoint # NoCheckpoint /\ ~RestoreRefused
  /\ next' = checkpoint.next
  /\ state' = checkpoint.state
  /\ seed' = {}
  /\ pc' = "predict"
  /\ UNCHANGED <<fixture, disk, crashes>>

-----------------------------------------------------------------------------

Fresh ==
  [clickCursor |-> 0, dueCursor |-> 0, maturityCursor |-> 0, lastTime |-> -1,
   outcome |-> [c \in Clicks |-> "unresolved"],
   main |-> {}, qtn |-> {}, qdp |-> {},
   observed |-> {}, evidenceDay |-> -1, truthEvents |-> 0, model |-> <<>>]

Init ==
  /\ method \in Methods
  /\ data \in Fixtures
  /\ pc = "predict" /\ next = 0
  /\ state = Fresh /\ seed = {}
  /\ predictions = [c \in {} |-> <<>>] /\ exposures = <<>> /\ sealed = {}
  /\ checkpoint = NoCheckpoint
  /\ crashes = 0

Run ==
  \/ Predict \/ ProcessBoundary \/ Initialize \/ Decide
  \/ SealPrimary \/ SealExposures \/ Save \/ Finish

Restart == RefuseRoot \/ Refuse \/ Restore

Next == Run \/ Crash \/ Restart

Spec == Init /\ [][Next]_vars

\* The replay runs on, and a dead run is started again.
FairSpec == Spec /\ WF_vars(Run) /\ WF_vars(Restart)
-----------------------------------------------------------------------------
(* Properties.                                                             *)

Kinds == {"provisional", "early_positive", "correction", "final", "dfm_click"}
Records(kinds) ==
  [click : Clicks, kind : kinds, target : {0, 1}, at : 0 .. (DrainDay + 1) * Day]
IsTraining(x) ==
  /\ x.at \in {d * Day : d \in DecisionDays}
  /\ x.main \subseteq Records(Kinds)
  /\ x.qtn \subseteq Records({"q_tn"}) /\ x.qdp \subseteq Records({"q_dp"})

\* What the run, its components, its ledgers and its checkpoint may hold.
StateOK(s) ==
  /\ s.clickCursor \in 0 .. TrainingLimit
  /\ s.dueCursor \in 0 .. s.clickCursor /\ s.maturityCursor \in 0 .. s.clickCursor
  /\ s.lastTime \in {-1} \cup {i * Hour : i \in 0 .. DrainDay * HoursPerDay}
  /\ s.outcome \in [Clicks -> {"unresolved", "positive", "negative"}]
  /\ s.main \subseteq Records(Kinds)
  /\ s.qtn \subseteq Records({"q_tn"}) /\ s.qdp \subseteq Records({"q_dp"})
  /\ s.observed \subseteq data.monitored
  /\ s.evidenceDay \in {-1} \cup DecisionDays
  /\ s.truthEvents \in 0 .. TrainingLimit
  /\ \A i \in 1 .. Len(s.model) : IsTraining(s.model[i])
TypeOK ==
  /\ method \in Methods /\ IsFixture(data)
  /\ pc \in {"predict", "process", "initialize", "decide", "seal primary",
             "seal exposures", "save", "done", "insufficient", "failed", "down",
             "refused", "stuck"}
  /\ next \in 0 .. DrainDay * HoursPerDay + 1
  /\ StateOK(state)
  /\ seed \subseteq Records({"final"})
  /\ DOMAIN predictions \subseteq EvaluationClicks
  /\ \A i \in 1 .. Len(exposures) : IsTraining(exposures[i])
  /\ sealed \in {{}, {"primary"}, {"primary", "exposures"}}
  /\ checkpoint # NoCheckpoint => StateOK(checkpoint.state)
  /\ crashes \in 0 .. MaxCrashes

\* The records promised of click c, from its outcome alone (BUILD_PLAN.md,
\* sections 14.2 to 14.8).
FixedWaitStream(c) ==
  IF data.delay[c] <= Wait
  THEN {Record(c, "early_positive", 1, AvailableAt(c))}
  ELSE {Record(c, "provisional", 0, data.time[c] + Wait)} \cup
       (IF Converts(c) THEN {Record(c, "correction", 1, AvailableAt(c))} ELSE {})
AuxiliaryStream(c) ==
  LET delayed == Converts(c) /\ data.delay[c] > Wait
  IN {Record(c, "q_dp", IF delayed THEN 1 ELSE 0, data.time[c] + Window)} \cup
     (IF data.delay[c] <= Wait THEN {}
      ELSE {Record(c, "q_tn", IF delayed THEN 0 ELSE 1, data.time[c] + Window)})
Stream(c) ==
  CASE method = "complete_wait" -> {Record(c, "final", Label(c), data.time[c] + Window)}
    [] method \in {"immediate_fake_negative", "fnw"} ->
         {Record(c, "provisional", 0, data.time[c])} \cup
         (IF Converts(c) THEN {Record(c, "correction", 1, AvailableAt(c))} ELSE {})
    [] method = "fixed_wait" -> FixedWaitStream(c)
    [] method = "es_dfm" -> FixedWaitStream(c) \cup AuxiliaryStream(c)
    [] method = "dfm" -> {Record(c, "dfm_click", 0, data.time[c])}
    [] OTHER -> {Record(c, "final", Label(c), data.time[c])}
Promised == UNION {Stream(c) : c \in Legal(TrainingClicks)}

\* Hour by hour and through any death, the vectorized method implements the
\* same promise as the per-click methods: after a boundary its stores hold the
\* promised records of the clicks outside the monitoring split that are legal
\* by then; a restored run goes back to an earlier boundary and its pools.
LegalStream == INSTANCE LabelStream
  WITH Decisions <- {i * Hour : i \in 0 .. DrainDay * HoursPerDay},
       promised <- Promised, now <- state.lastTime,
       pool <- state.main \cup state.qtn \cup state.qdp
ImplementsStream == LegalStream!Spec

\* Every prediction on disk is by the model the protocol prescribes: the
\* shared initialization on the mature first day, then the credits of the days
\* before the click's boundary, each on everything legal at its decision; the
\* exposure ledger holds those credits in order; a complete run has predicted
\* each evaluation click and spent each credit, however often it died.
LegalAt(t, kinds) == {r \in Promised : r.at <= t /\ r.kind \in kinds}
ExamplesAt(t) ==
  IF method # "dfm" THEN LegalAt(t, Kinds)
  ELSE {LET elapsed == t - data.time[r.click]
            converted == Converts(r.click) /\ AvailableAt(r.click) <= t
        IN Record(r.click, r.kind, IF converted THEN 1 ELSE 0,
                  IF converted THEN data.delay[r.click]
                  ELSE IF elapsed < Window THEN elapsed ELSE Window) :
          r \in LegalAt(t, Kinds)}
TrainingAt(t) ==
  LET first == t = FirstDecisionTime
  IN [at |-> t, main |-> ExamplesAt(t),
      qtn |-> IF first THEN {} ELSE LegalAt(t, {"q_tn"}),
      qdp |-> IF first THEN {} ELSE LegalAt(t, {"q_dp"})]
SharedTraining ==
  [at |-> FirstDecisionTime,
   main |-> {Record(c, "final", Label(c), data.time[c] + Window) :
               c \in {b \in Legal(Clicks) : ClickDay(b) = 0}},
   qtn |-> OfFirstDay(LegalAt(FirstDecisionTime, {"q_tn"})),
   qdp |-> OfFirstDay(LegalAt(FirstDecisionTime, {"q_dp"}))]
NumBefore(t) == Cardinality({u \in DecisionTimes : u < t})
Schedule ==
  LET IsNth(u, k) == Cardinality({v \in DecisionTimes : v < u}) = k - 1
  IN [k \in 1 .. Cardinality(DecisionTimes) |->
        TrainingAt(CHOOSE u \in DecisionTimes : IsNth(u, k))]
BoundaryOf(c) == ((data.time[c] + Hour - 1) \div Hour) * Hour
LearnsOnSchedule ==
  /\ exposures = SubSeq(Schedule, 1, Len(exposures))
  /\ \A c \in DOMAIN predictions :
       predictions[c] = <<SharedTraining>> \o SubSeq(Schedule, 1, NumBefore(BoundaryOf(c)))
  /\ pc = "done" => /\ DOMAIN predictions = EvaluationClicks
                    /\ Len(exposures) = Cardinality(data.credits)

\* The one checkpoint that does not load: of an oracle_reference run, after the
\* seal, when a click after the training period falls on the seal's second.
SealTied ==
  /\ method = "oracle_reference" /\ checkpoint.next = SealDay * HoursPerDay + 1
  /\ \E c \in Clicks : data.time[c] = SealDay * Day

\* Nothing a run meets is refused, whatever the data and however often it died:
\* not by the stores, the method, the truth cursor, the monitoring evidence, the
\* ledgers, the seal or the end, and no checkpoint by a restart but that one.
NothingRefused == pc # "failed" /\ (pc = "refused" => SealTied)

\* A run that is started again whenever it dies completes, unless it has no
\* records to train on, died before its first checkpoint or is refused that one.
EventuallySettles ==
  <>(\/ pc \in {"done", "insufficient"}
     \/ pc = "stuck" /\ checkpoint = NoCheckpoint
     \/ pc = "refused" /\ SealTied)

\* "Resume from every checkpoint boundary." (BUILD_PLAN.md:874)
ResumesFromEveryCheckpoint == pc # "refused"
=============================================================================
