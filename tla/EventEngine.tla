----------------------------- MODULE EventEngine -----------------------------
(***************************************************************************)
(* The event-time engine (simulator/engine.py) with its oracle, ledgers,   *)
(* mature-outcome method and daily scheduler, run and resumed by           *)
(* experiments/runner.py.  At each hourly boundary it predicts the new     *)
(* clicks, persists the predictions, delivers the clicks, reveals the      *)
(* truth that became available, decides on a training credit and, after a  *)
(* decision, writes a checkpoint.  A run may stop anywhere; a new process, *)
(* in a new output directory, resumes from any checkpoint.                 *)
(*                                                                         *)
(* Clicks are numbered in the order of the fixture, the first at time 0    *)
(* (experiments/synthetic.py).  Training is deterministic, so a model is   *)
(* what it was trained on: a function from the times of its credits to the *)
(* clicks whose final records were in the pool.  A prediction is the model *)
(* that made it.  Labels, features, probabilities and the unused random    *)
(* generator are left out.                                                 *)
(***************************************************************************)
EXTENDS Integers, Sequences, FiniteSets

CONSTANTS
  NumClicks,   \* clicks of the fixture
  ClickTimes,  \* the times a click may have
  TruthDelays, \* how long after a click its truth may become available
  Hour,        \* boundary_seconds
  Interval,    \* decision_interval_seconds
  MaxRestarts  \* bound on stopped runs

ASSUME EngineConstants ==
  /\ NumClicks \in Nat \ {0}
  /\ ClickTimes \subseteq Nat /\ TruthDelays \subseteq Nat
  /\ Hour \in Nat \ {0} /\ Interval \in Nat \ {0} /\ Interval % Hour = 0
  /\ MaxRestarts \in Nat

Clicks == 0 .. NumClicks - 1
NoFunction == [t \in {} |-> {}]

VARIABLES
  clickTime, availableAt, \* the fixture
  pc,          \* where run() is in the boundary's order
  previous,    \* previous_boundary
  next,        \* next_boundary, the boundary being processed
  cursor,      \* click_cursor
  predictions, \* the prediction ledger
  sealed,      \* whether it is sealed
  live,        \* live-predictions.json of the current directory
  clicked,     \* clicks delivered to the method
  delivered,   \* clicks whose truth the oracle delivered
  pool,        \* clicks with a record in the availability ledger
  model,       \* what the model was trained on, per credit time
  spent,       \* spent_times of the scheduler
  credits,     \* the credit ledger: its decision times
  trace,       \* the event trace
  checkpoints, \* the checkpoints written so far, in all directories
  outputs,     \* the ledgers complete runs wrote
  restarts

fixture == <<clickTime, availableAt>>
memory == <<previous, next, cursor, predictions, sealed, clicked, delivered,
            pool, model, spent, credits, trace>>
vars == <<fixture, pc, memory, live, checkpoints, outputs, restarts>>

-----------------------------------------------------------------------------

LastClick == clickTime[NumClicks - 1]
IsDrain(t) ==
  /\ \E c \in Clicks : availableAt[c] = t
  /\ \A c \in Clicks : availableAt[c] <= t
\* The first boundary at or after the last truth.
FinalBoundary ==
  LET drain == CHOOSE t \in {availableAt[c] : c \in Clicks} : IsDrain(t)
  IN ((drain + Hour - 1) \div Hour) * Hour

IsDecisionBoundary(t) == t > 0 /\ t % Interval = 0 /\ t <= LastClick

\* The events of one kind for the clicks of S, in an order of the clicks.
Events(kind, S, order) ==
  [i \in 1 .. Cardinality(S) |->
     [kind |-> kind,
      click |-> CHOOSE c \in S : Cardinality({b \in S : <<b, c>> \in order}) = i - 1]]
Event(kind) == <<[kind |-> kind, click |-> NumClicks]>>

InOrder == {p \in Clicks \X Clicks : p[1] < p[2]}
Sooner ==
  {p \in Clicks \X Clicks :
     \/ availableAt[p[1]] < availableAt[p[2]]
     \/ availableAt[p[1]] = availableAt[p[2]] /\ p[1] < p[2]}

Predicted == DOMAIN predictions

Fail == pc' = "failed" /\ UNCHANGED memory

-----------------------------------------------------------------------------
(* _process_boundary.                                                      *)

\* _clicks_through
Arriving == {c \in Clicks : cursor <= c /\ clickTime[c] <= next}

PredictRefused ==
  \E c \in Arriving :
    clickTime[c] <= previous \/ sealed \/ c \in Predicted

Predict ==
  /\ pc = "boundary" /\ next <= FinalBoundary
  /\ IF PredictRefused THEN Fail
     ELSE /\ predictions' = [c \in Predicted \cup Arriving |->
                             IF c \in Arriving THEN model ELSE predictions[c]]
          /\ cursor' = cursor + Cardinality(Arriving)
          /\ sealed' = (sealed \/ cursor' = NumClicks)
          /\ trace' = trace \o Events("prediction", Arriving, InOrder)
                            \o IF sealed' # sealed THEN Event("sealed") ELSE <<>>
          /\ pc' = "persist"
          /\ UNCHANGED <<previous, next, clicked, delivered, pool, model, spent, credits>>
  /\ UNCHANGED <<fixture, live, checkpoints, outputs, restarts>>

Persist ==
  /\ pc = "persist"
  /\ live' = IF Predicted # clicked \/ sealed
             THEN [sealed |-> sealed, clicks |-> Predicted] ELSE live
  /\ pc' = "deliver"
  /\ UNCHANGED <<fixture, memory, checkpoints, outputs, restarts>>

Deliver ==
  /\ pc = "deliver"
  /\ clicked' = Predicted
  /\ trace' = trace \o Events("click_delivered", Predicted \ clicked, InOrder)
  /\ pc' = "reveal"
  /\ UNCHANGED <<fixture, previous, next, cursor, predictions, sealed, delivered, pool,
                 model, spent, credits, live, checkpoints, outputs, restarts>>

\* reveal_through
Due == {c \in clicked \ delivered : availableAt[c] <= next}

RevealRefused == \E c \in Due : availableAt[c] > next \/ c \in pool

Reveal ==
  /\ pc = "reveal"
  /\ IF RevealRefused THEN Fail
     ELSE /\ delivered' = delivered \cup Due
          /\ pool' = pool \cup Due
          /\ trace' = trace \o Events("truth", Due, Sooner)
          /\ pc' = "decide"
          /\ UNCHANGED <<previous, next, cursor, predictions, sealed, clicked, model,
                         spent, credits>>
  /\ UNCHANGED <<fixture, live, checkpoints, outputs, restarts>>

\* Faulty variant: a credit is spent on an empty pool.
ApprovedEmpty == IsDecisionBoundary(next)

\* legal_at, approve and spend_credit
Approved == IsDecisionBoundary(next) /\ pool # {}
SpendRefused == (\E c \in pool : availableAt[c] > next) \/ next \in spent

Decide ==
  /\ pc = "decide"
  /\ \/ /\ Approved /\ SpendRefused
        /\ Fail
     \/ /\ Approved /\ ~SpendRefused
        /\ spent' = spent \cup {next}
        /\ credits' = Append(credits, next)
        /\ model' = [t \in DOMAIN model \cup {next} |-> IF t = next THEN pool ELSE model[t]]
        /\ trace' = trace \o Event("credit_spent")
        /\ pc' = "advance"
        /\ UNCHANGED <<previous, next, cursor, predictions, sealed, clicked, delivered, pool>>
     \/ /\ ~Approved
        /\ pc' = "advance"
        /\ UNCHANGED memory
  /\ UNCHANGED <<fixture, live, checkpoints, outputs, restarts>>

-----------------------------------------------------------------------------
(* run(), _execute() and resume_synthetic_experiment().                    *)

\* state_dict; the checkpoint count is left out.
State ==
  [previous |-> previous, next |-> next, cursor |-> cursor,
   predictions |-> predictions, sealed |-> sealed, clicked |-> clicked,
   delivered |-> delivered, pool |-> pool, model |-> model, spent |-> spent,
   credits |-> credits, trace |-> trace]

Advance ==
  /\ pc = "advance"
  /\ previous' = next
  /\ next' = next + Hour
  /\ checkpoints' =
       IF IsDecisionBoundary(next)
       THEN checkpoints \cup {[State EXCEPT !.previous = next, !.next = next + Hour]}
       ELSE checkpoints
  /\ pc' = "boundary"
  /\ UNCHANGED <<fixture, cursor, predictions, sealed, clicked, delivered, pool, model,
                 spent, credits, trace, live, outputs, restarts>>

\* audit_event_trace: what it looks for before event i.
SeenBefore(i, kind) == \E j \in 1 .. i - 1 : trace[j] = [kind |-> kind, click |-> trace[i].click]
AuditAccepts ==
  \A i \in 1 .. Len(trace) :
    /\ trace[i].kind = "prediction" => ~SeenBefore(i, "prediction")
    /\ trace[i].kind \in {"click_delivered", "truth"} => SeenBefore(i, "prediction")
    /\ trace[i].kind = "truth" => SeenBefore(i, "click_delivered")

Finish ==
  /\ pc = "boundary" /\ next > FinalBoundary
  /\ IF sealed /\ delivered = Clicks /\ AuditAccepts
     THEN /\ pc' = "done"
          /\ outputs' = outputs \cup
               {[predictions |-> predictions, pool |-> pool, credits |-> credits,
                 model |-> model, trace |-> trace]}
     ELSE pc' = "failed" /\ UNCHANGED outputs
  /\ UNCHANGED <<fixture, memory, live, checkpoints, restarts>>

\* The run stops (stop_after_checkpoints, or the process ends), or a complete
\* run is taken up again from an earlier checkpoint.
Stop ==
  /\ pc \notin {"down", "failed"}
  /\ restarts < MaxRestarts
  /\ restarts' = restarts + 1
  /\ pc' = "down"
  /\ UNCHANGED <<fixture, memory, live, checkpoints, outputs>>

\* Faulty variants: the oracle's deliveries, or the model, are not restored.
LoadForgets(s) ==
  /\ previous' = s.previous /\ next' = s.next /\ cursor' = s.cursor
  /\ predictions' = s.predictions /\ sealed' = s.sealed
  /\ clicked' = s.clicked /\ delivered' = {} /\ pool' = s.pool
  /\ model' = s.model /\ spent' = s.spent
  /\ credits' = s.credits /\ trace' = s.trace
LoadUntrained(s) ==
  /\ previous' = s.previous /\ next' = s.next /\ cursor' = s.cursor
  /\ predictions' = s.predictions /\ sealed' = s.sealed
  /\ clicked' = s.clicked /\ delivered' = s.delivered /\ pool' = s.pool
  /\ UNCHANGED model /\ spent' = s.spent
  /\ credits' = s.credits /\ trace' = s.trace

\* load_state_dict
Load(s) ==
  /\ previous' = s.previous /\ next' = s.next /\ cursor' = s.cursor
  /\ predictions' = s.predictions /\ sealed' = s.sealed
  /\ clicked' = s.clicked /\ delivered' = s.delivered /\ pool' = s.pool
  /\ model' = s.model /\ spent' = s.spent
  /\ credits' = s.credits /\ trace' = s.trace

\* Faulty variant: a resumed run persists with its first boundary only.
PersistLoadedLater(s) == live' = [sealed |-> FALSE, clicks |-> {}]

PersistLoaded(s) == live' = [sealed |-> s.sealed, clicks |-> DOMAIN s.predictions]

Resume(s) ==
  /\ pc = "down"
  /\ s \in checkpoints
  /\ Load(s)
  /\ PersistLoaded(s)
  /\ pc' = "boundary"
  /\ UNCHANGED <<fixture, checkpoints, outputs, restarts>>

NewEngine ==
  [previous |-> -Hour, next |-> 0, cursor |-> 0,
   predictions |-> NoFunction, sealed |-> FALSE, clicked |-> {}, delivered |-> {},
   pool |-> {}, model |-> NoFunction, spent |-> {}, credits |-> <<>>, trace |-> <<>>]

\* Without a checkpoint the run starts again, in an empty directory.
Rerun ==
  /\ pc = "down" /\ checkpoints = {}
  /\ Load(NewEngine)
  /\ live' = [sealed |-> FALSE, clicks |-> {}]
  /\ pc' = "boundary"
  /\ UNCHANGED <<fixture, checkpoints, outputs, restarts>>

Init ==
  /\ clickTime \in {ct \in [Clicks -> ClickTimes] :
                      ct[0] = 0 /\ \A b, c \in Clicks : b <= c => ct[b] <= ct[c]}
  /\ \E delay \in [Clicks -> TruthDelays] :
       availableAt = [c \in Clicks |-> clickTime[c] + delay[c]]
  /\ pc = "boundary"
  /\ previous = -Hour /\ next = 0 /\ cursor = 0
  /\ predictions = NoFunction /\ sealed = FALSE
  /\ clicked = {} /\ delivered = {} /\ pool = {}
  /\ model = NoFunction /\ spent = {} /\ credits = <<>> /\ trace = <<>>
  /\ live = [sealed |-> FALSE, clicks |-> {}]
  /\ checkpoints = {} /\ outputs = {} /\ restarts = 0

Run == Predict \/ Persist \/ Deliver \/ Reveal \/ Decide \/ Advance \/ Finish

Next == Run \/ Stop \/ (\E s \in checkpoints : Resume(s)) \/ Rerun

Spec == Init /\ [][Next]_vars

\* The loop runs on, and a stopped run is taken up again.
FairSpec ==
  /\ Spec
  /\ WF_vars(Run)
  /\ WF_vars(\E s \in checkpoints : Resume(s)) /\ WF_vars(Rerun)

-----------------------------------------------------------------------------
(* Properties.                                                             *)

IsModel(m) ==
  /\ m = [t \in DOMAIN m |-> m[t]]
  /\ DOMAIN m \subseteq Nat
  /\ \A t \in DOMAIN m : m[t] \subseteq Clicks
EventKinds == {"prediction", "sealed", "click_delivered", "truth", "credit_spent"}

\* What the engine, its ledgers and its files may hold.
TypeOK ==
  /\ pc \in {"boundary", "persist", "deliver", "reveal", "decide", "advance",
             "done", "failed", "down"}
  /\ next \in 0 .. FinalBoundary + Hour /\ previous = next - Hour
  /\ cursor \in 0 .. NumClicks
  /\ Predicted \subseteq Clicks
  /\ \A c \in Predicted : IsModel(predictions[c])
  /\ sealed \in BOOLEAN
  /\ clicked \subseteq Clicks /\ delivered \subseteq Clicks /\ pool \subseteq Clicks
  /\ IsModel(model)
  /\ spent \subseteq Nat /\ credits \in Seq(Nat)
  /\ trace \in Seq([kind : EventKinds, click : Clicks \cup {NumClicks}])
  /\ live.sealed \in BOOLEAN /\ live.clicks \subseteq Clicks
  /\ restarts \in 0 .. MaxRestarts

\* No prediction rests on truth that was not available before its click: the
\* model that made it was trained on such records only, whatever stops and
\* resumes came between ("The prediction step therefore precedes a reveal at
\* the same timestamp", docs/event-time-semantics.md).
NoLeakage ==
  \A c \in Predicted : \A t \in DOMAIN predictions[c] : \A r \in predictions[c][t] :
    availableAt[r] < clickTime[c]

\* The inductive invariant: what was trained on was available when it was, and
\* no later than the boundary processed last, in memory and in checkpoints.
LegalModel(m) == \A t \in DOMAIN m : \A r \in m[t] : availableAt[r] <= t
LegalPredictions(ps) ==
  \A c \in DOMAIN ps : LegalModel(ps[c]) /\ \A t \in DOMAIN ps[c] : t < clickTime[c]
LegalBy(m, p, t) ==
  /\ LegalModel(m) /\ \A d \in DOMAIN m : d <= t
  /\ \A r \in p : availableAt[r] <= t
IInv ==
  /\ LegalPredictions(predictions)
  /\ pc \in {"boundary", "persist", "deliver", "reveal"} => LegalBy(model, pool, previous)
  /\ pc \in {"decide", "advance"} => LegalBy(model, pool, next)
  /\ \A s \in checkpoints :
       LegalPredictions(s.predictions) /\ LegalBy(s.model, s.pool, s.previous)

\* Every prediction is made by the model the protocol prescribes: trained at
\* each decision before the click's boundary on everything available by that
\* decision, nothing forgotten and nothing late, in any run resumed from any
\* checkpoint; a complete run spent exactly those credits, once and in order.
Available(t) == {c \in Clicks : availableAt[c] <= t}
TrainedBefore(t) ==
  [d \in {e \in 1 .. t - 1 : IsDecisionBoundary(e) /\ Available(e) # {}} |-> Available(d)]
BoundaryOf(c) == ((clickTime[c] + Hour - 1) \div Hour) * Hour
LearnsOnSchedule ==
  /\ \A c \in Predicted : predictions[c] = TrainedBefore(BoundaryOf(c))
  /\ \A o \in outputs :
       /\ o.model = TrainedBefore(FinalBoundary + 1)
       /\ {o.credits[i] : i \in 1 .. Len(o.credits)} = DOMAIN o.model
       /\ \A i, j \in 1 .. Len(o.credits) : i < j => o.credits[i] < o.credits[j]

\* A click is delivered, and its truth requested, only once its prediction is in
\* the file of the directory the run now writes to, and that file is sealed
\* before the truth of the last click is.
PersistedBeforeDelivered ==
  pc \notin {"down", "failed"} =>
    /\ delivered \subseteq clicked /\ clicked \subseteq live.clicks
    /\ clicked = Clicks => live.sealed

\* A run that is taken up again whenever it stops completes, and so meets none
\* of the engine's refusals: no click behind the clock, no prediction, record or
\* credit twice, none after the seal, no undrained end, no trace the audit rejects.
EventuallyDone == <>(pc = "done")
=============================================================================
