------------------------- MODULE EventEngine_proofs -------------------------
(***************************************************************************)
(* The event-time engine never predicts with a model that saw the truth    *)
(* too early, predicts with exactly the model the schedule prescribes,     *)
(* delivers no click whose prediction is not persisted, and refuses        *)
(* nothing: for every fixture, every clock and any number of stopped and   *)
(* resumed runs.  For the first, the last credit of each model, in memory  *)
(* and in every checkpoint, is not behind the clock, and the engine        *)
(* refuses clicks at or before the previous boundary.  For the next two,   *)
(* each memory and each checkpoint is a function of the fixture and of its *)
(* boundary alone; for the last, its trace tells what was predicted and    *)
(* delivered.                                                              *)
(***************************************************************************)
EXTENDS EventEngine, FiniteSetTheorems, SequenceTheorems, WellFoundedInduction, TLAPS

(***************************************************************************)
(* The types the argument needs.                                           *)
(***************************************************************************)
ModelType(m) ==
  /\ DOMAIN m \subseteq Int
  /\ \A t \in DOMAIN m : m[t] \subseteq Clicks
PredictionsType(ps) ==
  /\ DOMAIN ps \subseteq Clicks
  /\ \A c \in DOMAIN ps : ModelType(ps[c])

FixtureType ==
  /\ clickTime \in [Clicks -> Nat]
  /\ availableAt \in [Clicks -> Nat]
ClockType(p, n) == p \in Int /\ n = p + Hour
MemoryType ==
  /\ ClockType(previous, next)
  /\ PredictionsType(predictions)
  /\ clicked \subseteq Clicks /\ pool \subseteq Clicks
  /\ ModelType(model)
StateType(s) ==
  /\ ClockType(s.previous, s.next)
  /\ PredictionsType(s.predictions)
  /\ s.clicked \subseteq Clicks /\ s.pool \subseteq Clicks
  /\ ModelType(s.model)
Types == FixtureType /\ MemoryType /\ \A s \in checkpoints : StateType(s)

Inv == Types /\ IInv

-----------------------------------------------------------------------------

(* A new engine has trained on nothing and predicted nothing. *)
LEMMA NothingLearned ==
  /\ ModelType(NoFunction) /\ PredictionsType(NoFunction)
  /\ LegalPredictions(NoFunction)
  /\ \A t : LegalBy(NoFunction, {}, t)
BY DEF ModelType, PredictionsType, LegalPredictions, LegalBy, LegalModel, NoFunction

(* What was legal by a boundary is legal by the next one. *)
LEMMA LegalLater ==
  ASSUME FixtureType, MemoryType, LegalBy(model, pool, previous)
  PROVE  LegalBy(model, pool, next)
<1>1. previous \in Int /\ next \in Int /\ previous <= next
  BY EngineConstants DEF MemoryType, ClockType
<1>2. \A d \in DOMAIN model : d \in Int
  BY DEF MemoryType, ModelType
<1>3. \A d \in DOMAIN model : d <= next
  BY <1>1, <1>2 DEF LegalBy
<1>4. \A r \in pool : availableAt[r] \in Int
  BY DEF MemoryType, FixtureType
<1>5. \A r \in pool : availableAt[r] <= next
  BY <1>1, <1>4 DEF LegalBy
<1> QED BY <1>3, <1>5 DEF LegalBy

(* The model in force at a boundary was trained before any click it predicts:
   the engine refuses a click at or before the previous boundary. *)
LEMMA PredictionsStayLegal ==
  ASSUME Inv, pc = "boundary", ~PredictRefused
  PROVE  \A c \in Arriving : LegalModel(model) /\ \A t \in DOMAIN model : t < clickTime[c]
<1>1. LegalBy(model, pool, previous)
  BY DEF Inv, IInv
<1>2. ASSUME NEW c \in Arriving, NEW t \in DOMAIN model
      PROVE  t < clickTime[c]
  <2>1. c \in Clicks /\ clickTime[c] \in Int /\ previous \in Int /\ t \in Int
    BY DEF Inv, Types, FixtureType, MemoryType, ClockType, ModelType, Arriving
  <2>2. ~(clickTime[c] <= previous)
    BY DEF PredictRefused
  <2>3. t <= previous
    BY <1>1 DEF LegalBy
  <2> QED BY <2>1, <2>2, <2>3
<1> QED BY <1>1, <1>2 DEF LegalBy

(* Invariant: initially nothing is learned. *)
LEMMA InitInv == Init => Inv
<1> SUFFICES ASSUME Init PROVE Inv
  OBVIOUS
<1>1. FixtureType
  <2>1. clickTime \in [Clicks -> Nat]
    BY EngineConstants DEF Init
  <2>2. PICK delay \in [Clicks -> TruthDelays] :
          availableAt = [c \in Clicks |-> clickTime[c] + delay[c]]
    BY DEF Init
  <2>3. \A c \in Clicks : clickTime[c] + delay[c] \in Nat
    <3>1. delay \in [Clicks -> Nat]
      BY <2>2, EngineConstants
    <3> QED BY <2>1, <3>1
  <2>4. availableAt \in [Clicks -> Nat]
    BY <2>2, <2>3
  <2> QED BY <2>1, <2>4 DEF FixtureType
<1>2. ClockType(previous, next)
  BY EngineConstants DEF Init, ClockType
<1>3. MemoryType
  BY <1>2, NothingLearned DEF MemoryType, Init
<1>4. IInv
  BY NothingLearned DEF IInv, Init
<1> QED BY <1>1, <1>3, <1>4 DEF Inv, Types, Init

-----------------------------------------------------------------------------
(* The steps, one lemma for each action that changes what is learned.        *)

(* A failed run keeps what it holds. *)
LEMMA FailInv ==
  ASSUME Inv, Fail, UNCHANGED <<fixture, checkpoints>>
  PROVE  Inv'
<1>1. Types'
  BY DEF Inv, Types, FixtureType, MemoryType, fixture, memory, Fail
<1>2. IInv'
  BY DEF Inv, IInv, LegalPredictions, LegalBy, LegalModel, fixture, memory, Fail
<1> QED BY <1>1, <1>2 DEF Inv

LEMMA PredictInv == Inv /\ Predict => Inv'
<1> SUFFICES ASSUME Inv, Predict PROVE Inv'
  OBVIOUS
<1>1. CASE PredictRefused
  BY <1>1, FailInv DEF Predict
<1>2. CASE ~PredictRefused
  <2>1. /\ pc = "boundary" /\ pc' = "persist"
        /\ predictions' = [c \in Predicted \cup Arriving |->
                             IF c \in Arriving THEN model ELSE predictions[c]]
        /\ UNCHANGED <<previous, next, clicked, pool, model, clickTime, availableAt, checkpoints>>
    BY <1>2 DEF Predict, fixture
  <2>2. \A c \in Arriving : LegalModel(model) /\ \A t \in DOMAIN model : t < clickTime[c]
    BY <1>2, <2>1, PredictionsStayLegal
  <2>3. PredictionsType(predictions')
    BY <2>1 DEF Inv, Types, MemoryType, PredictionsType, Arriving, Predicted
  <2>4. Types'
    BY <2>1, <2>3 DEF Inv, Types, FixtureType, MemoryType
  <2>5. LegalPredictions(predictions)'
    BY <2>1, <2>2 DEF Inv, IInv, LegalPredictions, LegalModel, Predicted
  <2>6. IInv'
    BY <2>1, <2>5 DEF Inv, IInv, LegalPredictions, LegalBy, LegalModel
  <2> QED BY <2>4, <2>6 DEF Inv
<1> QED BY <1>1, <1>2

LEMMA PersistInv == Inv /\ Persist => Inv'
<1> SUFFICES ASSUME Inv, Persist PROVE Inv'
  OBVIOUS
<1>1. Types'
  BY DEF Inv, Types, FixtureType, MemoryType, fixture, memory, Persist
<1>2. IInv'
  BY DEF Inv, IInv, LegalPredictions, LegalBy, LegalModel, fixture, memory, Persist
<1> QED BY <1>1, <1>2 DEF Inv

LEMMA DeliverInv == Inv /\ Deliver => Inv'
<1> SUFFICES ASSUME Inv, Deliver PROVE Inv'
  OBVIOUS
<1>1. Types'
  BY DEF Inv, Types, FixtureType, MemoryType, PredictionsType, Predicted, fixture, Deliver
<1>2. IInv'
  BY DEF Inv, IInv, LegalPredictions, LegalBy, LegalModel, fixture, Deliver
<1> QED BY <1>1, <1>2 DEF Inv

(* The pool only takes truth that is available at the boundary. *)
LEMMA RevealInv == Inv /\ Reveal => Inv'
<1> SUFFICES ASSUME Inv, Reveal PROVE Inv'
  OBVIOUS
<1>1. CASE RevealRefused
  BY <1>1, FailInv DEF Reveal
<1>2. CASE ~RevealRefused
  <2>1. /\ pc = "reveal" /\ pc' = "decide" /\ pool' = pool \cup Due
        /\ UNCHANGED <<previous, next, predictions, clicked, model, clickTime, availableAt,
                       checkpoints>>
    BY <1>2 DEF Reveal, fixture
  <2>2. Types'
    BY <2>1 DEF Inv, Types, FixtureType, MemoryType, Due
  <2>3. LegalBy(model, pool, next)
    BY <2>1, LegalLater DEF Inv, Types, IInv
  <2>4. LegalBy(model, pool, next)'
    BY <2>1, <2>3 DEF LegalBy, LegalModel, Due
  <2>5. IInv'
    BY <2>1, <2>4 DEF Inv, IInv, LegalPredictions, LegalBy, LegalModel
  <2> QED BY <2>2, <2>5 DEF Inv
<1> QED BY <1>1, <1>2

(* A credit trains on the pool, all of it available by the boundary. *)
LEMMA DecideInv == Inv /\ Decide => Inv'
<1> SUFFICES ASSUME Inv, Decide PROVE Inv'
  OBVIOUS
<1>1. CASE Fail
  BY <1>1, FailInv DEF Decide
<1>2. CASE Approved /\ pc' = "advance"
  <2>1. /\ pc = "decide"
        /\ model' = [t \in DOMAIN model \cup {next} |-> IF t = next THEN pool ELSE model[t]]
        /\ UNCHANGED <<previous, next, predictions, clicked, pool, clickTime, availableAt,
                       checkpoints>>
    BY <1>2 DEF Decide, fixture, Fail
  <2>2. next \in Int
    BY EngineConstants DEF Inv, Types, MemoryType, ClockType
  <2>3. ModelType(model')
    BY <2>1, <2>2 DEF Inv, Types, MemoryType, ModelType
  <2>4. Types'
    BY <2>1, <2>3 DEF Inv, Types, FixtureType, MemoryType
  <2>5. LegalBy(model, pool, next)
    BY <2>1 DEF Inv, IInv
  <2>6. LegalBy(model, pool, next)'
    BY <2>1, <2>2, <2>5 DEF LegalBy, LegalModel
  <2>7. IInv'
    BY <1>2, <2>1, <2>6 DEF Inv, IInv, LegalPredictions, LegalBy, LegalModel
  <2> QED BY <2>4, <2>7 DEF Inv
<1>3. CASE ~Approved
  <2>1. pc = "decide" /\ pc' = "advance" /\ UNCHANGED <<fixture, memory, checkpoints>>
    BY <1>3 DEF Decide
  <2>2. Types'
    BY <2>1 DEF Inv, Types, FixtureType, MemoryType, fixture, memory
  <2>3. IInv'
    BY <2>1 DEF Inv, IInv, LegalPredictions, LegalBy, LegalModel, fixture, memory
  <2> QED BY <2>2, <2>3 DEF Inv
<1> QED BY <1>1, <1>2, <1>3 DEF Decide

(* A checkpoint holds the boundary already advanced. *)
LEMMA AdvanceInv == Inv /\ Advance => Inv'
<1> SUFFICES ASSUME Inv, Advance PROVE Inv'
  OBVIOUS
<1> DEFINE saved == [State EXCEPT !.previous = next, !.next = next + Hour]
<1>1. /\ pc = "advance" /\ pc' = "boundary" /\ previous' = next /\ next' = next + Hour
      /\ UNCHANGED <<predictions, clicked, pool, model, clickTime, availableAt>>
  BY DEF Advance, fixture
<1>2. checkpoints' \subseteq checkpoints \cup {saved}
  BY DEF Advance
<1>3. /\ saved.previous = next /\ saved.next = next + Hour
      /\ saved.predictions = predictions /\ saved.clicked = clicked
      /\ saved.pool = pool /\ saved.model = model
  BY DEF State
<1>4. ClockType(next, next + Hour)
  BY EngineConstants DEF Inv, Types, MemoryType, ClockType
<1> HIDE DEF saved
<1>5. StateType(saved)
  BY <1>3, <1>4 DEF Inv, Types, MemoryType, StateType
<1>6. Types'
  <2>1. FixtureType' /\ MemoryType'
    BY <1>1, <1>4 DEF Inv, Types, FixtureType, MemoryType
  <2>2. \A s \in checkpoints' : StateType(s)
    BY <1>2, <1>5 DEF Inv, Types
  <2> QED BY <2>1, <2>2 DEF Types, StateType
<1>7. LegalBy(model, pool, next) /\ LegalPredictions(predictions)
  BY <1>1 DEF Inv, IInv
<1>8. LegalBy(model, pool, previous)' /\ LegalPredictions(predictions)'
  BY <1>1, <1>7 DEF LegalBy, LegalModel, LegalPredictions
<1>9. \A s \in checkpoints' : LegalPredictions(s.predictions) /\ LegalBy(s.model, s.pool, s.previous)
  BY <1>2, <1>3, <1>7 DEF Inv, IInv
<1>10. (\A s \in checkpoints : LegalPredictions(s.predictions) /\ LegalBy(s.model, s.pool, s.previous))'
  BY <1>1, <1>9 DEF LegalPredictions, LegalBy, LegalModel
<1>11. IInv'
  BY <1>1, <1>8, <1>10 DEF IInv
<1> QED BY <1>6, <1>11 DEF Inv

LEMMA EndInv == Inv /\ (Finish \/ Stop) => Inv'
<1> SUFFICES ASSUME Inv, Finish \/ Stop PROVE Inv'
  OBVIOUS
<1>1. UNCHANGED <<fixture, memory, checkpoints>> /\ pc' \in {"done", "failed", "down"}
  BY DEF Finish, Stop
<1>2. Types'
  BY <1>1 DEF Inv, Types, FixtureType, MemoryType, fixture, memory
<1>3. IInv'
  BY <1>1 DEF Inv, IInv, LegalPredictions, LegalBy, LegalModel, fixture, memory
<1> QED BY <1>2, <1>3 DEF Inv

(* A resumed run knows what its checkpoint knew. *)
LEMMA LoadInv ==
  ASSUME Inv, NEW s, StateType(s), Load(s), pc' = "boundary",
         LegalPredictions(s.predictions), LegalBy(s.model, s.pool, s.previous),
         UNCHANGED <<fixture, checkpoints>>
  PROVE  Inv'
<1>1. /\ previous' = s.previous /\ next' = s.next /\ predictions' = s.predictions
      /\ clicked' = s.clicked /\ pool' = s.pool /\ model' = s.model
  BY DEF Load
<1>2. Types'
  BY <1>1 DEF Inv, Types, FixtureType, MemoryType, StateType, fixture
<1>3. IInv'
  BY <1>1 DEF Inv, IInv, LegalPredictions, LegalBy, LegalModel, fixture
<1> QED BY <1>2, <1>3 DEF Inv

LEMMA ResumeInv ==
  ASSUME Inv, NEW s \in checkpoints, Resume(s)
  PROVE  Inv'
BY LoadInv DEF Inv, Types, IInv, Resume

LEMMA RerunInv == Inv /\ Rerun => Inv'
<1> SUFFICES ASSUME Inv, Rerun PROVE Inv'
  OBVIOUS
<1>1. /\ NewEngine.previous = -Hour /\ NewEngine.next = 0
      /\ NewEngine.predictions = NoFunction /\ NewEngine.clicked = {}
      /\ NewEngine.pool = {} /\ NewEngine.model = NoFunction
  BY DEF NewEngine
<1>2. ClockType(NewEngine.previous, NewEngine.next)
  BY <1>1, EngineConstants DEF ClockType
<1>3. StateType(NewEngine)
  BY <1>1, <1>2, NothingLearned DEF StateType
<1>4. LegalPredictions(NewEngine.predictions)
  BY <1>1, NothingLearned
<1>5. LegalBy(NewEngine.model, NewEngine.pool, NewEngine.previous)
  BY <1>1, NothingLearned
<1>6. Load(NewEngine) /\ pc' = "boundary" /\ UNCHANGED <<fixture, checkpoints>>
  BY DEF Rerun
<1> HIDE DEF NewEngine
<1> QED BY <1>3, <1>4, <1>5, <1>6, LoadInv

(* Invariant: every step keeps it. *)
LEMMA StepInv == Inv /\ [Next]_vars => Inv'
<1> SUFFICES ASSUME Inv, [Next]_vars PROVE Inv'
  OBVIOUS
<1>1. CASE Predict
  BY <1>1, PredictInv
<1>2. CASE Persist
  BY <1>2, PersistInv
<1>3. CASE Deliver
  BY <1>3, DeliverInv
<1>4. CASE Reveal
  BY <1>4, RevealInv
<1>5. CASE Decide
  BY <1>5, DecideInv
<1>6. CASE Advance
  BY <1>6, AdvanceInv
<1>7. CASE Finish \/ Stop
  BY <1>7, EndInv
<1>8. CASE \E s \in checkpoints : Resume(s)
  BY <1>8, ResumeInv
<1>9. CASE Rerun
  BY <1>9, RerunInv
<1>10. CASE UNCHANGED vars
  <2>1. Types'
    BY <1>10 DEF Inv, Types, FixtureType, MemoryType, fixture, memory, vars
  <2>2. IInv'
    BY <1>10 DEF Inv, IInv, LegalPredictions, LegalBy, LegalModel, fixture, memory, vars
  <2> QED BY <2>1, <2>2 DEF Inv
<1> QED BY <1>1, <1>2, <1>3, <1>4, <1>5, <1>6, <1>7, <1>8, <1>9, <1>10 DEF Next, Run

LEMMA Inductive == Spec => []Inv
BY InitInv, StepInv, PTL DEF Spec

-----------------------------------------------------------------------------

(* The inductive invariant the run checks holds of every engine: what any model
   was trained on was available when it was trained, and no model is ahead of
   the boundary it is used at, in memory and in every checkpoint. *)
THEOREM InvariantCorrect == Spec => []IInv
<1>1. Inv => IInv
  BY DEF Inv
<1> QED BY <1>1, Inductive, PTL

(* No prediction rests on truth that was not available before its click, for
   every fixture, boundary, decision interval and number of restarts. *)
THEOREM LeakageCorrect == Spec => []NoLeakage
<1>1. Inv => NoLeakage
  <2> SUFFICES ASSUME Inv, NEW c \in Predicted, NEW t \in DOMAIN predictions[c],
                      NEW r \in predictions[c][t]
               PROVE  availableAt[r] < clickTime[c]
    BY DEF NoLeakage
  <2>1. c \in DOMAIN predictions
    BY DEF Predicted
  <2>2. c \in Clicks /\ t \in Int /\ r \in Clicks
    BY <2>1 DEF Inv, Types, MemoryType, PredictionsType, ModelType
  <2>3. clickTime[c] \in Int /\ availableAt[r] \in Int
    BY <2>2 DEF Inv, Types, FixtureType
  <2>4. availableAt[r] <= t /\ t < clickTime[c]
    BY <2>1 DEF Inv, IInv, LegalPredictions, LegalModel
  <2> QED BY <2>2, <2>3, <2>4
<1> QED BY <1>1, Inductive, PTL
-----------------------------------------------------------------------------
(***************************************************************************)
(* The engine learns on schedule and persists before it delivers.  At any  *)
(* place of a boundary the ledgers, the pool and the model are functions   *)
(* of the fixture and the clock alone, and so is every checkpoint: what    *)
(* was stopped and resumed leaves no trace.                                *)
(***************************************************************************)

DecisionAt(ct, t) == t > 0 /\ t % Interval = 0 /\ t <= ct[NumClicks - 1]
ArrivedBy(ct, t) == {c \in Clicks : ct[c] <= t}
KnownBy(av, t) == {c \in Clicks : av[c] <= t}
TrainedBy(ct, av, t) ==
  [d \in {e \in 1 .. t - 1 : DecisionAt(ct, e) /\ KnownBy(av, e) # {}} |-> KnownBy(av, d)]
HourOf(ct, c) == ((ct[c] + Hour - 1) \div Hour) * Hour
LastOf(av) ==
  LET drain == CHOOSE t \in {av[c] : c \in Clicks} :
                 /\ \E c \in Clicks : av[c] = t
                 /\ \A c \in Clicks : av[c] <= t
  IN ((drain + Hour - 1) \div Hour) * Hour
OnTheHour(n) == \E k \in 0 .. n : n = k * Hour

FixtureTrue(ct, av) ==
  /\ ct \in [Clicks -> Nat] /\ av \in [Clicks -> Nat]
  /\ \A b, c \in Clicks : b <= c => ct[b] <= ct[c]
  /\ \A c \in Clicks : ct[c] <= av[c]

(* p is the boundary processed last, n the next one.                       *)
Clock(p, n, last) == n \in Nat /\ p = n - Hour /\ OnTheHour(n) /\ n <= last + Hour

(* The ledger holds a prediction of every click through boundary t.        *)
Covers(ct, ps, count, seal, t) ==
  /\ count \in 0 .. NumClicks /\ seal \in BOOLEAN
  /\ DOMAIN ps = 0 .. count - 1 /\ DOMAIN ps = ArrivedBy(ct, t)
  /\ count = NumClicks => seal
Scheduled(ct, av, ps) == \A c \in DOMAIN ps : ps[c] = TrainedBy(ct, av, HourOf(ct, c))

(* Every truth through boundary t was delivered and put into the pool.     *)
Revealed(av, de, po, t) == de = KnownBy(av, t) /\ po = KnownBy(av, t)

(* Every decision through boundary t trained the model, once and in order. *)
InOrderOf(cr, m) ==
  /\ cr \in Seq(Nat)
  /\ {cr[i] : i \in 1 .. Len(cr)} = DOMAIN m
  /\ \A i, j \in 1 .. Len(cr) : i < j => cr[i] < cr[j]
Trained(ct, av, m, cr, t) == m = TrainedBy(ct, av, t + 1) /\ InOrderOf(cr, m)

Settled(ct, av, last, s) ==
  /\ Clock(s.previous, s.next, last)
  /\ Covers(ct, s.predictions, s.cursor, s.sealed, s.previous)
  /\ Scheduled(ct, av, s.predictions)
  /\ s.clicked = ArrivedBy(ct, s.previous)
  /\ Revealed(av, s.delivered, s.pool, s.previous)
  /\ Trained(ct, av, s.model, s.credits, s.previous)

Halted == {"down", "failed"}
AtBoundary == {"boundary", "done"}

Progress ==
  /\ pc \in Halted \cup AtBoundary \cup {"persist", "deliver", "reveal", "decide", "advance"}
  /\ Scheduled(clickTime, availableAt, predictions)
  /\ pc \notin Halted => Clock(previous, next, LastOf(availableAt))
  /\ pc \notin Halted \cup AtBoundary => next <= LastOf(availableAt)
  /\ pc \in AtBoundary => Covers(clickTime, predictions, cursor, sealed, previous)
  /\ pc \notin Halted \cup AtBoundary => Covers(clickTime, predictions, cursor, sealed, next)
  /\ pc \in AtBoundary \cup {"persist", "deliver"} => clicked = ArrivedBy(clickTime, previous)
  /\ pc \in {"reveal", "decide", "advance"} => clicked = ArrivedBy(clickTime, next)
  /\ pc \in AtBoundary \cup {"persist", "deliver", "reveal"} =>
       Revealed(availableAt, delivered, pool, previous)
  /\ pc \in {"decide", "advance"} => Revealed(availableAt, delivered, pool, next)
  /\ pc \notin Halted \cup {"advance"} =>
       Trained(clickTime, availableAt, model, credits, previous)
  /\ pc = "advance" => Trained(clickTime, availableAt, model, credits, next)
  /\ pc \notin Halted => clicked \subseteq live.clicks /\ (clicked = Clicks => live.sealed)
  /\ pc = "deliver" => Predicted \subseteq live.clicks /\ (sealed => live.sealed)

Stored ==
  /\ \A s \in checkpoints : Settled(clickTime, availableAt, LastOf(availableAt), s)
  /\ \A o \in outputs :
       Trained(clickTime, availableAt, o.model, o.credits, LastOf(availableAt))

EngineInv == FixtureTrue(clickTime, availableAt) /\ Progress /\ Stored

-----------------------------------------------------------------------------
(* Multiples of the hour.                                                   *)
LEMMA Multiples ==
  ASSUME NEW h \in Nat \ {0}, NEW i \in Int, NEW j \in Int, i * h < j * h + h
  PROVE  i <= j
<1>1. SUFFICES ASSUME j + 1 <= i PROVE FALSE
  OBVIOUS
<1> DEFINE d == i - (j + 1)
<1>2. d \in Nat /\ i = d + (j + 1)
  BY <1>1
<1> HIDE DEF d
<1>3. d * h \in Nat
  BY <1>2
<1>4. i * h = d * h + (j * h + h)
  BY <1>2
<1>5. j * h \in Int
  OBVIOUS
<1> QED BY <1>3, <1>4, <1>5

LEMMA Rounding ==
  ASSUME NEW h \in Nat \ {0}, NEW a \in Nat, NEW k \in Int, k * h <= a, a < k * h + h
  PROVE  a \div h = k
<1> DEFINE q == a \div h
           r == a % h
<1>1. q \in Int /\ r \in 0 .. h - 1 /\ a = h * q + r
  OBVIOUS
<1> HIDE DEF q, r
<1>2. h * q = q * h /\ q * h \in Int /\ k * h \in Int
  BY <1>1
<1>3. q * h < k * h + h /\ k * h < q * h + h
  BY <1>1, <1>2
<1>4. q <= k /\ k <= q
  BY <1>1, <1>3, Multiples
<1> QED BY <1>1, <1>4 DEF q

(* A decision falls on a boundary.                                          *)
LEMMA DecisionOnTheHour ==
  ASSUME NEW d \in Nat, d % Interval = 0
  PROVE  \E k \in Nat : d = k * Hour
<1> DEFINE q == d \div Interval
           r == Interval \div Hour
<1>1. q \in Nat /\ d = Interval * q
  BY EngineConstants
<1>2. r \in Nat /\ Interval = Hour * r
  BY EngineConstants
<1> HIDE DEF q, r
<1>3. Hour \in Nat /\ r * q \in Nat
  BY <1>1, <1>2, EngineConstants
<1>4. d = (r * q) * Hour
  BY <1>1, <1>2, <1>3
<1> QED BY <1>3, <1>4

LEMMA LeastNatural ==
  ASSUME NEW S \in SUBSET Nat, S # {}
  PROVE  \E x \in S : \A y \in S : x <= y
<1> DEFINE R == {ss \in Nat \X Nat : ss[1] < ss[2]}
<1>1. IsWellFoundedOn(R, Nat)
  BY NatLessThanWellFounded DEF OpToRel
<1>2. S \subseteq Nat /\ S # {}
  OBVIOUS
<1> HIDE DEF R
<1>3. PICK x \in S : \A y \in S : ~(<<y, x>> \in R)
  BY <1>1, <1>2, WFMin
<1>4. \A y \in S : ~(y < x)
  BY <1>3 DEF R
<1> QED BY <1>4

-----------------------------------------------------------------------------
(* The clock of a fixture.                                                  *)

(* Clicks arrive in the order of their numbers.                             *)
LEMMA ArriveInOrder ==
  ASSUME NEW ct, NEW av, FixtureTrue(ct, av), NEW t \in Int
  PROVE  \E m \in 0 .. NumClicks : ArrivedBy(ct, t) = 0 .. m - 1
<1> DEFINE Late == {c \in Clicks : t < ct[c]}
<1>1. NumClicks \in Nat \ {0} /\ Clicks = 0 .. NumClicks - 1
  BY EngineConstants DEF Clicks
<1>2. \A c \in Clicks : ct[c] \in Nat
  BY DEF FixtureTrue
<1>3. CASE Late = {}
  <2>1. \A c \in Clicks : ct[c] <= t
    BY <1>2, <1>3
  <2>2. ArrivedBy(ct, t) = 0 .. NumClicks - 1
    BY <1>1, <2>1 DEF ArrivedBy
  <2> QED BY <1>1, <2>2
<1>4. CASE Late # {}
  <2>1. Late \in SUBSET Nat
    BY <1>1
  <2>2. PICK m \in Late : \A y \in Late : m <= y
    BY <1>4, <2>1, LeastNatural
  <2>3. m \in Clicks /\ m \in 0 .. NumClicks /\ t < ct[m]
    BY <1>1
  <2>4. ASSUME NEW c \in Clicks
        PROVE  ct[c] <= t <=> c < m
    <3>1. c \in Int /\ m \in Int /\ ct[c] \in Int /\ ct[m] \in Int
      BY <1>1, <1>2, <2>3
    <3>2. m <= c => ct[m] <= ct[c]
      BY <2>3 DEF FixtureTrue
    <3>3. t < ct[c] => m <= c
      BY <2>2
    <3> QED BY <2>3, <3>1, <3>2, <3>3
  <2>5. ArrivedBy(ct, t) = 0 .. m - 1
    <3>1. \A c : c \in ArrivedBy(ct, t) <=> c \in Clicks /\ c < m
      BY <2>4 DEF ArrivedBy
    <3>2. \A c : c \in Clicks /\ c < m <=> c \in 0 .. m - 1
      BY <1>1, <2>3
    <3> QED BY <3>1, <3>2
  <2> QED BY <2>3, <2>5
<1> QED BY <1>3, <1>4

(* The last truth: one of finitely many, so there is one.                   *)
LEMMA LastTruth ==
  ASSUME FixtureTrue(clickTime, availableAt)
  PROVE  \E t \in {availableAt[c] : c \in Clicks} : IsDrain(t)
<1> DEFINE Latest(n) == \E c \in 0 .. n - 1 : \A b \in 0 .. n - 1 : availableAt[b] <= availableAt[c]
           Open == {n \in 1 .. NumClicks : ~Latest(n)}
<1>1. NumClicks \in Nat \ {0} /\ Clicks = 0 .. NumClicks - 1
  BY EngineConstants DEF Clicks
<1>2. \A c \in Clicks : availableAt[c] \in Nat
  BY DEF FixtureTrue
<1>3. Open = {}
  <2> SUFFICES ASSUME Open # {} PROVE FALSE
    OBVIOUS
  <2>1. Open \in SUBSET Nat
    BY <1>1
  <2>2. PICK n \in Open : \A y \in Open : n <= y
    BY <2>1, LeastNatural
  <2>3. n \in 1 .. NumClicks /\ ~Latest(n)
    OBVIOUS
  <2>a. \A m \in 1 .. NumClicks : m \notin Open => Latest(m)
    OBVIOUS
  <2> HIDE DEF Open, Latest
  <2>4. CASE n = 1
    <3>1. 0 .. n - 1 = {0} /\ 0 \in Clicks
      BY <1>1, <2>4
    <3>2. \A b \in 0 .. n - 1 : availableAt[b] <= availableAt[0]
      BY <1>2, <3>1
    <3>3. Latest(n)
      BY <3>1, <3>2 DEF Latest
    <3> QED BY <2>3, <3>3
  <2>5. CASE n # 1
    <3>1. n - 1 \in 1 .. NumClicks /\ ~(n <= n - 1)
      BY <1>1, <2>3, <2>5
    <3>2. n - 1 \notin Open
      BY <2>2, <3>1
    <3>3. Latest(n - 1)
      BY <2>a, <3>1, <3>2
    <3>4. PICK c \in 0 .. (n - 1) - 1 :
            \A b \in 0 .. (n - 1) - 1 : availableAt[b] <= availableAt[c]
      BY <3>3 DEF Latest
    <3>b. n \in Nat /\ 1 < n /\ n <= NumClicks /\ c \in 0 .. (n - 1) - 1 /\ NumClicks \in Nat
      BY <1>1, <2>3, <2>5
    <3>5. /\ n - 1 \in Clicks /\ c \in Clicks /\ c \in 0 .. n - 1 /\ n - 1 \in 0 .. n - 1
          /\ \A b \in 0 .. n - 1 : b \in Clicks /\ (b = n - 1 \/ b \in 0 .. (n - 1) - 1)
      BY <1>1, <3>b
    <3>6. CASE availableAt[c] <= availableAt[n - 1]
      <4>1. ASSUME NEW b \in 0 .. n - 1 PROVE availableAt[b] <= availableAt[n - 1]
        BY <1>2, <3>4, <3>5, <3>6
      <4> QED BY <2>3, <3>5, <4>1 DEF Latest
    <3>7. CASE ~(availableAt[c] <= availableAt[n - 1])
      <4>1. ASSUME NEW b \in 0 .. n - 1 PROVE availableAt[b] <= availableAt[c]
        BY <1>2, <3>4, <3>5, <3>7
      <4> QED BY <2>3, <3>5, <4>1 DEF Latest
    <3> QED BY <3>6, <3>7
  <2> QED BY <2>4, <2>5
<1>4. Latest(NumClicks)
  <2>1. NumClicks \in 1 .. NumClicks
    BY <1>1
  <2> QED BY <1>3, <2>1
<1>5. PICK c \in Clicks : \A b \in Clicks : availableAt[b] <= availableAt[c]
  BY <1>1, <1>4
<1>6. IsDrain(availableAt[c])
  BY <1>5 DEF IsDrain
<1> QED BY <1>6

LEMMA HourMultiple ==
  ASSUME NEW n \in Nat
  PROVE  OnTheHour(n) <=> \E k \in Nat : n = k * Hour
<1>1. ASSUME NEW k \in Nat, n = k * Hour
      PROVE  k \in 0 .. n
  <2>1. Hour \in Nat /\ Hour - 1 \in Nat
    BY EngineConstants
  <2>2. n = k * (Hour - 1) + k /\ k * (Hour - 1) \in Nat
    BY <1>1, <2>1
  <2> QED BY <2>2
<1> QED BY <1>1 DEF OnTheHour

LEMMA FinalOnTheHour ==
  ASSUME FixtureTrue(clickTime, availableAt)
  PROVE  /\ FinalBoundary = LastOf(availableAt)
         /\ LastOf(availableAt) \in Nat /\ OnTheHour(LastOf(availableAt))
<1> DEFINE drain == CHOOSE t \in {availableAt[c] : c \in Clicks} : IsDrain(t)
<1>1. drain \in {availableAt[c] : c \in Clicks}
  BY LastTruth
<1>2. \A c \in Clicks : availableAt[c] \in Nat
  BY DEF FixtureTrue
<1>3. drain \in Nat
  BY <1>1, <1>2
<1> HIDE DEF drain
<1>4. (drain + Hour - 1) \div Hour \in Nat
  BY <1>3, EngineConstants
<1>5. FinalBoundary = ((drain + Hour - 1) \div Hour) * Hour
  BY DEF FinalBoundary, drain
<1>6. FinalBoundary = LastOf(availableAt)
  BY DEF FinalBoundary, IsDrain, LastOf
<1> DEFINE k == (drain + Hour - 1) \div Hour
<1>7. k \in Nat /\ FinalBoundary = k * Hour /\ k * Hour \in Nat
  BY <1>4, <1>5, EngineConstants
<1> HIDE DEF k
<1>8. OnTheHour(FinalBoundary)
  BY <1>7, HourMultiple
<1> QED BY <1>6, <1>7, <1>8

(* Between two boundaries no decision falls.                                *)
LEMMA NoDecisionBetween ==
  ASSUME NEW ct, NEW n \in Nat, OnTheHour(n), NEW e \in Int, DecisionAt(ct, e), n - Hour < e
  PROVE  n <= e
<1>1. e \in Nat /\ e % Interval = 0
  BY DEF DecisionAt
<1>2. PICK k \in Nat : e = k * Hour
  BY <1>1, DecisionOnTheHour
<1>3. PICK j \in Nat : n = j * Hour
  BY HourMultiple
<1>4. Hour \in Nat \ {0} /\ k * Hour \in Int /\ j * Hour \in Int
  BY <1>2, <1>3, EngineConstants
<1>5. j * Hour < k * Hour + Hour
  BY <1>2, <1>3, <1>4
<1>6. j <= k
  BY <1>4, <1>5, Multiples
<1> DEFINE d == k - j
<1>7. d \in Nat /\ k = j + d
  BY <1>6
<1> HIDE DEF d
<1>8. k * Hour = j * Hour + d * Hour /\ d * Hour \in Nat
  BY <1>4, <1>7
<1> QED BY <1>2, <1>3, <1>4, <1>8

LEMMA NextHour ==
  ASSUME NEW n \in Nat, OnTheHour(n)
  PROVE  OnTheHour(n + Hour)
<1>1. PICK k \in Nat : n = k * Hour
  BY HourMultiple
<1>2. n + Hour = (k + 1) * Hour /\ n + Hour \in Nat /\ k + 1 \in Nat
  BY <1>1, EngineConstants
<1> QED BY <1>2, HourMultiple

(* The boundary that follows the last one.                                  *)
LEMMA AfterLast ==
  ASSUME NEW n \in Nat, OnTheHour(n), NEW last \in Nat, OnTheHour(last),
         last < n, n <= last + Hour
  PROVE  n = last + Hour
<1>1. PICK k \in Nat : n = k * Hour
  BY HourMultiple
<1>2. PICK j \in Nat : last = j * Hour
  BY HourMultiple
<1>3. Hour \in Nat \ {0} /\ (j + 1) * Hour = j * Hour + Hour /\ j * Hour \in Nat
  BY EngineConstants
<1>4. ~(k <= j)
  <2> SUFFICES ASSUME k <= j PROVE FALSE
    OBVIOUS
  <2> DEFINE d == j - k
  <2>1. d \in Nat /\ j = k + d
    OBVIOUS
  <2> HIDE DEF d
  <2>2. j * Hour = k * Hour + d * Hour /\ d * Hour \in Nat
    BY <1>3, <2>1
  <2> QED BY <1>1, <1>2, <2>2
<1> DEFINE d == k - (j + 1)
<1>5. d \in Nat /\ k = (j + 1) + d
  BY <1>4
<1> HIDE DEF d
<1>6. k * Hour = (j + 1) * Hour + d * Hour /\ d * Hour \in Nat
  BY <1>3, <1>5
<1> QED BY <1>1, <1>2, <1>3, <1>6

(* A click is predicted at the first boundary that is not before it.        *)
LEMMA PredictedAt ==
  ASSUME NEW ct, NEW n \in Nat, OnTheHour(n), NEW c, ct[c] \in Nat,
         n - Hour < ct[c], ct[c] <= n
  PROVE  HourOf(ct, c) = n
<1>1. PICK k \in Nat : n = k * Hour
  BY HourMultiple
<1> DEFINE a == ct[c] + Hour - 1
<1>2. Hour \in Nat \ {0} /\ a \in Nat /\ k * Hour <= a /\ a < k * Hour + Hour
  BY <1>1, EngineConstants
<1> HIDE DEF a
<1>3. a \div Hour = k
  BY <1>2, Rounding
<1> QED BY <1>1, <1>3 DEF HourOf, a

-----------------------------------------------------------------------------
(* What a boundary adds to the model and to the ledger.                     *)
DecisionsBefore(ct, av, t) == {e \in 1 .. t - 1 : DecisionAt(ct, e) /\ KnownBy(av, e) # {}}

LEMMA DecisionsOfBoundary ==
  ASSUME NEW ct, NEW av, NEW n \in Nat, OnTheHour(n)
  PROVE  /\ DecisionsBefore(ct, av, n) = DecisionsBefore(ct, av, n - Hour + 1)
         /\ DecisionsBefore(ct, av, n + 1) =
              DecisionsBefore(ct, av, n - Hour + 1)
                \cup (IF DecisionAt(ct, n) /\ KnownBy(av, n) # {} THEN {n} ELSE {})
         /\ \A e \in DecisionsBefore(ct, av, n - Hour + 1) : e \in Nat /\ e < n
<1>1. Hour \in Nat \ {0} /\ n - Hour \in Int
  BY EngineConstants
<1> DEFINE D(e) == DecisionAt(ct, e) /\ KnownBy(av, e) # {}
<1>2. \A e \in Int : D(e) /\ n - Hour < e => n <= e
  BY NoDecisionBetween
<1>3. \A e : D(e) /\ e \in Int => 0 < e
  BY DEF DecisionAt
<1> HIDE DEF D
<1>4. \A e \in Int : D(e) => /\ e \in 1 .. n - 1 <=> e \in 1 .. (n - Hour + 1) - 1
                             /\ e \in 1 .. (n + 1) - 1 <=> (e \in 1 .. (n - Hour + 1) - 1 \/ e = n)
  BY <1>1, <1>2, <1>3
<1>5. \A e \in 1 .. (n - Hour + 1) - 1 : e \in Nat /\ e < n
  BY <1>1
<1>6. \A t, e : e \in DecisionsBefore(ct, av, t) <=> e \in 1 .. t - 1 /\ D(e)
  BY DEF DecisionsBefore, D
<1>7. \A e : /\ e \in 1 .. n - 1 => e \in Int
             /\ e \in 1 .. (n + 1) - 1 => e \in Int
             /\ e \in 1 .. (n - Hour + 1) - 1 => e \in Int
  OBVIOUS
<1>8. DecisionsBefore(ct, av, n) = DecisionsBefore(ct, av, n - Hour + 1)
  BY <1>4, <1>6, <1>7
<1>9. DecisionsBefore(ct, av, n + 1) =
        DecisionsBefore(ct, av, n - Hour + 1) \cup (IF D(n) THEN {n} ELSE {})
  BY <1>4, <1>6, <1>7
<1> QED BY <1>5, <1>6, <1>8, <1>9 DEF D

LEMMA TrainedIs ==
  ASSUME NEW ct, NEW av, NEW t
  PROVE  TrainedBy(ct, av, t) = [d \in DecisionsBefore(ct, av, t) |-> KnownBy(av, d)]
BY DEF TrainedBy, DecisionsBefore

LEMMA TrainsNothing ==
  ASSUME NEW ct, NEW av, NEW n \in Nat, OnTheHour(n)
  PROVE  /\ TrainedBy(ct, av, n) = TrainedBy(ct, av, n - Hour + 1)
         /\ ~(DecisionAt(ct, n) /\ KnownBy(av, n) # {}) =>
              TrainedBy(ct, av, n + 1) = TrainedBy(ct, av, n - Hour + 1)
<1>1. ASSUME ~(DecisionAt(ct, n) /\ KnownBy(av, n) # {})
      PROVE  DecisionsBefore(ct, av, n + 1) = DecisionsBefore(ct, av, n - Hour + 1)
  BY <1>1, DecisionsOfBoundary
<1> QED BY <1>1, DecisionsOfBoundary, TrainedIs

With(m, n, p) == [d \in DOMAIN m \cup {n} |-> IF d = n THEN p ELSE m[d]]

LEMMA TrainsOn ==
  ASSUME NEW ct, NEW av, NEW n \in Nat, OnTheHour(n),
         DecisionAt(ct, n), KnownBy(av, n) # {},
         NEW m, m = TrainedBy(ct, av, n - Hour + 1)
  PROVE  /\ TrainedBy(ct, av, n + 1) = With(m, n, KnownBy(av, n))
         /\ \A d \in DOMAIN m : d \in Nat /\ d < n
<1> DEFINE B == DecisionsBefore(ct, av, n - Hour + 1)
<1>1. DecisionsBefore(ct, av, n + 1) = B \cup {n} /\ \A e \in B : e \in Nat /\ e < n
  BY DecisionsOfBoundary
<1>2. m = [d \in B |-> KnownBy(av, d)]
  BY TrainedIs
<1> HIDE DEF B
<1>3. DOMAIN m = B
  BY <1>2
<1>4. TrainedBy(ct, av, n + 1) = [d \in B \cup {n} |-> KnownBy(av, d)]
  BY <1>1, TrainedIs
<1> QED BY <1>1, <1>2, <1>3, <1>4 DEF With

(* The credit of a boundary comes after those before it.                    *)
LEMMA SpendsInOrder ==
  ASSUME NEW cr, NEW m, InOrderOf(cr, m), NEW n \in Nat, \A d \in DOMAIN m : d < n,
         NEW mm, DOMAIN mm = DOMAIN m \cup {n}
  PROVE  InOrderOf(Append(cr, n), mm)
<1> DEFINE l == Len(cr)
           new == Append(cr, n)
<1>1. cr \in Seq(Nat) /\ l \in Nat
  BY DEF InOrderOf
<1>2. new \in Seq(Nat) /\ Len(new) = l + 1 /\ new[l + 1] = n
  BY <1>1
<1>3. \A i \in 1 .. l : new[i] = cr[i] /\ cr[i] \in Nat
  BY <1>1
<1> HIDE DEF l, new
<1>4. \A i \in 1 .. l + 1 : i = l + 1 \/ i \in 1 .. l
  BY <1>1
<1>5. l + 1 \in 1 .. l + 1 /\ \A i \in 1 .. l : i \in 1 .. l + 1
  BY <1>1
<1>6. {cr[i] : i \in 1 .. l} = DOMAIN m /\ \A i, j \in 1 .. l : i < j => cr[i] < cr[j]
  BY DEF InOrderOf, l
<1>7. \A i \in 1 .. l : cr[i] < n
  BY <1>6
<1>8. {new[i] : i \in 1 .. l + 1} = DOMAIN mm
  <2>1. \A x : x \in {new[i] : i \in 1 .. l + 1} <=> x = n \/ x \in {cr[i] : i \in 1 .. l}
    BY <1>2, <1>3, <1>4, <1>5
  <2> QED BY <1>6, <2>1
<1>9. ASSUME NEW i \in 1 .. l + 1, NEW j \in 1 .. l + 1, i < j
      PROVE  new[i] < new[j]
  <2>1. i \in 1 .. l
    BY <1>1, <1>9
  <2>2. CASE j = l + 1
    BY <1>2, <1>3, <1>7, <2>1, <2>2
  <2>3. CASE j \in 1 .. l
    BY <1>3, <1>6, <1>9, <2>1, <2>3
  <2> QED BY <1>4, <2>2, <2>3
<1> QED BY <1>2, <1>8, <1>9 DEF InOrderOf, new

(* _clicks_through takes the clicks after the cursor, and those are the     *)
(* clicks since the boundary before.                                        *)
TakesIn(ct, ps, count, seal, n, A, qs, seal2) ==
  /\ A = {c \in Clicks : count <= c /\ ct[c] <= n}
  /\ DOMAIN qs = DOMAIN ps \cup A
  /\ seal2 = (seal \/ count + Cardinality(A) = NumClicks)

LEMMA Arrivals ==
  ASSUME NEW ct, NEW av, FixtureTrue(ct, av), NEW ps, NEW count, NEW seal,
         NEW p \in Int, NEW n \in Int, p <= n, Covers(ct, ps, count, seal, p),
         NEW A, NEW qs, NEW seal2, TakesIn(ct, ps, count, seal, n, A, qs, seal2)
  PROVE  /\ Covers(ct, qs, count + Cardinality(A), seal2, n)
         /\ \A c \in A : p < ct[c] /\ ct[c] <= n
<1>1. NumClicks \in Nat \ {0} /\ Clicks = 0 .. NumClicks - 1
  BY EngineConstants DEF Clicks
<1>2. \A c \in Clicks : ct[c] \in Nat
  BY DEF FixtureTrue
<1>3. PICK m \in 0 .. NumClicks : ArrivedBy(ct, n) = 0 .. m - 1
  BY ArriveInOrder
<1>4. count \in 0 .. NumClicks /\ DOMAIN ps = 0 .. count - 1 /\ DOMAIN ps = ArrivedBy(ct, p)
  BY DEF Covers
<1>5. \A c \in ArrivedBy(ct, p) : c \in ArrivedBy(ct, n)
  BY <1>2 DEF ArrivedBy
<1>6. count <= m
  <2> SUFFICES ASSUME m < count PROVE FALSE
    BY <1>3, <1>4
  <2>1. m \in 0 .. count - 1 /\ m \notin 0 .. m - 1
    BY <1>3, <1>4
  <2> QED BY <1>3, <1>4, <1>5, <2>1
<1>7. A = count .. m - 1
  <2>1. \A c : c \in A <=> count <= c /\ c \in ArrivedBy(ct, n)
    BY DEF ArrivedBy, TakesIn
  <2>2. \A c : c \in A <=> count <= c /\ c \in 0 .. m - 1
    BY <1>3, <2>1
  <2>3. \A c : (count <= c /\ c \in 0 .. m - 1) <=> c \in count .. m - 1
    BY <1>3, <1>4
  <2> QED BY <2>2, <2>3
<1>8. Cardinality(A) = m - count
  <2>1. Cardinality(count .. m - 1) = IF count > m - 1 THEN 0 ELSE (m - 1) - count + 1
    BY <1>3, <1>4, FS_Interval
  <2>2. m \in Nat /\ count \in Nat
    BY <1>3, <1>4
  <2>3. (IF count > m - 1 THEN 0 ELSE (m - 1) - count + 1) = m - count
    BY <1>6, <2>2
  <2> QED BY <1>7, <2>1, <2>3
<1>9. count + Cardinality(A) = m
  BY <1>3, <1>4, <1>8
<1>10. DOMAIN qs = 0 .. m - 1
  <2>1. \A c : c \in 0 .. m - 1 <=> c \in 0 .. count - 1 \/ c \in count .. m - 1
    BY <1>3, <1>4, <1>6
  <2> QED BY <1>4, <1>7, <2>1 DEF TakesIn
<1>11. \A c \in A : p < ct[c] /\ ct[c] <= n
  <2> SUFFICES ASSUME NEW c \in A PROVE p < ct[c] /\ ct[c] <= n
    OBVIOUS
  <2>1. c \in Clicks /\ ct[c] <= n /\ ct[c] \in Nat
    BY <1>2 DEF TakesIn
  <2>2. c \notin 0 .. count - 1
    BY <1>3, <1>4, <1>7
  <2>3. c \notin ArrivedBy(ct, p)
    BY <1>4, <2>2
  <2> QED BY <2>1, <2>3 DEF ArrivedBy
<1>12. seal2 \in BOOLEAN /\ (m = NumClicks => seal2)
  BY <1>9 DEF Covers, TakesIn
<1> QED BY <1>3, <1>9, <1>10, <1>11, <1>12 DEF Covers

-----------------------------------------------------------------------------
(* The steps.                                                               *)
LEMMA HaltsOn ==
  ASSUME EngineInv, pc' \in Halted, UNCHANGED <<fixture, memory, checkpoints, outputs>>
  PROVE  EngineInv'
<1>1. /\ UNCHANGED <<clickTime, availableAt, predictions, checkpoints, outputs>>
      /\ pc' \notin AtBoundary \cup {"persist", "deliver", "reveal", "decide", "advance"}
  BY DEF fixture, memory, Halted, AtBoundary
<1>2. Progress'
  BY <1>1 DEF EngineInv, Progress, Halted
<1>3. Stored'
  BY <1>1 DEF EngineInv, Stored
<1> QED BY <1>1, <1>2, <1>3 DEF EngineInv

LEMMA PredictOn ==
  ASSUME EngineInv, Predict
  PROVE  EngineInv'
<1>1. CASE PredictRefused
  BY <1>1, HaltsOn DEF Predict, Fail, Halted
<1>2. CASE ~PredictRefused
  <2> DEFINE A == Arriving
  <2>1. /\ pc = "boundary" /\ pc' = "persist" /\ next <= FinalBoundary
        /\ predictions' = [c \in Predicted \cup A |-> IF c \in A THEN model ELSE predictions[c]]
        /\ cursor' = cursor + Cardinality(A)
        /\ sealed' = (sealed \/ cursor' = NumClicks)
        /\ UNCHANGED <<clickTime, availableAt, previous, next, clicked, delivered, pool, model,
                       credits, live, checkpoints, outputs>>
    BY <1>2 DEF Predict, fixture
  <2>2. /\ FixtureTrue(clickTime, availableAt) /\ Clock(previous, next, LastOf(availableAt))
        /\ Covers(clickTime, predictions, cursor, sealed, previous)
        /\ Scheduled(clickTime, availableAt, predictions)
        /\ clicked = ArrivedBy(clickTime, previous)
        /\ Revealed(availableAt, delivered, pool, previous)
        /\ Trained(clickTime, availableAt, model, credits, previous)
        /\ clicked \subseteq live.clicks /\ (clicked = Clicks => live.sealed)
    BY <2>1 DEF EngineInv, Progress, Halted, AtBoundary
  <2>3. next \in Nat /\ previous \in Int /\ previous <= next /\ previous = next - Hour /\ OnTheHour(next)
    BY <2>2, EngineConstants DEF Clock
  <2>4. A = {c \in Clicks : cursor <= c /\ clickTime[c] <= next}
    BY DEF Arriving
  <2> HIDE DEF A
  <2>5. DOMAIN predictions' = DOMAIN predictions \cup A
    BY <2>1 DEF Predicted
  <2>6. TakesIn(clickTime, predictions, cursor, sealed, next, A, predictions', sealed')
    BY <2>1, <2>4, <2>5 DEF TakesIn
  <2>7. /\ Covers(clickTime, predictions', cursor + Cardinality(A), sealed', next)
        /\ \A c \in A : previous < clickTime[c] /\ clickTime[c] <= next
    BY <2>2, <2>3, <2>6, Arrivals
  <2>8. \A c \in A : HourOf(clickTime, c) = next
    <3>1. \A c \in A : clickTime[c] \in Nat
      BY <2>2, <2>4 DEF FixtureTrue
    <3> QED BY <2>3, <2>7, <3>1, PredictedAt
  <2>9. model = TrainedBy(clickTime, availableAt, next)
    BY <2>2, <2>3, TrainsNothing DEF Trained
  <2>10. Scheduled(clickTime, availableAt, predictions')
    BY <2>1, <2>2, <2>8, <2>9 DEF Scheduled, Predicted
  <2>11. next <= LastOf(availableAt)
    BY <2>1, <2>2, FinalOnTheHour
  <2>12. Progress'
    BY <2>1, <2>2, <2>7, <2>10, <2>11 DEF Progress, Halted, AtBoundary
  <2>13. Stored'
    BY <2>1 DEF EngineInv, Stored
  <2> QED BY <2>1, <2>2, <2>12, <2>13 DEF EngineInv
<1> QED BY <1>1, <1>2

(* What a step in the middle of a boundary may rely on.                     *)
LEMMA Midway ==
  ASSUME EngineInv, pc \in {"persist", "deliver", "reveal", "decide", "advance"}
  PROVE  /\ FixtureTrue(clickTime, availableAt) /\ Clock(previous, next, LastOf(availableAt))
         /\ next <= LastOf(availableAt)
         /\ Covers(clickTime, predictions, cursor, sealed, next)
         /\ Scheduled(clickTime, availableAt, predictions)
         /\ clicked \subseteq live.clicks /\ (clicked = Clicks => live.sealed)
         /\ next \in Nat /\ previous \in Int /\ previous <= next /\ previous = next - Hour
         /\ OnTheHour(next)
<1>1. /\ FixtureTrue(clickTime, availableAt) /\ Clock(previous, next, LastOf(availableAt))
      /\ next <= LastOf(availableAt)
      /\ Covers(clickTime, predictions, cursor, sealed, next)
      /\ Scheduled(clickTime, availableAt, predictions)
      /\ clicked \subseteq live.clicks /\ (clicked = Clicks => live.sealed)
  BY DEF EngineInv, Progress, Halted, AtBoundary
<1> QED BY <1>1, EngineConstants DEF Clock

LEMMA PersistOn ==
  ASSUME EngineInv, Persist
  PROVE  EngineInv'
<1>1. /\ pc = "persist" /\ pc' = "deliver" /\ UNCHANGED <<fixture, memory, checkpoints, outputs>>
      /\ live' = IF Predicted # clicked \/ sealed
                 THEN [sealed |-> sealed, clicks |-> Predicted] ELSE live
  BY DEF Persist
<1>2. UNCHANGED <<clickTime, availableAt, previous, next, cursor, predictions, sealed, clicked,
                  delivered, pool, model, credits>>
  BY <1>1 DEF fixture, memory
<1>3. clicked \subseteq Predicted /\ (clicked = Clicks => sealed)
  <2>1. clicked = ArrivedBy(clickTime, previous)
    BY <1>1 DEF EngineInv, Progress, AtBoundary
  <2>2. \A c \in Clicks : clickTime[c] \in Nat
    BY <1>1, Midway DEF FixtureTrue
  <2>3. Predicted = ArrivedBy(clickTime, next)
    BY <1>1, Midway DEF Covers, Predicted
  <2>4. previous \in Int /\ next \in Int /\ previous <= next
    BY <1>1, Midway
  <2>5. clicked \subseteq Predicted
    BY <2>1, <2>2, <2>3, <2>4 DEF ArrivedBy
  <2>6. Predicted \subseteq Clicks
    BY <2>3 DEF ArrivedBy
  <2>7. Predicted = Clicks => sealed
    <3>1. /\ Predicted = 0 .. cursor - 1 /\ cursor \in 0 .. NumClicks
          /\ cursor = NumClicks => sealed
      BY <1>1, Midway DEF Covers, Predicted
    <3>2. NumClicks \in Nat \ {0} /\ NumClicks - 1 \in Clicks
      BY EngineConstants DEF Clicks
    <3>3. NumClicks - 1 \in 0 .. cursor - 1 => cursor = NumClicks
      BY <3>1, <3>2
    <3> QED BY <3>1, <3>2, <3>3
  <2> QED BY <2>5, <2>6, <2>7
<1>4. /\ Predicted \subseteq live'.clicks /\ (sealed => live'.sealed)
      /\ clicked \subseteq live'.clicks /\ (clicked = Clicks => live'.sealed)
  <2>1. CASE Predicted # clicked \/ sealed
    <3>1. live'.clicks = Predicted /\ live'.sealed = sealed
      BY <1>1, <2>1
    <3> QED BY <1>3, <3>1
  <2>2. CASE ~(Predicted # clicked \/ sealed)
    <3>1. live' = live /\ Predicted = clicked /\ ~sealed
      BY <1>1, <2>2
    <3> QED BY <1>1, <3>1, Midway
  <2> QED BY <2>1, <2>2
<1>5. Progress'
  BY <1>1, <1>2, <1>4 DEF EngineInv, Progress, Halted, AtBoundary, Predicted
<1>6. Stored'
  BY <1>1, <1>2 DEF EngineInv, Stored
<1> QED BY <1>2, <1>5, <1>6 DEF EngineInv

LEMMA DeliverOn ==
  ASSUME EngineInv, Deliver
  PROVE  EngineInv'
<1>1. /\ pc = "deliver" /\ pc' = "reveal" /\ clicked' = Predicted
      /\ UNCHANGED <<clickTime, availableAt, previous, next, cursor, predictions, sealed,
                     delivered, pool, model, credits, live, checkpoints, outputs>>
  BY DEF Deliver, fixture
<1>2. /\ Predicted = ArrivedBy(clickTime, next) /\ Predicted = 0 .. cursor - 1
      /\ cursor \in 0 .. NumClicks /\ (cursor = NumClicks => sealed)
  BY <1>1, Midway DEF Covers, Predicted
<1>3. Predicted \subseteq live.clicks /\ (sealed => live.sealed)
  BY <1>1 DEF EngineInv, Progress
<1>4. Predicted = Clicks => live.sealed
  <2>1. NumClicks \in Nat \ {0} /\ NumClicks - 1 \in Clicks
    BY EngineConstants DEF Clicks
  <2>2. NumClicks - 1 \in 0 .. cursor - 1 => cursor = NumClicks
    BY <1>2, <2>1
  <2> QED BY <1>2, <1>3, <2>1, <2>2
<1>5. Progress'
  BY <1>1, <1>2, <1>3, <1>4 DEF EngineInv, Progress, Halted, AtBoundary
<1>6. Stored'
  BY <1>1 DEF EngineInv, Stored
<1> QED BY <1>1, <1>5, <1>6 DEF EngineInv

(* Every truth that became available is of a click already delivered.       *)
LEMMA RevealOn ==
  ASSUME EngineInv, Reveal
  PROVE  EngineInv'
<1>1. CASE RevealRefused
  BY <1>1, HaltsOn DEF Reveal, Fail, Halted
<1>2. CASE ~RevealRefused
  <2>1. /\ pc = "reveal" /\ pc' = "decide"
        /\ delivered' = delivered \cup Due /\ pool' = pool \cup Due
        /\ UNCHANGED <<clickTime, availableAt, previous, next, cursor, predictions, sealed,
                       clicked, model, credits, live, checkpoints, outputs>>
    BY <1>2 DEF Reveal, fixture
  <2>2. clicked = ArrivedBy(clickTime, next) /\ Revealed(availableAt, delivered, pool, previous)
    BY <2>1 DEF EngineInv, Progress, AtBoundary
  <2>3. \A c \in Clicks : /\ clickTime[c] \in Nat /\ availableAt[c] \in Nat
                          /\ clickTime[c] <= availableAt[c]
    BY <2>1, Midway DEF FixtureTrue
  <2>4. previous \in Int /\ next \in Int /\ previous <= next
    BY <2>1, Midway
  <2>5. \A c \in Clicks : /\ availableAt[c] <= next => clickTime[c] <= next
                          /\ availableAt[c] <= previous => availableAt[c] <= next
    BY <2>3, <2>4
  <2>6. KnownBy(availableAt, previous) \cup Due = KnownBy(availableAt, next)
    BY <2>2, <2>5 DEF KnownBy, Due, ArrivedBy, Revealed
  <2>7. Revealed(availableAt, delivered', pool', next)
    BY <2>1, <2>2, <2>6 DEF Revealed
  <2>8. Progress'
    BY <2>1, <2>7 DEF EngineInv, Progress, Halted, AtBoundary
  <2>9. Stored'
    BY <2>1 DEF EngineInv, Stored
  <2> QED BY <2>1, <2>8, <2>9 DEF EngineInv
<1> QED BY <1>1, <1>2

LEMMA DecideOn ==
  ASSUME EngineInv, Decide
  PROVE  EngineInv'
<1>1. /\ pc = "decide"
      /\ UNCHANGED <<clickTime, availableAt, live, checkpoints, outputs>>
  BY DEF Decide, fixture
<1>2. /\ Trained(clickTime, availableAt, model, credits, previous)
      /\ Revealed(availableAt, delivered, pool, next)
  BY <1>1 DEF EngineInv, Progress, Halted
<1>3. /\ model = TrainedBy(clickTime, availableAt, next - Hour + 1)
      /\ pool = KnownBy(availableAt, next) /\ InOrderOf(credits, model)
      /\ next \in Nat /\ OnTheHour(next)
  BY <1>1, <1>2, Midway DEF Trained, Revealed
<1>4. Approved <=> DecisionAt(clickTime, next) /\ pool # {}
  BY DEF Approved, IsDecisionBoundary, DecisionAt, LastClick
<1>5. CASE Fail
  BY <1>5, HaltsOn DEF Decide, Fail, Halted
<1>6. ASSUME pc' = "advance",
             UNCHANGED <<previous, next, cursor, predictions, sealed, clicked, delivered, pool>>,
             Trained(clickTime, availableAt, model', credits', next)
      PROVE  EngineInv'
  <2>1. Progress'
    BY <1>1, <1>6 DEF EngineInv, Progress, Halted, AtBoundary
  <2>2. Stored'
    BY <1>1 DEF EngineInv, Stored
  <2> QED BY <1>1, <2>1, <2>2 DEF EngineInv
<1>7. CASE Approved /\ ~SpendRefused
  <2>1. /\ pc' = "advance" /\ credits' = Append(credits, next)
        /\ model' = [t \in DOMAIN model \cup {next} |-> IF t = next THEN pool ELSE model[t]]
        /\ UNCHANGED <<previous, next, cursor, predictions, sealed, clicked, delivered, pool>>
    BY <1>7 DEF Decide
  <2>2. DecisionAt(clickTime, next) /\ KnownBy(availableAt, next) # {}
    BY <1>3, <1>4, <1>7
  <2>3. /\ TrainedBy(clickTime, availableAt, next + 1) = With(model, next, pool)
        /\ \A d \in DOMAIN model : d \in Nat /\ d < next
    BY <1>3, <2>2, TrainsOn
  <2>4. DOMAIN model' = DOMAIN model \cup {next}
    BY <2>1
  <2>5. InOrderOf(credits', model')
    BY <1>3, <2>1, <2>3, <2>4, SpendsInOrder
  <2> QED BY <1>6, <2>1, <2>3, <2>5 DEF Trained, With
<1>8. CASE ~Approved
  <2>1. /\ pc' = "advance"
        /\ UNCHANGED <<previous, next, cursor, predictions, sealed, clicked, delivered, pool,
                       model, credits>>
    BY <1>8 DEF Decide, memory
  <2>2. model = TrainedBy(clickTime, availableAt, next + 1)
    BY <1>3, <1>4, <1>8, TrainsNothing
  <2> QED BY <1>3, <1>6, <2>1, <2>2 DEF Trained
<1> QED BY <1>5, <1>7, <1>8 DEF Decide

LEMMA AdvanceOn ==
  ASSUME EngineInv, Advance
  PROVE  EngineInv'
<1> DEFINE saved == [State EXCEPT !.previous = next, !.next = next + Hour]
<1>1. /\ pc = "advance" /\ pc' = "boundary" /\ previous' = next /\ next' = next + Hour
      /\ UNCHANGED <<clickTime, availableAt, cursor, predictions, sealed, clicked, delivered,
                     pool, model, credits, live, outputs>>
      /\ checkpoints' \subseteq checkpoints \cup {saved}
  BY DEF Advance, fixture
<1>2. /\ saved.previous = next /\ saved.next = next + Hour /\ saved.cursor = cursor
      /\ saved.predictions = predictions /\ saved.sealed = sealed /\ saved.clicked = clicked
      /\ saved.delivered = delivered /\ saved.pool = pool /\ saved.model = model
      /\ saved.credits = credits
  BY DEF State
<1> HIDE DEF saved
<1>3. /\ clicked = ArrivedBy(clickTime, next)
      /\ Revealed(availableAt, delivered, pool, next)
      /\ Trained(clickTime, availableAt, model, credits, next)
  BY <1>1 DEF EngineInv, Progress
<1>4. Clock(next, next + Hour, LastOf(availableAt))
  <2>1. next \in Nat /\ next <= LastOf(availableAt) /\ OnTheHour(next) /\ LastOf(availableAt) \in Nat
    BY <1>1, Midway, FinalOnTheHour
  <2>2. Hour \in Nat
    BY EngineConstants
  <2>3. OnTheHour(next + Hour)
    BY <2>1, NextHour
  <2> QED BY <2>1, <2>2, <2>3 DEF Clock
<1>5. Settled(clickTime, availableAt, LastOf(availableAt), saved)
  BY <1>1, <1>2, <1>3, <1>4, Midway DEF Settled
<1>6. Progress'
  BY <1>1, <1>3, <1>4, Midway DEF Progress, Halted, AtBoundary
<1>7. Stored'
  BY <1>1, <1>5 DEF EngineInv, Stored
<1> QED BY <1>1, <1>6, <1>7 DEF EngineInv

LEMMA FinishOn ==
  ASSUME EngineInv, Finish
  PROVE  EngineInv'
<1>1. /\ pc = "boundary" /\ next > FinalBoundary
      /\ UNCHANGED <<fixture, memory, live, checkpoints>>
  BY DEF Finish
<1>2. CASE pc' = "failed" /\ UNCHANGED outputs
  BY <1>1, <1>2, HaltsOn DEF Halted
<1>3. CASE pc' = "done"
  <2> DEFINE o == [predictions |-> predictions, pool |-> pool, credits |-> credits,
                   model |-> model, trace |-> trace]
  <2>1. outputs' = outputs \cup {o}
    BY <1>3 DEF Finish
  <2>2. o.model = model /\ o.credits = credits
    OBVIOUS
  <2> HIDE DEF o
  <2>3. UNCHANGED <<clickTime, availableAt, previous, next, cursor, predictions, sealed, clicked,
                    delivered, pool, model, credits>>
    BY <1>1 DEF fixture, memory
  <2>4. /\ Trained(clickTime, availableAt, model, credits, previous)
        /\ Clock(previous, next, LastOf(availableAt)) /\ FixtureTrue(clickTime, availableAt)
    BY <1>1 DEF EngineInv, Progress, Halted, AtBoundary
  <2>5. /\ next \in Nat /\ OnTheHour(next) /\ previous = next - Hour
        /\ next <= LastOf(availableAt) + Hour
    BY <2>4 DEF Clock
  <2>6. LastOf(availableAt) \in Nat /\ OnTheHour(LastOf(availableAt)) /\ LastOf(availableAt) < next
    BY <1>1, <2>4, <2>5, FinalOnTheHour
  <2>7. next = LastOf(availableAt) + Hour
    BY <2>5, <2>6, AfterLast
  <2>8. previous = LastOf(availableAt)
    BY <2>5, <2>6, <2>7, EngineConstants
  <2>9. Trained(clickTime, availableAt, o.model, o.credits, LastOf(availableAt))
    BY <2>2, <2>4, <2>8
  <2>10. Stored'
    BY <1>1, <2>1, <2>3, <2>9 DEF EngineInv, Stored
  <2>11. Progress'
    BY <1>1, <1>3, <2>3 DEF EngineInv, Progress, Halted, AtBoundary
  <2> QED BY <2>3, <2>4, <2>10, <2>11 DEF EngineInv
<1> QED BY <1>2, <1>3 DEF Finish

(* A checkpoint is the boundary itself; the file of the new directory holds *)
(* what its ledger holds.                                                   *)
LEMMA LoadOn ==
  ASSUME EngineInv, NEW s, Settled(clickTime, availableAt, LastOf(availableAt), s), Load(s),
         pc' = "boundary", UNCHANGED <<fixture, checkpoints, outputs>>,
         live'.clicks = DOMAIN s.predictions, live'.sealed = s.sealed
  PROVE  EngineInv'
<1>1. /\ previous' = s.previous /\ next' = s.next /\ cursor' = s.cursor
      /\ predictions' = s.predictions /\ sealed' = s.sealed /\ clicked' = s.clicked
      /\ delivered' = s.delivered /\ pool' = s.pool /\ model' = s.model /\ credits' = s.credits
      /\ UNCHANGED <<clickTime, availableAt>>
  BY DEF Load, fixture
<1>2. /\ Clock(s.previous, s.next, LastOf(availableAt))
      /\ Covers(clickTime, s.predictions, s.cursor, s.sealed, s.previous)
      /\ Scheduled(clickTime, availableAt, s.predictions)
      /\ s.clicked = ArrivedBy(clickTime, s.previous)
      /\ Revealed(availableAt, s.delivered, s.pool, s.previous)
      /\ Trained(clickTime, availableAt, s.model, s.credits, s.previous)
  BY DEF Settled
<1>3. s.clicked = DOMAIN s.predictions /\ (s.clicked = Clicks => s.sealed)
  <2>1. /\ s.clicked = DOMAIN s.predictions /\ s.clicked = 0 .. s.cursor - 1
        /\ s.cursor \in 0 .. NumClicks /\ (s.cursor = NumClicks => s.sealed)
    BY <1>2 DEF Covers
  <2>2. NumClicks \in Nat \ {0} /\ NumClicks - 1 \in Clicks
    BY EngineConstants DEF Clicks
  <2>3. NumClicks - 1 \in 0 .. s.cursor - 1 => s.cursor = NumClicks
    BY <2>1, <2>2
  <2> QED BY <2>1, <2>2, <2>3
<1>4. Progress'
  BY <1>1, <1>2, <1>3 DEF Progress, Halted, AtBoundary
<1>5. Stored'
  BY <1>1 DEF EngineInv, Stored
<1> QED BY <1>1, <1>4, <1>5 DEF EngineInv

(* A new engine has seen no boundary.                                       *)
LEMMA NewSettled ==
  ASSUME FixtureTrue(clickTime, availableAt)
  PROVE  Settled(clickTime, availableAt, LastOf(availableAt), NewEngine)
<1> DEFINE s == NewEngine
<1>1. /\ s.previous = -Hour /\ s.next = 0 /\ s.cursor = 0 /\ s.predictions = NoFunction
      /\ s.sealed = FALSE /\ s.clicked = {} /\ s.delivered = {} /\ s.pool = {}
      /\ s.model = NoFunction /\ s.credits = <<>>
  BY DEF NewEngine
<1> HIDE DEF s
<1>2. Hour \in Nat \ {0} /\ NumClicks \in Nat \ {0} /\ LastOf(availableAt) \in Nat
  BY EngineConstants, FinalOnTheHour
<1>3. Clock(-Hour, 0, LastOf(availableAt))
  <2>1. OnTheHour(0)
    BY <1>2 DEF OnTheHour
  <2> QED BY <1>2, <2>1 DEF Clock
<1>4. ArrivedBy(clickTime, -Hour) = {} /\ KnownBy(availableAt, -Hour) = {}
  <2>1. \A c \in Clicks : clickTime[c] \in Nat /\ availableAt[c] \in Nat
    BY DEF FixtureTrue
  <2> QED BY <1>2, <2>1 DEF ArrivedBy, KnownBy
<1>5. DOMAIN NoFunction = {} /\ 0 .. 0 - 1 = {}
  BY DEF NoFunction
<1>6. Covers(clickTime, NoFunction, 0, FALSE, -Hour)
  BY <1>2, <1>4, <1>5 DEF Covers
<1>7. Trained(clickTime, availableAt, NoFunction, <<>>, -Hour)
  <2>1. DecisionsBefore(clickTime, availableAt, -Hour + 1) = {}
    <3>1. 1 .. (-Hour + 1) - 1 = {}
      BY <1>2
    <3> QED BY <3>1 DEF DecisionsBefore
  <2>2. TrainedBy(clickTime, availableAt, -Hour + 1) = NoFunction
    BY <2>1, TrainedIs DEF NoFunction
  <2>3. InOrderOf(<<>>, NoFunction)
    BY <1>5 DEF InOrderOf
  <2> QED BY <2>2, <2>3 DEF Trained
<1>8. Scheduled(clickTime, availableAt, NoFunction)
  BY <1>5 DEF Scheduled
<1>9. Settled(clickTime, availableAt, LastOf(availableAt), s)
  BY <1>1, <1>3, <1>4, <1>5, <1>6, <1>7, <1>8 DEF Settled, Revealed
<1> QED BY <1>9 DEF s

LEMMA EngineInitially == Init => EngineInv
<1> SUFFICES ASSUME Init PROVE EngineInv
  OBVIOUS
<1>1. FixtureTrue(clickTime, availableAt)
  <2>1. /\ clickTime \in [Clicks -> Nat]
        /\ \A b, c \in Clicks : b <= c => clickTime[b] <= clickTime[c]
    BY EngineConstants DEF Init
  <2>2. PICK delay \in [Clicks -> TruthDelays] :
          availableAt = [c \in Clicks |-> clickTime[c] + delay[c]]
    BY DEF Init
  <2>3. \A c \in Clicks : delay[c] \in Nat
    BY <2>2, EngineConstants
  <2>4. \A c \in Clicks : clickTime[c] + delay[c] \in Nat /\ clickTime[c] <= clickTime[c] + delay[c]
    BY <2>1, <2>3
  <2>5. availableAt \in [Clicks -> Nat] /\ \A c \in Clicks : clickTime[c] <= availableAt[c]
    BY <2>2, <2>4
  <2> QED BY <2>1, <2>5 DEF FixtureTrue
<1> DEFINE s == NewEngine
<1>2. Settled(clickTime, availableAt, LastOf(availableAt), s)
  BY <1>1, NewSettled
<1>3. /\ s.previous = previous /\ s.next = next /\ s.cursor = cursor
      /\ s.predictions = predictions /\ s.sealed = sealed /\ s.clicked = clicked
      /\ s.delivered = delivered /\ s.pool = pool /\ s.model = model /\ s.credits = credits
      /\ clicked = {} /\ live = [sealed |-> FALSE, clicks |-> {}] /\ pc = "boundary"
  BY DEF NewEngine, Init
<1> HIDE DEF s
<1>4. clicked # Clicks
  BY <1>3, EngineConstants DEF Clicks
<1>5. Progress
  BY <1>2, <1>3, <1>4 DEF Settled, Progress, Halted, AtBoundary
<1>6. Stored
  BY DEF Init, Stored
<1> QED BY <1>1, <1>5, <1>6 DEF EngineInv

LEMMA EngineStep == EngineInv /\ [Next]_vars => EngineInv'
<1> SUFFICES ASSUME EngineInv, [Next]_vars PROVE EngineInv'
  OBVIOUS
<1>1. CASE Run
  BY <1>1, PredictOn, PersistOn, DeliverOn, RevealOn, DecideOn, AdvanceOn, FinishOn DEF Run
<1>2. CASE Stop
  BY <1>2, HaltsOn DEF Stop, Halted
<1>3. ASSUME NEW s \in checkpoints, Resume(s)
      PROVE  EngineInv'
  <2>1. /\ Settled(clickTime, availableAt, LastOf(availableAt), s) /\ Load(s)
        /\ live' = [sealed |-> s.sealed, clicks |-> DOMAIN s.predictions]
        /\ pc' = "boundary" /\ UNCHANGED <<fixture, checkpoints, outputs>>
    BY <1>3 DEF Resume, PersistLoaded, EngineInv, Stored
  <2>2. live'.clicks = DOMAIN s.predictions /\ live'.sealed = s.sealed
    BY <2>1
  <2> QED BY <2>1, <2>2, LoadOn
<1>4. CASE Rerun
  <2> DEFINE s == NewEngine
  <2>1. /\ Settled(clickTime, availableAt, LastOf(availableAt), s)
        /\ s.sealed = FALSE /\ DOMAIN s.predictions = {}
    BY NewSettled DEF EngineInv, NewEngine, NoFunction
  <2>2. /\ Load(s) /\ pc' = "boundary" /\ UNCHANGED <<fixture, checkpoints, outputs>>
        /\ live'.clicks = {} /\ live'.sealed = FALSE
    BY <1>4 DEF Rerun
  <2> HIDE DEF s
  <2>3. live'.clicks = DOMAIN s.predictions /\ live'.sealed = s.sealed
    BY <2>1, <2>2
  <2> QED BY <2>1, <2>2, <2>3, LoadOn
<1>5. CASE UNCHANGED vars
  <2>1. UNCHANGED <<clickTime, availableAt, pc, previous, next, cursor, predictions, sealed,
                    clicked, delivered, pool, model, credits, live, checkpoints, outputs>>
    BY <1>5 DEF vars, fixture, memory
  <2> QED BY <2>1 DEF EngineInv, Progress, Stored, Predicted
<1> QED BY <1>1, <1>2, <1>3, <1>4, <1>5 DEF Next

LEMMA EngineOn == Spec => []EngineInv
BY EngineInitially, EngineStep, PTL DEF Spec

(* Every prediction is made by the model that was trained at each decision  *)
(* before the click's boundary on all the truth available by then, and a    *)
(* complete run has spent exactly those credits: for every fixture and      *)
(* clock, and any number of stopped and resumed runs.  What a checkpoint    *)
(* restores is the boundary it was written at (engine.load_state_dict).     *)
THEOREM ScheduleCorrect == Spec => []LearnsOnSchedule
<1>1. EngineInv => LearnsOnSchedule
  <2> SUFFICES ASSUME EngineInv PROVE LearnsOnSchedule
    OBVIOUS
  <2>1. \A t : TrainedBefore(t) = TrainedBy(clickTime, availableAt, t)
    BY DEF TrainedBefore, TrainedBy, Available, KnownBy, IsDecisionBoundary, DecisionAt, LastClick
  <2>2. \A c : BoundaryOf(c) = HourOf(clickTime, c)
    BY DEF BoundaryOf, HourOf
  <2>3. \A c \in Predicted : predictions[c] = TrainedBefore(BoundaryOf(c))
    BY <2>1, <2>2 DEF EngineInv, Progress, Scheduled, Predicted
  <2>4. FinalBoundary = LastOf(availableAt)
    BY FinalOnTheHour DEF EngineInv
  <2>5. ASSUME NEW o \in outputs
        PROVE  /\ o.model = TrainedBefore(FinalBoundary + 1)
               /\ {o.credits[i] : i \in 1 .. Len(o.credits)} = DOMAIN o.model
               /\ \A i, j \in 1 .. Len(o.credits) : i < j => o.credits[i] < o.credits[j]
    BY <2>1, <2>4 DEF EngineInv, Stored, Trained, InOrderOf
  <2> QED BY <2>3, <2>5 DEF LearnsOnSchedule
<1> QED BY <1>1, EngineOn, PTL

(* No click reaches the method before its prediction is in the file of the  *)
(* run's own directory, nor the last one before that file is sealed         *)
(* (engine._process_boundary, persist_predictions).                         *)
THEOREM PersistenceCorrect == Spec => []PersistedBeforeDelivered
<1>1. EngineInv => PersistedBeforeDelivered
  <2> SUFFICES ASSUME EngineInv, pc \notin Halted
               PROVE  /\ delivered \subseteq clicked /\ clicked \subseteq live.clicks
                      /\ clicked = Clicks => live.sealed
    BY DEF PersistedBeforeDelivered, Halted
  <2>1. clicked \subseteq live.clicks /\ (clicked = Clicks => live.sealed)
    BY DEF EngineInv, Progress
  <2>2. previous \in Int /\ next \in Int /\ previous <= next
    BY EngineConstants DEF EngineInv, Progress, Clock
  <2>3. \A c \in Clicks : /\ clickTime[c] \in Nat /\ availableAt[c] \in Nat
                          /\ clickTime[c] <= availableAt[c]
    BY DEF EngineInv, FixtureTrue
  <2>4. \A t \in Int : KnownBy(availableAt, t) \subseteq ArrivedBy(clickTime, t)
    BY <2>3 DEF KnownBy, ArrivedBy
  <2>5. ArrivedBy(clickTime, previous) \subseteq ArrivedBy(clickTime, next)
    BY <2>2, <2>3 DEF ArrivedBy
  <2>6. \/ clicked = ArrivedBy(clickTime, previous) /\ delivered = KnownBy(availableAt, previous)
        \/ clicked = ArrivedBy(clickTime, next) /\ delivered = KnownBy(availableAt, previous)
        \/ clicked = ArrivedBy(clickTime, next) /\ delivered = KnownBy(availableAt, next)
    <3>1. pc \in AtBoundary \cup {"persist", "deliver", "reveal", "decide", "advance"}
      BY DEF EngineInv, Progress, AtBoundary
    <3> QED BY <3>1 DEF EngineInv, Progress, Revealed
  <2>7. delivered \subseteq clicked
    BY <2>2, <2>4, <2>5, <2>6
  <2> QED BY <2>1, <2>7
<1> QED BY <1>1, EngineOn, PTL
-----------------------------------------------------------------------------
(***************************************************************************)
(* The engine refuses nothing: no click is behind the clock, nothing is    *)
(* predicted, revealed or credited twice, no prediction comes after the    *)
(* seal, the last boundary leaves nothing undelivered, and the audit       *)
(* accepts the trace.                                                      *)
(***************************************************************************)
Entry == [kind : EventKinds, click : Clicks \cup {NumClicks}]
Mentions(tr, kind, c) == \E i \in 1 .. Len(tr) : tr[i] = [kind |-> kind, click |-> c]
Before(tr, i, kind) == \E j \in 1 .. i - 1 : tr[j] = [kind |-> kind, click |-> tr[i].click]
EntryAudited(tr, i) ==
  /\ tr[i].kind = "prediction" => ~Before(tr, i, "prediction")
  /\ tr[i].kind \in {"click_delivered", "truth"} => Before(tr, i, "prediction")
  /\ tr[i].kind = "truth" => Before(tr, i, "click_delivered")
Audited(tr) == \A i \in 1 .. Len(tr) : EntryAudited(tr, i)

(* The clicks of S, each once, in entries of one kind.                      *)
Lists(ev, kind, S) ==
  /\ ev \in Seq(Entry)
  /\ \A i \in 1 .. Len(ev) : ev[i].kind = kind /\ ev[i].click \in S
  /\ \A i, j \in 1 .. Len(ev) : ev[i].click = ev[j].click => i = j
  /\ \A c \in S : Mentions(ev, kind, c)

(* The trace tells what was predicted and what was delivered.               *)
Tells(tr, ps, cl) ==
  /\ tr \in Seq(Entry) /\ Audited(tr)
  /\ \A i \in 1 .. Len(tr) : tr[i].kind = "prediction" => tr[i].click \in ps
  /\ \A c \in ps : Mentions(tr, "prediction", c)
  /\ \A c \in cl : Mentions(tr, "click_delivered", c)

-----------------------------------------------------------------------------
(* The position of an element in a strict order of a finite set: every      *)
(* position below the size of the set is taken, by one element.             *)
StrictOrder(R, S) ==
  /\ \A x \in S : <<x, x>> \notin R
  /\ \A x, y \in S : x = y \/ <<x, y>> \in R \/ <<y, x>> \in R
  /\ \A x, y, z \in S : <<x, y>> \in R /\ <<y, z>> \in R => <<x, z>> \in R
Below(R, S, c) == {b \in S : <<b, c>> \in R}

LEMMA BelowGrows ==
  ASSUME NEW S, IsFiniteSet(S), NEW R, StrictOrder(R, S), NEW x \in S, NEW y \in S, <<x, y>> \in R
  PROVE  Cardinality(Below(R, S, x)) # Cardinality(Below(R, S, y))
<1>1. Below(R, S, x) \subseteq Below(R, S, y) /\ x \in Below(R, S, y) /\ x \notin Below(R, S, x)
  BY DEF StrictOrder, Below
<1>2. IsFiniteSet(Below(R, S, y))
  BY FS_Subset DEF Below
<1> QED BY <1>1, <1>2, FS_Subset

LEMMA Positions ==
  ASSUME NEW S, IsFiniteSet(S), NEW R, StrictOrder(R, S)
  PROVE  /\ Cardinality(S) \in Nat
         /\ \A i \in 0 .. Cardinality(S) - 1 : \E c \in S : Cardinality(Below(R, S, c)) = i
         /\ \A c \in S : Cardinality(Below(R, S, c)) \in 0 .. Cardinality(S) - 1
         /\ \A b, c \in S : Cardinality(Below(R, S, b)) = Cardinality(Below(R, S, c)) => b = c
<1> DEFINE n == Cardinality(S)
           f == [c \in S |-> Cardinality(Below(R, S, c))]
           T == 0 .. n - 1
<1>1. n \in Nat
  BY FS_CardinalityType
<1>2. ASSUME NEW c \in S
      PROVE  Cardinality(Below(R, S, c)) \in T
  <2>1. Below(R, S, c) \subseteq S \ {c} /\ Below(R, S, c) \subseteq S
    BY DEF StrictOrder, Below
  <2>2. IsFiniteSet(S \ {c}) /\ Cardinality(S \ {c}) = n - 1
    BY FS_RemoveElement
  <2>3. Cardinality(Below(R, S, c)) <= n - 1
    BY <2>1, <2>2, FS_Subset
  <2>4. IsFiniteSet(Below(R, S, c))
    BY <2>1, FS_Subset
  <2>5. Cardinality(Below(R, S, c)) \in Nat
    BY <2>4, FS_CardinalityType
  <2> QED BY <1>1, <2>3, <2>5
<1>3. \A b, c \in S : Cardinality(Below(R, S, b)) = Cardinality(Below(R, S, c)) => b = c
  BY BelowGrows DEF StrictOrder
<1>4. f \in [S -> T] /\ \A b, c \in S : f[b] = f[c] => b = c
  BY <1>2, <1>3
<1>5. IsFiniteSet(T) /\ Cardinality(T) = n
  BY <1>1, FS_Interval
<1> HIDE DEF f, T, n
<1>6. f \in Injection(S, T)
  BY <1>4 DEF Injection, IsInjective
<1>7. f \in Surjection(S, T)
  BY <1>5, <1>6, FS_Injection DEF n
<1>8. \A i \in T : \E c \in S : f[c] = i
  BY <1>7 DEF Surjection
<1> QED BY <1>1, <1>2, <1>3, <1>8 DEF f, T, n

(* The event of each click of S, in order, once.                            *)
LEMMA EventsList ==
  ASSUME NEW S \in SUBSET Clicks, NEW R, StrictOrder(R, S), NEW kind \in EventKinds
  PROVE  Lists(Events(kind, S, R), kind, S)
<1> DEFINE n == Cardinality(S)
           At(i) == CHOOSE c \in S : Cardinality(Below(R, S, c)) = i - 1
           ev == Events(kind, S, R)
<1>1. IsFiniteSet(S)
  <2>1. NumClicks \in Nat \ {0} /\ Clicks = 0 .. NumClicks - 1
    BY EngineConstants DEF Clicks
  <2>2. IsFiniteSet(Clicks)
    BY <2>1, FS_Interval
  <2> QED BY <2>2, FS_Subset
<1>2. /\ n \in Nat
      /\ \A i \in 0 .. n - 1 : \E c \in S : Cardinality(Below(R, S, c)) = i
      /\ \A c \in S : Cardinality(Below(R, S, c)) \in 0 .. n - 1
      /\ \A b, c \in S : Cardinality(Below(R, S, b)) = Cardinality(Below(R, S, c)) => b = c
  BY <1>1, Positions
<1>3. ev = [i \in 1 .. n |-> [kind |-> kind, click |-> At(i)]]
  BY DEF Events, Below
<1> HIDE DEF ev, n
<1>4. ASSUME NEW i \in 1 .. n
      PROVE  At(i) \in S /\ Cardinality(Below(R, S, At(i))) = i - 1
  <2>1. i - 1 \in 0 .. n - 1
    BY <1>2
  <2>2. \E c \in S : Cardinality(Below(R, S, c)) = i - 1
    BY <1>2, <2>1
  <2> QED BY <2>2
<1>5. ASSUME NEW c \in S
      PROVE  \E i \in 1 .. n : At(i) = c
  <2>1. PICK i \in 1 .. n : i - 1 = Cardinality(Below(R, S, c))
    <3>1. PICK k \in 0 .. n - 1 : k = Cardinality(Below(R, S, c))
      BY <1>2
    <3>2. k + 1 \in 1 .. n /\ (k + 1) - 1 = k
      BY <1>2
    <3> QED BY <3>1, <3>2
  <2>2. Cardinality(Below(R, S, At(i))) = Cardinality(Below(R, S, c)) /\ At(i) \in S
    BY <1>4, <2>1
  <2> HIDE DEF At
  <2> QED BY <1>2, <2>2
<1> HIDE DEF At
<1>6. ev \in Seq(Entry) /\ Len(ev) = n
  <2>1. \A i \in 1 .. n : [kind |-> kind, click |-> At(i)] \in Entry
    BY <1>4 DEF Entry
  <2> QED BY <1>2, <1>3, <2>1
<1>7. \A i \in 1 .. n : ev[i] = [kind |-> kind, click |-> At(i)]
  BY <1>3
<1>8. \A i, j \in 1 .. n : At(i) = At(j) => i = j
  <2> SUFFICES ASSUME NEW i \in 1 .. n, NEW j \in 1 .. n, At(i) = At(j) PROVE i = j
    OBVIOUS
  <2>1. i - 1 = j - 1
    BY <1>4
  <2> QED BY <1>2, <2>1
<1> QED BY <1>4, <1>5, <1>6, <1>7, <1>8 DEF Lists, Mentions, ev

-----------------------------------------------------------------------------
(* What a trace tells after new events.                                     *)
LEMMA Appended ==
  ASSUME NEW tr \in Seq(Entry), NEW ev \in Seq(Entry)
  PROVE  /\ tr \o ev \in Seq(Entry) /\ Len(tr) \in Nat /\ Len(ev) \in Nat
         /\ Len(tr \o ev) = Len(tr) + Len(ev)
         /\ \A i \in 1 .. Len(tr) : (tr \o ev)[i] = tr[i]
         /\ \A i \in 1 .. Len(ev) : (tr \o ev)[Len(tr) + i] = ev[i]
         /\ \A i \in 1 .. Len(tr) + Len(ev) :
              i \in 1 .. Len(tr) \/ \E k \in 1 .. Len(ev) : i = Len(tr) + k
         /\ \A kind, c : Mentions(tr, kind, c) => Mentions(tr \o ev, kind, c)
         /\ \A kind, c : Mentions(ev, kind, c) => Mentions(tr \o ev, kind, c)
<1> DEFINE m == Len(tr)
           n == Len(ev)
           all == tr \o ev
<1>1. m \in Nat /\ n \in Nat /\ all \in Seq(Entry) /\ Len(all) = m + n
  BY ConcatProperties
<1>2. \A i \in 1 .. m + n : all[i] = IF i <= m THEN tr[i] ELSE ev[i - m]
  BY ConcatProperties
<1> HIDE DEF m, n, all
<1>3. \A i \in 1 .. m : i \in 1 .. m + n /\ all[i] = tr[i]
  BY <1>1, <1>2
<1>4. ASSUME NEW i \in 1 .. n
      PROVE  m + i \in 1 .. m + n /\ all[m + i] = ev[i]
  <2>1. m + i \in 1 .. m + n /\ ~(m + i <= m) /\ (m + i) - m = i
    BY <1>1
  <2> QED BY <1>2, <2>1
<1>5. ASSUME NEW i \in 1 .. m + n
      PROVE  i \in 1 .. m \/ \E k \in 1 .. n : i = m + k
  <2>1. CASE i <= m
    BY <1>1, <2>1
  <2>2. CASE ~(i <= m)
    <3>1. i - m \in 1 .. n /\ i = m + (i - m)
      BY <1>1, <2>2
    <3> QED BY <3>1
  <2> QED BY <2>1, <2>2
<1> QED BY <1>1, <1>3, <1>4, <1>5 DEF Mentions, m, n, all

(* The audit accepts new events that follow what they rest on.              *)
LEMMA AuditedAppended ==
  ASSUME NEW tr \in Seq(Entry), Audited(tr), NEW ev \in Seq(Entry),
         \A i, j \in 1 .. Len(ev) :
           ev[i].kind = "prediction" /\ ev[j].kind = "prediction" /\ ev[i].click = ev[j].click
             => i = j,
         \A i \in 1 .. Len(ev) :
           /\ ev[i].kind = "prediction" => ~Mentions(tr, "prediction", ev[i].click)
           /\ ev[i].kind \in {"click_delivered", "truth"} =>
                Mentions(tr, "prediction", ev[i].click)
           /\ ev[i].kind = "truth" => Mentions(tr, "click_delivered", ev[i].click)
  PROVE  Audited(tr \o ev)
<1> DEFINE m == Len(tr)
           n == Len(ev)
           all == tr \o ev
<1>1. /\ m \in Nat /\ n \in Nat /\ Len(all) = m + n
      /\ \A i \in 1 .. m : all[i] = tr[i]
      /\ \A i \in 1 .. n : all[m + i] = ev[i]
      /\ \A i \in 1 .. m + n : i \in 1 .. m \/ \E k \in 1 .. n : i = m + k
  BY Appended
<1> HIDE DEF all, n, m
<1>2. ASSUME NEW i \in 1 .. m
      PROVE  EntryAudited(all, i)
  <2>1. EntryAudited(tr, i)
    BY DEF Audited, m
  <2>2. \A j \in 1 .. i - 1 : j \in 1 .. m
    BY <1>1
  <2>3. \A kind : Before(all, i, kind) <=> Before(tr, i, kind)
    BY <1>1, <2>2 DEF Before
  <2> QED BY <1>1, <2>1, <2>3 DEF EntryAudited
<1>3. ASSUME NEW k \in 1 .. n
      PROVE  EntryAudited(all, m + k)
  <2>1. all[m + k] = ev[k]
    BY <1>1
  <2>2. \A kind : Mentions(tr, kind, ev[k].click) => Before(all, m + k, kind)
    <3>1. \A j \in 1 .. m : j \in 1 .. (m + k) - 1
      BY <1>1
    <3> QED BY <1>1, <2>1, <3>1 DEF Mentions, Before, m
  <2>3. ev[k].kind = "prediction" => ~Before(all, m + k, "prediction")
    <3> SUFFICES ASSUME ev[k].kind = "prediction", NEW j \in 1 .. (m + k) - 1,
                        all[j] = [kind |-> "prediction", click |-> ev[k].click]
                 PROVE  FALSE
      BY <2>1 DEF Before
    <3>1. j \in 1 .. m + n
      BY <1>1
    <3>2. CASE j \in 1 .. m
      <4>1. Mentions(tr, "prediction", ev[k].click)
        BY <1>1, <3>2 DEF Mentions, m
      <4> QED BY <4>1 DEF n
    <3>3. ASSUME NEW l \in 1 .. n, j = m + l
          PROVE  FALSE
      <4>1. ev[l].kind = "prediction" /\ ev[l].click = ev[k].click
        BY <1>1, <3>3
      <4>2. l = k
        BY <4>1 DEF n
      <4> QED BY <1>1, <3>3, <4>2
    <3> QED BY <1>1, <3>1, <3>2, <3>3
  <2> QED BY <2>1, <2>2, <2>3 DEF EntryAudited, n
<1>4. \A i \in 1 .. m + n : EntryAudited(all, i)
  BY <1>1, <1>2, <1>3
<1> QED BY <1>1, <1>4 DEF Audited, all

(* New predictions, of clicks not predicted before.                         *)
LEMMA TellsPredictions ==
  ASSUME NEW tr, NEW ps, NEW cl, Tells(tr, ps, cl), NEW S, NEW ev,
         Lists(ev, "prediction", S), S \cap ps = {}
  PROVE  Tells(tr \o ev, ps \cup S, cl)
<1>1. tr \in Seq(Entry) /\ ev \in Seq(Entry)
  BY DEF Tells, Lists
<1>2. \A i \in 1 .. Len(ev) : ~Mentions(tr, "prediction", ev[i].click)
  BY DEF Tells, Lists, Mentions
<1>3. Audited(tr \o ev)
  BY <1>1, <1>2, AuditedAppended DEF Tells, Lists
<1>4. \A i \in 1 .. Len(tr \o ev) :
        (tr \o ev)[i].kind = "prediction" => (tr \o ev)[i].click \in ps \cup S
  BY <1>1, Appended DEF Tells, Lists
<1>5. /\ \A c \in ps \cup S : Mentions(tr \o ev, "prediction", c)
      /\ \A c \in cl : Mentions(tr \o ev, "click_delivered", c)
  BY <1>1, Appended DEF Tells, Lists
<1> QED BY <1>1, <1>3, <1>4, <1>5, Appended DEF Tells

(* New events of another kind, of clicks that were predicted, and delivered *)
(* when truth comes.                                                        *)
LEMMA TellsOthers ==
  ASSUME NEW tr, NEW ps, NEW cl, Tells(tr, ps, cl), NEW S, NEW kind, NEW ev,
         Lists(ev, kind, S), kind # "prediction",
         kind \in {"click_delivered", "truth"} => S \subseteq ps,
         kind = "truth" => S \subseteq cl
  PROVE  /\ Tells(tr \o ev, ps, cl)
         /\ kind = "click_delivered" => Tells(tr \o ev, ps, cl \cup S)
<1>1. tr \in Seq(Entry) /\ ev \in Seq(Entry)
  BY DEF Tells, Lists
<1>2. \A i \in 1 .. Len(ev) :
        /\ ev[i].kind # "prediction"
        /\ ev[i].kind \in {"click_delivered", "truth"} =>
             Mentions(tr, "prediction", ev[i].click)
        /\ ev[i].kind = "truth" => Mentions(tr, "click_delivered", ev[i].click)
  BY DEF Tells, Lists
<1>3. Audited(tr \o ev)
  BY <1>1, <1>2, AuditedAppended DEF Tells
<1>4. \A i \in 1 .. Len(tr \o ev) :
        (tr \o ev)[i].kind = "prediction" => (tr \o ev)[i].click \in ps
  BY <1>1, <1>2, Appended DEF Tells
<1>5. /\ \A c \in ps : Mentions(tr \o ev, "prediction", c)
      /\ \A c \in cl : Mentions(tr \o ev, "click_delivered", c)
      /\ kind = "click_delivered" => \A c \in S : Mentions(tr \o ev, "click_delivered", c)
  BY <1>1, Appended DEF Tells, Lists
<1> QED BY <1>1, <1>3, <1>4, <1>5, Appended DEF Tells

(* An event that is of no click.                                            *)
LEMMA OneEvent ==
  ASSUME NEW kind \in EventKinds
  PROVE  Lists(Event(kind), kind, {NumClicks}) /\ Lists(<<>>, kind, {})
<1>1. Event(kind) = <<[kind |-> kind, click |-> NumClicks]>>
  BY DEF Event
<1>2. [kind |-> kind, click |-> NumClicks] \in Entry
  BY DEF Entry
<1>3. Event(kind) \in Seq(Entry) /\ Len(Event(kind)) = 1 /\ 1 \in 1 .. 1 /\ \A i \in 1 .. 1 : i = 1
  BY <1>1, <1>2
<1>4. Event(kind)[1] = [kind |-> kind, click |-> NumClicks]
  BY <1>1
<1>5. Lists(Event(kind), kind, {NumClicks})
  BY <1>3, <1>4 DEF Lists, Mentions
<1>6. <<>> \in Seq(Entry) /\ 1 .. Len(<<>>) = {}
  OBVIOUS
<1>7. Lists(<<>>, kind, {})
  BY <1>6 DEF Lists
<1> QED BY <1>5, <1>7

LEMMA Orders ==
  ASSUME availableAt \in [Clicks -> Nat], NEW S \in SUBSET Clicks
  PROVE  StrictOrder(InOrder, S) /\ StrictOrder(Sooner, S)
<1>1. \A c \in Clicks : c \in Int
  BY EngineConstants DEF Clicks
<1>2. \A b, c \in Clicks : <<b, c>> \in InOrder <=> b < c
  BY DEF InOrder
<1>3. \A b, c \in Clicks : <<b, c>> \in Sooner <=>
        \/ availableAt[b] < availableAt[c]
        \/ availableAt[b] = availableAt[c] /\ b < c
  BY DEF Sooner
<1>4. \A c \in S : c \in Clicks
  OBVIOUS
<1>5. StrictOrder(InOrder, S)
  BY <1>1, <1>2, <1>4 DEF StrictOrder
<1>6. StrictOrder(Sooner, S)
  <2>1. \A c \in Clicks : availableAt[c] \in Int
    OBVIOUS
  <2>2. \A x \in S : <<x, x>> \notin Sooner
    BY <1>1, <1>3, <1>4, <2>1
  <2>3. \A x, y \in S : x = y \/ <<x, y>> \in Sooner \/ <<y, x>> \in Sooner
    <3> SUFFICES ASSUME NEW x \in S, NEW y \in S, x # y
                 PROVE  <<x, y>> \in Sooner \/ <<y, x>> \in Sooner
      OBVIOUS
    <3>1. x \in Clicks /\ y \in Clicks /\ (x < y \/ y < x)
      BY <1>1, <1>4
    <3> QED BY <1>3, <2>1, <3>1
  <2>4. \A x, y, z \in S : <<x, y>> \in Sooner /\ <<y, z>> \in Sooner => <<x, z>> \in Sooner
    BY <1>1, <1>3, <1>4, <2>1
  <2> QED BY <2>2, <2>3, <2>4 DEF StrictOrder
<1> QED BY <1>5, <1>6

(* What an engine holds, in memory or in a checkpoint: the times of its     *)
(* credits, the seal of a complete ledger, and a trace that tells of both.  *)
Kept(sp, m, seal, count, ps, cl, tr) ==
  /\ sp = DOMAIN m
  /\ seal => count = NumClicks
  /\ Tells(tr, ps, cl)
KeptBy(s) == Kept(s.spent, s.model, s.sealed, s.cursor, DOMAIN s.predictions, s.clicked, s.trace)
KeptNow == Kept(spent, model, sealed, cursor, Predicted, clicked, trace)
KeptInv == pc # "failed" /\ KeptNow /\ \A s \in checkpoints : KeptBy(s)

LEMMA KeptUnchanged ==
  ASSUME KeptInv, pc' # "failed", UNCHANGED <<memory, checkpoints>>
  PROVE  KeptInv'
BY DEF KeptInv, KeptNow, KeptBy, memory, Predicted

(* No click is behind the clock, predicted already or later than the seal.  *)
LEMMA PredictKept ==
  ASSUME EngineInv, KeptInv, Predict
  PROVE  KeptInv'
<1> DEFINE A == Arriving
           listed == Events("prediction", A, InOrder)
           closing == IF sealed' # sealed THEN Event("sealed") ELSE <<>>
<1>1. pc = "boundary" /\ next <= FinalBoundary /\ UNCHANGED <<fixture, checkpoints>>
  BY DEF Predict
<1>2. /\ FixtureTrue(clickTime, availableAt) /\ Clock(previous, next, LastOf(availableAt))
      /\ Covers(clickTime, predictions, cursor, sealed, previous)
  BY <1>1 DEF EngineInv, Progress, Halted, AtBoundary
<1>3. next \in Nat /\ previous \in Int /\ previous <= next
  BY <1>2, EngineConstants DEF Clock
<1>4. A = {c \in Clicks : cursor <= c /\ clickTime[c] <= next}
  BY DEF Arriving
<1>5. KeptNow /\ \A s \in checkpoints : KeptBy(s)
  BY DEF KeptInv
<1>6. Tells(trace, Predicted, clicked) /\ spent = DOMAIN model /\ (sealed => cursor = NumClicks)
  BY <1>5 DEF KeptNow, Kept
<1>7. availableAt \in [Clicks -> Nat] /\ A \in SUBSET Clicks
  BY <1>2 DEF FixtureTrue, Arriving
<1> HIDE DEF A
<1>8. /\ Predicted = 0 .. cursor - 1 /\ cursor \in 0 .. NumClicks
      /\ NumClicks \in Nat /\ Clicks = 0 .. NumClicks - 1
  BY <1>2, EngineConstants DEF Covers, Predicted, Clicks
<1>9. \A c \in A : c \notin Predicted /\ ~sealed
  BY <1>4, <1>6, <1>8
<1>10. \A c \in A : previous < clickTime[c]
  <2> DEFINE seal2 == sealed \/ cursor + Cardinality(A) = NumClicks
             qs == [c \in DOMAIN predictions \cup A |-> 0]
  <2>1. TakesIn(clickTime, predictions, cursor, sealed, next, A, qs, seal2)
    BY <1>4 DEF TakesIn
  <2> HIDE DEF seal2, qs
  <2> QED BY <1>2, <1>3, <2>1, Arrivals
<1>11. ~PredictRefused
  <2>1. \A c \in A : clickTime[c] \in Nat
    BY <1>2, <1>7 DEF FixtureTrue
  <2>2. \A c \in A : ~(clickTime[c] <= previous)
    BY <1>3, <1>10, <2>1
  <2> QED BY <1>9, <2>2 DEF PredictRefused, A
<1>12. /\ pc' = "persist" /\ DOMAIN predictions' = Predicted \cup A
       /\ cursor' = cursor + Cardinality(A)
       /\ sealed' = (sealed \/ cursor' = NumClicks)
       /\ trace' = (trace \o listed) \o closing
       /\ UNCHANGED <<clicked, model, spent>>
  BY <1>11 DEF Predict, A
<1>13. Lists(listed, "prediction", A)
  BY <1>7, Orders, EventsList DEF EventKinds
<1>14. closing = Event("sealed") \/ closing = <<>>
  OBVIOUS
<1> HIDE DEF listed, closing
<1>15. Tells(trace \o listed, Predicted \cup A, clicked)
  BY <1>6, <1>9, <1>13, TellsPredictions
<1>16. Tells((trace \o listed) \o closing, Predicted \cup A, clicked)
  <2>1. PICK S : Lists(closing, "sealed", S)
    BY <1>14, OneEvent DEF EventKinds
  <2> QED BY <1>15, <2>1, TellsOthers
<1>17. sealed' => cursor' = NumClicks
  <2>1. CASE sealed
    <3>1. A = {}
      BY <1>9, <2>1
    <3>2. cursor' = cursor
      BY <1>8, <1>12, <3>1, FS_EmptySet
    <3> QED BY <1>6, <2>1, <3>2
  <2> QED BY <1>12, <2>1
<1>18. KeptNow'
  BY <1>6, <1>12, <1>16, <1>17 DEF KeptNow, Kept, Predicted
<1>19. (\A s \in checkpoints : KeptBy(s))'
  BY <1>1, <1>5 DEF KeptBy
<1> QED BY <1>12, <1>18, <1>19 DEF KeptInv

LEMMA DeliverKept ==
  ASSUME EngineInv, KeptInv, Deliver
  PROVE  KeptInv'
<1> DEFINE N == Predicted \ clicked
           listed == Events("click_delivered", N, InOrder)
<1>1. /\ pc = "deliver" /\ pc' = "reveal" /\ clicked' = Predicted /\ trace' = trace \o listed
      /\ UNCHANGED <<predictions, checkpoints, spent, model, sealed, cursor>>
  BY DEF Deliver
<1>2. FixtureTrue(clickTime, availableAt) /\ Predicted = ArrivedBy(clickTime, next)
  BY <1>1, Midway DEF Covers, Predicted
<1>3. availableAt \in [Clicks -> Nat] /\ N \in SUBSET Clicks
  BY <1>2 DEF FixtureTrue, ArrivedBy
<1>4. Lists(listed, "click_delivered", N)
  BY <1>3, Orders, EventsList DEF EventKinds
<1>5. KeptNow /\ \A s \in checkpoints : KeptBy(s)
  BY DEF KeptInv
<1>6. Tells(trace, Predicted, clicked) /\ spent = DOMAIN model /\ (sealed => cursor = NumClicks)
  BY <1>5 DEF KeptNow, Kept
<1> HIDE DEF listed
<1>7. Tells(trace \o listed, Predicted, clicked \cup N)
  BY <1>4, <1>6, TellsOthers
<1>8. Tells(trace \o listed, Predicted, Predicted)
  BY <1>7 DEF Tells
<1>9. KeptNow'
  BY <1>1, <1>6, <1>8 DEF KeptNow, Kept, Predicted
<1>10. (\A s \in checkpoints : KeptBy(s))'
  BY <1>1, <1>5 DEF KeptBy
<1> QED BY <1>1, <1>9, <1>10 DEF KeptInv

(* No truth is early or in the pool already, and each is of a click that    *)
(* was predicted and delivered.                                             *)
LEMMA RevealKept ==
  ASSUME EngineInv, KeptInv, Reveal
  PROVE  KeptInv'
<1> DEFINE listed == Events("truth", Due, Sooner)
<1>1. pc = "reveal" /\ UNCHANGED <<fixture, checkpoints>>
  BY DEF Reveal
<1>2. /\ FixtureTrue(clickTime, availableAt) /\ Predicted = ArrivedBy(clickTime, next)
      /\ next \in Nat
  BY <1>1, Midway DEF Covers, Predicted
<1>3. /\ clicked = ArrivedBy(clickTime, next)
      /\ Revealed(availableAt, delivered, pool, previous)
  BY <1>1 DEF EngineInv, Progress, AtBoundary
<1>4. availableAt \in [Clicks -> Nat] /\ Due \in SUBSET Clicks
  BY <1>2, <1>3 DEF FixtureTrue, ArrivedBy, Due
<1>5. pool = delivered
  BY <1>3 DEF Revealed
<1>6. \A c \in Due : c \notin pool /\ availableAt[c] <= next /\ availableAt[c] \in Nat
  BY <1>4, <1>5 DEF Due
<1>7. ~RevealRefused
  BY <1>2, <1>6 DEF RevealRefused
<1>8. /\ pc' = "decide" /\ trace' = trace \o listed
      /\ UNCHANGED <<predictions, clicked, spent, model, sealed, cursor>>
  BY <1>7 DEF Reveal
<1>9. Lists(listed, "truth", Due)
  BY <1>4, Orders, EventsList DEF EventKinds
<1>10. Due \subseteq clicked /\ clicked = Predicted
  BY <1>2, <1>3 DEF Due
<1>11. KeptNow /\ \A s \in checkpoints : KeptBy(s)
  BY DEF KeptInv
<1>12. Tells(trace, Predicted, clicked) /\ spent = DOMAIN model /\ (sealed => cursor = NumClicks)
  BY <1>11 DEF KeptNow, Kept
<1> HIDE DEF listed
<1>13. Tells(trace \o listed, Predicted, clicked)
  BY <1>9, <1>10, <1>12, TellsOthers
<1>14. KeptNow'
  BY <1>8, <1>12, <1>13 DEF KeptNow, Kept, Predicted
<1>15. (\A s \in checkpoints : KeptBy(s))'
  BY <1>1, <1>11 DEF KeptBy
<1> QED BY <1>8, <1>14, <1>15 DEF KeptInv

(* The credit of a boundary was not spent, on truth no later than it.       *)
LEMMA DecideKept ==
  ASSUME EngineInv, KeptInv, Decide
  PROVE  KeptInv'
<1>1. pc = "decide" /\ UNCHANGED <<fixture, checkpoints>>
  BY DEF Decide
<1>2. /\ Trained(clickTime, availableAt, model, credits, previous)
      /\ Revealed(availableAt, delivered, pool, next)
  BY <1>1 DEF EngineInv, Progress, Halted
<1>3. /\ model = TrainedBy(clickTime, availableAt, next - Hour + 1)
      /\ pool = KnownBy(availableAt, next)
      /\ next \in Nat /\ OnTheHour(next) /\ FixtureTrue(clickTime, availableAt)
  BY <1>1, <1>2, Midway DEF Trained, Revealed
<1>4. KeptNow /\ \A s \in checkpoints : KeptBy(s)
  BY DEF KeptInv
<1>5. Tells(trace, Predicted, clicked) /\ spent = DOMAIN model /\ (sealed => cursor = NumClicks)
  BY <1>4 DEF KeptNow, Kept
<1>6. (\A s \in checkpoints : KeptBy(s))'
  BY <1>1, <1>4 DEF KeptBy
<1>7. CASE Approved
  <2>1. DecisionAt(clickTime, next) /\ KnownBy(availableAt, next) # {}
    BY <1>3, <1>7 DEF Approved, IsDecisionBoundary, DecisionAt, LastClick
  <2>2. \A d \in DOMAIN model : d < next
    BY <1>3, <2>1, TrainsOn
  <2>3. next \notin spent
    BY <1>3, <1>5, <2>2
  <2>4. \A c \in pool : availableAt[c] \in Nat /\ availableAt[c] <= next
    BY <1>3 DEF KnownBy, FixtureTrue
  <2>5. ~SpendRefused
    BY <1>3, <2>3, <2>4 DEF SpendRefused
  <2>6. /\ pc' = "advance" /\ spent' = spent \cup {next} /\ DOMAIN model' = DOMAIN model \cup {next}
        /\ trace' = trace \o Event("credit_spent")
        /\ UNCHANGED <<predictions, clicked, sealed, cursor>>
    BY <1>7, <2>5 DEF Decide
  <2>7. Lists(Event("credit_spent"), "credit_spent", {NumClicks})
    BY OneEvent DEF EventKinds
  <2>8. Tells(trace \o Event("credit_spent"), Predicted, clicked)
    BY <1>5, <2>7, TellsOthers
  <2>9. KeptNow'
    BY <1>5, <2>6, <2>8 DEF KeptNow, Kept, Predicted
  <2> QED BY <1>6, <2>6, <2>9 DEF KeptInv
<1>8. CASE ~Approved
  BY <1>1, <1>8, KeptUnchanged DEF Decide
<1> QED BY <1>7, <1>8

LEMMA AdvanceKept ==
  ASSUME KeptInv, Advance
  PROVE  KeptInv'
<1> DEFINE saved == [State EXCEPT !.previous = next, !.next = next + Hour]
<1>1. /\ pc' = "boundary" /\ checkpoints' \subseteq checkpoints \cup {saved}
      /\ UNCHANGED <<predictions, clicked, sealed, cursor, spent, model, trace>>
  BY DEF Advance
<1>2. /\ saved.cursor = cursor /\ saved.predictions = predictions /\ saved.sealed = sealed
      /\ saved.clicked = clicked /\ saved.spent = spent /\ saved.model = model
      /\ saved.trace = trace
  BY DEF State
<1> HIDE DEF saved
<1>3. KeptNow' /\ KeptBy(saved)
  BY <1>1, <1>2 DEF KeptInv, KeptNow, KeptBy, Predicted
<1>4. \A s \in checkpoints' : KeptBy(s)
  BY <1>1, <1>3 DEF KeptInv
<1> QED BY <1>1, <1>3, <1>4 DEF KeptInv, KeptBy

(* After the last boundary every click is predicted and delivered with its  *)
(* truth.                                                                   *)
LEMMA FinishKept ==
  ASSUME EngineInv, KeptInv, Finish
  PROVE  KeptInv'
<1>1. pc = "boundary" /\ next > FinalBoundary /\ UNCHANGED <<fixture, memory, checkpoints>>
  BY DEF Finish
<1>2. /\ FixtureTrue(clickTime, availableAt) /\ Clock(previous, next, LastOf(availableAt))
      /\ Covers(clickTime, predictions, cursor, sealed, previous)
      /\ Revealed(availableAt, delivered, pool, previous)
  BY <1>1 DEF EngineInv, Progress, Halted, AtBoundary
<1>3. FinalBoundary = LastOf(availableAt) /\ FinalBoundary \in Nat /\ OnTheHour(FinalBoundary)
  BY <1>2, FinalOnTheHour
<1>4. /\ next \in Nat /\ OnTheHour(next) /\ previous = next - Hour
      /\ next <= LastOf(availableAt) + Hour
  BY <1>2 DEF Clock
<1>5. next = LastOf(availableAt) + Hour
  BY <1>1, <1>3, <1>4, AfterLast
<1>6. previous = FinalBoundary
  BY <1>3, <1>4, <1>5, EngineConstants
<1>7. \A c \in Clicks : availableAt[c] <= FinalBoundary
  <2> DEFINE drain == CHOOSE t \in {availableAt[c] : c \in Clicks} : IsDrain(t)
             k == (drain + Hour - 1) \div Hour
  <2>1. drain \in {availableAt[c] : c \in Clicks} /\ IsDrain(drain)
    BY <1>2, LastTruth
  <2>2. \A c \in Clicks : availableAt[c] \in Nat /\ availableAt[c] <= drain
    BY <1>2, <2>1 DEF FixtureTrue, IsDrain
  <2>3. drain \in Nat
    BY <2>1, <2>2
  <2>4. FinalBoundary = k * Hour
    BY DEF FinalBoundary
  <2> HIDE DEF drain
  <2>5. PICK a : a = drain + Hour - 1
    OBVIOUS
  <2>6. a \in Nat /\ Hour \in Nat \ {0}
    BY <2>3, <2>5, EngineConstants
  <2>7. a \div Hour \in Nat /\ a % Hour \in 0 .. Hour - 1 /\ a = Hour * (a \div Hour) + (a % Hour)
    BY <2>6
  <2>8. k = a \div Hour
    BY <2>5
  <2> HIDE DEF k
  <2>9. Hour * k = k * Hour /\ k * Hour \in Nat
    BY <2>6, <2>7, <2>8
  <2>10. drain <= FinalBoundary
    BY <2>3, <2>4, <2>5, <2>6, <2>7, <2>8, <2>9
  <2> QED BY <1>3, <2>2, <2>3, <2>10
<1>8. delivered = Clicks
  BY <1>2, <1>6, <1>7 DEF Revealed, KnownBy
<1>9. sealed
  <2>1. \A c \in Clicks : /\ clickTime[c] \in Nat /\ availableAt[c] \in Nat
                          /\ clickTime[c] <= availableAt[c]
    BY <1>2 DEF FixtureTrue
  <2>2. ArrivedBy(clickTime, previous) = Clicks
    BY <1>3, <1>6, <1>7, <2>1 DEF ArrivedBy
  <2>3. /\ Clicks = 0 .. cursor - 1 /\ cursor \in 0 .. NumClicks
        /\ cursor = NumClicks => sealed
    BY <1>2, <2>2 DEF Covers
  <2>4. NumClicks \in Nat \ {0} /\ NumClicks - 1 \in Clicks
    BY EngineConstants DEF Clicks
  <2>5. NumClicks - 1 \in 0 .. cursor - 1 => cursor = NumClicks
    BY <2>3, <2>4
  <2> QED BY <2>3, <2>4, <2>5
<1>10. AuditAccepts
  BY DEF KeptInv, KeptNow, Kept, Tells, Audited, EntryAudited, Before, AuditAccepts, SeenBefore
<1>11. pc' = "done"
  BY <1>8, <1>9, <1>10 DEF Finish
<1> QED BY <1>1, <1>11, KeptUnchanged

LEMMA LoadKept ==
  ASSUME KeptInv, NEW s, KeptBy(s), Load(s), pc' = "boundary", UNCHANGED checkpoints
  PROVE  KeptInv'
<1>1. /\ cursor' = s.cursor /\ predictions' = s.predictions /\ sealed' = s.sealed
      /\ clicked' = s.clicked /\ model' = s.model /\ spent' = s.spent /\ trace' = s.trace
  BY DEF Load
<1>2. KeptNow'
  BY <1>1 DEF KeptBy, KeptNow, Predicted
<1> QED BY <1>2 DEF KeptInv, KeptBy

LEMMA NewKept == KeptBy(NewEngine)
<1>1. /\ NewEngine.spent = {} /\ NewEngine.model = NoFunction /\ NewEngine.sealed = FALSE
      /\ NewEngine.predictions = NoFunction /\ NewEngine.clicked = {} /\ NewEngine.trace = <<>>
  BY DEF NewEngine
<1>2. DOMAIN NoFunction = {}
  BY DEF NoFunction
<1>3. <<>> \in Seq(Entry) /\ 1 .. Len(<<>>) = {}
  OBVIOUS
<1>4. Tells(<<>>, {}, {})
  BY <1>3 DEF Tells, Audited
<1> HIDE DEF NewEngine
<1> QED BY <1>1, <1>2, <1>4 DEF KeptBy, Kept

LEMMA KeptInitially == Init => KeptInv
<1> SUFFICES ASSUME Init PROVE KeptInv
  OBVIOUS
<1>1. /\ spent = NewEngine.spent /\ model = NewEngine.model /\ sealed = NewEngine.sealed
      /\ cursor = NewEngine.cursor /\ predictions = NewEngine.predictions
      /\ clicked = NewEngine.clicked /\ trace = NewEngine.trace
      /\ checkpoints = {} /\ pc = "boundary"
  BY DEF Init, NewEngine
<1>2. KeptNow
  BY <1>1, NewKept DEF KeptBy, KeptNow, Predicted
<1> QED BY <1>1, <1>2 DEF KeptInv

LEMMA KeptStep == EngineInv /\ KeptInv /\ [Next]_vars => KeptInv'
<1> SUFFICES ASSUME EngineInv, KeptInv, [Next]_vars PROVE KeptInv'
  OBVIOUS
<1>1. CASE Run
  <2>1. ASSUME Persist PROVE KeptInv'
    BY <2>1, KeptUnchanged DEF Persist
  <2> QED BY <1>1, <2>1, PredictKept, DeliverKept, RevealKept, DecideKept, AdvanceKept, FinishKept
          DEF Run
<1>2. CASE Stop
  BY <1>2, KeptUnchanged DEF Stop
<1>3. ASSUME NEW s \in checkpoints, Resume(s)
      PROVE  KeptInv'
  BY <1>3, LoadKept DEF Resume, KeptInv
<1>4. CASE Rerun
  <2>1. Load(NewEngine) /\ pc' = "boundary" /\ UNCHANGED checkpoints
    BY <1>4 DEF Rerun
  <2> QED BY <2>1, NewKept, LoadKept
<1>5. CASE UNCHANGED vars
  BY <1>5, KeptUnchanged DEF vars, KeptInv
<1> QED BY <1>1, <1>2, <1>3, <1>4, <1>5 DEF Next

(* No run, resumed from whatever checkpoint, meets a refusal of the engine, *)
(* its ledgers, its oracle, its method or its scheduler, and the audit      *)
(* accepts its trace at any time (engine._process_boundary,                 *)
(* trace.audit_event_trace): for every fixture and clock.                   *)
THEOREM NothingRefused == Spec => [](pc # "failed" /\ AuditAccepts)
<1>1. KeptInv => pc # "failed" /\ AuditAccepts
  BY DEF KeptInv, KeptNow, Kept, Tells, Audited, EntryAudited, Before, AuditAccepts, SeenBefore
<1>2. Init => EngineInv /\ KeptInv
  BY EngineInitially, KeptInitially
<1>3. (EngineInv /\ KeptInv) /\ [Next]_vars => (EngineInv /\ KeptInv)'
  BY EngineStep, KeptStep
<1> QED BY <1>1, <1>2, <1>3, PTL DEF Spec
=============================================================================
