------------------------- MODULE PackedReplay_proofs -------------------------
(***************************************************************************)
(* A packed run learns on schedule, keeps the promise of LabelStream and   *)
(* is refused nothing, for every fixture, hour, wait and window, and       *)
(* however often the process dies.  The invariant is that all the          *)
(* components hold is a function of the time of the last boundary: the     *)
(* cursors stand behind the clicks whose time, wait or window is over, the *)
(* stores hold the promised records legal by then, and the model has the   *)
(* credits of the decisions before.  A checkpoint is such a state, so a    *)
(* restart changes nothing but the time.                                   *)
(***************************************************************************)
EXTENDS PackedReplay, FiniteSetTheorems, TLAPS

(* The clicks of the training period whose time, plus a lag, is over at t.  *)
Reached(lag, t) == {c \in TrainingClicks : data.time[c] + lag <= t}
(* Those it is over for between s and t.                                    *)
Between(lag, s, t) == {c \in TrainingClicks : s < data.time[c] + lag /\ data.time[c] + lag <= t}

(* A cursor past the clicks of S, and no others.                            *)
IsCursor(k, S) == k \in Nat /\ 0 .. k - 1 = S

OutcomesAt(t) ==
  [c \in Clicks |-> IF Packed /\ c \in TrainingClicks /\ AvailableAt(c) <= t
                    THEN (IF Converts(c) THEN "positive" ELSE "negative")
                    ELSE "unresolved"]

SeedAt(t) ==
  {Record(c, "final", Label(c), data.time[c] + Window) :
     c \in {b \in Legal(Clicks) : ClickDay(b) = 0 /\ data.time[b] + Window <= t}}

IsState(s) ==
  s = [clickCursor |-> s.clickCursor, dueCursor |-> s.dueCursor,
       maturityCursor |-> s.maturityCursor, lastTime |-> s.lastTime, outcome |-> s.outcome,
       main |-> s.main, qtn |-> s.qtn, qdp |-> s.qdp, observed |-> s.observed,
       evidenceDay |-> s.evidenceDay, truthEvents |-> s.truthEvents, model |-> s.model]

(* The components at boundary time t.                                       *)
CursorsAt(s, t) ==
  /\ IsCursor(s.clickCursor, Reached(0, t))
  /\ IsCursor(s.dueCursor, IF Waits THEN Reached(Wait, t) ELSE {})
  /\ IsCursor(s.maturityCursor, IF Settles THEN Reached(Window, t) ELSE {})
StoresAt(s, t) ==
  /\ s.main = LegalAt(t, Kinds)
  /\ s.qtn = LegalAt(t, {"q_tn"}) /\ s.qdp = LegalAt(t, {"q_dp"})
ComponentsAt(s, t) ==
  /\ IsState(s) /\ s.lastTime = t
  /\ CursorsAt(s, t) /\ s.outcome = OutcomesAt(t) /\ StoresAt(s, t)

(* The time of the boundary before boundary i.                              *)
TimeBefore(i) == IF i = 0 THEN -1 ELSE (i - 1) * Hour

(* The model with the credits of the decisions before t.                    *)
ModelBefore(t) == <<SharedTraining>> \o SubSeq(Schedule, 1, NumBefore(t))

FirstIndex == FirstDecision * HoursPerDay
SealIndex == SealDay * HoursPerDay
DrainIndex == DrainDay * HoursPerDay

Waiting == pc \in {"predict", "process"}
Working == pc \in {"initialize", "decide", "seal primary", "seal exposures", "save"}

(* Where the run is in the replay.                                          *)
Placed ==
  /\ next \in Nat
  /\ pc = "process" => next <= DrainIndex
  /\ pc = "initialize" => next = FirstIndex
  /\ pc = "decide" => IsDecision(next)
  /\ pc \in {"seal primary", "seal exposures"} => next = SealIndex
  /\ pc = "save" => (IsDecision(next) \/ (next = SealIndex /\ "primary" \in sealed))
  /\ (pc = "seal exposures" \/ (Waiting /\ next > SealIndex)) => "primary" \in sealed

Settled ==
  /\ state.lastTime \in Int /\ ComponentsAt(state, state.lastTime)
  /\ Waiting => state.lastTime = TimeBefore(next)
  /\ Working => state.lastTime = Boundary

Untrained == (Waiting /\ next <= FirstIndex) \/ pc = "initialize"
Horizon == IF pc = "save" THEN Boundary + 1 ELSE Boundary
Trained ==
  Waiting \/ Working =>
    IF Untrained THEN state.model = <<>> /\ seed = SeedAt(state.lastTime)
    ELSE state.model = ModelBefore(Horizon) /\ NumBefore(Horizon) <= Len(exposures)

Saved ==
  checkpoint # NoCheckpoint =>
    /\ checkpoint.next \in Nat /\ checkpoint.next > FirstIndex
    /\ checkpoint.next <= SealIndex + 1
    /\ ComponentsAt(checkpoint.state, TimeBefore(checkpoint.next))
    /\ checkpoint.state.model = ModelBefore(checkpoint.next * Hour)
    /\ NumBefore(checkpoint.next * Hour) <= Len(exposures)
    /\ checkpoint.next > SealIndex => "primary" \in sealed

Recorded ==
  /\ Len(exposures) \in 0 .. Cardinality(DecisionTimes)
  /\ exposures = SubSeq(Schedule, 1, Len(exposures))
  /\ DOMAIN predictions \subseteq EvaluationClicks
  /\ \A c \in DOMAIN predictions : predictions[c] = ModelBefore(BoundaryOf(c))
  /\ "exposures" \in sealed => "primary" \in sealed
  /\ "primary" \in sealed => /\ DOMAIN predictions = EvaluationClicks
                             /\ Len(exposures) = Cardinality(data.credits)
  /\ pc = "done" => "primary" \in sealed

FixtureTrue == method \in Methods /\ data \in Fixtures

IInv == FixtureTrue /\ Placed /\ Settled /\ Trained /\ Saved /\ Recorded

-----------------------------------------------------------------------------
(* The constants and the data.                                              *)

LEMMA Lengths ==
  /\ Hour \in Nat \ {0} /\ HoursPerDay \in Nat \ {0} /\ NumClicks \in Nat \ {0}
  /\ Day \in Nat \ {0} /\ Day = HoursPerDay * Hour
  /\ Wait \in Nat /\ Window \in Nat /\ Wait < Window /\ Never = Window + 1
  /\ FirstDecisionTime = Window + Day
<1>1. /\ Hour \in Nat \ {0} /\ HoursPerDay \in Nat \ {0} /\ NumClicks \in Nat \ {0}
      /\ WaitDays \in Nat /\ Attribution \in Nat /\ WaitDays < Attribution
  BY ReplayConstants
<1>2. Day \in Nat \ {0} /\ Day = HoursPerDay * Hour
  <2>1. \A i, j \in Nat \ {0} : i * j \in Nat \ {0}
    OBVIOUS
  <2> QED
    BY <1>1, <2>1 DEF Day
<1>3. Wait \in Nat /\ Window \in Nat
  BY <1>1, <1>2 DEF Wait, Window
<1>4. Wait < Window
  <2>1. PICK k \in Nat \ {0} : Attribution = WaitDays + k
    <3>1. Attribution - WaitDays \in Nat \ {0} /\ Attribution = WaitDays + (Attribution - WaitDays)
      BY <1>1
    <3> QED
      BY <3>1
  <2>2. Window = Wait + k * Day
    BY <1>1, <1>2, <2>1 DEF Wait, Window
  <2>3. k * Day \in Nat \ {0}
    BY <1>2
  <2> QED
    BY <1>3, <2>2, <2>3
<1>5. FirstDecisionTime = Window + Day
  BY <1>1, <1>2 DEF FirstDecisionTime, FirstDecision, Window
<1> QED
  BY <1>1, <1>2, <1>3, <1>4, <1>5 DEF Never

LEMMA DaysInOrder ==
  /\ Attribution \in Nat /\ FirstDecision = Attribution + 1
  /\ EvaluationDay \in Nat /\ LastDay \in Nat
  /\ FirstDecision < EvaluationDay /\ EvaluationDay <= LastDay
  /\ SealDay = LastDay + 1 /\ DrainDay = SealDay + Attribution
  BY ReplayConstants DEF FirstDecision, SealDay, DrainDay

(* A multiple of m is before or after the next one.                         *)
LEMMA Multiples ==
  ASSUME NEW m \in Nat \ {0}, NEW i \in Int, NEW j \in Int
  PROVE  /\ i * m \in Int
         /\ i < j => i * m + m <= j * m
         /\ i <= j <=> i * m <= j * m
         /\ i < j <=> i * m < j * m
         /\ (i + 1) * m = i * m + m
<1>1. i * m \in Int /\ j * m \in Int /\ (i + 1) * m = i * m + m
  OBVIOUS
<1>2. \A p, q \in Int : p < q => p * m + m <= q * m
  <2>1. SUFFICES ASSUME NEW p \in Int, NEW q \in Int, p < q PROVE p * m + m <= q * m
    OBVIOUS
  <2> DEFINE d == q - (p + 1)
  <2>2. d \in Nat /\ q = (p + 1) + d
    BY <2>1
  <2> HIDE DEF d
  <2>3. q * m = (p * m + m) + d * m
    BY <2>2
  <2>4. d * m \in Nat /\ p * m \in Int
    BY <2>2
  <2> QED
    BY <2>3, <2>4
<1>3. i < j => i * m + m <= j * m
  BY <1>2
<1>4. j < i => j * m + m <= i * m
  BY <1>2
<1>5. i = j => i * m = j * m
  OBVIOUS
<1>6. i < j \/ i = j \/ j < i
  OBVIOUS
<1> QED
  BY <1>1, <1>3, <1>4, <1>5, <1>6

(* The quotient is the number of the multiple at or before.                 *)
LEMMA Quotients ==
  ASSUME NEW m \in Nat \ {0}, NEW a \in Int
  PROVE  /\ a \div m \in Int
         /\ (a \div m) * m <= a /\ a < (a \div m) * m + m
         /\ \A k \in Int : k * m <= a /\ a < k * m + m => a \div m = k
<1> DEFINE q == a \div m
           r == a % m
<1>1. q \in Int /\ r \in 0 .. m - 1 /\ a = m * q + r
  OBVIOUS
<1> HIDE DEF q, r
<1>2. m * q = q * m /\ q * m \in Int
  BY <1>1
<1>3. q * m <= a /\ a < q * m + m
  BY <1>1, <1>2
<1>4. ASSUME NEW k \in Int, k * m <= a, a < k * m + m
      PROVE  q = k
  <2>1. k * m \in Int
    BY <1>4
  <2>2. ~(q < k) /\ ~(k < q)
    BY <1>1, <1>2, <1>3, <1>4, <2>1, Multiples
  <2> QED
    BY <1>1, <2>2
<1> QED
  BY <1>1, <1>3, <1>4 DEF q

LEMMA ExactQuotient ==
  ASSUME NEW m \in Nat \ {0}, NEW d \in Int, NEW a \in Int, a = d * m
  PROVE  a \div m = d /\ a % m = 0
<1> DEFINE q == a \div m
           r == a % m
<1>1. q \in Int /\ r \in 0 .. m - 1 /\ a = m * q + r
  OBVIOUS
<1>2. q = d
  <2>1. d * m <= a /\ a < d * m + m
    OBVIOUS
  <2> QED
    BY <2>1, Quotients
<1> HIDE DEF q, r
<1>3. m * q = d * m
  BY <1>2
<1>4. r = 0
  BY <1>1, <1>3
<1> QED
  BY <1>2, <1>4 DEF q, r

LEMMA ClickTimes ==
  ASSUME FixtureTrue
  PROVE  /\ IsFixture(data) /\ data.credits \subseteq DecisionDays
         /\ \A b, c \in Clicks : b <= c => data.time[b] <= data.time[c]
         /\ \A c \in Clicks :
              /\ c \in Nat /\ data.time[c] \in Nat /\ data.delay[c] \in Nat
              /\ data.delay[c] <= Never
              /\ ClickDay(c) \in Int
              /\ ClickDay(c) * Day <= data.time[c] /\ data.time[c] < ClickDay(c) * Day + Day
<1>1. IsFixture(data)
  BY ReplayConstants DEF FixtureTrue
<1>2. \A c \in Clicks : c \in Nat /\ data.time[c] \in Nat /\ data.delay[c] \in 0 .. Never
  <2>1. data.time \in [Clicks -> Nat] /\ data.delay \in [Clicks -> 0 .. Never]
    BY <1>1 DEF IsFixture
  <2>2. \A c \in Clicks : c \in Nat
    BY Lengths DEF Clicks
  <2> QED
    BY <2>1, <2>2
<1>3. \A c \in Clicks : data.delay[c] \in Nat /\ data.delay[c] <= Never
  BY <1>2, Lengths
<1>4. \A c \in Clicks :
        /\ ClickDay(c) \in Int
        /\ ClickDay(c) * Day <= data.time[c] /\ data.time[c] < ClickDay(c) * Day + Day
  <2>1. SUFFICES ASSUME NEW c \in Clicks
                 PROVE  /\ ClickDay(c) \in Int
                        /\ ClickDay(c) * Day <= data.time[c]
                        /\ data.time[c] < ClickDay(c) * Day + Day
    OBVIOUS
  <2>2. data.time[c] \in Int /\ Day \in Nat \ {0}
    BY <1>2, Lengths
  <2> QED
    BY <2>2, Quotients DEF ClickDay
<1> QED
  BY <1>1, <1>2, <1>3, <1>4 DEF IsFixture

(* The training clicks are those before the seal.                           *)
LEMMA TrainingTimes ==
  ASSUME FixtureTrue, NEW c \in Clicks
  PROVE  /\ c \in TrainingClicks <=> data.time[c] < SealDay * Day
         /\ ClickDay(c) = 0 <=> data.time[c] < Day
<1>1. /\ ClickDay(c) \in Int /\ data.time[c] \in Nat
      /\ ClickDay(c) * Day <= data.time[c] /\ data.time[c] < ClickDay(c) * Day + Day
  BY ClickTimes
<1>2. ClickDay(c) < SealDay <=> ClickDay(c) <= LastDay
  BY <1>1, DaysInOrder
<1>3. /\ ClickDay(c) < SealDay => ClickDay(c) * Day + Day <= SealDay * Day
      /\ ~(ClickDay(c) < SealDay) => SealDay * Day <= ClickDay(c) * Day
      /\ SealDay * Day \in Int /\ ClickDay(c) * Day \in Int
  BY <1>1, Lengths, DaysInOrder, Multiples
<1>4. Day \in Nat \ {0} /\ 0 * Day = 0
  BY Lengths
<1>5. data.time[c] < Day => ClickDay(c) = 0
  BY <1>1, <1>4, Quotients DEF ClickDay
<1>6. ClickDay(c) = 0 => data.time[c] < Day
  BY <1>1, <1>4
<1> QED
  BY <1>1, <1>2, <1>3, <1>4, <1>5, <1>6 DEF TrainingClicks

LEMMA Availability ==
  ASSUME FixtureTrue, NEW c \in Clicks
  PROVE  /\ AvailableAt(c) \in Nat
         /\ data.time[c] <= AvailableAt(c) /\ AvailableAt(c) <= data.time[c] + Window
         /\ Converts(c) => AvailableAt(c) = data.time[c] + data.delay[c]
         /\ ~Converts(c) => AvailableAt(c) = data.time[c] + Window /\ data.delay[c] > Wait
         /\ Label(c) \in {0, 1}
<1>1. /\ data.time[c] \in Nat /\ data.delay[c] \in Nat /\ data.delay[c] <= Never
      /\ Window \in Nat /\ Wait \in Nat /\ Wait < Window /\ Never = Window + 1
  BY ClickTimes, Lengths
<1> QED
  BY <1>1 DEF AvailableAt, Converts, Label

-----------------------------------------------------------------------------
(* Cursors.                                                                 *)

(* A nonempty set of natural numbers has a least element.                   *)
LEMMA LeastNatural ==
  ASSUME NEW S \in SUBSET Nat, S # {}
  PROVE  \E x \in S : \A y \in S : x <= y
<1> DEFINE R == {ss \in Nat \X Nat : ss[1] < ss[2]}
<1>1. IsWellFoundedOn(R, Nat)
  BY NatLessThanWellFounded DEF OpToRel
<1>2. S \subseteq Nat /\ S # {}
  OBVIOUS
<1> HIDE DEF R
<1>3. PICK x \in S : \A y \in S : ~(<<y, x>> \in R)
  BY <1>1, <1>2, WFMin
<1>4. \A y \in S : ~(y < x)
  BY <1>3 DEF R
<1> QED
  BY <1>4

(* The size of an initial segment of the numbers is a cursor past it.       *)
LEMMA InitialSegment ==
  ASSUME NEW n \in Nat, NEW S \in SUBSET (0 .. n - 1),
         \A i, j \in 0 .. n - 1 : i \in S /\ j <= i => j \in S
  PROVE  IsCursor(Cardinality(S), S) /\ Cardinality(S) <= n
<1>1. PICK k \in 0 .. n : 0 .. k - 1 = S
  <2> DEFINE Out == {i \in 0 .. n : i \notin S}
  <2>1. Out \in SUBSET Nat /\ n \in Out
    OBVIOUS
  <2>2. Out # {}
    BY <2>1
  <2>3. PICK k \in Out : \A i \in Out : k <= i
    BY <2>1, <2>2, LeastNatural
  <2>4. k \in 0 .. n /\ k \notin S
    OBVIOUS
  <2>5. \A i \in 0 .. k - 1 : i \in S
    BY <2>3, <2>4
  <2>6. ASSUME NEW i \in S
        PROVE  i \in 0 .. k - 1
    <3>1. k <= i => k \in S
      BY <2>4
    <3> QED
      BY <2>4, <3>1
  <2>7. 0 .. k - 1 = S
    BY <2>5, <2>6
  <2> QED
    BY <2>4, <2>7
<1>2. Cardinality(S) = k
  BY <1>1, FS_Interval
<1> QED
  BY <1>1, <1>2 DEF IsCursor

(* Two cursors past the same clicks are equal.                              *)
LEMMA CursorOf ==
  ASSUME NEW j, NEW k, NEW S, IsCursor(j, S), IsCursor(k, S)
  PROVE  j = k
<1>1. j \in Nat /\ k \in Nat /\ 0 .. j - 1 = 0 .. k - 1
  BY DEF IsCursor
<1>2. ~(j < k)
  <2>1. j < k => j \in 0 .. k - 1 /\ j \notin 0 .. j - 1
    BY <1>1
  <2> QED
    BY <1>1, <2>1
<1>3. ~(k < j)
  <2>1. k < j => k \in 0 .. j - 1 /\ k \notin 0 .. k - 1
    BY <1>1
  <2> QED
    BY <1>1, <2>1
<1> QED
  BY <1>1, <1>2, <1>3

LEMMA CursorMembers ==
  ASSUME NEW k, NEW S, IsCursor(k, S)
  PROVE  k \in Nat /\ \A i \in Nat : i < k <=> i \in S
  BY DEF IsCursor

LEMMA ClickedFirst ==
  ASSUME FixtureTrue, NEW n \in Nat, n <= NumClicks, NEW t \in Int
  PROVE  IsCursor(ClickedBy(n, t), {c \in 0 .. n - 1 : data.time[c] <= t})
<1> DEFINE S == {c \in 0 .. n - 1 : data.time[c] <= t}
<1>1. S \in SUBSET (0 .. n - 1)
  OBVIOUS
<1>2. ASSUME NEW i \in 0 .. n - 1, NEW j \in 0 .. n - 1, i \in S, j <= i
      PROVE  j \in S
  <2>1. i \in Clicks /\ j \in Clicks
    BY Lengths DEF Clicks
  <2>2. data.time[j] <= data.time[i] /\ data.time[i] \in Int /\ data.time[j] \in Int
    BY <1>2, <2>1, ClickTimes
  <2>3. data.time[i] <= t
    BY <1>2
  <2> QED
    BY <2>2, <2>3
<1> HIDE DEF S
<1>3. IsCursor(Cardinality(S), S)
  BY <1>1, <1>2, InitialSegment
<1> QED
  BY <1>3 DEF S, ClickedBy

LEMMA TrainingFirst ==
  ASSUME FixtureTrue
  PROVE  IsCursor(TrainingLimit, TrainingClicks) /\ TrainingLimit <= NumClicks
<1>1. TrainingClicks \in SUBSET (0 .. NumClicks - 1) /\ NumClicks \in Nat
  BY Lengths DEF TrainingClicks, Clicks
<1>2. ASSUME NEW i \in 0 .. NumClicks - 1, NEW j \in 0 .. NumClicks - 1,
             i \in TrainingClicks, j <= i
      PROVE  j \in TrainingClicks
  <2>1. i \in Clicks /\ j \in Clicks
    BY DEF Clicks
  <2>2. data.time[j] <= data.time[i] /\ data.time[i] \in Int /\ data.time[j] \in Int
    BY <1>2, <2>1, ClickTimes
  <2>3. data.time[i] < SealDay * Day /\ SealDay * Day \in Int
    BY <1>2, <2>1, TrainingTimes, Lengths, DaysInOrder
  <2> QED
    BY <2>1, <2>2, <2>3, TrainingTimes
<1> QED
  BY <1>1, <1>2, InitialSegment DEF TrainingLimit

(* The clicks of the training period up to a time.                          *)
LEMMA CappedCursor ==
  ASSUME FixtureTrue, NEW t \in Int,
         NEW m, m = (IF ClickedBy(NumClicks, t) < TrainingLimit
                     THEN ClickedBy(NumClicks, t) ELSE TrainingLimit)
  PROVE  IsCursor(m, Reached(0, t))
<1>1. /\ IsCursor(ClickedBy(NumClicks, t), {c \in Clicks : data.time[c] <= t})
      /\ IsCursor(TrainingLimit, TrainingClicks)
      /\ TrainingClicks \subseteq Clicks /\ \A c \in Clicks : c \in Nat /\ data.time[c] \in Nat
  BY ClickedFirst, TrainingFirst, Lengths, ClickTimes DEF Clicks, TrainingClicks
<1>2. m \in Nat /\ \A c \in Nat : c < m <=> c \in Reached(0, t)
  <2>1. /\ ClickedBy(NumClicks, t) \in Nat /\ TrainingLimit \in Nat
        /\ \A c \in Nat : c < ClickedBy(NumClicks, t) <=> c \in Clicks /\ data.time[c] <= t
        /\ \A c \in Nat : c < TrainingLimit <=> c \in TrainingClicks
    BY <1>1, CursorMembers
  <2>2. m \in Nat
    BY <2>1
  <2>3. \A c \in Nat : c < m <=> c < ClickedBy(NumClicks, t) /\ c < TrainingLimit
    BY <2>1
  <2>4. \A c \in TrainingClicks : data.time[c] + 0 = data.time[c]
    BY <1>1
  <2> QED
    BY <1>1, <2>1, <2>2, <2>3, <2>4 DEF Reached
<1>3. \A c : c \in Reached(0, t) => c \in Nat
  BY <1>1 DEF Reached
<1>4. 0 .. m - 1 = Reached(0, t)
  <2>1. \A c : c \in 0 .. m - 1 <=> c \in Nat /\ c < m
    BY <1>2
  <2> QED
    BY <1>2, <1>3, <2>1
<1> QED
  BY <1>2, <1>4 DEF IsCursor

(* The clicks of a boundary are those whose time it is, and the cursor goes *)
(* past them.                                                               *)
LEMMA Arrivals ==
  ASSUME FixtureTrue, NEW k, NEW s \in Int, NEW t \in Int, s <= t, IsCursor(k, Reached(0, s)),
         NEW m, m = (IF ClickedBy(NumClicks, t) < TrainingLimit
                     THEN ClickedBy(NumClicks, t) ELSE TrainingLimit)
  PROVE  /\ k .. m - 1 = Between(0, s, t)
         /\ IsCursor(k + Cardinality(k .. m - 1), Reached(0, t))
<1>1. TrainingClicks \subseteq Clicks /\ \A c \in Clicks : c \in Nat /\ data.time[c] \in Nat
  BY ClickTimes DEF TrainingClicks
<1>2. IsCursor(m, Reached(0, t)) /\ m \in Nat /\ \A c \in Nat : c < m <=> c \in Reached(0, t)
  BY CappedCursor, CursorMembers
<1>3. k \in Nat /\ \A c \in Nat : c < k <=> c \in Reached(0, s)
  BY CursorMembers
<1>4. \A c : c \in Reached(0, t) \/ c \in Reached(0, s) \/ c \in Between(0, s, t) => c \in Nat
  BY <1>1 DEF Reached, Between
<1>5. \A c \in Nat : c \in Between(0, s, t) <=> c \in Reached(0, t) /\ c \notin Reached(0, s)
  BY <1>1 DEF Reached, Between
<1>6. \A c \in Nat : c \in Reached(0, s) => c \in Reached(0, t)
  BY <1>1 DEF Reached
<1>7. k .. m - 1 = Between(0, s, t)
  <2>1. \A c : c \in k .. m - 1 <=> c \in Nat /\ ~(c < k) /\ c < m
    BY <1>2, <1>3
  <2> QED
    BY <1>2, <1>3, <1>4, <1>5, <2>1
<1>8. ~(m < k)
  BY <1>2, <1>3, <1>6
<1>9. k + Cardinality(k .. m - 1) = m
  <2>1. k \in Int /\ m - 1 \in Int
    BY <1>2, <1>3
  <2>2. Cardinality(k .. m - 1) = IF k > m - 1 THEN 0 ELSE (m - 1) - k + 1
    BY <2>1, FS_Interval
  <2> QED
    BY <1>2, <1>3, <1>8, <2>2
<1> QED
  BY <1>2, <1>7, <1>9

(* A lagging cursor goes past the clicks whose lag is over.                 *)
LEMMA Lagging ==
  ASSUME FixtureTrue, NEW lag \in Nat, NEW s \in Int, NEW t \in Int, s <= t,
         NEW j, IsCursor(j, Reached(lag, s)), NEW n, IsCursor(n, Reached(0, t))
  PROVE  /\ IsCursor(ClickedBy(n, t - lag), Reached(lag, t))
         /\ j .. ClickedBy(n, t - lag) - 1 = Between(lag, s, t)
<1> PICK m : m = ClickedBy(n, t - lag)
  OBVIOUS
<1>1. TrainingClicks \subseteq Clicks /\ \A c \in Clicks : c \in Nat /\ data.time[c] \in Nat
  BY ClickTimes DEF TrainingClicks
<1>2. n \in Nat /\ 0 .. n - 1 = Reached(0, t)
  BY DEF IsCursor
<1>3. n <= NumClicks
  <2>1. \A c \in 0 .. n - 1 : c \in 0 .. NumClicks - 1
    BY <1>1, <1>2 DEF Reached, Clicks
  <2>2. NumClicks \in Nat
    BY Lengths
  <2>3. NumClicks < n => NumClicks \in 0 .. n - 1
    BY <1>2, <2>2
  <2> QED
    BY <1>2, <2>1, <2>2, <2>3
<1>4. IsCursor(m, {c \in 0 .. n - 1 : data.time[c] <= t - lag})
  BY <1>2, <1>3, ClickedFirst
<1>5. {c \in 0 .. n - 1 : data.time[c] <= t - lag} = Reached(lag, t)
  <2>1. \A c \in TrainingClicks : /\ data.time[c] <= t - lag <=> data.time[c] + lag <= t
                                  /\ data.time[c] + lag <= t => data.time[c] + 0 <= t
    BY <1>1
  <2> QED
    BY <1>2, <2>1 DEF Reached
<1>6. IsCursor(m, Reached(lag, t))
  BY <1>4, <1>5
<1>7. /\ m \in Nat /\ \A c \in Nat : c < m <=> c \in Reached(lag, t)
      /\ j \in Nat /\ \A c \in Nat : c < j <=> c \in Reached(lag, s)
  BY <1>6, CursorMembers
<1>8. \A c \in TrainingClicks : data.time[c] + lag <= s <=> ~(s < data.time[c] + lag)
  BY <1>1
<1>9. \A c : c \in Between(lag, s, t) <=> c \in Nat /\ ~(c < j) /\ c < m
  <2>1. \A c : c \in Between(lag, s, t) <=> c \in Reached(lag, t) /\ c \notin Reached(lag, s)
    BY <1>8 DEF Between, Reached
  <2>2. \A c : c \in Reached(lag, t) => c \in Nat
    BY <1>1 DEF Reached
  <2> QED
    BY <1>7, <2>1, <2>2
<1>10. \A c : c \in j .. m - 1 <=> c \in Nat /\ ~(c < j) /\ c < m
  BY <1>7
<1> QED
  BY <1>6, <1>9, <1>10

-----------------------------------------------------------------------------
(* The records of a boundary.                                               *)

(* The boundary after the last: what ProcessBoundary starts from.           *)
AtProcess ==
  /\ FixtureTrue /\ Boundary \in Int /\ state.lastTime \in Int /\ state.lastTime < Boundary
  /\ ComponentsAt(state, state.lastTime)

Falling(lag) == Between(lag, state.lastTime, Boundary)

LEMMA CursorsKept ==
  ASSUME AtProcess
  PROVE  /\ Arriving = Falling(0)
         /\ Waits => state.dueCursor .. DueCursor - 1 = Falling(Wait)
         /\ ~Waits => state.dueCursor .. DueCursor - 1 = {}
         /\ Settles => state.maturityCursor .. MaturityCursor - 1 = Falling(Window)
         /\ ~Settles => state.maturityCursor .. MaturityCursor - 1 = {}
         /\ IsCursor(ClickCursor, Reached(0, Boundary))
         /\ IsCursor(DueCursor, IF Waits THEN Reached(Wait, Boundary) ELSE {})
         /\ IsCursor(MaturityCursor, IF Settles THEN Reached(Window, Boundary) ELSE {})
<1>1. /\ FixtureTrue /\ Boundary \in Int /\ state.lastTime \in Int /\ state.lastTime <= Boundary
      /\ CursorsAt(state, state.lastTime)
  BY DEF AtProcess, ComponentsAt
<1>k. PICK k : k = state.clickCursor
  OBVIOUS
<1>2. PICK s \in Int, t \in Int : s = state.lastTime /\ t = Boundary
  BY <1>1
<1>3. PICK m : m = (IF ClickedBy(NumClicks, t) < TrainingLimit
                    THEN ClickedBy(NumClicks, t) ELSE TrainingLimit)
  OBVIOUS
<1>4. IsCursor(k, Reached(0, s)) /\ s <= t
  BY <1>1, <1>2, <1>k DEF CursorsAt
<1>5. k .. m - 1 = Between(0, s, t) /\ IsCursor(k + Cardinality(k .. m - 1), Reached(0, t))
  BY <1>1, <1>3, <1>4, Arrivals
<1>6. Arriving = k .. m - 1
  BY <1>2, <1>3, <1>k DEF Arriving
<1>7. Arriving = Falling(0) /\ IsCursor(ClickCursor, Reached(0, Boundary))
  BY <1>2, <1>5, <1>6, <1>k DEF ClickCursor, Falling
<1>8. ASSUME NEW lag \in Nat, NEW j, NEW m1, IsCursor(j, Reached(lag, state.lastTime)),
             m1 = ClickedBy(ClickCursor, Boundary - lag)
      PROVE  IsCursor(m1, Reached(lag, Boundary)) /\ j .. m1 - 1 = Falling(lag)
  <2>1. PICK n : n = ClickCursor
    OBVIOUS
  <2>2. IsCursor(n, Reached(0, t)) /\ IsCursor(j, Reached(lag, s)) /\ m1 = ClickedBy(n, t - lag)
    BY <1>2, <1>7, <1>8, <2>1
  <2>3. FixtureTrue /\ s <= t
    BY <1>1, <1>4
  <2>4. IsCursor(n, Reached(0, t)) /\ IsCursor(j, Reached(lag, s))
    BY <2>2
  <2>5. /\ IsCursor(ClickedBy(n, t - lag), Reached(lag, t))
        /\ j .. ClickedBy(n, t - lag) - 1 = Between(lag, s, t)
    BY <2>3, <2>4, Lagging
  <2> QED
    BY <1>2, <2>2, <2>5 DEF Falling
<1>9. Wait \in Nat /\ Window \in Nat
  BY Lengths
<1>10. \A j : IsCursor(j, {}) => j = 0
  <2>1. \A j \in Nat : j # 0 => 0 \in 0 .. j - 1
    OBVIOUS
  <2> QED
    BY <2>1 DEF IsCursor
<1>11. IsCursor(0, {}) /\ 0 .. 0 - 1 = {}
  BY DEF IsCursor
<1>12. /\ Waits => IsCursor(state.dueCursor, Reached(Wait, state.lastTime))
       /\ ~Waits => IsCursor(state.dueCursor, {})
       /\ Settles => IsCursor(state.maturityCursor, Reached(Window, state.lastTime))
       /\ ~Settles => IsCursor(state.maturityCursor, {})
  BY <1>1 DEF CursorsAt
<1>13. /\ Waits => DueCursor = ClickedBy(ClickCursor, Boundary - Wait)
       /\ ~Waits => DueCursor = 0
       /\ Settles => MaturityCursor = ClickedBy(ClickCursor, Boundary - Window)
       /\ ~Settles => MaturityCursor = 0
  BY DEF DueCursor, MaturityCursor
<1>14. ASSUME Waits
       PROVE  /\ state.dueCursor .. DueCursor - 1 = Falling(Wait)
              /\ IsCursor(DueCursor, Reached(Wait, Boundary))
  BY <1>8, <1>9, <1>12, <1>13, <1>14
<1>15. ASSUME Settles
       PROVE  /\ state.maturityCursor .. MaturityCursor - 1 = Falling(Window)
              /\ IsCursor(MaturityCursor, Reached(Window, Boundary))
  BY <1>8, <1>9, <1>12, <1>13, <1>15
<1>16. ASSUME ~Waits
       PROVE  state.dueCursor .. DueCursor - 1 = {} /\ IsCursor(DueCursor, {})
  BY <1>10, <1>11, <1>12, <1>13, <1>16
<1>17. ASSUME ~Settles
       PROVE  state.maturityCursor .. MaturityCursor - 1 = {} /\ IsCursor(MaturityCursor, {})
  BY <1>10, <1>11, <1>12, <1>13, <1>17
<1> QED
  BY <1>7, <1>14, <1>15, <1>16, <1>17

LEMMA OutcomesKept ==
  ASSUME AtProcess
  PROVE  /\ Outcomes = OutcomesAt(Boundary)
         /\ \A c \in TrainingClicks :
              Converted(c) <=> Packed /\ Converts(c) /\ AvailableAt(c) <= Boundary
<1>1. /\ FixtureTrue /\ Boundary \in Int /\ state.lastTime \in Int /\ state.lastTime < Boundary
      /\ state.outcome = OutcomesAt(state.lastTime)
  BY DEF AtProcess, ComponentsAt
<1>2. \A c \in Clicks : AvailableAt(c) \in Nat
  BY <1>1, Availability
<1>3. ASSUME NEW c \in Clicks
      PROVE  (IF Packed /\ c \in Truth THEN (IF Converts(c) THEN "positive" ELSE "negative")
              ELSE state.outcome[c])
             = OutcomesAt(Boundary)[c]
  <2>1. c \in Truth <=> /\ c \in TrainingClicks
                        /\ ~(AvailableAt(c) <= state.lastTime) /\ AvailableAt(c) <= Boundary
    BY <1>1, <1>2 DEF Truth
  <2>2. AvailableAt(c) <= state.lastTime => AvailableAt(c) <= Boundary
    BY <1>1, <1>2
  <2>3. state.outcome[c] = IF Packed /\ c \in TrainingClicks /\ AvailableAt(c) <= state.lastTime
                           THEN (IF Converts(c) THEN "positive" ELSE "negative")
                           ELSE "unresolved"
    BY <1>1 DEF OutcomesAt
  <2>4. OutcomesAt(Boundary)[c] = IF Packed /\ c \in TrainingClicks /\ AvailableAt(c) <= Boundary
                                  THEN (IF Converts(c) THEN "positive" ELSE "negative")
                                  ELSE "unresolved"
    BY DEF OutcomesAt
  <2> QED
    BY <2>1, <2>2, <2>3, <2>4
<1>4. Outcomes = OutcomesAt(Boundary)
  BY <1>3 DEF Outcomes, OutcomesAt
<1> QED
  BY <1>4 DEF Converted, OutcomesAt, TrainingClicks

LEMMA RecordFields ==
  \A c, k, x, at : /\ Record(c, k, x, at).click = c /\ Record(c, k, x, at).kind = k
                   /\ Record(c, k, x, at).target = x /\ Record(c, k, x, at).at = at
  BY DEF Record

(* The records of these kinds that become legal at the boundary.            *)
Newly(kinds) ==
  {r \in Promised : state.lastTime < r.at /\ r.at <= Boundary /\ r.kind \in kinds}

(* What the handlers go through: the legal clicks whose time, availability, *)
(* wait or window falls into the boundary's hour.                           *)
Falls(x) == state.lastTime < x /\ x <= Boundary
LegalClicks == Legal(TrainingClicks)

LEMMA Handled ==
  ASSUME AtProcess
  PROVE  /\ Legal(Arriving) = {c \in LegalClicks : Falls(data.time[c])}
         /\ Legal(Truth) = {c \in LegalClicks : Falls(AvailableAt(c))}
         /\ Waits => Legal(state.dueCursor .. DueCursor - 1)
                       = {c \in LegalClicks : Falls(data.time[c] + Wait)}
         /\ ~Waits => Legal(state.dueCursor .. DueCursor - 1) = {}
         /\ Settles => Mature = {c \in LegalClicks : Falls(data.time[c] + Window)}
         /\ ~Settles => Mature = {}
<1>1. \A c \in TrainingClicks : data.time[c] + 0 = data.time[c]
  BY ClickTimes DEF AtProcess, TrainingClicks
<1>2. Falling(0) = {c \in TrainingClicks : Falls(data.time[c])}
  BY <1>1 DEF Falling, Between, Falls
<1>3. \A lag : Falling(lag) = {c \in TrainingClicks : Falls(data.time[c] + lag)}
  BY DEF Falling, Between, Falls
<1>4. Truth = {c \in TrainingClicks : Falls(AvailableAt(c))}
  BY DEF Truth, Falls
<1> QED
  BY <1>2, <1>3, <1>4, CursorsKept DEF Legal, LegalClicks, Mature

LEMMA LegalClickFacts ==
  ASSUME AtProcess, NEW c \in LegalClicks
  PROVE  /\ c \in TrainingClicks /\ c \in Clicks
         /\ data.time[c] \in Nat /\ data.delay[c] \in Nat /\ AvailableAt(c) \in Nat
         /\ Wait \in Nat /\ Window \in Nat /\ Wait < Window
         /\ state.lastTime \in Int /\ Boundary \in Int
         /\ AvailableAt(c) <= data.time[c] + Window
         /\ Converts(c) => AvailableAt(c) = data.time[c] + data.delay[c]
         /\ ~Converts(c) => data.delay[c] > Wait
         /\ Converted(c) <=> Packed /\ Converts(c) /\ AvailableAt(c) <= Boundary
<1>1. c \in TrainingClicks /\ c \in Clicks
  BY DEF LegalClicks, Legal, TrainingClicks
<1> QED
  BY <1>1, ClickTimes, Availability, Lengths, OutcomesKept DEF AtProcess

LEMMA NewlyIs ==
  ASSUME NEW kinds, NEW r
  PROVE  r \in Newly(kinds)
           <=> \E c \in LegalClicks : r \in Stream(c) /\ Falls(r.at) /\ r.kind \in kinds
  BY DEF Newly, Promised, LegalClicks, Falls

(* The methods whose records are made at the click only.                    *)
LEMMA AtClickOnly ==
  ASSUME AtProcess, method \in {"dfm", "oracle_reference"}
  PROVE  /\ Pending = Newly(Kinds)
         /\ NegativeTargets = Newly({"q_tn"}) /\ DelayTargets = Newly({"q_dp"})
<1>1. ~Waits /\ ~Settles /\ method # "complete_wait" /\ method # "es_dfm"
      /\ method \notin {"immediate_fake_negative", "fnw"}
  BY DEF Waits, Settles
<1>2. AtTruth = {} /\ AtMaturity = {} /\ NegativeTargets = {} /\ DelayTargets = {}
  BY <1>1 DEF AtTruth, AtMaturity, NegativeTargets, DelayTargets
<1>3. AtDue = {}
  BY <1>1, Handled DEF AtDue
<1>4. CASE method = "dfm"
  <2>1. AtClicks = {Record(c, "dfm_click", 0, data.time[c]) : c \in Legal(Arriving)}
    BY <1>4 DEF AtClicks
  <2>2. \A c : Stream(c) = {Record(c, "dfm_click", 0, data.time[c])}
    BY <1>4 DEF Stream
  <2>3. \A r : r \in AtClicks <=> r \in Newly(Kinds)
    BY <2>1, <2>2, Handled, NewlyIs, RecordFields DEF Kinds
  <2>4. \A r : r \notin Newly({"q_tn"}) /\ r \notin Newly({"q_dp"})
    BY <2>2, NewlyIs, RecordFields
  <2> QED
    BY <1>2, <1>3, <2>3, <2>4 DEF Pending
<1>5. CASE method = "oracle_reference"
  <2>1. AtClicks = {Record(c, "final", Label(c), data.time[c]) : c \in Legal(Arriving)}
    BY <1>5 DEF AtClicks
  <2>2. \A c : Stream(c) = {Record(c, "final", Label(c), data.time[c])}
    BY <1>5 DEF Stream
  <2>3. \A r : r \in AtClicks <=> r \in Newly(Kinds)
    BY <2>1, <2>2, Handled, NewlyIs, RecordFields DEF Kinds
  <2>4. \A r : r \notin Newly({"q_tn"}) /\ r \notin Newly({"q_dp"})
    BY <2>2, NewlyIs, RecordFields
  <2> QED
    BY <1>2, <1>3, <2>3, <2>4 DEF Pending
<1> QED
  BY <1>4, <1>5

LEMMA AtClickAndTruth ==
  ASSUME AtProcess, method \in {"immediate_fake_negative", "fnw"}
  PROVE  /\ Pending = Newly(Kinds)
         /\ NegativeTargets = Newly({"q_tn"}) /\ DelayTargets = Newly({"q_dp"})
<1>1. ~Waits /\ ~Settles /\ method # "complete_wait" /\ method # "es_dfm" /\ method # "dfm"
      /\ method # "oracle_reference"
  BY DEF Waits, Settles
<1>2. AtMaturity = {} /\ NegativeTargets = {} /\ DelayTargets = {}
  BY <1>1 DEF AtMaturity, NegativeTargets, DelayTargets
<1>3. AtDue = {}
  BY <1>1, Handled DEF AtDue
<1>4. AtClicks = {Record(c, "provisional", 0, data.time[c]) : c \in Legal(Arriving)}
  BY DEF AtClicks
<1>5. AtTruth = {Record(c, "correction", 1, AvailableAt(c)) : c \in {b \in Legal(Truth) : Converts(b)}}
  BY <1>1 DEF AtTruth
<1>6. \A c : Stream(c) = {Record(c, "provisional", 0, data.time[c])} \cup
                         (IF Converts(c) THEN {Record(c, "correction", 1, AvailableAt(c))} ELSE {})
  BY <1>1 DEF Stream
<1>7. ASSUME NEW r
      PROVE  r \in AtClicks \cup AtTruth <=> r \in Newly(Kinds)
  BY <1>4, <1>5, <1>6, Handled, NewlyIs, RecordFields DEF Kinds
<1>8. \A r : r \notin Newly({"q_tn"}) /\ r \notin Newly({"q_dp"})
  BY <1>6, NewlyIs, RecordFields
<1> QED
  BY <1>2, <1>3, <1>7, <1>8 DEF Pending

LEMMA AtMaturityOnly ==
  ASSUME AtProcess, method = "complete_wait"
  PROVE  /\ Pending = Newly(Kinds)
         /\ NegativeTargets = Newly({"q_tn"}) /\ DelayTargets = Newly({"q_dp"})
<1>1. ~Waits /\ Settles /\ Packed /\ method # "es_dfm" /\ method # "dfm"
      /\ method # "oracle_reference" /\ method \notin {"immediate_fake_negative", "fnw"}
  BY DEF Waits, Settles, Packed
<1>2. AtClicks = {} /\ AtTruth = {} /\ NegativeTargets = {} /\ DelayTargets = {}
  BY <1>1 DEF AtClicks, AtTruth, NegativeTargets, DelayTargets
<1>3. AtDue = {}
  BY <1>1, Handled DEF AtDue
<1>4. AtMaturity = {Record(c, "final", IF Converted(c) THEN 1 ELSE 0, data.time[c] + Window) :
                      c \in Mature}
  BY DEF AtMaturity, Finals
<1>5. \A c : Stream(c) = {Record(c, "final", Label(c), data.time[c] + Window)}
  BY DEF Stream
<1>6. ASSUME NEW c \in LegalClicks, Falls(data.time[c] + Window)
      PROVE  (IF Converted(c) THEN 1 ELSE 0) = Label(c)
  <2>1. AvailableAt(c) <= Boundary
    BY <1>6, LegalClickFacts DEF Falls
  <2> QED
    BY <1>1, <2>1, LegalClickFacts DEF Label
<1>7. ASSUME NEW r
      PROVE  r \in AtMaturity <=> r \in Newly(Kinds)
  BY <1>1, <1>4, <1>5, <1>6, Handled, NewlyIs, RecordFields DEF Kinds
<1>8. \A r : r \notin Newly({"q_tn"}) /\ r \notin Newly({"q_dp"})
  BY <1>5, NewlyIs, RecordFields
<1> QED
  BY <1>2, <1>3, <1>7, <1>8 DEF Pending

(* The records of a method that waits, but for its auxiliary targets.       *)
LEMMA AtTruthAndDue ==
  ASSUME AtProcess, Waits, NEW r
  PROVE  /\ r \in Pending
              <=> \E c \in LegalClicks : r \in FixedWaitStream(c) /\ Falls(r.at)
         /\ \A c \in LegalClicks : r \in FixedWaitStream(c) => r.kind \in Kinds \ {"q_tn", "q_dp"}
<1>1. method \in {"fixed_wait", "es_dfm"} /\ Packed
  BY DEF Waits, Packed
<1>2. AtClicks = {} /\ AtMaturity = {}
  BY <1>1 DEF AtClicks, AtMaturity
<1>3. \A c \in LegalClicks :
        /\ AvailableAt(c) <= data.time[c] + Wait <=> data.delay[c] <= Wait
        /\ data.delay[c] <= Wait => Converts(c) /\ AvailableAt(c) <= data.time[c] + Wait
  BY LegalClickFacts, Availability, ClickTimes, Lengths DEF AtProcess, Converts
<1>4. AtTruth = {Record(c, IF data.delay[c] <= Wait THEN "early_positive" ELSE "correction", 1,
                        AvailableAt(c)) : c \in {b \in LegalClicks : Falls(AvailableAt(b)) /\ Converts(b)}}
  BY <1>3, Handled DEF AtTruth
<1>5. AtDue = {Record(c, "provisional", 0, data.time[c] + Wait) :
                 c \in {b \in LegalClicks : Falls(data.time[b] + Wait) /\ ~(data.delay[b] <= Wait)}}
  <2>1. ASSUME NEW c \in LegalClicks, Falls(data.time[c] + Wait)
        PROVE  (~Converted(c) \/ ConvertedLate(c)) <=> ~(data.delay[c] <= Wait)
    <3>1. data.delay[c] <= Wait => AvailableAt(c) <= Boundary
      BY <1>3, <2>1, LegalClickFacts DEF Falls
    <3>2. data.delay[c] <= Wait => Converted(c)
      BY <1>1, <1>3, <3>1, LegalClickFacts
    <3>3. data.delay[c] > Wait <=> ~(data.delay[c] <= Wait)
      BY LegalClickFacts
    <3> QED
      BY <3>2, <3>3 DEF ConvertedLate
  <2> QED
    BY <2>1, Handled DEF AtDue
<1>6. \A c \in LegalClicks :
        r \in FixedWaitStream(c) <=>
          \/ data.delay[c] <= Wait /\ r = Record(c, "early_positive", 1, AvailableAt(c))
          \/ ~(data.delay[c] <= Wait) /\ r = Record(c, "provisional", 0, data.time[c] + Wait)
          \/ ~(data.delay[c] <= Wait) /\ Converts(c) /\ r = Record(c, "correction", 1, AvailableAt(c))
  BY DEF FixedWaitStream
<1>7. r \in AtTruth <=>
        \E c \in LegalClicks : /\ Falls(AvailableAt(c)) /\ Converts(c)
                               /\ r = Record(c, IF data.delay[c] <= Wait THEN "early_positive"
                                                ELSE "correction", 1, AvailableAt(c))
  BY <1>4
<1>8. r \in AtDue <=>
        \E c \in LegalClicks : /\ Falls(data.time[c] + Wait) /\ ~(data.delay[c] <= Wait)
                               /\ r = Record(c, "provisional", 0, data.time[c] + Wait)
  BY <1>5
<1>9. r \in Pending <=> r \in AtTruth \/ r \in AtDue
  BY <1>2 DEF Pending
<1>10. r \in Pending <=> \E c \in LegalClicks : r \in FixedWaitStream(c) /\ Falls(r.at)
  BY <1>3, <1>6, <1>7, <1>8, <1>9, RecordFields
<1>11. \A c \in LegalClicks : r \in FixedWaitStream(c) => r.kind \in Kinds \ {"q_tn", "q_dp"}
  BY <1>6, RecordFields DEF Kinds
<1> QED
  BY <1>10, <1>11

LEMMA AtWait ==
  ASSUME AtProcess, method = "fixed_wait"
  PROVE  /\ Pending = Newly(Kinds)
         /\ NegativeTargets = Newly({"q_tn"}) /\ DelayTargets = Newly({"q_dp"})
<1>1. Waits /\ method # "es_dfm"
  BY DEF Waits
<1>2. \A c : Stream(c) = FixedWaitStream(c)
  BY DEF Stream
<1>3. ASSUME NEW r
      PROVE  /\ r \in Pending <=> r \in Newly(Kinds)
             /\ r \notin Newly({"q_tn"}) /\ r \notin Newly({"q_dp"})
  BY <1>1, <1>2, AtTruthAndDue, NewlyIs
<1> QED
  BY <1>1, <1>3 DEF NegativeTargets, DelayTargets

LEMMA AtWaitAndMaturity ==
  ASSUME AtProcess, method = "es_dfm"
  PROVE  /\ Pending = Newly(Kinds)
         /\ NegativeTargets = Newly({"q_tn"}) /\ DelayTargets = Newly({"q_dp"})
<1>1. Waits /\ Settles /\ Packed
  BY DEF Waits, Settles, Packed
<1>2. \A c : Stream(c) = FixedWaitStream(c) \cup AuxiliaryStream(c)
  BY DEF Stream
<1> DEFINE Delayed(c) == Converts(c) /\ data.delay[c] > Wait
<1>3. ASSUME NEW c \in LegalClicks, Falls(data.time[c] + Window)
      PROVE  /\ ConvertedLate(c) <=> Delayed(c)
             /\ (~Converted(c) \/ ConvertedLate(c)) <=> ~(data.delay[c] <= Wait)
  <2>1. Converted(c) <=> Converts(c)
    BY <1>1, <1>3, LegalClickFacts DEF Falls
  <2>2. data.delay[c] > Wait <=> ~(data.delay[c] <= Wait)
    BY LegalClickFacts
  <2>3. ~Converts(c) => data.delay[c] > Wait
    BY LegalClickFacts
  <2> QED
    BY <2>1, <2>2, <2>3 DEF ConvertedLate
<1>4. DelayTargets = {Record(c, "q_dp", IF Delayed(c) THEN 1 ELSE 0, data.time[c] + Window) :
                        c \in {b \in LegalClicks : Falls(data.time[b] + Window)}}
  BY <1>1, <1>3, Handled DEF DelayTargets
<1>5. NegativeTargets = {Record(c, "q_tn", IF Delayed(c) THEN 0 ELSE 1, data.time[c] + Window) :
                           c \in {b \in LegalClicks : /\ Falls(data.time[b] + Window)
                                                      /\ ~(data.delay[b] <= Wait)}}
  BY <1>1, <1>3, Handled DEF NegativeTargets
<1>6. \A c, r : r \in AuxiliaryStream(c) <=>
        \/ r = Record(c, "q_dp", IF Delayed(c) THEN 1 ELSE 0, data.time[c] + Window)
        \/ /\ ~(data.delay[c] <= Wait)
           /\ r = Record(c, "q_tn", IF Delayed(c) THEN 0 ELSE 1, data.time[c] + Window)
  BY DEF AuxiliaryStream
<1> HIDE DEF Delayed
<1>7. \A c, r : r \in AuxiliaryStream(c) => r.kind \in {"q_dp", "q_tn"} /\ r.kind \notin Kinds
  BY <1>6, RecordFields DEF Kinds
<1>8. ASSUME NEW r
      PROVE  /\ r \in Pending <=> r \in Newly(Kinds)
             /\ r \in Newly({"q_tn"}) <=>
                  \E c \in LegalClicks : r \in AuxiliaryStream(c) /\ Falls(r.at) /\ r.kind = "q_tn"
             /\ r \in Newly({"q_dp"}) <=>
                  \E c \in LegalClicks : r \in AuxiliaryStream(c) /\ Falls(r.at) /\ r.kind = "q_dp"
  BY <1>1, <1>2, <1>7, AtTruthAndDue, NewlyIs
<1>9. ASSUME NEW r
      PROVE  r \in DelayTargets <=> r \in Newly({"q_dp"})
  BY <1>4, <1>6, <1>8, RecordFields
<1>10. ASSUME NEW r
       PROVE  r \in NegativeTargets <=> r \in Newly({"q_tn"})
  BY <1>5, <1>6, <1>8, RecordFields
<1> QED
  BY <1>8, <1>9, <1>10

LEMMA PendingIs ==
  ASSUME AtProcess
  PROVE  /\ Pending = Newly(Kinds)
         /\ NegativeTargets = Newly({"q_tn"}) /\ DelayTargets = Newly({"q_dp"})
<1>1. method \in AllMethods
  BY ReplayConstants DEF AtProcess, FixtureTrue
<1> QED
  BY <1>1, AtClickOnly, AtClickAndTruth, AtMaturityOnly, AtWait, AtWaitAndMaturity DEF AllMethods

(* Every record has a time.                                                 *)
LEMMA RecordTimes ==
  ASSUME AtProcess
  PROVE  \A r \in Promised : r.at \in Int
<1>1. SUFFICES ASSUME NEW c \in LegalClicks, NEW r \in Stream(c) PROVE r.at \in Int
  BY DEF Promised, LegalClicks
<1>2. data.time[c] \in Int /\ AvailableAt(c) \in Int /\ Wait \in Int /\ Window \in Int
  BY LegalClickFacts
<1>3. r \in FixedWaitStream(c) \/ r \in AuxiliaryStream(c) => r.at \in Int
  BY <1>2, RecordFields DEF FixedWaitStream, AuxiliaryStream
<1>4. \/ r \in FixedWaitStream(c) \/ r \in AuxiliaryStream(c)
      \/ r.at \in {data.time[c], data.time[c] + Window, AvailableAt(c)}
  BY RecordFields DEF Stream
<1> QED
  BY <1>2, <1>3, <1>4

(* The boundary adds to the stores what becomes legal at it.                *)
LEMMA StoresKept ==
  ASSUME AtProcess
  PROVE  /\ state.main \cup Pending = LegalAt(Boundary, Kinds)
         /\ state.qtn \cup NegativeTargets = LegalAt(Boundary, {"q_tn"})
         /\ state.qdp \cup DelayTargets = LegalAt(Boundary, {"q_dp"})
<1>1. \A kinds : LegalAt(state.lastTime, kinds) \cup Newly(kinds) = LegalAt(Boundary, kinds)
  BY RecordTimes DEF LegalAt, Newly, AtProcess
<1>2. StoresAt(state, state.lastTime)
  BY DEF AtProcess, ComponentsAt
<1> QED
  BY <1>1, <1>2, PendingIs DEF StoresAt

(* The initialization store, as long as it is kept.                         *)
LEMMA SeedKept ==
  ASSUME AtProcess
  PROVE  SeedAt(state.lastTime) \cup AtSeed = SeedAt(Boundary)
<1>1. FixtureTrue /\ state.lastTime \in Int /\ Boundary \in Int /\ state.lastTime < Boundary
      /\ Window \in Nat /\ Day \in Nat
  BY Lengths DEF AtProcess
<1>2. ASSUME NEW c \in Clicks, ClickDay(c) = 0, data.time[c] + Window <= Boundary
      PROVE  c \in 0 .. ClickCursor - 1
  <2>1. data.time[c] \in Nat
    BY <1>1, ClickTimes
  <2>2. c \in TrainingClicks /\ data.time[c] + 0 <= Boundary
    BY <1>1, <1>2, <2>1, DaysInOrder DEF TrainingClicks
  <2>3. c \in Reached(0, Boundary)
    BY <2>2 DEF Reached
  <2> QED
    BY <2>3, CursorsKept DEF IsCursor
<1>3. 0 .. ClickCursor - 1 \subseteq Clicks
  BY CursorsKept DEF IsCursor, Reached, TrainingClicks
<1>4. \A c \in Clicks : data.time[c] + Window \in Int
  BY <1>1, ClickTimes
<1>5. \A r : r \in SeedAt(state.lastTime) \cup AtSeed <=> r \in SeedAt(Boundary)
  BY <1>1, <1>2, <1>3, <1>4 DEF SeedAt, AtSeed, Legal
<1> QED
  BY <1>5

-----------------------------------------------------------------------------
(* The schedule.                                                            *)

LEMMA DecisionInstants ==
  ASSUME FixtureTrue
  PROVE  /\ \A u \in DecisionTimes : u \in Nat /\ FirstDecisionTime <= u
         /\ \A u \in DecisionTimes : \E i \in Nat : u = i * Hour
         /\ IsFiniteSet(DecisionTimes) /\ Cardinality(DecisionTimes) \in Nat
         /\ Cardinality(DecisionTimes) = Cardinality(data.credits)
<1>1. data.credits \subseteq DecisionDays /\ Day \in Nat \ {0}
  BY ClickTimes, Lengths
<1>2. \A d \in data.credits : d \in Nat /\ FirstDecision <= d /\ d <= LastDay
  BY <1>1, DaysInOrder DEF DecisionDays
<1>3. ASSUME NEW d \in data.credits
      PROVE  /\ d * Day \in Nat /\ FirstDecisionTime <= d * Day /\ d * Day <= LastDay * Day
             /\ d * HoursPerDay \in Nat /\ d * Day = (d * HoursPerDay) * Hour
  <2>1. d \in Nat /\ FirstDecision \in Nat /\ LastDay \in Nat
    BY <1>2, DaysInOrder
  <2>2. d * Day \in Nat
    BY <1>1, <2>1
  <2>3. FirstDecision * Day <= d * Day /\ d * Day <= LastDay * Day
    BY <1>1, <1>2, <2>1, Multiples
  <2>4. Hour \in Nat /\ HoursPerDay \in Nat /\ Day = HoursPerDay * Hour
    BY Lengths
  <2>5. d * HoursPerDay \in Nat /\ d * Day = (d * HoursPerDay) * Hour
    BY <2>1, <2>4
  <2> QED
    BY <2>2, <2>3, <2>5 DEF FirstDecisionTime
<1>4. DecisionTimes \in SUBSET Nat /\ \A u \in DecisionTimes : u <= LastDay * Day
  BY <1>3 DEF DecisionTimes
<1>5. LastDay * Day \in Nat
  BY <1>1, DaysInOrder
<1>6. IsFiniteSet(DecisionTimes)
  BY <1>4, <1>5, FS_BoundedSetOfNaturals
<1>7. Cardinality(DecisionTimes) = Cardinality(data.credits)
  <2> DEFINE f == [d \in data.credits |-> d * Day]
  <2>1. f \in [data.credits -> DecisionTimes]
    BY DEF DecisionTimes
  <2>2. \A d, e \in data.credits : f[d] = f[e] => d = e
    <3>1. SUFFICES ASSUME NEW d \in data.credits, NEW e \in data.credits, d * Day = e * Day
                   PROVE  d = e
      OBVIOUS
    <3>2. d \in Int /\ e \in Int /\ d * Day \in Int
      BY <1>1, <1>2
    <3>3. ~(d < e) /\ ~(e < d)
      BY <1>1, <3>1, <3>2, Multiples
    <3> QED
      BY <3>2, <3>3
  <2>3. \A u \in DecisionTimes : \E d \in data.credits : f[d] = u
    BY DEF DecisionTimes
  <2> HIDE DEF f
  <2>4. f \in Bijection(data.credits, DecisionTimes)
    BY <2>1, <2>2, <2>3 DEF Bijection, Injection, Surjection, IsInjective
  <2>5. ExistsBijection(data.credits, DecisionTimes)
    BY <2>4 DEF ExistsBijection
  <2>6. \A d \in data.credits : d <= LastDay
    BY <1>2
  <2>7. data.credits \in SUBSET Nat /\ LastDay \in Nat
    BY <1>2, DaysInOrder
  <2>8. IsFiniteSet(data.credits)
    BY <2>6, <2>7, FS_BoundedSetOfNaturals
  <2> QED
    BY <2>5, <2>8, FS_Bijection
<1>8. Cardinality(DecisionTimes) \in Nat
  BY <1>6, FS_CardinalityType
<1> QED
  BY <1>3, <1>6, <1>7, <1>8 DEF DecisionTimes

LEMMA Counting ==
  ASSUME FixtureTrue, NEW t \in Int
  PROVE  /\ NumBefore(t) \in 0 .. Cardinality(DecisionTimes)
         /\ t \in DecisionTimes => /\ NumBefore(t + 1) = NumBefore(t) + 1
                                   /\ NumBefore(t) < Cardinality(DecisionTimes)
         /\ \A u \in DecisionTimes : u < t => NumBefore(u) < NumBefore(t)
<1> DEFINE Before(v) == {u \in DecisionTimes : u < v}
<1>1. /\ \A u \in DecisionTimes : u \in Int
      /\ IsFiniteSet(DecisionTimes) /\ Cardinality(DecisionTimes) \in Nat
  BY DecisionInstants
<1>2. \A v : NumBefore(v) = Cardinality(Before(v)) /\ Before(v) \in SUBSET DecisionTimes
  BY DEF NumBefore
<1>3. ASSUME NEW v
      PROVE  IsFiniteSet(Before(v)) /\ NumBefore(v) \in 0 .. Cardinality(DecisionTimes)
  <2>1. IsFiniteSet(Before(v)) /\ Cardinality(Before(v)) <= Cardinality(DecisionTimes)
    BY <1>1, <1>2, FS_Subset
  <2>2. Cardinality(Before(v)) \in Nat
    BY <2>1, FS_CardinalityType
  <2> QED
    BY <1>1, <1>2, <2>1, <2>2
<1>4. ASSUME NEW u \in DecisionTimes
      PROVE  NumBefore(u + 1) = NumBefore(u) + 1
  <2>1. Before(u + 1) = Before(u) \cup {u} /\ u \notin Before(u)
    BY <1>1
  <2>2. IsFiniteSet(Before(u))
    BY <1>3
  <2> HIDE DEF Before
  <2>3. Cardinality(Before(u) \cup {u}) = Cardinality(Before(u)) + 1
    BY <2>1, <2>2, FS_AddElement
  <2> QED
    BY <1>2, <2>1, <2>3
<1>5. ASSUME NEW u \in DecisionTimes, u < t
      PROVE  NumBefore(u) < NumBefore(t)
  <2>1. Before(u + 1) \in SUBSET Before(t)
    BY <1>1, <1>5
  <2>2. IsFiniteSet(Before(t))
    BY <1>3
  <2> HIDE DEF Before
  <2>3. Cardinality(Before(u + 1)) <= Cardinality(Before(t))
    BY <2>1, <2>2, FS_Subset
  <2>4. NumBefore(u) \in Int /\ NumBefore(t) \in Int
    BY <1>3
  <2> QED
    BY <1>2, <1>4, <2>3, <2>4
<1>6. t \in DecisionTimes => NumBefore(t) < Cardinality(DecisionTimes)
  <2>1. NumBefore(t + 1) \in 0 .. Cardinality(DecisionTimes)
        /\ NumBefore(t) \in 0 .. Cardinality(DecisionTimes)
    BY <1>3
  <2> QED
    BY <1>1, <1>4, <2>1
<1> QED
  BY <1>3, <1>4, <1>5, <1>6

(* The schedule has the trainings in the order of their decisions.          *)
LEMMA ScheduledAt ==
  ASSUME FixtureTrue, NEW t \in DecisionTimes
  PROVE  /\ NumBefore(t) + 1 \in 1 .. Cardinality(DecisionTimes)
         /\ Schedule[NumBefore(t) + 1] = TrainingAt(t)
<1>1. t \in Int /\ Cardinality(DecisionTimes) \in Nat /\ \A u \in DecisionTimes : u \in Int
  BY DecisionInstants
<1>2. NumBefore(t) \in Nat /\ NumBefore(t) < Cardinality(DecisionTimes)
  BY <1>1, Counting
<1>3. ASSUME NEW u \in DecisionTimes, NumBefore(u) = NumBefore(t)
      PROVE  u = t
  <2>1. u \in Int /\ NumBefore(u) \in Int
    BY <1>1, Counting
  <2>2. ~(u < t) /\ ~(t < u)
    BY <1>1, <1>2, <1>3, <2>1, Counting
  <2> QED
    BY <1>1, <2>1, <2>2
<1>4. PICK k : k = NumBefore(t) + 1
  OBVIOUS
<1>5. k \in 1 .. Cardinality(DecisionTimes) /\ k - 1 = NumBefore(t)
  BY <1>1, <1>2, <1>4
<1>6. Schedule[k] = TrainingAt(CHOOSE u \in DecisionTimes : NumBefore(u) = k - 1)
  BY <1>5 DEF Schedule, NumBefore
<1>7. (CHOOSE u \in DecisionTimes : NumBefore(u) = k - 1) = t
  BY <1>3, <1>5
<1> QED
  BY <1>4, <1>5, <1>6, <1>7

(* The beginning of a sequence, and one more of it.                         *)
IsList(f, N) == f = [k \in 1 .. N |-> f[k]]

LEMMA Prefixes ==
  ASSUME NEW N \in Nat, NEW f, IsList(f, N), NEW n \in 0 .. N, NEW x
  PROVE  /\ Len(SubSeq(f, 1, n)) = n /\ SubSeq(f, 1, n) \in Seq({f[k] : k \in 1 .. N})
         /\ Len(<<x>> \o SubSeq(f, 1, n)) = n + 1
         /\ n = 0 => SubSeq(f, 1, n) = <<>> /\ <<x>> \o SubSeq(f, 1, n) = <<x>>
         /\ n < N => /\ Append(SubSeq(f, 1, n), f[n + 1]) = SubSeq(f, 1, n + 1)
                     /\ Append(<<x>> \o SubSeq(f, 1, n), f[n + 1]) = <<x>> \o SubSeq(f, 1, n + 1)
<1> DEFINE T == {f[k] : k \in 1 .. N}
           U == T \cup {x}
<1>1. f \in Seq(T) /\ f \in Seq(U) /\ Len(f) = N
  BY DEF IsList
<1>2. \A k \in 1 .. N : f[k] \in T /\ f[k] \in U
  OBVIOUS
<1> HIDE DEF T
<1>3. \A m \in 0 .. N : SubSeq(f, 1, m) \in Seq(T) /\ Len(SubSeq(f, 1, m)) = m
                        /\ SubSeq(f, 1, m) \in Seq(U)
                        /\ \A i \in 1 .. m : SubSeq(f, 1, m)[i] = f[i]
  BY <1>1, <1>2
<1> HIDE DEF U
<1>4. <<x>> \in Seq(U) /\ Len(<<x>>) = 1
  BY DEF U
<1>5. n = 0 => SubSeq(f, 1, n) = <<>> /\ <<x>> \o SubSeq(f, 1, n) = <<x>>
  <2>1. \A q \in Seq(U) : Len(q) = 0 => q = <<>>
    OBVIOUS
  <2>2. <<x>> \o <<>> = <<x>>
    BY <1>4
  <2> QED
    BY <1>3, <2>1, <2>2
<1>6. n < N => Append(SubSeq(f, 1, n), f[n + 1]) = SubSeq(f, 1, n + 1)
  BY <1>1, <1>2, <1>3
<1>7. n < N => Append(<<x>> \o SubSeq(f, 1, n), f[n + 1]) = <<x>> \o SubSeq(f, 1, n + 1)
  BY <1>2, <1>3, <1>4, <1>6
<1>8. Len(<<x>> \o SubSeq(f, 1, n)) = n + 1
  BY <1>3, <1>4
<1> QED
  BY <1>3, <1>5, <1>6, <1>7, <1>8 DEF T

LEMMA Models ==
  ASSUME FixtureTrue, NEW t \in Int
  PROVE  /\ Len(ModelBefore(t)) = NumBefore(t) + 1 /\ NumBefore(t) \in Nat
         /\ ModelBefore(t) # <<>>
         /\ NumBefore(t) = 0 => ModelBefore(t) = <<SharedTraining>>
         /\ t \in DecisionTimes => Append(ModelBefore(t), TrainingAt(t)) = ModelBefore(t + 1)
<1>1. NumBefore(t) \in 0 .. Cardinality(DecisionTimes) /\ Cardinality(DecisionTimes) \in Nat
  BY Counting, DecisionInstants
<1>2. IsList(Schedule, Cardinality(DecisionTimes))
  BY DEF Schedule, IsList
<1>3. PICK n \in 0 .. Cardinality(DecisionTimes) : n = NumBefore(t)
  BY <1>1
<1>4. /\ Len(<<SharedTraining>> \o SubSeq(Schedule, 1, n)) = n + 1
      /\ n = 0 => <<SharedTraining>> \o SubSeq(Schedule, 1, n) = <<SharedTraining>>
      /\ n < Cardinality(DecisionTimes) =>
           Append(<<SharedTraining>> \o SubSeq(Schedule, 1, n), Schedule[n + 1])
             = <<SharedTraining>> \o SubSeq(Schedule, 1, n + 1)
  BY <1>1, <1>2, Prefixes
<1>5. /\ Len(ModelBefore(t)) = NumBefore(t) + 1 /\ NumBefore(t) \in Nat
      /\ NumBefore(t) = 0 => ModelBefore(t) = <<SharedTraining>>
  BY <1>3, <1>4 DEF ModelBefore
<1>6. ModelBefore(t) # <<>>
  <2>1. Len(<<>>) = 0
    OBVIOUS
  <2> QED
    BY <1>5, <2>1
<1>7. ASSUME t \in DecisionTimes
      PROVE  Append(ModelBefore(t), TrainingAt(t)) = ModelBefore(t + 1)
  <2>1. n < Cardinality(DecisionTimes) /\ n + 1 = NumBefore(t + 1)
    BY <1>3, <1>7, Counting
  <2>2. Schedule[n + 1] = TrainingAt(t)
    BY <1>3, <1>7, ScheduledAt
  <2> QED
    BY <1>3, <1>4, <2>1, <2>2 DEF ModelBefore
<1> QED
  BY <1>5, <1>6, <1>7

-----------------------------------------------------------------------------
(* The boundaries.                                                          *)

LEMMA Indices ==
  /\ FirstIndex \in Nat /\ SealIndex \in Nat /\ DrainIndex \in Nat
  /\ FirstIndex < SealIndex /\ SealIndex <= DrainIndex
  /\ FirstIndex * Hour = FirstDecisionTime /\ SealIndex * Hour = SealDay * Day
  /\ IsDecision(FirstIndex)
<1>1. /\ FirstDecision \in Nat /\ SealDay \in Nat /\ DrainDay \in Nat /\ LastDay \in Nat
      /\ FirstDecision < SealDay /\ SealDay <= DrainDay /\ FirstDecision <= LastDay
  BY DaysInOrder
<1>2. HoursPerDay \in Nat \ {0} /\ Hour \in Nat /\ Day = HoursPerDay * Hour
  BY Lengths
<1>3. FirstIndex < SealIndex /\ SealIndex <= DrainIndex
  BY <1>1, <1>2, Multiples DEF FirstIndex, SealIndex, DrainIndex
<1>4. FirstIndex \in Nat /\ SealIndex \in Nat /\ DrainIndex \in Nat
  BY <1>1, <1>2 DEF FirstIndex, SealIndex, DrainIndex
<1>5. FirstIndex * Hour = FirstDecisionTime /\ SealIndex * Hour = SealDay * Day
  BY <1>1, <1>2 DEF FirstIndex, SealIndex, FirstDecisionTime
<1>6. IsDecision(FirstIndex)
  <2>1. FirstIndex \in Int /\ FirstIndex = FirstDecision * HoursPerDay /\ FirstDecision \in Int
    BY <1>1, <1>4 DEF FirstIndex
  <2>2. FirstIndex \div HoursPerDay = FirstDecision /\ FirstIndex % HoursPerDay = 0
    BY <1>2, <2>1, ExactQuotient
  <2>6. FirstDecision \in DecisionDays
    BY <1>1 DEF DecisionDays
  <2> QED
    BY <2>2, <2>6 DEF IsDecision
<1> QED
  BY <1>3, <1>4, <1>5, <1>6

LEMMA DecisionBoundaries ==
  ASSUME FixtureTrue, NEW i \in Nat
  PROVE  /\ IsDecision(i) => /\ i * Hour \in DecisionTimes <=> i \div HoursPerDay \in data.credits
                             /\ FirstIndex <= i /\ i < SealIndex
         /\ ~IsDecision(i) => i * Hour \notin DecisionTimes
<1>1. HoursPerDay \in Nat \ {0} /\ Hour \in Nat \ {0} /\ Day = HoursPerDay * Hour
  BY Lengths
<1>2. data.credits \subseteq DecisionDays /\ DecisionDays = FirstDecision .. LastDay
      /\ FirstDecision \in Nat /\ LastDay \in Nat /\ SealDay = LastDay + 1
  BY ClickTimes, DaysInOrder DEF DecisionDays
<1>3. ASSUME NEW d \in DecisionDays
      PROVE  d \in Int /\ d * HoursPerDay \in Int /\ d * Day = (d * HoursPerDay) * Hour
  BY <1>1, <1>2
<1>4. ASSUME NEW d \in DecisionDays, i * Hour = d * Day
      PROVE  IsDecision(i) /\ i \div HoursPerDay = d
  <2>1. i * Hour = (d * HoursPerDay) * Hour /\ d \in Int /\ d * HoursPerDay \in Int
    BY <1>3, <1>4
  <2>2. ~(i < d * HoursPerDay) /\ ~(d * HoursPerDay < i)
    <3>1. i * Hour \in Int
      BY <1>1
    <3>2. i < d * HoursPerDay => i * Hour < (d * HoursPerDay) * Hour
      BY <1>1, <2>1, Multiples
    <3>3. d * HoursPerDay < i => (d * HoursPerDay) * Hour < i * Hour
      BY <1>1, <2>1, Multiples
    <3> QED
      BY <2>1, <3>1, <3>2, <3>3
  <2>3. i = d * HoursPerDay
    BY <2>1, <2>2
  <2>4. i \div HoursPerDay = d /\ i % HoursPerDay = 0
    BY <1>1, <2>1, <2>3, ExactQuotient
  <2> QED
    BY <2>4 DEF IsDecision
<1>5. ASSUME IsDecision(i)
      PROVE  /\ i \div HoursPerDay \in DecisionDays
             /\ i = (i \div HoursPerDay) * HoursPerDay /\ i * Hour = (i \div HoursPerDay) * Day
  <2>1. i \div HoursPerDay \in DecisionDays /\ i % HoursPerDay = 0
    BY <1>5 DEF IsDecision
  <2>2. PICK d \in DecisionDays : d = i \div HoursPerDay
    BY <2>1
  <2>3. i = HoursPerDay * d + 0 /\ d \in Int
    BY <1>1, <1>2, <2>1, <2>2
  <2>4. i = d * HoursPerDay
    BY <1>1, <2>3
  <2> QED
    BY <1>3, <2>2, <2>4
<1>6. ASSUME IsDecision(i)
      PROVE  FirstIndex <= i /\ i < SealIndex
  <2>1. PICK d \in DecisionDays : d = i \div HoursPerDay
    BY <1>5, <1>6
  <2>2. i = d * HoursPerDay /\ d \in Int /\ FirstDecision <= d /\ d < SealDay
    BY <1>2, <1>5, <1>6, <2>1
  <2>3. FirstDecision * HoursPerDay <= d * HoursPerDay /\ d * HoursPerDay < SealDay * HoursPerDay
    BY <1>1, <1>2, <2>2, Multiples
  <2> QED
    BY <2>2, <2>3 DEF FirstIndex, SealIndex
<1>7. i * Hour \in DecisionTimes <=> \E d \in data.credits : i * Hour = d * Day
  BY DEF DecisionTimes
<1>8. ASSUME IsDecision(i)
      PROVE  i * Hour \in DecisionTimes <=> i \div HoursPerDay \in data.credits
  BY <1>2, <1>4, <1>5, <1>7, <1>8
<1> QED
  BY <1>2, <1>4, <1>6, <1>7, <1>8

(* No decision is between two boundaries.                                   *)
LEMMA NextBoundary ==
  ASSUME FixtureTrue, NEW i \in Nat
  PROVE  /\ i * Hour \in Nat /\ (i + 1) * Hour \in Nat
         /\ TimeBefore(i) \in Int /\ TimeBefore(i) < i * Hour /\ TimeBefore(i + 1) = i * Hour
         /\ NumBefore((i + 1) * Hour) = NumBefore(i * Hour + 1)
         /\ i * Hour \notin DecisionTimes => NumBefore(i * Hour + 1) = NumBefore(i * Hour)
<1>1. Hour \in Nat \ {0} /\ i * Hour \in Nat /\ (i + 1) * Hour \in Nat
      /\ (i + 1) * Hour = i * Hour + Hour
  BY Lengths
<1>2. \A u \in DecisionTimes : u \in Nat /\ \E j \in Nat : u = j * Hour
  BY DecisionInstants
<1>3. ASSUME NEW u \in DecisionTimes
      PROVE  u < (i + 1) * Hour <=> u < i * Hour + 1
  <2>1. PICK j \in Nat : u = j * Hour
    BY <1>2
  <2>2. j < i + 1 <=> j * Hour < (i + 1) * Hour
    BY <1>1, Multiples
  <2>3. j <= i <=> j * Hour <= i * Hour
    BY <1>1, Multiples
  <2>4. j * Hour \in Int
    BY <1>1
  <2> QED
    BY <1>1, <2>1, <2>2, <2>3, <2>4
<1>4. {u \in DecisionTimes : u < (i + 1) * Hour} = {u \in DecisionTimes : u < i * Hour + 1}
  BY <1>3
<1>5. ASSUME i * Hour \notin DecisionTimes
      PROVE  {u \in DecisionTimes : u < i * Hour + 1} = {u \in DecisionTimes : u < i * Hour}
  BY <1>1, <1>2, <1>5
<1>6. TimeBefore(i) \in Int /\ TimeBefore(i) < i * Hour /\ TimeBefore(i + 1) = i * Hour
  <2>1. CASE i = 0
    BY <1>1, <2>1 DEF TimeBefore
  <2>2. CASE i # 0
    <3>1. (i - 1) * Hour + Hour = i * Hour /\ (i - 1) * Hour \in Int
      BY <1>1
    <3>2. i + 1 # 0 /\ (i + 1) - 1 = i
      OBVIOUS
    <3> QED
      BY <1>1, <2>2, <3>1, <3>2 DEF TimeBefore
  <2> QED
    BY <2>1, <2>2
<1> QED
  BY <1>1, <1>4, <1>5, <1>6 DEF NumBefore

(* A click's boundary is the first at or after its time, and a click of the *)
(* evaluation is after the initialization.                                  *)
LEMMA BoundaryOfClick ==
  ASSUME FixtureTrue, NEW i \in Nat, NEW c \in Clicks,
         TimeBefore(i) < data.time[c], data.time[c] <= i * Hour
  PROVE  /\ BoundaryOf(c) = i * Hour
         /\ c \in EvaluationClicks => FirstIndex < i
<1>1. Hour \in Nat \ {0} /\ Day \in Nat \ {0} /\ data.time[c] \in Nat /\ i * Hour \in Int
  BY Lengths, ClickTimes
<1>2. BoundaryOf(c) = i * Hour
  <2>1. CASE i = 0
    <3>1. data.time[c] = 0 /\ i * Hour = 0
      BY <1>1, <2>1
    <3>2. PICK a \in Int : a = data.time[c] + Hour - 1
      BY <1>1
    <3>3. 0 * Hour <= a /\ a < 0 * Hour + Hour
      BY <1>1, <3>1, <3>2
    <3>4. a \div Hour = 0
      BY <1>1, <3>3, Quotients
    <3> QED
      BY <2>1, <3>2, <3>4 DEF BoundaryOf
  <2>2. CASE i # 0
    <3>1. (i - 1) * Hour < data.time[c] /\ (i - 1) * Hour + Hour = i * Hour /\ (i - 1) * Hour \in Int
      BY <1>1, <2>2 DEF TimeBefore
    <3>2. PICK a \in Int : a = data.time[c] + Hour - 1
      BY <1>1
    <3>3. i * Hour <= a /\ a < i * Hour + Hour
      BY <1>1, <3>1, <3>2
    <3>4. a \div Hour = i
      BY <1>1, <3>3, Quotients
    <3> QED
      BY <3>2, <3>4 DEF BoundaryOf
  <2> QED
    BY <2>1, <2>2
<1>3. ASSUME c \in EvaluationClicks
      PROVE  FirstIndex < i
  <2>1. ClickDay(c) \in Int /\ FirstDecision < ClickDay(c) /\ FirstDecision \in Int
    BY <1>3, ClickTimes, DaysInOrder DEF EvaluationClicks
  <2>2. FirstDecision * Day < ClickDay(c) * Day /\ ClickDay(c) * Day <= data.time[c]
        /\ FirstDecision * Day \in Int /\ ClickDay(c) * Day \in Int
    BY <1>1, <2>1, ClickTimes, Multiples
  <2>3. FirstIndex * Hour < i * Hour
    BY <1>1, <2>2, Indices DEF FirstDecisionTime
  <2> QED
    BY <1>1, <2>3, Indices, Multiples
<1> QED
  BY <1>2, <1>3

-----------------------------------------------------------------------------
(* The invariant.                                                           *)

LEMMA FixtureKept ==
  ASSUME UNCHANGED fixture
  PROVE  /\ FixtureTrue' <=> FixtureTrue
         /\ DecisionTimes' = DecisionTimes /\ EvaluationClicks' = EvaluationClicks
         /\ Cardinality(data.credits)' = Cardinality(data.credits)
         /\ Cardinality(DecisionTimes)' = Cardinality(DecisionTimes)
         /\ Schedule' = Schedule
         /\ \A t : /\ NumBefore(t)' = NumBefore(t) /\ ModelBefore(t)' = ModelBefore(t)
                   /\ SeedAt(t)' = SeedAt(t)
         /\ \A c : BoundaryOf(c)' = BoundaryOf(c)
         /\ \A s, t : ComponentsAt(s, t)' <=> ComponentsAt(s, t)
<1>1. method' = method /\ data' = data
  BY DEF fixture
<1>2. /\ TrainingClicks' = TrainingClicks /\ DecisionTimes' = DecisionTimes
      /\ EvaluationClicks' = EvaluationClicks
      /\ Packed' = Packed /\ Waits' = Waits /\ Settles' = Settles
  BY <1>1 DEF TrainingClicks, ClickDay, DecisionTimes, EvaluationClicks, Packed, Waits, Settles
<1>3. \A c : /\ AvailableAt(c)' = AvailableAt(c) /\ Converts(c)' = Converts(c)
             /\ Label(c)' = Label(c) /\ ClickDay(c)' = ClickDay(c)
             /\ BoundaryOf(c)' = BoundaryOf(c) /\ Legal(c)' = Legal(c)
  BY <1>1 DEF AvailableAt, Converts, Label, ClickDay, BoundaryOf, Legal
<1>4. \A c : FixedWaitStream(c)' = FixedWaitStream(c) /\ AuxiliaryStream(c)' = AuxiliaryStream(c)
  BY <1>1, <1>3 DEF FixedWaitStream, AuxiliaryStream, Record
<1>5. \A c : Stream(c)' = Stream(c)
  BY <1>1, <1>3, <1>4 DEF Stream, Record
<1>6. Promised' = Promised
  BY <1>2, <1>3, <1>5 DEF Promised
<1>7. \A t, kinds : LegalAt(t, kinds)' = LegalAt(t, kinds)
  BY <1>6 DEF LegalAt
<1>8. \A rs : OfFirstDay(rs)' = OfFirstDay(rs)
  BY <1>1 DEF OfFirstDay, ClickDay
<1>9. \A t : ExamplesAt(t)' = ExamplesAt(t)
  BY <1>1, <1>3, <1>7 DEF ExamplesAt, Record, Kinds
<1>10. \A t : TrainingAt(t)' = TrainingAt(t)
  BY <1>7, <1>9 DEF TrainingAt, FirstDecisionTime
<1>11. SharedTraining' = SharedTraining
  BY <1>1, <1>3, <1>7, <1>8 DEF SharedTraining, Record, FirstDecisionTime, Clicks
<1>12. \A t : NumBefore(t)' = NumBefore(t)
  BY <1>2 DEF NumBefore
<1>13. Schedule' = Schedule
  BY <1>2, <1>10 DEF Schedule
<1>14. \A t : ModelBefore(t)' = ModelBefore(t)
  BY <1>11, <1>12, <1>13 DEF ModelBefore
<1>15. \A t : SeedAt(t)' = SeedAt(t)
  BY <1>1, <1>3 DEF SeedAt, Record, Clicks
<1>16. \A lag, t : Reached(lag, t)' = Reached(lag, t)
  BY <1>1, <1>2 DEF Reached
<1>17. \A t : OutcomesAt(t)' = OutcomesAt(t)
  BY <1>2, <1>3 DEF OutcomesAt, Clicks
<1>18. \A s, t : CursorsAt(s, t)' <=> CursorsAt(s, t)
  BY <1>2, <1>16 DEF CursorsAt, IsCursor, Wait, Window
<1>19. \A s, t : StoresAt(s, t)' <=> StoresAt(s, t)
  BY <1>7 DEF StoresAt, Kinds
<1>20. \A s, t : ComponentsAt(s, t)' <=> ComponentsAt(s, t)
  BY <1>17, <1>18, <1>19 DEF ComponentsAt, IsState
<1>21. FixtureTrue' <=> FixtureTrue
  BY <1>1 DEF FixtureTrue
<1> QED
  BY <1>1, <1>2, <1>3, <1>12, <1>13, <1>14, <1>15, <1>20, <1>21

LEMMA Initially == Init => IInv
<1> SUFFICES ASSUME Init PROVE IInv
  OBVIOUS
<1>1. /\ FixtureTrue /\ pc = "predict" /\ next = 0 /\ state = Fresh /\ seed = {}
      /\ predictions = [c \in {} |-> <<>>] /\ exposures = <<>> /\ sealed = {}
      /\ checkpoint = NoCheckpoint
  BY DEF Init, FixtureTrue
<1>2. Waiting /\ ~Working /\ FirstIndex \in Nat /\ 0 <= FirstIndex /\ SealIndex \in Nat
  BY <1>1, Indices DEF Waiting, Working
<1>3. \A c \in Clicks : /\ data.time[c] \in Nat /\ AvailableAt(c) \in Nat
                        /\ Wait \in Nat /\ Window \in Nat
  BY <1>1, ClickTimes, Availability, Lengths
<1>4. /\ state.lastTime = -1 /\ state.model = <<>> /\ IsState(state)
      /\ state.clickCursor = 0 /\ state.dueCursor = 0 /\ state.maturityCursor = 0
      /\ state.outcome = [c \in Clicks |-> "unresolved"]
      /\ state.main = {} /\ state.qtn = {} /\ state.qdp = {}
  BY <1>1 DEF Fresh, IsState
<1>5. /\ Reached(0, -1) = {} /\ Reached(Wait, -1) = {} /\ Reached(Window, -1) = {}
      /\ SeedAt(-1) = {} /\ \A c \in Clicks : ~(AvailableAt(c) <= -1)
  BY <1>3 DEF Reached, TrainingClicks, SeedAt, Legal
<1>6. CursorsAt(state, -1)
  <2>1. IsCursor(0, {})
    BY DEF IsCursor
  <2> QED
    BY <1>4, <1>5, <2>1 DEF CursorsAt
<1>7. state.outcome = OutcomesAt(-1)
  BY <1>4, <1>5 DEF OutcomesAt
<1>8. \A kinds : LegalAt(-1, kinds) = {}
  <2>1. SUFFICES ASSUME NEW c \in Legal(TrainingClicks), NEW r \in Stream(c) PROVE ~(r.at <= -1)
    BY DEF LegalAt, Promised
  <2>2. /\ data.time[c] \in Nat /\ AvailableAt(c) \in Nat
        /\ data.time[c] + Wait \in Nat /\ data.time[c] + Window \in Nat
    BY <1>3 DEF Legal, TrainingClicks
  <2>3. r.at \in {data.time[c], AvailableAt(c), data.time[c] + Wait, data.time[c] + Window}
    <3>1. r \in FixedWaitStream(c) \/ r \in AuxiliaryStream(c) =>
            r.at \in {data.time[c], AvailableAt(c), data.time[c] + Wait, data.time[c] + Window}
      BY RecordFields DEF FixedWaitStream, AuxiliaryStream
    <3> QED
      BY <3>1, RecordFields DEF Stream
  <2> QED
    BY <2>2, <2>3
<1>9. ComponentsAt(state, -1)
  BY <1>4, <1>6, <1>7, <1>8 DEF ComponentsAt, StoresAt
<1>10. Placed /\ Settled
  BY <1>1, <1>2, <1>4, <1>9 DEF Placed, Settled, TimeBefore, Waiting, Working
<1>11. Trained
  BY <1>1, <1>2, <1>4, <1>5 DEF Trained, Untrained
<1>12. Recorded
  <2>1. DOMAIN predictions = {} /\ Len(exposures) = 0
    BY <1>1
  <2>2. Cardinality(DecisionTimes) \in Nat
    BY <1>1, DecisionInstants
  <2>3. SubSeq(Schedule, 1, 0) = <<>>
    <3>1. IsList(Schedule, Cardinality(DecisionTimes))
      BY DEF Schedule, IsList
    <3> QED
      BY <2>2, <3>1, Prefixes
  <2> QED
    BY <1>1, <2>1, <2>2, <2>3 DEF Recorded
<1>13. Saved
  BY <1>1 DEF Saved
<1> QED
  BY <1>1, <1>10, <1>11, <1>12, <1>13 DEF IInv

LEMMA Facts ==
  ASSUME IInv
  PROVE  /\ FixtureTrue /\ next \in Nat /\ Boundary \in Nat /\ state.lastTime \in Int
         /\ Len(exposures) \in Nat /\ IsState(state)
         /\ Cardinality(DecisionTimes) = Cardinality(data.credits)
         /\ Cardinality(DecisionTimes) \in Nat
<1>1. FixtureTrue /\ next \in Nat /\ state.lastTime \in Int /\ IsState(state)
  BY DEF IInv, Placed, Settled, ComponentsAt
<1>2. Boundary \in Nat
  BY <1>1, Lengths DEF Boundary
<1>3. /\ Cardinality(DecisionTimes) = Cardinality(data.credits)
      /\ Cardinality(DecisionTimes) \in Nat
  BY <1>1, DecisionInstants
<1>4. Len(exposures) \in Nat
  BY <1>3 DEF IInv, Recorded
<1> QED
  BY <1>1, <1>2, <1>3, <1>4

(* The components, the checkpoint and the ledgers, as long as they are not  *)
(* changed.                                                                 *)
LEMMA Unchanged ==
  ASSUME IInv, UNCHANGED fixture
  PROVE  /\ FixtureTrue'
         /\ UNCHANGED state => (state.lastTime \in Int /\ ComponentsAt(state, state.lastTime))'
         /\ UNCHANGED <<exposures, sealed, checkpoint>> => Saved'
         /\ (UNCHANGED disk /\ (pc' = "done" => "primary" \in sealed)) => Recorded'
<1>1. UNCHANGED state => (state.lastTime \in Int /\ ComponentsAt(state, state.lastTime))'
  BY FixtureKept DEF IInv, Settled
<1>2. UNCHANGED <<exposures, sealed, checkpoint>> => Saved'
  BY FixtureKept DEF IInv, Saved, NoCheckpoint, FirstIndex, SealIndex, TimeBefore
<1>3. ASSUME UNCHANGED disk, pc' = "done" => "primary" \in sealed
      PROVE  Recorded'
  BY <1>3, FixtureKept DEF IInv, Recorded, disk
<1> QED
  BY <1>1, <1>2, <1>3, FixtureKept DEF IInv

(* The run stops.                                                           *)
LEMMA Halts ==
  ASSUME IInv, UNCHANGED <<fixture, next, state, seed, disk>>,
         ~Waiting', ~Working', pc' = "done" => "primary" \in sealed
  PROVE  IInv'
<1>1. FixtureTrue' /\ Saved' /\ Recorded'
  BY Unchanged DEF disk
<1>2. pc' \notin {"process", "initialize", "decide", "seal primary", "seal exposures", "save"}
  BY DEF Waiting, Working
<1>3. Placed'
  BY <1>2, Facts DEF Placed
<1>4. Settled'
  BY Unchanged DEF Settled
<1>5. Trained'
  BY DEF Trained
<1> QED
  BY <1>1, <1>3, <1>4, <1>5 DEF IInv

LEMMA Stops ==
  ASSUME IInv, UNCHANGED <<fixture, next, state, seed, disk>>,
         pc' \in {"insufficient", "failed", "down", "refused", "stuck"}
  PROVE  IInv'
<1>1. ~Waiting' /\ ~Working' /\ pc' # "done"
  BY DEF Waiting, Working
<1> QED
  BY <1>1, Halts

LEMMA FinishKept == ASSUME IInv, Finish PROVE IInv'
<1>1. pc = "predict" /\ next > DrainIndex /\ UNCHANGED <<fixture, next, state, seed, disk>>
      /\ pc' \in {"done", "failed"}
  BY DEF Finish, DrainIndex
<1>2. next > SealIndex /\ Waiting
  BY <1>1, Facts, Indices DEF Waiting
<1>3. "primary" \in sealed
  BY <1>2 DEF IInv, Placed
<1>4. ~Waiting' /\ ~Working'
  BY <1>1 DEF Waiting, Working
<1> QED
  BY <1>1, <1>3, <1>4, Halts

(* Where the process waits for a boundary, it can process it.               *)
LEMMA CanProcess ==
  ASSUME IInv, Waiting
  PROVE  AtProcess /\ state.lastTime = TimeBefore(next)
<1>1. TimeBefore(next) < next * Hour
  BY Facts, NextBoundary
<1> QED
  BY <1>1, Facts DEF AtProcess, IInv, Settled, Boundary

(* An evaluation click arrives at its boundary, to the model of then.       *)
LEMMA ArrivingModel ==
  ASSUME IInv, pc = "predict", NEW c \in Arriving, c \in EvaluationClicks
  PROVE  state.model = ModelBefore(BoundaryOf(c))
<1>1. Waiting
  BY DEF Waiting
<1>2. AtProcess /\ state.lastTime = TimeBefore(next)
  BY <1>1, CanProcess
<1>3. c \in Falling(0)
  BY <1>2, CursorsKept
<1>4. c \in Clicks /\ data.time[c] + 0 = data.time[c]
  BY <1>3, Facts, ClickTimes DEF Falling, Between, TrainingClicks
<1>5. TimeBefore(next) < data.time[c] /\ data.time[c] <= next * Hour
  BY <1>2, <1>3, <1>4 DEF Falling, Between, Boundary
<1>6. BoundaryOf(c) = next * Hour /\ FirstIndex < next
  BY <1>4, <1>5, Facts, BoundaryOfClick
<1>7. ~Untrained /\ Horizon = Boundary
  BY <1>6, Facts, Indices DEF Untrained, Horizon
<1>8. state.model = ModelBefore(Horizon)
  BY <1>1, <1>7 DEF IInv, Trained
<1> QED
  BY <1>6, <1>7, <1>8 DEF Boundary

LEMMA PredictKept == ASSUME IInv, Predict PROVE IInv'
<1> DEFINE refs == IF "primary" \in sealed THEN {} ELSE Arriving \cap EvaluationClicks
<1>1. CASE Fail
  <2>1. UNCHANGED <<fixture, next, state, seed, disk>> /\ pc' = "failed"
    BY <1>1 DEF Predict, Fail, disk
  <2> QED
    BY <2>1, Stops
<1>2. ASSUME ~Fail
      PROVE  /\ predictions' = [c \in DOMAIN predictions \cup refs |->
                                 IF c \in refs THEN state.model ELSE predictions[c]]
             /\ pc = "predict" /\ pc' = "process" /\ next <= DrainIndex
             /\ UNCHANGED <<fixture, next, state, seed, exposures, sealed, checkpoint>>
  BY <1>2 DEF Predict, DrainIndex
<1>3. CASE ~Fail
  <2>1. /\ predictions' = [c \in DOMAIN predictions \cup refs |->
                            IF c \in refs THEN state.model ELSE predictions[c]]
        /\ pc = "predict" /\ pc' = "process" /\ next <= DrainIndex
        /\ UNCHANGED <<fixture, next, state, seed, exposures, sealed, checkpoint>>
    BY <1>2, <1>3
  <2>2. Waiting /\ Waiting' /\ ~Working'
    BY <2>1 DEF Waiting, Working
  <2>3. FixtureTrue' /\ Saved'
    BY <2>1, Unchanged
  <2>4. Placed'
    BY <2>1, <2>2, Facts DEF IInv, Placed, DrainIndex, SealIndex
  <2>5. Settled'
    <3>1. (state.lastTime \in Int /\ ComponentsAt(state, state.lastTime))'
      BY <2>1, Unchanged
    <3>2. state.lastTime' = TimeBefore(next)'
      BY <2>1, <2>2 DEF IInv, Settled, TimeBefore
    <3> QED
      BY <2>2, <3>1, <3>2 DEF Settled
  <2>6. Trained'
    <3>1. Horizon' = Horizon /\ (Untrained' <=> Untrained)
      BY <2>1, <2>2 DEF Horizon, Boundary, Untrained, FirstIndex
    <3>2. PICK h, t : h = Horizon /\ t = state.lastTime
      OBVIOUS
    <3>3. IF Untrained THEN state.model = <<>> /\ seed = SeedAt(t)
          ELSE state.model = ModelBefore(h) /\ NumBefore(h) <= Len(exposures)
      BY <2>2, <3>2 DEF IInv, Trained
    <3>4. h = Horizon' /\ t = state'.lastTime
      BY <2>1, <3>1, <3>2
    <3> QED
      BY <2>1, <2>2, <3>1, <3>3, <3>4, FixtureKept DEF Trained
  <2>7. ASSUME NEW c \in refs
        PROVE  c \in EvaluationClicks /\ state.model = ModelBefore(BoundaryOf(c))
    <3>1. c \in Arriving /\ c \in EvaluationClicks
      BY <2>7
    <3> QED
      BY <2>1, <3>1, ArrivingModel
  <2>8. Recorded'
    <3>1. DOMAIN predictions' = DOMAIN predictions \cup refs
      BY <2>1
    <3>2. \A c \in DOMAIN predictions' : predictions'[c] = ModelBefore(BoundaryOf(c))
      BY <2>1, <2>7, <3>1 DEF IInv, Recorded
    <3>3. DOMAIN predictions' \subseteq EvaluationClicks
      BY <2>7, <3>1 DEF IInv, Recorded
    <3>4. "primary" \in sealed => DOMAIN predictions' = DOMAIN predictions
      BY <3>1
    <3> HIDE DEF refs
    <3>5. /\ \A c \in DOMAIN predictions' : predictions'[c] = ModelBefore(BoundaryOf(c))'
          /\ DOMAIN predictions' \subseteq EvaluationClicks'
      BY <2>1, <3>2, <3>3, FixtureKept
    <3> QED
      BY <2>1, <3>4, <3>5, FixtureKept DEF IInv, Recorded
  <2> QED
    BY <2>3, <2>4, <2>5, <2>6, <2>8 DEF IInv
<1> QED
  BY <1>1, <1>3

(* The components after the truth of a boundary.                            *)
LEMMA ProcessComponents ==
  ASSUME IInv, ProcessBoundary, ~ProcessRefused
  PROVE  /\ AtProcess /\ state.lastTime = TimeBefore(next)
         /\ ComponentsAt(state', Boundary) /\ state'.model = state.model
         /\ state'.observed = state.observed \cup (Truth \cap data.monitored)
         /\ state'.truthEvents = state.truthEvents + Cardinality(Truth)
         /\ state'.evidenceDay = state.evidenceDay
<1>1. pc = "process" /\ Waiting
  BY DEF ProcessBoundary, Waiting
<1>2. AtProcess /\ state.lastTime = TimeBefore(next) /\ IsState(state)
  <2>1. TimeBefore(next) < next * Hour
    BY Facts, NextBoundary
  <2> QED
    BY <1>1, <2>1, Facts DEF AtProcess, IInv, Settled, Boundary
<1>3. PICK observed, events : /\ observed = state.observed \cup (Truth \cap data.monitored)
                              /\ events = state.truthEvents + Cardinality(Truth)
  OBVIOUS
<1>4. PICK main, qtn, qdp : /\ main = state.main \cup Pending
                            /\ qtn = state.qtn \cup NegativeTargets
                            /\ qdp = state.qdp \cup DelayTargets
  OBVIOUS
<1>5. PICK clicks, due, mature, outcomes, t :
        clicks = ClickCursor /\ due = DueCursor /\ mature = MaturityCursor
        /\ outcomes = Outcomes /\ t = Boundary
  OBVIOUS
<1>6. state' = [state EXCEPT
        !.clickCursor = clicks, !.dueCursor = due, !.maturityCursor = mature, !.lastTime = t,
        !.outcome = outcomes, !.main = main, !.qtn = qtn, !.qdp = qdp,
        !.observed = observed, !.truthEvents = events]
  BY <1>3, <1>4, <1>5 DEF ProcessBoundary
<1>7. state' = [clickCursor |-> clicks, dueCursor |-> due, maturityCursor |-> mature,
                lastTime |-> t, outcome |-> outcomes, main |-> main, qtn |-> qtn, qdp |-> qdp,
                observed |-> observed, evidenceDay |-> state.evidenceDay,
                truthEvents |-> events, model |-> state.model]
  BY <1>2, <1>6 DEF IsState
<1>8. PICK s : s = state'
  OBVIOUS
<1>9. /\ s.clickCursor = clicks /\ s.dueCursor = due /\ s.maturityCursor = mature
      /\ s.lastTime = t /\ s.outcome = outcomes /\ s.main = main /\ s.qtn = qtn /\ s.qdp = qdp
      /\ s.model = state.model /\ IsState(s)
      /\ s.observed = observed /\ s.truthEvents = events /\ s.evidenceDay = state.evidenceDay
  BY <1>7, <1>8 DEF IsState
<1>10. CursorsAt(s, t)
  BY <1>2, <1>5, <1>9, CursorsKept DEF CursorsAt
<1>11. s.outcome = OutcomesAt(t)
  BY <1>2, <1>5, <1>9, OutcomesKept
<1>12. StoresAt(s, t)
  BY <1>2, <1>4, <1>5, <1>9, StoresKept DEF StoresAt
<1> QED
  BY <1>2, <1>3, <1>5, <1>8, <1>9, <1>10, <1>11, <1>12 DEF ComponentsAt

(* The run goes on from a boundary.                                         *)
LEMMA PlaceIs ==
  ASSUME FixtureTrue, NEW i \in Nat
  PROVE  PlaceAfter(i) = IF i = FirstIndex THEN "initialize"
                         ELSE IF IsDecision(i) THEN "decide"
                         ELSE IF i = SealIndex THEN "seal primary" ELSE "predict"
<1>1. PlaceAfter(i) = CASE i = FirstIndex -> "initialize"
                        [] i # FirstIndex /\ IsDecision(i) -> "decide"
                        [] i = SealIndex -> "seal primary"
                        [] OTHER -> "predict"
  BY DEF PlaceAfter, FirstIndex, SealIndex
<1>2. i = SealIndex => i # FirstIndex /\ ~IsDecision(i)
  BY Indices, DecisionBoundaries
<1>3. CASE i = FirstIndex
  BY <1>1, <1>2, <1>3
<1>4. CASE i # FirstIndex /\ IsDecision(i)
  BY <1>1, <1>2, <1>4
<1>5. CASE i = SealIndex
  BY <1>1, <1>2, <1>5
<1>6. CASE i # FirstIndex /\ ~IsDecision(i) /\ i # SealIndex
  BY <1>1, <1>6
<1> QED
  BY <1>2, <1>3, <1>4, <1>5, <1>6

LEMMA ProcessKept == ASSUME IInv, ProcessBoundary PROVE IInv'
<1>1. CASE ProcessRefused
  <2>1. UNCHANGED <<fixture, next, state, seed, disk>> /\ pc' = "failed"
    BY <1>1 DEF ProcessBoundary, Fail, disk
  <2> QED
    BY <2>1, Stops
<1>2. CASE ~ProcessRefused
  <2>1. /\ pc = "process" /\ pc' = PlaceAfter(next)
        /\ seed' = (IF state.model = <<>> THEN seed \cup AtSeed ELSE seed)
        /\ next' = (IF PlaceAfter(next) = "predict" THEN next + 1 ELSE next)
        /\ UNCHANGED <<fixture, disk>>
    BY <1>2 DEF ProcessBoundary
  <2>2. /\ AtProcess /\ state.lastTime = TimeBefore(next)
        /\ ComponentsAt(state', Boundary) /\ state'.model = state.model
    BY <1>2, ProcessComponents
  <2>3. Waiting /\ FixtureTrue /\ next \in Nat
    BY <2>1, Facts DEF Waiting
  <2>4. FixtureTrue' /\ Saved'
    BY <2>1, Unchanged DEF disk
  <2>5. FirstIndex \in Nat /\ SealIndex \in Nat /\ FirstIndex < SealIndex
        /\ IsDecision(FirstIndex)
    BY Indices
  <2>6. /\ IsDecision(next) => FirstIndex <= next /\ next < SealIndex
        /\ ~IsDecision(next) => next * Hour \notin DecisionTimes
    BY <2>3, DecisionBoundaries
  <2>7. PlaceAfter(next) = IF next = FirstIndex THEN "initialize"
                           ELSE IF IsDecision(next) THEN "decide"
                           ELSE IF next = SealIndex THEN "seal primary" ELSE "predict"
    BY <2>3, PlaceIs
  <2>8. pc' \in {"initialize", "decide", "seal primary", "predict"}
    BY <2>1, <2>7
  <2>9. Recorded'
    BY <2>1, <2>8, Unchanged
  <2>10. Placed'
    <3>1. next > SealIndex => "primary" \in sealed
      BY <2>3 DEF IInv, Placed
    <3>2. pc' = "predict" => next' = next + 1 /\ ~IsDecision(next) /\ next # SealIndex
      BY <2>1, <2>5, <2>7
    <3>3. pc' = "predict" /\ next' > SealIndex => "primary" \in sealed
      BY <2>3, <2>5, <3>1, <3>2
    <3>4. pc' # "predict" => next' = next
      BY <2>1
    <3>5. pc' = "decide" => IsDecision(next')
      BY <2>1, <2>7, <3>4
    <3>6. /\ pc' = "initialize" => next' = FirstIndex
          /\ pc' = "seal primary" => next' = SealIndex
          /\ next' \in Nat /\ sealed' = sealed
      <4>1. pc' = "initialize" => next = FirstIndex
        BY <2>1, <2>7
      <4>2. pc' = "seal primary" => next = SealIndex
        BY <2>1, <2>7
      <4>3. next' \in Nat /\ sealed' = sealed
        BY <2>1, <2>3, <3>2, <3>4 DEF disk
      <4> QED
        BY <3>4, <4>1, <4>2, <4>3
    <3>7. /\ next' \in Nat /\ pc' \notin {"process", "save", "seal exposures"}
          /\ Waiting' <=> pc' = "predict"
      BY <2>8, <3>6 DEF Waiting
    <3>8. IsDecision(next)' <=> IsDecision(next')
      BY DEF IsDecision, DecisionDays
    <3> QED
      BY <2>8, <3>3, <3>5, <3>6, <3>7, <3>8 DEF Placed, FirstIndex, SealIndex
  <2>11. state.lastTime' = Boundary /\ (pc' = "predict" => Boundary = TimeBefore(next'))
    <3>1. state'.lastTime = Boundary
      BY <2>2 DEF ComponentsAt
    <3>2. pc' = "predict" => next' = next + 1
      BY <2>1
    <3>3. TimeBefore(next + 1) = next * Hour
      BY <2>3, NextBoundary
    <3> QED
      BY <3>1, <3>2, <3>3 DEF Boundary
  <2>12. Settled'
    <3>1. ComponentsAt(state, state.lastTime)'
      <4>1. PICK t : t = Boundary
        OBVIOUS
      <4>2. ComponentsAt(state', t) /\ state'.lastTime = t
        BY <2>2, <2>11, <4>1
      <4> QED
        BY <2>1, <4>2, FixtureKept
    <3>2. state'.lastTime \in Int
      BY <2>2, <2>11 DEF AtProcess
    <3>3. Waiting' => pc' = "predict"
      BY <2>8 DEF Waiting
    <3>4. Working' => Boundary' = Boundary
      BY <2>1, <2>8 DEF Working, Boundary
    <3>5. TimeBefore(next)' = TimeBefore(next')
      BY DEF TimeBefore
    <3> QED
      BY <2>11, <3>1, <3>2, <3>3, <3>4, <3>5 DEF Settled
  <2>13. Trained'
    <3>1. CASE next <= FirstIndex
      <4>1. Untrained
        BY <2>3, <3>1 DEF Untrained
      <4>2. state.model = <<>> /\ seed = SeedAt(state.lastTime)
        BY <2>3, <4>1 DEF IInv, Trained
      <4>3. state'.model = <<>> /\ seed' = SeedAt(Boundary)
        BY <2>1, <2>2, <4>2, SeedKept
      <4>4. Untrained'
        <5>1. next < FirstIndex => ~IsDecision(next) /\ next # SealIndex
          BY <2>3, <2>5, <2>6
        <5>2. next < FirstIndex => pc' = "predict" /\ next' = next + 1
          BY <2>1, <2>3, <2>5, <2>7, <5>1
        <5>3. next = FirstIndex => pc' = "initialize"
          BY <2>1, <2>7
        <5>4. (pc' = "predict" /\ next' <= FirstIndex) \/ pc' = "initialize"
          BY <2>3, <2>5, <3>1, <5>2, <5>3
        <5> QED
          BY <5>4 DEF Untrained, Waiting, FirstIndex
      <4>5. SeedAt(state.lastTime)' = SeedAt(Boundary)
        BY <2>1, <2>11, FixtureKept
      <4> QED
        BY <4>3, <4>4, <4>5 DEF Trained
    <3>2. CASE ~(next <= FirstIndex)
      <4>1. ~Untrained /\ Horizon = Boundary
        BY <2>1, <3>2 DEF Untrained, Horizon
      <4>2. state.model = ModelBefore(Boundary) /\ NumBefore(Boundary) <= Len(exposures)
        BY <2>3, <4>1 DEF IInv, Trained
      <4>3. pc' # "initialize" /\ ~(next' <= FirstIndex)
        <5>1. next # FirstIndex /\ ~(next + 1 <= FirstIndex)
          BY <2>3, <2>5, <3>2
        <5>2. pc' # "initialize"
          BY <2>1, <2>7, <5>1
        <5>3. next' = next \/ next' = next + 1
          BY <2>1
        <5> QED
          BY <3>2, <5>1, <5>2, <5>3
      <4>4. NumBefore(Horizon') = NumBefore(Boundary)
        <5>1. CASE pc' = "predict"
          <6>3. next' = next + 1 /\ pc' # "save"
            BY <2>1, <5>1
          <6>1. Horizon' = (next + 1) * Hour
            BY <6>3 DEF Horizon, Boundary
          <6>2. ~IsDecision(next)
            BY <2>1, <2>5, <2>7, <5>1
          <6> QED
            BY <2>3, <2>6, <6>1, <6>2, NextBoundary DEF Boundary
        <5>2. CASE pc' # "predict"
          <6>1. Horizon' = Boundary
            BY <2>1, <2>8, <5>2 DEF Horizon, Boundary
          <6> QED
            BY <6>1
        <5> QED
          BY <5>1, <5>2
      <4>5. ModelBefore(Horizon') = ModelBefore(Boundary)
        BY <4>4 DEF ModelBefore
      <4>6. PICK h : h = Horizon'
        OBVIOUS
      <4>7. state'.model = ModelBefore(h) /\ NumBefore(h) <= Len(exposures)
        BY <2>2, <4>2, <4>4, <4>5, <4>6
      <4>8. (state.model = ModelBefore(Horizon) /\ NumBefore(Horizon) <= Len(exposures))'
        BY <2>1, <4>6, <4>7, FixtureKept DEF disk
      <4>9. ~Untrained'
        BY <4>3 DEF Untrained, FirstIndex
      <4> QED
        BY <4>8, <4>9 DEF Trained
    <3> QED
      BY <3>1, <3>2
  <2> QED
    BY <2>4, <2>9, <2>10, <2>12, <2>13 DEF IInv
<1> QED
  BY <1>1, <1>2

(* The model and the evidence change nothing else of the components.        *)
LEMMA BesideComponents ==
  ASSUME NEW s, NEW t, ComponentsAt(s, t), NEW m, NEW d, NEW v,
         v = [clickCursor |-> s.clickCursor, dueCursor |-> s.dueCursor,
              maturityCursor |-> s.maturityCursor, lastTime |-> s.lastTime,
              outcome |-> s.outcome, main |-> s.main, qtn |-> s.qtn, qdp |-> s.qdp,
              observed |-> s.observed, evidenceDay |-> d,
              truthEvents |-> s.truthEvents, model |-> m]
  PROVE  ComponentsAt(v, t) /\ v.model = m
<1>1. /\ v.clickCursor = s.clickCursor /\ v.dueCursor = s.dueCursor
      /\ v.maturityCursor = s.maturityCursor /\ v.lastTime = s.lastTime
      /\ v.outcome = s.outcome /\ v.main = s.main /\ v.qtn = s.qtn /\ v.qdp = s.qdp
      /\ v.model = m /\ IsState(v)
  BY DEF IsState
<1> QED
  BY <1>1 DEF ComponentsAt, CursorsAt, StoresAt

LEMMA ModelOnly ==
  ASSUME NEW s, NEW t, ComponentsAt(s, t), NEW m, NEW v, v = [s EXCEPT !.model = m]
  PROVE  ComponentsAt(v, t) /\ v.model = m
<1>1. IsState(s)
  BY DEF ComponentsAt
<1>2. v = [clickCursor |-> s.clickCursor, dueCursor |-> s.dueCursor,
           maturityCursor |-> s.maturityCursor, lastTime |-> s.lastTime,
           outcome |-> s.outcome, main |-> s.main, qtn |-> s.qtn, qdp |-> s.qdp,
           observed |-> s.observed, evidenceDay |-> s.evidenceDay,
           truthEvents |-> s.truthEvents, model |-> m]
  BY <1>1 DEF IsState
<1> QED
  BY <1>2, BesideComponents

LEMMA DayOnly ==
  ASSUME NEW s, NEW t, ComponentsAt(s, t), NEW d, NEW v, v = [s EXCEPT !.evidenceDay = d]
  PROVE  ComponentsAt(v, t) /\ v.model = s.model
<1>1. IsState(s)
  BY DEF ComponentsAt
<1>2. v = [clickCursor |-> s.clickCursor, dueCursor |-> s.dueCursor,
           maturityCursor |-> s.maturityCursor, lastTime |-> s.lastTime,
           outcome |-> s.outcome, main |-> s.main, qtn |-> s.qtn, qdp |-> s.qdp,
           observed |-> s.observed, evidenceDay |-> d,
           truthEvents |-> s.truthEvents, model |-> s.model]
  BY <1>1 DEF IsState
<1> QED
  BY <1>2, BesideComponents

(* The seed is the mature first day, and so is what the auxiliary pools     *)
(* have of it.                                                              *)
LEMMA SharedIs ==
  ASSUME FixtureTrue
  PROVE  SeedAt(FirstDecisionTime) = SharedTraining.main
<1>1. ASSUME NEW c \in Clicks, ClickDay(c) = 0
      PROVE  data.time[c] + Window <= FirstDecisionTime
  <2>1. data.time[c] < Day
    BY <1>1, TrainingTimes
  <2>2. data.time[c] \in Nat /\ Day \in Nat /\ Window \in Nat /\ FirstDecisionTime = Window + Day
    BY ClickTimes, Lengths
  <2> QED
    BY <2>1, <2>2
<1>2. SharedTraining.main = {Record(c, "final", Label(c), data.time[c] + Window) :
                               c \in {b \in Legal(Clicks) : ClickDay(b) = 0}}
  BY DEF SharedTraining
<1> QED
  BY <1>1, <1>2 DEF SeedAt, Legal

LEMMA InitializeKept == ASSUME IInv, Initialize PROVE IInv'
<1> DEFINE qtn == OfFirstDay(state.qtn)
           qdp == OfFirstDay(state.qdp)
<1>1. pc = "initialize" /\ UNCHANGED <<fixture, next, disk>>
  BY DEF Initialize, Insufficient
<1>2. \/ /\ UNCHANGED <<state, seed>> /\ pc' = "insufficient"
      \/ /\ state' = [state EXCEPT !.model = <<Training(seed, qtn, qdp)>>]
         /\ pc' = "decide"
  BY DEF Initialize, Insufficient
<1>3. CASE UNCHANGED <<state, seed>> /\ pc' = "insufficient"
  BY <1>1, <1>3, Stops
<1>4. CASE state' = [state EXCEPT !.model = <<Training(seed, qtn, qdp)>>] /\ pc' = "decide"
  <2>1. /\ FixtureTrue /\ next = FirstIndex /\ Boundary = FirstDecisionTime
        /\ state.lastTime = Boundary /\ ComponentsAt(state, state.lastTime)
        /\ seed = SeedAt(state.lastTime)
    BY <1>1, Indices DEF IInv, Placed, Settled, Trained, Waiting, Working, Untrained, Boundary
  <2>2. Training(seed, qtn, qdp) = SharedTraining
    <3>1. seed = SharedTraining.main
      BY <2>1, SharedIs
    <3>2. state.qtn = LegalAt(FirstDecisionTime, {"q_tn"})
          /\ state.qdp = LegalAt(FirstDecisionTime, {"q_dp"})
      BY <2>1 DEF ComponentsAt, StoresAt
    <3>3. SharedTraining = [at |-> FirstDecisionTime, main |-> SharedTraining.main,
                            qtn |-> qtn, qdp |-> qdp]
      BY <3>2 DEF SharedTraining
    <3> QED
      BY <2>1, <3>1, <3>3 DEF Training
  <2>3. PICK t : t = Boundary
    OBVIOUS
  <2>4. ComponentsAt(state', t) /\ state'.model = <<SharedTraining>>
    <3>1. PICK m, v : m = <<SharedTraining>> /\ v = state'
      OBVIOUS
    <3>2. ComponentsAt(state, t) /\ v = [state EXCEPT !.model = m]
      BY <1>4, <2>1, <2>2, <2>3, <3>1
    <3>3. ComponentsAt(v, t) /\ v.model = m
      BY <3>2, ModelOnly
    <3> QED
      BY <3>1, <3>3
  <2>5. NumBefore(Boundary) = 0 /\ ModelBefore(Boundary) = <<SharedTraining>>
    <3>1. Boundary \in Int /\ \A u \in DecisionTimes : u \in Int /\ Boundary <= u
      BY <2>1, Facts, DecisionInstants
    <3>2. {u \in DecisionTimes : u < Boundary} = {}
      BY <3>1
    <3>3. NumBefore(Boundary) = 0
      BY <3>2, FS_EmptySet DEF NumBefore
    <3> QED
      BY <2>1, <3>1, <3>3, Models
  <2>6. FixtureTrue' /\ Saved' /\ Recorded'
    BY <1>1, <1>4, Unchanged DEF disk
  <2>7. ~Waiting' /\ Working' /\ ~Untrained' /\ Horizon' = Boundary /\ Boundary' = Boundary
    BY <1>1, <1>4 DEF Waiting, Working, Untrained, Horizon, Boundary
  <2>8. Placed'
    <3>1. IsDecision(next)
      BY <2>1, Indices
    <3>2. IsDecision(next)'
      BY <1>1, <3>1 DEF IsDecision, DecisionDays
    <3>3. next' \in Nat
      BY <1>1, Facts
    <3> QED
      BY <1>4, <2>7, <3>2, <3>3 DEF Placed
  <2>9. Settled'
    <3>1. state'.lastTime = t /\ t \in Int
      BY <2>3, <2>4, Facts DEF ComponentsAt
    <3>2. ComponentsAt(state, state.lastTime)'
      BY <1>1, <2>4, <3>1, FixtureKept
    <3> QED
      BY <2>3, <2>7, <3>1, <3>2 DEF Settled
  <2>10. Trained'
    <3>1. PICK h : h = Horizon'
      OBVIOUS
    <3>2. state'.model = ModelBefore(h) /\ NumBefore(h) <= Len(exposures)
      BY <2>4, <2>5, <2>7, <3>1, Facts
    <3>3. (state.model = ModelBefore(Horizon) /\ NumBefore(Horizon) <= Len(exposures))'
      BY <1>1, <3>1, <3>2, FixtureKept DEF disk
    <3> QED
      BY <2>7, <3>3 DEF Trained
  <2> QED
    BY <2>6, <2>8, <2>9, <2>10 DEF IInv
<1> QED
  BY <1>2, <1>3, <1>4

(* A credit trains on what the schedule has for its decision.               *)
LEMMA CreditIs ==
  ASSUME FixtureTrue, ComponentsAt(state, Boundary)
  PROVE  Credit = TrainingAt(Boundary)
<1>1. /\ state.main = LegalAt(Boundary, Kinds) /\ state.outcome = OutcomesAt(Boundary)
      /\ state.qtn = LegalAt(Boundary, {"q_tn"}) /\ state.qdp = LegalAt(Boundary, {"q_dp"})
  BY DEF ComponentsAt, StoresAt
<1>2. Examples = ExamplesAt(Boundary)
  <2>1. CASE method # "dfm"
    BY <1>1, <2>1 DEF Examples, ExamplesAt
  <2>2. CASE method = "dfm"
    <3>1. \A r \in state.main : r.click \in TrainingClicks /\ r.click \in Clicks
      <4>1. \A c : Stream(c) = {Record(c, "dfm_click", 0, data.time[c])}
        BY <2>2 DEF Stream
      <4> QED
        BY <1>1, <4>1, RecordFields DEF LegalAt, Promised, Legal, TrainingClicks
    <3> DEFINE Example(r) ==
                 LET elapsed == Boundary - data.time[r.click]
                     converted == Converts(r.click) /\ AvailableAt(r.click) <= Boundary
                 IN Record(r.click, r.kind, IF converted THEN 1 ELSE 0,
                           IF converted THEN data.delay[r.click]
                           ELSE IF elapsed < Window THEN elapsed ELSE Window)
    <3>2. ASSUME NEW r \in state.main
          PROVE  Observed(r) = Example(r)
      <4>1. state.outcome[r.click] = "positive"
              <=> Converts(r.click) /\ AvailableAt(r.click) <= Boundary
        BY <1>1, <2>2, <3>1 DEF OutcomesAt, Packed
      <4>2. CASE Converts(r.click) /\ AvailableAt(r.click) <= Boundary
        BY <4>1, <4>2 DEF Observed
      <4>3. CASE ~(Converts(r.click) /\ AvailableAt(r.click) <= Boundary)
        BY <4>1, <4>3 DEF Observed
      <4> QED
        BY <4>2, <4>3
    <3>3. Examples = {Observed(r) : r \in state.main}
      BY <2>2 DEF Examples
    <3>4. ExamplesAt(Boundary) = {Example(r) : r \in state.main}
      BY <1>1, <2>2 DEF ExamplesAt
    <3> HIDE DEF Example
    <3> QED
      BY <3>2, <3>3, <3>4
  <2> QED
    BY <2>1, <2>2
<1>3. CASE Boundary = FirstDecisionTime
  BY <1>2, <1>3 DEF Credit, Training, TrainingAt
<1>4. CASE Boundary # FirstDecisionTime
  BY <1>1, <1>2, <1>4 DEF Credit, Training, TrainingAt
<1> QED
  BY <1>3, <1>4

(* What a step to a checkpoint has to keep.                                 *)
LEMMA ToSave ==
  ASSUME IInv, UNCHANGED <<fixture, next, sealed, checkpoint, predictions>>, pc' = "save",
         IsDecision(next) \/ (next = SealIndex /\ "primary" \in sealed),
         ComponentsAt(state', Boundary),
         state'.model = ModelBefore(Boundary + 1),
         NumBefore(Boundary + 1) <= Len(exposures'),
         Recorded', Saved'
  PROVE  IInv'
<1>1. FixtureTrue' /\ ~Waiting' /\ Working' /\ ~Untrained'
      /\ Horizon' = Boundary + 1 /\ Boundary' = Boundary
  BY Unchanged DEF Waiting, Working, Untrained, Horizon, Boundary
<1>2. Placed'
  <2>1. IsDecision(next)' <=> IsDecision(next)
    BY DEF IsDecision, DecisionDays
  <2>2. next' \in Nat /\ SealIndex' = SealIndex
    BY Facts DEF SealIndex
  <2> QED
    BY <1>1, <2>1, <2>2 DEF Placed
<1>3. Settled'
  <2>1. PICK t : t = Boundary
    OBVIOUS
  <2>2. ComponentsAt(state', t) /\ state'.lastTime = t /\ t \in Int
    BY <2>1, Facts DEF ComponentsAt
  <2>3. ComponentsAt(state, state.lastTime)'
    BY <2>2, FixtureKept
  <2> QED
    BY <1>1, <2>1, <2>2, <2>3 DEF Settled
<1>4. Trained'
  <2>1. PICK h : h = Horizon'
    OBVIOUS
  <2>2. state'.model = ModelBefore(h) /\ NumBefore(h) <= Len(exposures')
    BY <1>1, <2>1
  <2>3. (state.model = ModelBefore(Horizon) /\ NumBefore(Horizon) <= Len(exposures))'
    BY <2>1, <2>2, FixtureKept
  <2> QED
    BY <1>1, <2>3 DEF Trained
<1> QED
  BY <1>1, <1>2, <1>3, <1>4 DEF IInv

(* Credits are only added to the ledger.                                    *)
LEMMA LedgerGrows ==
  ASSUME IInv, UNCHANGED <<fixture, sealed, checkpoint>>,
         Len(exposures') \in Nat, Len(exposures) <= Len(exposures')
  PROVE  Saved'
<1>1. SUFFICES ASSUME (checkpoint # NoCheckpoint)'
               PROVE  (/\ checkpoint.next \in Nat /\ checkpoint.next > FirstIndex
                       /\ checkpoint.next <= SealIndex + 1
                       /\ ComponentsAt(checkpoint.state, TimeBefore(checkpoint.next))
                       /\ checkpoint.state.model = ModelBefore(checkpoint.next * Hour)
                       /\ NumBefore(checkpoint.next * Hour) <= Len(exposures)
                       /\ checkpoint.next > SealIndex => "primary" \in sealed)'
  BY DEF Saved
<1>2. checkpoint # NoCheckpoint
  BY <1>1 DEF NoCheckpoint
<1>3. /\ checkpoint.next \in Nat /\ checkpoint.next > FirstIndex
      /\ checkpoint.next <= SealIndex + 1
      /\ ComponentsAt(checkpoint.state, TimeBefore(checkpoint.next))
      /\ checkpoint.state.model = ModelBefore(checkpoint.next * Hour)
      /\ NumBefore(checkpoint.next * Hour) <= Len(exposures)
      /\ checkpoint.next > SealIndex => "primary" \in sealed
  BY <1>2 DEF IInv, Saved
<1>4. NumBefore(checkpoint.next * Hour) \in Int /\ Len(exposures) \in Int
  <2>1. checkpoint.next * Hour \in Int
    BY <1>3, Lengths
  <2> QED
    BY <2>1, Facts, Counting
<1>5. NumBefore(checkpoint.next * Hour) <= Len(exposures')
  BY <1>3, <1>4
<1> QED
  BY <1>3, <1>5, FixtureKept DEF FirstIndex, SealIndex, TimeBefore

LEMMA DecideKept == ASSUME IInv, Decide PROVE IInv'
<1> DEFINE day == next \div HoursPerDay
           known == Credits < Len(exposures)
           decided == [state EXCEPT !.evidenceDay = IF StudyB THEN day ELSE @]
<1>1. pc = "decide" /\ UNCHANGED fixture
  BY DEF Decide
<1>2. \/ /\ UNCHANGED <<next, state, seed, disk>> /\ pc' \in {"failed", "insufficient"}
      \/ /\ day \notin data.credits /\ state' = decided /\ pc' = "save"
         /\ UNCHANGED <<next, seed, disk>>
      \/ /\ day \in data.credits
         /\ state' = [decided EXCEPT !.model = Append(@, Credit)]
         /\ exposures' = (IF known THEN exposures ELSE Append(exposures, Credit))
         /\ pc' = "save"
         /\ UNCHANGED <<next, seed, predictions, sealed, checkpoint>>
  BY DEF Decide, Fail, Insufficient
<1>3. /\ FixtureTrue /\ next \in Nat /\ Boundary \in Nat /\ Boundary = next * Hour
      /\ IsDecision(next) /\ state.lastTime = Boundary /\ ComponentsAt(state, Boundary)
      /\ state.model = ModelBefore(Boundary) /\ NumBefore(Boundary) <= Len(exposures)
  <2>1. Working /\ ~Waiting /\ ~Untrained /\ Horizon = Boundary
    BY <1>1 DEF Working, Waiting, Untrained, Horizon
  <2> QED
    BY <1>1, <2>1, Facts DEF IInv, Placed, Settled, Trained, Boundary
<1>4. Boundary \in DecisionTimes <=> day \in data.credits
  BY <1>3, DecisionBoundaries
<1>5. ComponentsAt(decided, Boundary) /\ decided.model = state.model
  <2>1. PICK d, v, t : /\ d = (IF StudyB THEN day ELSE state.evidenceDay)
                       /\ v = decided /\ t = Boundary
    OBVIOUS
  <2>2. v = [state EXCEPT !.evidenceDay = d] /\ ComponentsAt(state, t)
    BY <1>3, <2>1
  <2>3. ComponentsAt(v, t) /\ v.model = state.model
    BY <2>2, DayOnly
  <2> QED
    BY <2>1, <2>3
<1> HIDE DEF decided
<1>6. CASE UNCHANGED <<next, state, seed, disk>> /\ pc' \in {"failed", "insufficient"}
  BY <1>1, <1>6, Stops
<1>7. CASE /\ day \notin data.credits /\ state' = decided /\ pc' = "save"
           /\ UNCHANGED <<next, seed, disk>>
  <2>1. NumBefore(Boundary + 1) = NumBefore(Boundary)
    BY <1>3, <1>4, <1>7, NextBoundary
  <2>2. ModelBefore(Boundary + 1) = ModelBefore(Boundary)
    BY <2>1 DEF ModelBefore
  <2>3. Recorded' /\ Saved'
    BY <1>1, <1>7, Unchanged DEF disk
  <2>4. UNCHANGED <<fixture, next, sealed, checkpoint, predictions, exposures>>
    BY <1>1, <1>7 DEF disk
  <2>5. ComponentsAt(state', Boundary) /\ state'.model = ModelBefore(Boundary + 1)
        /\ NumBefore(Boundary + 1) <= Len(exposures')
    BY <1>3, <1>5, <1>7, <2>1, <2>2, <2>4
  <2> QED
    BY <1>3, <1>7, <2>3, <2>4, <2>5, ToSave
<1>8. CASE /\ day \in data.credits
           /\ state' = [decided EXCEPT !.model = Append(@, Credit)]
           /\ exposures' = (IF known THEN exposures ELSE Append(exposures, Credit))
           /\ pc' = "save"
           /\ UNCHANGED <<next, seed, predictions, sealed, checkpoint>>
  <2>1. Boundary \in DecisionTimes /\ Boundary \in Int
    BY <1>3, <1>4, <1>8
  <2>2. PICK n : n = NumBefore(Boundary)
    OBVIOUS
  <2>3. /\ n \in Nat /\ n < Cardinality(DecisionTimes) /\ NumBefore(Boundary + 1) = n + 1
        /\ n + 1 \in 1 .. Cardinality(DecisionTimes) /\ Schedule[n + 1] = TrainingAt(Boundary)
        /\ Cardinality(DecisionTimes) \in Nat
    <3>1. PICK t \in DecisionTimes : t = Boundary /\ t \in Int
      BY <2>1
    <3>2. /\ NumBefore(t) \in 0 .. Cardinality(DecisionTimes)
          /\ NumBefore(t + 1) = NumBefore(t) + 1 /\ NumBefore(t) < Cardinality(DecisionTimes)
      BY <1>3, <3>1, Counting
    <3>3. /\ NumBefore(t) + 1 \in 1 .. Cardinality(DecisionTimes)
          /\ Schedule[NumBefore(t) + 1] = TrainingAt(t)
      BY <1>3, ScheduledAt
    <3>4. Cardinality(DecisionTimes) \in Nat
      BY Facts
    <3> QED
      BY <2>2, <3>1, <3>2, <3>3, <3>4
  <2>4. Credit = TrainingAt(Boundary) /\ Credits = n
    <3>1. Len(ModelBefore(Boundary)) = n + 1
      BY <1>3, <2>1, <2>2, Models
    <3>2. Credits = n
      BY <1>3, <2>3, <3>1 DEF Credits
    <3> QED
      BY <1>3, <3>2, CreditIs
  <2>5. ComponentsAt(state', Boundary) /\ state'.model = ModelBefore(Boundary + 1)
    <3>1. PICK m, v, s, t : /\ m = Append(decided.model, Credit) /\ v = state'
                            /\ s = decided /\ t = Boundary
      OBVIOUS
    <3>2. ComponentsAt(s, t) /\ v = [s EXCEPT !.model = m]
      BY <1>5, <1>8, <3>1
    <3>3. ComponentsAt(v, t) /\ v.model = m
      BY <3>2, ModelOnly
    <3>4. Append(ModelBefore(Boundary), TrainingAt(Boundary)) = ModelBefore(Boundary + 1)
      BY <1>3, <2>1, Models
    <3> QED
      BY <1>3, <1>5, <2>4, <3>1, <3>3, <3>4
  <2>6. /\ Len(exposures) \in 0 .. Cardinality(DecisionTimes) /\ n <= Len(exposures)
        /\ exposures = SubSeq(Schedule, 1, Len(exposures))
        /\ "primary" \in sealed => Len(exposures) = Cardinality(DecisionTimes)
    BY <1>3, <2>2, Facts DEF IInv, Recorded
  <2>7. /\ Len(exposures') \in 0 .. Cardinality(DecisionTimes)
        /\ n + 1 <= Len(exposures') /\ Len(exposures) <= Len(exposures')
        /\ exposures' = SubSeq(Schedule, 1, Len(exposures'))
        /\ "primary" \in sealed => exposures' = exposures
    <3>1. CASE known
      BY <1>8, <2>3, <2>4, <2>6, <3>1
    <3>2. CASE ~known
      <4>1. Len(exposures) = n
        <5>1. PICK k \in Nat : k = Len(exposures)
          BY Facts
        <5>2. n \in Nat /\ n <= k /\ ~(n < k)
          BY <2>3, <2>4, <2>6, <3>2, <5>1
        <5> QED
          BY <5>1, <5>2
      <4>2. exposures' = Append(SubSeq(Schedule, 1, n), Schedule[n + 1])
        BY <1>8, <2>3, <2>4, <2>6, <3>2, <4>1
      <4>3. IsList(Schedule, Cardinality(DecisionTimes))
        BY DEF Schedule, IsList
      <4>4. n \in 0 .. Cardinality(DecisionTimes) /\ n + 1 \in 0 .. Cardinality(DecisionTimes)
        BY <2>3
      <4>5. exposures' = SubSeq(Schedule, 1, n + 1)
        BY <2>3, <4>2, <4>3, <4>4, Prefixes
      <4>6. Len(SubSeq(Schedule, 1, n + 1)) = n + 1
        BY <2>3, <4>3, <4>4, Prefixes
      <4>7. "primary" \notin sealed
        BY <2>3, <2>6, <4>1
      <4> QED
        BY <2>3, <4>1, <4>4, <4>5, <4>6, <4>7
    <3> QED
      BY <3>1, <3>2
  <2>8. Saved'
    BY <1>1, <1>8, <2>7, LedgerGrows
  <2>9. Recorded'
    <3>1. UNCHANGED <<fixture, predictions, sealed>> /\ pc' # "done"
      BY <1>1, <1>8
    <3> QED
      BY <2>7, <3>1, FixtureKept DEF IInv, Recorded
  <2> QED
    BY <1>1, <1>3, <1>8, <2>3, <2>5, <2>7, <2>8, <2>9, ToSave
<1> QED
  BY <1>2, <1>6, <1>7, <1>8

LEMMA SealPrimaryKept == ASSUME IInv, SealPrimary PROVE IInv'
<1>1. pc = "seal primary" /\ UNCHANGED fixture
  BY DEF SealPrimary
<1>2. CASE SealRefused
  <2>1. UNCHANGED <<fixture, next, state, seed, disk>> /\ pc' = "failed"
    BY <1>2 DEF SealPrimary, Fail, disk
  <2> QED
    BY <2>1, Stops
<1>3. CASE ~SealRefused
  <2>1. /\ sealed' = sealed \cup {"primary"} /\ pc' = "seal exposures"
        /\ UNCHANGED <<fixture, next, state, seed, predictions, exposures, checkpoint>>
    BY <1>3 DEF SealPrimary
  <2>2. /\ next = SealIndex /\ Working /\ ~Waiting /\ ~Untrained /\ Horizon = Boundary
        /\ Working' /\ ~Waiting' /\ ~Untrained' /\ Horizon' = Boundary /\ Boundary' = Boundary
        /\ "primary" \in sealed' /\ SealIndex' = SealIndex
    BY <1>1, <2>1
       DEF IInv, Placed, Working, Waiting, Untrained, Horizon, Boundary, SealIndex
  <2>3. FixtureTrue' /\ (state.lastTime \in Int /\ ComponentsAt(state, state.lastTime))'
    BY <2>1, Unchanged
  <2>4. Saved'
    BY <2>1, <2>2, FixtureKept DEF IInv, Saved, NoCheckpoint, FirstIndex, SealIndex, TimeBefore
  <2>5. Recorded'
    <3>1. "primary" \notin sealed => DOMAIN predictions = EvaluationClicks
      BY <1>3 DEF SealRefused
    <3>2. "primary" \notin sealed => Len(exposures) = Cardinality(data.credits)
      BY <1>3 DEF SealRefused, IInv, Recorded
    <3>3. DOMAIN predictions = EvaluationClicks /\ Len(exposures) = Cardinality(data.credits)
      BY <3>1, <3>2 DEF IInv, Recorded
    <3> QED
      BY <2>1, <2>2, <3>3, FixtureKept DEF IInv, Recorded
  <2>6. Placed'
    BY <2>1, <2>2, Facts DEF Placed
  <2>7. Settled'
    BY <2>1, <2>2, <2>3 DEF IInv, Settled
  <2>8. Trained'
    <3>1. PICK h : h = Horizon'
      OBVIOUS
    <3>2. state.model = ModelBefore(h) /\ NumBefore(h) <= Len(exposures)
      BY <2>2, <3>1 DEF IInv, Trained
    <3>3. (state.model = ModelBefore(Horizon) /\ NumBefore(Horizon) <= Len(exposures))'
      BY <2>1, <3>1, <3>2, FixtureKept
    <3> QED
      BY <2>2, <3>3 DEF Trained
  <2> QED
    BY <2>3, <2>4, <2>5, <2>6, <2>7, <2>8 DEF IInv
<1> QED
  BY <1>2, <1>3

LEMMA SealExposuresKept == ASSUME IInv, SealExposures PROVE IInv'
<1>1. /\ pc = "seal exposures" /\ pc' = "save" /\ sealed' = sealed \cup {"exposures"}
      /\ UNCHANGED <<fixture, next, state, seed, predictions, exposures, checkpoint>>
  BY DEF SealExposures
<1>2. /\ next = SealIndex /\ "primary" \in sealed /\ Working /\ ~Waiting /\ ~Untrained
      /\ Horizon = Boundary
      /\ Working' /\ ~Waiting' /\ ~Untrained' /\ Horizon' = Boundary + 1 /\ Boundary' = Boundary
      /\ "primary" \in sealed' /\ SealIndex' = SealIndex
  BY <1>1 DEF IInv, Placed, Working, Waiting, Untrained, Horizon, Boundary, SealIndex
<1>3. FixtureTrue' /\ (state.lastTime \in Int /\ ComponentsAt(state, state.lastTime))'
  BY <1>1, Unchanged
<1>4. Saved'
  BY <1>1, <1>2, FixtureKept DEF IInv, Saved, NoCheckpoint, FirstIndex, SealIndex, TimeBefore
<1>5. Recorded'
  BY <1>1, <1>2, FixtureKept DEF IInv, Recorded
<1>6. Placed'
  BY <1>1, <1>2, Facts DEF Placed
<1>7. Settled'
  BY <1>1, <1>2, <1>3 DEF IInv, Settled
<1>8. Trained'
  <2>1. FixtureTrue /\ next \in Nat /\ Boundary = next * Hour
    BY Facts DEF Boundary
  <2>2. ~IsDecision(next)
    <3>1. next \in Nat /\ ~(next < SealIndex)
      BY <1>2, <2>1
    <3> QED
      BY <2>1, <3>1, DecisionBoundaries
  <2>3. NumBefore(Boundary + 1) = NumBefore(Boundary)
    BY <2>1, <2>2, DecisionBoundaries, NextBoundary
  <2>4. ModelBefore(Boundary + 1) = ModelBefore(Boundary)
    BY <2>3 DEF ModelBefore
  <2>5. PICK h : h = Boundary + 1
    OBVIOUS
  <2>6. state.model = ModelBefore(h) /\ NumBefore(h) <= Len(exposures)
    BY <1>2, <2>3, <2>4, <2>5 DEF IInv, Trained
  <2>7. (state.model = ModelBefore(Horizon) /\ NumBefore(Horizon) <= Len(exposures))'
    BY <1>1, <1>2, <2>5, <2>6, FixtureKept
  <2> QED
    BY <1>2, <2>7 DEF Trained
<1> QED
  BY <1>3, <1>4, <1>5, <1>6, <1>7, <1>8 DEF IInv

LEMMA SaveKept == ASSUME IInv, Save PROVE IInv'
<1>1. /\ pc = "save" /\ pc' = "predict" /\ next' = next + 1
      /\ checkpoint' = [next |-> next + 1, state |-> state, credits |-> Len(exposures)]
      /\ UNCHANGED <<fixture, state, seed, predictions, exposures, sealed>>
  BY DEF Save
<1>2. FixtureTrue /\ next \in Nat /\ Boundary = next * Hour /\ FirstIndex \in Nat
      /\ SealIndex \in Nat /\ FirstIndex < SealIndex
  BY Facts, Indices DEF Boundary
<1>3. /\ Working /\ ~Waiting /\ ~Untrained /\ Horizon = Boundary + 1
      /\ ~Working' /\ Waiting' /\ Horizon' = (next + 1) * Hour
  BY <1>1 DEF Working, Waiting, Untrained, Horizon, Boundary
<1>4. IsDecision(next) \/ (next = SealIndex /\ "primary" \in sealed)
  BY <1>1 DEF IInv, Placed
<1>5. FirstIndex <= next /\ next <= SealIndex /\ (next + 1 > SealIndex => "primary" \in sealed)
  BY <1>2, <1>4, DecisionBoundaries
<1>6. /\ state.lastTime = Boundary /\ TimeBefore(next + 1) = Boundary
      /\ ComponentsAt(state, TimeBefore(next + 1))
      /\ TimeBefore(next)' = Boundary /\ Boundary \in Int
  <2>1. TimeBefore(next + 1) = Boundary
    BY <1>2, NextBoundary
  <2>2. TimeBefore(next)' = TimeBefore(next + 1)
    BY <1>1 DEF TimeBefore
  <2> QED
    BY <1>3, <2>1, <2>2, Facts DEF IInv, Settled
<1>7. PICK h : h = (next + 1) * Hour
  OBVIOUS
<1>8. state.model = ModelBefore(h) /\ NumBefore(h) <= Len(exposures)
  <2>1. NumBefore((next + 1) * Hour) = NumBefore(Boundary + 1)
    BY <1>2, NextBoundary
  <2>2. ModelBefore((next + 1) * Hour) = ModelBefore(Boundary + 1)
    BY <2>1 DEF ModelBefore
  <2> QED
    BY <1>3, <1>7, <2>1, <2>2 DEF IInv, Trained
<1>9. FixtureTrue' /\ (state.lastTime \in Int /\ ComponentsAt(state, state.lastTime))'
  BY <1>1, Unchanged
<1>10. Saved'
  <2>1. /\ checkpoint'.next = next + 1 /\ checkpoint'.state = state
        /\ next + 1 \in Nat /\ next + 1 > FirstIndex /\ next + 1 <= SealIndex + 1
    BY <1>1, <1>2, <1>5
  <2>2. PICK t, s : t = TimeBefore(next + 1) /\ s = state
    OBVIOUS
  <2>3. ComponentsAt(s, t) /\ checkpoint'.state = s /\ TimeBefore(checkpoint.next)' = t
        /\ (checkpoint.next * Hour)' = h
    BY <1>6, <1>7, <2>1, <2>2 DEF TimeBefore
  <2>4. ComponentsAt(checkpoint.state, TimeBefore(checkpoint.next))'
    BY <1>1, <2>3, FixtureKept
  <2>5. (checkpoint.state.model = ModelBefore(checkpoint.next * Hour)
         /\ NumBefore(checkpoint.next * Hour) <= Len(exposures))'
    BY <1>1, <1>8, <2>2, <2>3, FixtureKept
  <2> QED
    BY <1>1, <1>5, <2>1, <2>4, <2>5 DEF Saved, FirstIndex, SealIndex
<1>11. Recorded'
  BY <1>1, FixtureKept DEF IInv, Recorded
<1>12. Placed'
  BY <1>1, <1>2, <1>5 DEF Placed, SealIndex
<1>13. Settled'
  BY <1>1, <1>3, <1>6, <1>9 DEF Settled
<1>14. Trained'
  <2>1. ~Untrained'
    BY <1>1, <1>2, <1>5 DEF Untrained, FirstIndex
  <2>2. (state.model = ModelBefore(Horizon) /\ NumBefore(Horizon) <= Len(exposures))'
    BY <1>1, <1>3, <1>7, <1>8, FixtureKept
  <2> QED
    BY <2>1, <2>2 DEF Trained
<1> QED
  BY <1>9, <1>10, <1>11, <1>12, <1>13, <1>14 DEF IInv

LEMMA RestoreKept == ASSUME IInv, Restore PROVE IInv'
<1>1. /\ checkpoint # NoCheckpoint /\ next' = checkpoint.next /\ state' = checkpoint.state
      /\ pc' = "predict" /\ UNCHANGED <<fixture, disk>>
  BY DEF Restore
<1>2. /\ checkpoint.next \in Nat /\ checkpoint.next > FirstIndex
      /\ checkpoint.next <= SealIndex + 1
      /\ ComponentsAt(checkpoint.state, TimeBefore(checkpoint.next))
      /\ checkpoint.state.model = ModelBefore(checkpoint.next * Hour)
      /\ NumBefore(checkpoint.next * Hour) <= Len(exposures)
      /\ checkpoint.next > SealIndex => "primary" \in sealed
  BY <1>1 DEF IInv, Saved
<1>3. FixtureTrue' /\ Saved' /\ Recorded'
  BY <1>1, Unchanged DEF disk
<1>4. Waiting' /\ ~Working' /\ ~Untrained' /\ Horizon' = checkpoint.next * Hour
  BY <1>1, <1>2, Indices DEF Waiting, Working, Untrained, Horizon, Boundary, FirstIndex
<1>5. Placed'
  BY <1>1, <1>2 DEF Placed, SealIndex, disk
<1>6. Settled'
  <2>1. PICK t : t = TimeBefore(checkpoint.next)
    OBVIOUS
  <2>2. ComponentsAt(state', t) /\ state'.lastTime = t /\ TimeBefore(next)' = t /\ t \in Int
    BY <1>1, <1>2, <2>1, Facts, NextBoundary DEF ComponentsAt, TimeBefore
  <2>3. ComponentsAt(state, state.lastTime)'
    BY <1>1, <2>2, FixtureKept
  <2> QED
    BY <1>4, <2>2, <2>3 DEF Settled
<1>7. Trained'
  <2>1. PICK h : h = Horizon'
    OBVIOUS
  <2>2. state'.model = ModelBefore(h) /\ NumBefore(h) <= Len(exposures)
    BY <1>1, <1>2, <1>4, <2>1
  <2>3. (state.model = ModelBefore(Horizon) /\ NumBefore(Horizon) <= Len(exposures))'
    BY <1>1, <2>1, <2>2, FixtureKept DEF disk
  <2> QED
    BY <1>4, <2>3 DEF Trained
<1> QED
  BY <1>3, <1>5, <1>6, <1>7 DEF IInv

LEMMA InvariantKept == IInv /\ [Next]_vars => IInv'
<1> SUFFICES ASSUME IInv, [Next]_vars PROVE IInv'
  OBVIOUS
<1>1. CASE Run
  BY <1>1, PredictKept, ProcessKept, InitializeKept, DecideKept, SealPrimaryKept,
     SealExposuresKept, SaveKept, FinishKept DEF Run
<1>2. CASE Crash
  <2>1. UNCHANGED <<fixture, next, state, seed, disk>> /\ pc' = "down"
    BY <1>2 DEF Crash
  <2> QED
    BY <2>1, Stops
<1>3. CASE RefuseRoot \/ Refuse
  <2>1. UNCHANGED <<fixture, next, state, seed, disk>> /\ pc' \in {"stuck", "refused"}
    BY <1>3 DEF RefuseRoot, Refuse
  <2> QED
    BY <2>1, Stops
<1>4. CASE Restore
  BY <1>4, RestoreKept
<1>5. CASE UNCHANGED vars
  <2>1. UNCHANGED <<fixture, pc, next, state, seed, disk>>
    BY <1>5 DEF vars
  <2>2. /\ UNCHANGED <<predictions, exposures, sealed, checkpoint>>
        /\ (Waiting' <=> Waiting) /\ (Working' <=> Working) /\ (Untrained' <=> Untrained)
        /\ Horizon' = Horizon /\ Boundary' = Boundary /\ TimeBefore(next)' = TimeBefore(next)
    BY <2>1 DEF disk, Waiting, Working, Untrained, FirstIndex, Horizon, Boundary, TimeBefore
  <2>3. FixtureTrue' /\ Saved' /\ (state.lastTime \in Int /\ ComponentsAt(state, state.lastTime))'
    BY <2>1, <2>2, Unchanged
  <2>4. Recorded'
    BY <2>1, <2>2, Unchanged DEF IInv, Recorded
  <2>5. Placed'
    BY <2>1, <2>2
       DEF IInv, Placed, IsDecision, DecisionDays, FirstIndex, SealIndex, DrainIndex
  <2>6. Settled'
    BY <2>1, <2>2, <2>3 DEF IInv, Settled
  <2>7. Trained'
    <3>1. PICK h, t : h = Horizon /\ t = state.lastTime
      OBVIOUS
    <3>2. Waiting \/ Working =>
            IF Untrained THEN state.model = <<>> /\ seed = SeedAt(t)
            ELSE state.model = ModelBefore(h) /\ NumBefore(h) <= Len(exposures)
      BY <3>1 DEF IInv, Trained
    <3>3. h = Horizon' /\ t = state'.lastTime
      BY <2>1, <2>2, <3>1
    <3> QED
      BY <2>1, <2>2, <3>2, <3>3, FixtureKept DEF Trained
  <2> QED
    BY <2>3, <2>4, <2>5, <2>6, <2>7 DEF IInv
<1> QED
  BY <1>1, <1>2, <1>3, <1>4, <1>5 DEF Next, Restart

(* The inductive invariant: at every boundary, and in every checkpoint, the *)
(* components are a function of the boundary's time, and the model is that  *)
(* of the schedule.                                                         *)
THEOREM ReplayCorrect == Spec => []IInv
  BY Initially, InvariantKept, PTL DEF Spec

-----------------------------------------------------------------------------

(* Every prediction on disk is by the shared initialization and the credits *)
(* of the days before the click's boundary, the exposure ledger has those   *)
(* credits in order, and a run that is done has predicted each evaluation   *)
(* click and spent each credit.                                             *)
THEOREM ScheduleCorrect == Spec => []LearnsOnSchedule
<1>1. IInv => LearnsOnSchedule
  BY DEF IInv, Recorded, LearnsOnSchedule, ModelBefore
<1> QED
  BY <1>1, ReplayCorrect, PTL

(* The three stores hold every kind of record that is promised.             *)
LEMMA PoolIs ==
  ASSUME IInv
  PROVE  state.main \cup state.qtn \cup state.qdp = {r \in Promised : r.at <= state.lastTime}
<1>1. \A r \in Promised : r.kind \in Kinds \cup {"q_tn", "q_dp"}
  <2>1. SUFFICES ASSUME NEW c, NEW r \in Stream(c) PROVE r.kind \in Kinds \cup {"q_tn", "q_dp"}
    BY DEF Promised
  <2>2. r \in FixedWaitStream(c) \/ r \in AuxiliaryStream(c) =>
          r.kind \in {"early_positive", "provisional", "correction", "q_dp", "q_tn"}
    BY RecordFields DEF FixedWaitStream, AuxiliaryStream
  <2>3. \/ r \in FixedWaitStream(c) \/ r \in AuxiliaryStream(c)
        \/ r.kind \in {"final", "provisional", "correction", "dfm_click"}
    BY RecordFields DEF Stream
  <2> QED
    BY <2>2, <2>3 DEF Kinds
<1>2. StoresAt(state, state.lastTime)
  BY DEF IInv, Settled, ComponentsAt
<1> QED
  BY <1>1, <1>2 DEF StoresAt, LegalAt

(* Hour by hour and through any death, the packed method implements the     *)
(* promise of the per-click methods: a boundary publishes what is legal by  *)
(* its time, and a restored run is back at an earlier boundary.             *)
THEOREM PackedStreamImplemented == Spec => ImplementsStream
<1> DEFINE Pool == state.main \cup state.qtn \cup state.qdp
           Released == {r \in Promised : r.at <= state.lastTime}
           Times == {i * Hour : i \in 0 .. DrainDay * HoursPerDay}
<1>1. Init => LegalStream!Init
  BY DEF Init, Fresh, LegalStream!Init
<1>2. IInv' => Pool' = Released'
  <2>1. (IInv => Pool = Released)'
    BY PoolIs, PTL
  <2> QED
    BY <2>1
<1>3. IInv /\ IInv' /\ [Next]_vars => [LegalStream!Next]_LegalStream!vars
  <2> SUFFICES ASSUME IInv, IInv', [Next]_vars
               PROVE  [LegalStream!Next]_LegalStream!vars
    OBVIOUS
  <2>1. UNCHANGED fixture
    BY DEF Next, vars, Run, Restart, Predict, ProcessBoundary, Initialize, Decide, SealPrimary,
           SealExposures, Save, Finish, Crash, RefuseRoot, Refuse, Restore
  <2>2. Promised' = Promised
    BY <2>1 DEF fixture, Promised, Stream, FixedWaitStream, AuxiliaryStream, Record, Label,
                Converts, AvailableAt, Legal, TrainingClicks, ClickDay
  <2>3. /\ Pool = {r \in Promised : r.at <= state.lastTime}
        /\ Pool' = {r \in Promised : r.at <= state'.lastTime}
        /\ state.lastTime \in Int /\ state'.lastTime \in Int
    BY <1>2, <2>2, PoolIs DEF IInv, Settled
  <2>4. state'.lastTime = state.lastTime \/ state'.lastTime \in Times
    <3>1. CASE Restore
      <4>1. /\ state'.lastTime = TimeBefore(checkpoint.next) /\ checkpoint.next \in Nat
            /\ checkpoint.next > FirstIndex /\ checkpoint.next <= SealIndex + 1
        BY <3>1 DEF Restore, IInv, Saved, ComponentsAt
      <4>2. checkpoint.next # 0 /\ checkpoint.next - 1 \in 0 .. DrainIndex
        BY <4>1, Indices
      <4> QED
        BY <4>1, <4>2 DEF TimeBefore, DrainIndex
    <3>2. CASE ProcessBoundary
      <4>1. CASE ProcessRefused
        BY <3>2, <4>1 DEF ProcessBoundary, Fail
      <4>2. CASE ~ProcessRefused
        <5>1. state'.lastTime = next * Hour
          BY <3>2, <4>2, ProcessComponents DEF ComponentsAt, Boundary
        <5>2. pc = "process"
          BY <3>2 DEF ProcessBoundary
        <5>3. next \in Nat /\ next <= DrainIndex
          BY <5>2 DEF IInv, Placed
        <5>4. next \in 0 .. DrainIndex
          BY <5>3, Indices
        <5> QED
          BY <5>1, <5>4 DEF DrainIndex
      <4> QED
        BY <4>1, <4>2
    <3>3. CASE Initialize
      <4>1. PICK m : UNCHANGED state \/ state' = [state EXCEPT !.model = m]
        BY <3>3 DEF Initialize, Insufficient
      <4>2. IsState(state)
        BY Facts
      <4> QED
        BY <4>1, <4>2 DEF IsState
    <3>4. CASE Decide
      <4>1. PICK d : LET decided == [state EXCEPT !.evidenceDay = d]
                     IN \/ UNCHANGED state \/ state' = decided
                        \/ state' = [decided EXCEPT !.model = Append(@, Credit)]
        <5>1. PICK d : d = IF StudyB THEN next \div HoursPerDay ELSE state.evidenceDay
          OBVIOUS
        <5> QED
          BY <3>4, <5>1 DEF Decide, Fail, Insufficient
      <4>2. IsState(state)
        BY Facts
      <4> QED
        BY <4>1, <4>2 DEF IsState
    <3>5. CASE UNCHANGED state
      BY <3>5
    <3> QED
      BY <3>1, <3>2, <3>3, <3>4, <3>5
         DEF Next, Run, Restart, Predict, SealPrimary, SealExposures, Save, Finish, Crash,
             RefuseRoot, Refuse, Fail, vars
  <2>5. CASE state'.lastTime = state.lastTime
    BY <2>2, <2>3, <2>5 DEF LegalStream!vars
  <2>6. CASE state'.lastTime # state.lastTime
    <3>1. PICK t \in Times : t = state'.lastTime
      BY <2>4, <2>6
    <3>2. CASE state.lastTime < t
      <4>1. LegalStream!Publish(t)
        BY <2>2, <2>3, <3>1, <3>2 DEF LegalStream!Publish, LegalStream!LegalBy
      <4> QED
        BY <4>1 DEF LegalStream!Next
    <3>3. CASE t < state.lastTime
      <4>1. LegalStream!Rewind(t)
        BY <2>2, <2>3, <3>1, <3>3 DEF LegalStream!Rewind, LegalStream!LegalBy
      <4> QED
        BY <4>1 DEF LegalStream!Next
    <3> QED
      BY <2>3, <2>6, <3>1, <3>2, <3>3
  <2> QED
    BY <2>5, <2>6
<1> QED
  BY <1>1, <1>3, ReplayCorrect, PTL DEF Spec, ImplementsStream, LegalStream!Spec

-----------------------------------------------------------------------------
(* Nothing is refused.                                                      *)

(* The training clicks whose truth is out at time t.                        *)
TruthBy(t) == {c \in TrainingClicks : AvailableAt(c) <= t}

(* What the truth cursor and the monitoring have seen by then.              *)
SeenAt(s, t) ==
  s.observed = TruthBy(t) \cap data.monitored /\ s.truthEvents = Cardinality(TruthBy(t))

(* The day of the latest evidence before boundary i.                        *)
EvidenceIs(e, i) ==
  IF ~StudyB \/ i <= FirstIndex THEN e = -1
  ELSE e \in DecisionDays /\ e * HoursPerDay < i
         /\ (e = LastDay \/ i <= e * HoursPerDay + HoursPerDay)

PredictedBy(t) == \A c \in EvaluationClicks : data.time[c] <= t => c \in DOMAIN predictions

Alive == Waiting \/ Working

Seen == Alive => SeenAt(state, state.lastTime)
Evidenced ==
  /\ pc \in {"predict", "process", "initialize", "decide"} => EvidenceIs(state.evidenceDay, next)
  /\ pc \in {"seal primary", "seal exposures", "save"} => EvidenceIs(state.evidenceDay, next + 1)
Foretold == Alive => PredictedBy(IF pc = "process" THEN Boundary ELSE state.lastTime)

(* Each decision is saved before the next boundary, and so no ledger is     *)
(* ahead of the run by more than the credit of the next decision.           *)
Undecided ==
  Alive => /\ checkpoint.next <= next
           /\ \A i \in Nat : checkpoint.next <= i /\ i < next => ~IsDecision(i)
Ahead ==
  \A i \in Nat : IsDecision(i) /\ checkpoint.next <= i => Len(exposures) <= NumBefore(i * Hour + 1)

(* What a restart compares.                                                 *)
Resumable ==
  checkpoint # NoCheckpoint =>
    /\ SeenAt(checkpoint.state, TimeBefore(checkpoint.next))
    /\ EvidenceIs(checkpoint.state.evidenceDay, checkpoint.next)
    /\ checkpoint.credits = Len(checkpoint.state.model) - 1
    /\ PredictedBy(TimeBefore(checkpoint.next))

Faultless ==
  NothingRefused /\ Seen /\ Evidenced /\ Foretold /\ Undecided /\ Ahead /\ Resumable

(* A click has at most one promised record of each kind.                    *)
LEMMA OneOfAKind ==
  ASSUME NEW c, NEW r \in Stream(c), NEW p \in Stream(c), r.kind = p.kind
  PROVE  r = p
<1>1. FixedWaitStream(c) =
        IF data.delay[c] <= Wait THEN {Record(c, "early_positive", 1, AvailableAt(c))}
        ELSE {Record(c, "provisional", 0, data.time[c] + Wait)} \cup
             (IF Converts(c) THEN {Record(c, "correction", 1, AvailableAt(c))} ELSE {})
  BY DEF FixedWaitStream
<1>2. ASSUME NEW u \in FixedWaitStream(c), NEW v \in FixedWaitStream(c), u.kind = v.kind
      PROVE  u = v
  BY <1>1, <1>2, RecordFields
<1>3. ASSUME NEW u \in AuxiliaryStream(c), NEW v \in AuxiliaryStream(c), u.kind = v.kind
      PROVE  u = v
  BY <1>3, RecordFields DEF AuxiliaryStream
<1>4. \A u \in FixedWaitStream(c), v \in AuxiliaryStream(c) : u.kind # v.kind
  <2>1. \A u \in FixedWaitStream(c) : u.kind \in {"early_positive", "provisional", "correction"}
    BY <1>1, RecordFields
  <2>2. \A v \in AuxiliaryStream(c) : v.kind \in {"q_dp", "q_tn"}
    BY RecordFields DEF AuxiliaryStream
  <2> QED
    BY <2>1, <2>2
<1>5. CASE method = "fixed_wait"
  BY <1>2, <1>5 DEF Stream
<1>6. CASE method = "es_dfm"
  <2>1. Stream(c) = FixedWaitStream(c) \cup AuxiliaryStream(c)
    BY <1>6 DEF Stream
  <2> QED
    BY <1>2, <1>3, <1>4, <2>1
<1>7. CASE method \in {"immediate_fake_negative", "fnw"}
  <2>1. Stream(c) = {Record(c, "provisional", 0, data.time[c])} \cup
                    (IF Converts(c) THEN {Record(c, "correction", 1, AvailableAt(c))} ELSE {})
    BY <1>7 DEF Stream
  <2> QED
    BY <2>1, RecordFields
<1>8. CASE method \notin {"fixed_wait", "es_dfm", "immediate_fake_negative", "fnw"}
  <2>1. \/ Stream(c) = {Record(c, "final", Label(c), data.time[c] + Window)}
        \/ Stream(c) = {Record(c, "dfm_click", 0, data.time[c])}
        \/ Stream(c) = {Record(c, "final", Label(c), data.time[c])}
    BY <1>8 DEF Stream
  <2> QED
    BY <2>1
<1> QED
  BY <1>5, <1>6, <1>7, <1>8

(* What becomes legal is later than what is held, and of another click or   *)
(* another kind.                                                            *)
LEMMA AppendAccepted ==
  ASSUME AtProcess, NEW kinds
  PROVE  ~Refuses(LegalAt(state.lastTime, kinds), Newly(kinds))
<1>1. SUFFICES ASSUME NEW r \in Newly(kinds), NEW p \in LegalAt(state.lastTime, kinds)
      PROVE  ~(r.at < p.at) /\ ~(r.click = p.click /\ r.kind = p.kind)
  <2>1. \A r \in Newly(kinds) : r.at \in Int /\ r.at <= Boundary
    BY RecordTimes DEF Newly
  <2>2. \A r \in Newly(kinds) : ~(r.at > Boundary)
    BY <2>1 DEF AtProcess
  <2> QED
    BY <1>1, <2>2 DEF Refuses
<1>2. /\ r \in Promised /\ p \in Promised /\ r.at \in Int /\ p.at \in Int
      /\ state.lastTime \in Int /\ state.lastTime < r.at /\ p.at <= state.lastTime
  BY RecordTimes DEF Newly, LegalAt, AtProcess
<1>3. ASSUME r.click = p.click, r.kind = p.kind
      PROVE  FALSE
  <2>1. \A c, u : u \in Stream(c) => u.click = c
    BY RecordFields DEF Stream, FixedWaitStream, AuxiliaryStream
  <2>2. PICK c : r \in Stream(c) /\ p \in Stream(c)
    BY <1>2, <1>3, <2>1 DEF Promised
  <2>3. r = p
    BY <1>3, <2>2, OneOfAKind
  <2> QED
    BY <1>2, <2>3
<1> QED
  BY <1>2, <1>3

LEMMA TruthSets ==
  ASSUME FixtureTrue, NEW t \in Int
  PROVE  /\ TruthBy(t) \subseteq TrainingClicks /\ IsFiniteSet(TruthBy(t))
         /\ Cardinality(TruthBy(t)) \in Nat
         /\ IsFiniteSet(TrainingClicks)
<1>1. TrainingClicks \subseteq Clicks /\ IsFiniteSet(Clicks)
  <2>1. 0 \in Int /\ NumClicks - 1 \in Int
    BY Lengths
  <2> QED
    BY <2>1, FS_Interval DEF Clicks, TrainingClicks
<1>2. IsFiniteSet(TrainingClicks)
  BY <1>1, FS_Subset
<1>3. TruthBy(t) \in SUBSET TrainingClicks
  BY DEF TruthBy
<1>4. IsFiniteSet(TruthBy(t))
  BY <1>2, <1>3, FS_Subset
<1> QED
  BY <1>2, <1>3, <1>4, FS_CardinalityType

(* The truth of a boundary is what comes out between the last and this one. *)
LEMMA TruthOfBoundary ==
  ASSUME AtProcess
  PROVE  /\ TruthBy(Boundary) = TruthBy(state.lastTime) \cup Truth
         /\ TruthBy(state.lastTime) \cap Truth = {}
         /\ Cardinality(TruthBy(Boundary)) = Cardinality(TruthBy(state.lastTime)) + Cardinality(Truth)
<1>1. FixtureTrue /\ state.lastTime \in Int /\ Boundary \in Int /\ state.lastTime < Boundary
  BY DEF AtProcess
<1>2. \A c \in TrainingClicks : AvailableAt(c) \in Nat
  BY <1>1, Availability DEF TrainingClicks
<1>3. /\ TruthBy(Boundary) = TruthBy(state.lastTime) \cup Truth
      /\ TruthBy(state.lastTime) \cap Truth = {}
  BY <1>1, <1>2 DEF TruthBy, Truth
<1>4. /\ IsFiniteSet(TruthBy(state.lastTime)) /\ Cardinality(TruthBy(state.lastTime)) \in Nat
      /\ IsFiniteSet(TruthBy(Boundary))
  BY <1>1, TruthSets
<1>5. IsFiniteSet(Truth) /\ Cardinality(Truth) \in Nat
  <2>1. Truth \in SUBSET TruthBy(Boundary)
    BY <1>3
  <2> QED
    BY <1>4, <2>1, FS_Subset, FS_CardinalityType
<1>6. Cardinality(TruthBy(state.lastTime) \cup Truth)
        = Cardinality(TruthBy(state.lastTime)) + Cardinality(Truth)
            - Cardinality(TruthBy(state.lastTime) \cap Truth)
  BY <1>4, <1>5, FS_Union
<1>7. Cardinality(TruthBy(state.lastTime) \cap Truth) = 0
  BY <1>3, FS_EmptySet
<1> QED
  BY <1>3, <1>4, <1>5, <1>6, <1>7

LEMMA ProcessAccepted ==
  ASSUME AtProcess, SeenAt(state, state.lastTime)
  PROVE  ~ProcessRefused
<1>1. FixtureTrue /\ state.lastTime \in Int /\ Boundary \in Int /\ state.lastTime < Boundary
  BY DEF AtProcess
<1>2. ~(Boundary < state.lastTime)
  BY <1>1
<1>3. \A c \in Truth \cap data.monitored : c \notin state.observed
  BY TruthOfBoundary DEF SeenAt
<1>4. \A c \in TrainingClicks :
        c \in Clicks /\ c \in Nat /\ data.time[c] \in Nat /\ AvailableAt(c) \in Nat
        /\ data.time[c] <= AvailableAt(c) /\ AvailableAt(c) <= data.time[c] + Window
  BY <1>1, ClickTimes, Availability DEF TrainingClicks
<1>5. ASSUME Packed, NEW c \in Truth
      PROVE  ~(c >= ClickCursor) /\ state.outcome[c] = "unresolved"
  <2>1. c \in TrainingClicks /\ state.lastTime < AvailableAt(c) /\ AvailableAt(c) <= Boundary
    BY DEF Truth
  <2>2. c \in Reached(0, Boundary)
    <3>1. data.time[c] + 0 <= Boundary
      BY <1>1, <1>4, <2>1
    <3> QED
      BY <2>1, <3>1 DEF Reached
  <2>3. c < ClickCursor /\ ClickCursor \in Nat
    BY <1>4, <2>1, <2>2, CursorsKept, CursorMembers
  <2>4. ~(c >= ClickCursor)
    BY <1>4, <2>1, <2>3
  <2>5. state.outcome = OutcomesAt(state.lastTime)
    BY DEF AtProcess, ComponentsAt
  <2>6. ~(AvailableAt(c) <= state.lastTime)
    BY <1>1, <1>4, <2>1
  <2> QED
    BY <1>4, <2>1, <2>4, <2>5, <2>6 DEF OutcomesAt
<1>6. ASSUME Settles, NEW c \in state.maturityCursor .. MaturityCursor - 1
      PROVE  Outcomes[c] # "unresolved"
  <2>1. c \in Falling(Window)
    BY <1>6, CursorsKept
  <2>2. c \in TrainingClicks /\ data.time[c] + Window <= Boundary
    BY <2>1 DEF Falling, Between
  <2>3. AvailableAt(c) <= Boundary
    BY <1>1, <1>4, <2>2, Lengths
  <2>4. Packed
    BY <1>6 DEF Settles, Packed
  <2> QED
    BY <1>4, <2>2, <2>3, <2>4, OutcomesKept DEF OutcomesAt
<1>7. /\ state.main = LegalAt(state.lastTime, Kinds)
      /\ state.qtn = LegalAt(state.lastTime, {"q_tn"})
      /\ state.qdp = LegalAt(state.lastTime, {"q_dp"})
  BY DEF AtProcess, ComponentsAt, StoresAt
<1>8. /\ ~Refuses(state.main, Pending)
      /\ ~Refuses(state.qtn, NegativeTargets) /\ ~Refuses(state.qdp, DelayTargets)
  BY <1>7, PendingIs, AppendAccepted
<1> QED
  BY <1>2, <1>3, <1>5, <1>6, <1>8 DEF ProcessRefused

(* The evidence is asked for day after day.                                 *)
LEMMA EvidenceInTurn ==
  ASSUME NEW i \in Nat, NEW e, EvidenceIs(e, i)
  PROVE  /\ ~IsDecision(i) => EvidenceIs(e, i + 1)
         /\ StudyB /\ IsDecision(i) =>
              /\ i \div HoursPerDay = IF e = -1 THEN FirstDecision ELSE e + 1
              /\ EvidenceIs(i \div HoursPerDay, i + 1)
         /\ ~StudyB => e = -1 /\ EvidenceIs(e, i + 1)
<1>1. /\ FirstDecision \in Nat \ {0} /\ LastDay \in Nat /\ DecisionDays = FirstDecision .. LastDay
      /\ HoursPerDay \in Nat \ {0} /\ FirstDecision <= LastDay
      /\ FirstIndex \in Nat /\ FirstIndex = FirstDecision * HoursPerDay
  BY DaysInOrder, Lengths, Indices DEF DecisionDays, FirstIndex
<1>2. ~StudyB => e = -1 /\ EvidenceIs(e, i + 1)
  BY DEF EvidenceIs
<1>3. \A d \in DecisionDays : d \in Nat /\ IsDecision(d * HoursPerDay)
  <2>1. SUFFICES ASSUME NEW d \in DecisionDays PROVE d \in Nat /\ IsDecision(d * HoursPerDay)
    OBVIOUS
  <2>2. d \in Nat
    BY <1>1
  <2>3. PICK a \in Int : a = d * HoursPerDay
    BY <1>1, <2>2
  <2>4. a \div HoursPerDay = d /\ a % HoursPerDay = 0
    BY <1>1, <2>2, <2>3, ExactQuotient
  <2> QED
    BY <2>2, <2>3, <2>4 DEF IsDecision
<1>4. ASSUME StudyB, ~IsDecision(i)
      PROVE  EvidenceIs(e, i + 1)
  <2>1. i # FirstIndex
    BY <1>4, Indices
  <2>2. CASE i <= FirstIndex
    <3>1. i + 1 <= FirstIndex
      BY <1>1, <2>1, <2>2
    <3> QED
      BY <1>4, <2>2, <3>1 DEF EvidenceIs
  <2>3. CASE ~(i <= FirstIndex)
    <3>1. e \in DecisionDays /\ e * HoursPerDay < i
          /\ (e = LastDay \/ i <= e * HoursPerDay + HoursPerDay)
      BY <1>4, <2>3 DEF EvidenceIs
    <3>2. e \in Nat /\ e * HoursPerDay \in Nat /\ (e + 1) * HoursPerDay = e * HoursPerDay + HoursPerDay
      BY <1>1, <3>1, Multiples
    <3>3. e # LastDay => i # e * HoursPerDay + HoursPerDay
      <4>1. e # LastDay => e + 1 \in DecisionDays
        BY <1>1, <3>1
      <4>2. e # LastDay => IsDecision((e + 1) * HoursPerDay)
        BY <1>3, <4>1
      <4>3. ~IsDecision(i)
        BY <1>4
      <4>4. PICK b : b = (e + 1) * HoursPerDay
        OBVIOUS
      <4>5. e # LastDay => IsDecision(b)
        BY <4>2, <4>4
      <4>6. b = e * HoursPerDay + HoursPerDay
        BY <3>2, <4>4
      <4> QED
        BY <4>3, <4>5, <4>6
    <3>4. ~(i + 1 <= FirstIndex)
      BY <1>1, <2>3
    <3>5. e * HoursPerDay < i + 1 /\ (e = LastDay \/ i + 1 <= e * HoursPerDay + HoursPerDay)
      BY <1>1, <3>1, <3>2, <3>3
    <3> QED
      BY <3>1, <3>4, <3>5 DEF EvidenceIs
  <2> QED
    BY <2>2, <2>3
<1>5. ASSUME StudyB, IsDecision(i)
      PROVE  /\ i \div HoursPerDay = IF e = -1 THEN FirstDecision ELSE e + 1
             /\ EvidenceIs(i \div HoursPerDay, i + 1)
  <2>1. PICK d : d = i \div HoursPerDay
    OBVIOUS
  <2>2. d \in DecisionDays /\ i % HoursPerDay = 0
    BY <1>5, <2>1 DEF IsDecision
  <2>3. d \in Nat /\ i = d * HoursPerDay
    BY <1>1, <2>1, <2>2
  <2>4. FirstIndex <= i
    BY <1>1, <2>2, <2>3, Multiples
  <2>5. EvidenceIs(d, i + 1)
    <3>1. ~(i + 1 <= FirstIndex) /\ d * HoursPerDay < i + 1
          /\ i + 1 <= d * HoursPerDay + HoursPerDay
      BY <1>1, <2>3, <2>4
    <3> QED
      BY <1>5, <2>2, <3>1 DEF EvidenceIs
  <2>6. CASE i <= FirstIndex
    <3>1. d * HoursPerDay = FirstDecision * HoursPerDay
      BY <1>1, <2>3, <2>4, <2>6
    <3>2. ~(d < FirstDecision) /\ ~(FirstDecision < d)
      BY <1>1, <2>3, <3>1, Multiples
    <3>3. d = FirstDecision /\ e = -1
      BY <1>1, <2>3, <2>6, <3>2 DEF EvidenceIs
    <3> QED
      BY <2>1, <2>5, <3>3
  <2>7. CASE ~(i <= FirstIndex)
    <3>1. e \in DecisionDays /\ e * HoursPerDay < i
          /\ (e = LastDay \/ i <= e * HoursPerDay + HoursPerDay)
      BY <1>5, <2>7 DEF EvidenceIs
    <3>2. e \in Nat /\ e * HoursPerDay \in Nat /\ (e + 1) * HoursPerDay = e * HoursPerDay + HoursPerDay
      BY <1>1, <3>1, Multiples
    <3>3. e < d
      BY <1>1, <2>3, <3>1, <3>2, Multiples
    <3>4. e # LastDay
      BY <1>1, <2>2, <3>2, <3>3
    <3>5. d * HoursPerDay <= (e + 1) * HoursPerDay
      BY <2>3, <3>1, <3>2, <3>4
    <3>6. d <= e + 1
      BY <1>1, <2>3, <3>2, <3>5, Multiples
    <3>7. d = e + 1 /\ e # -1
      BY <2>3, <3>2, <3>3, <3>6
    <3> QED
      BY <2>1, <2>5, <3>7
  <2> QED
    BY <2>6, <2>7
<1> QED
  BY <1>2, <1>4, <1>5

(* What the decision of Study B asks for is ripe.                           *)
LEMMA EvidenceAccepted ==
  ASSUME FixtureTrue, StudyB, next \in Nat, IsDecision(next),
         EvidenceIs(state.evidenceDay, next), SeenAt(state, Boundary)
  PROVE  ~EvidenceRefused(next \div HoursPerDay)
<1>1. PICK d, e : d = next \div HoursPerDay /\ e = state.evidenceDay
  OBVIOUS
<1>2. d = IF e = -1 THEN FirstDecision ELSE e + 1
  BY <1>1, EvidenceInTurn
<1>3. d \in DecisionDays /\ next % HoursPerDay = 0
  BY <1>1 DEF IsDecision
<1>4. /\ d \in Nat /\ Attribution \in Nat /\ d <= LastDay /\ LastDay \in Nat /\ MonitorDays \in Nat
      /\ Day \in Nat \ {0} /\ Hour \in Nat \ {0} /\ Day = HoursPerDay * Hour
      /\ HoursPerDay \in Nat \ {0} /\ Window = Attribution * Day
  BY <1>3, DaysInOrder, Lengths, ReplayConstants DEF DecisionDays, Window
<1>5. Boundary = d * Day
  <2>1. next = d * HoursPerDay
    BY <1>1, <1>3, <1>4
  <2>2. d * HoursPerDay * Hour = d * (HoursPerDay * Hour)
    BY <1>4
  <2> QED
    BY <1>4, <2>1, <2>2 DEF Boundary
<1>6. ASSUME NEW c \in data.monitored,
             ClickDay(c) \in d - Attribution - MonitorDays .. d - Attribution - 1
      PROVE  c \in state.observed
  <2>1. c \in Clicks
    BY ClickTimes DEF IsFixture
  <2>2. PICK k : k = ClickDay(c)
    OBVIOUS
  <2>3. k \in Int /\ k <= d - Attribution - 1 /\ k + Attribution < d
    BY <1>4, <1>6, <2>2
  <2>4. c \in TrainingClicks
    BY <1>4, <2>1, <2>2, <2>3 DEF TrainingClicks
  <2>5. data.time[c] \in Nat /\ data.time[c] < k * Day + Day
    BY <2>1, <2>2, ClickTimes
  <2>6. (k + Attribution) * Day + Day <= d * Day
    <3>1. PICK a \in Int : a = k + Attribution
      BY <1>4, <2>3
    <3>2. a * Day + Day <= d * Day
      BY <1>4, <2>3, <3>1, Multiples
    <3> QED
      BY <3>1, <3>2
  <2>7. (k + Attribution) * Day = k * Day + Attribution * Day
        /\ k * Day \in Int /\ Attribution * Day \in Int /\ d * Day \in Int
    BY <1>4, <2>3
  <2>8. data.time[c] + Window <= Boundary
    BY <1>4, <1>5, <2>5, <2>6, <2>7
  <2>9. AvailableAt(c) <= Boundary
    <3>1. AvailableAt(c) \in Nat /\ AvailableAt(c) <= data.time[c] + Window
      BY <2>1, Availability
    <3>2. Boundary \in Int
      BY <1>5, <2>7
    <3> QED
      BY <1>4, <2>5, <2>8, <3>1, <3>2, Lengths
  <2> QED
    BY <2>4, <2>9 DEF SeenAt, TruthBy
<1>7. ~(d # (IF e = -1 THEN FirstDecision ELSE e + 1))
  BY <1>2
<1> QED
  BY <1>1, <1>6, <1>7 DEF EvidenceRefused

LEMMA PrefixEntry ==
  ASSUME NEW N \in Nat, NEW f, IsList(f, N), NEW n \in 0 .. N, NEW k \in 1 .. n
  PROVE  SubSeq(f, 1, n)[k] = f[k]
<1> DEFINE T == {f[j] : j \in 1 .. N}
<1>1. f \in Seq(T) /\ Len(f) = N
  BY DEF IsList
<1> HIDE DEF T
<1> QED
  BY <1>1

(* A credit that is in the ledger already is the one spent now.             *)
LEMMA CreditAccepted ==
  ASSUME IInv, pc = "decide", next \div HoursPerDay \in data.credits, Credits < Len(exposures)
  PROVE  exposures[Credits + 1] = Credit
<1>1. /\ FixtureTrue /\ next \in Nat /\ Boundary \in Int /\ Boundary = next * Hour
      /\ IsDecision(next) /\ ComponentsAt(state, Boundary) /\ state.model = ModelBefore(Boundary)
  <2>1. Working /\ ~Waiting /\ ~Untrained /\ Horizon = Boundary
    BY DEF Working, Waiting, Untrained, Horizon
  <2> QED
    BY <2>1, Facts DEF IInv, Placed, Settled, Trained, Boundary
<1>2. Boundary \in DecisionTimes
  BY <1>1, DecisionBoundaries
<1>3. PICK n : n = NumBefore(Boundary)
  OBVIOUS
<1>4. n + 1 \in 1 .. Cardinality(DecisionTimes) /\ Schedule[n + 1] = TrainingAt(Boundary)
  <2>1. PICK t \in DecisionTimes : t = Boundary
    BY <1>2
  <2>2. /\ NumBefore(t) + 1 \in 1 .. Cardinality(DecisionTimes)
        /\ Schedule[NumBefore(t) + 1] = TrainingAt(t)
    BY <1>1, ScheduledAt
  <2> QED
    BY <1>3, <2>1, <2>2
<1>5. n \in Nat /\ Credits = n
  <2>1. Len(ModelBefore(Boundary)) = n + 1 /\ n \in Nat
    BY <1>1, <1>3, Models
  <2> QED
    BY <1>1, <2>1 DEF Credits
<1>6. /\ Len(exposures) \in 0 .. Cardinality(DecisionTimes) /\ Cardinality(DecisionTimes) \in Nat
      /\ exposures = SubSeq(Schedule, 1, Len(exposures))
  BY Facts DEF IInv, Recorded
<1>7. PICK m : m = Len(exposures)
  OBVIOUS
<1>8. n + 1 \in 1 .. m /\ m \in 0 .. Cardinality(DecisionTimes)
  BY <1>5, <1>6, <1>7
<1>9. SubSeq(Schedule, 1, m)[n + 1] = Schedule[n + 1]
  <2>1. PICK f, N : f = Schedule /\ N = Cardinality(DecisionTimes)
    OBVIOUS
  <2>2. IsList(f, N) /\ N \in Nat
    BY <1>6, <2>1 DEF Schedule, IsList
  <2>3. SubSeq(f, 1, m)[n + 1] = f[n + 1]
    BY <1>5, <1>8, <2>1, <2>2, PrefixEntry
  <2> QED
    BY <2>1, <2>3
<1> QED
  BY <1>1, <1>4, <1>5, <1>6, <1>7, <1>9, CreditIs

(* All the evaluation clicks, and all truth, before the run's end.          *)
LEMMA ReachedAll ==
  ASSUME FixtureTrue, NEW t \in Int, SealDay * Day <= t
  PROVE  Reached(0, t) = TrainingClicks
<1>1. \A c \in TrainingClicks :
        data.time[c] \in Nat /\ data.time[c] + 0 = data.time[c] /\ data.time[c] < SealDay * Day
  BY ClickTimes, TrainingTimes DEF TrainingClicks
<1>2. SealDay * Day \in Int
  BY DaysInOrder, Lengths
<1> QED
  BY <1>1, <1>2 DEF Reached

LEMMA TruthByAll ==
  ASSUME FixtureTrue, NEW t \in Int, DrainIndex * Hour <= t
  PROVE  TruthBy(t) = TrainingClicks /\ SealDay * Day <= t
<1>1. /\ SealDay \in Nat /\ Attribution \in Nat /\ DrainDay = SealDay + Attribution
      /\ Day \in Nat \ {0} /\ HoursPerDay \in Nat /\ Hour \in Nat /\ Day = HoursPerDay * Hour
      /\ Window = Attribution * Day /\ DrainIndex = DrainDay * HoursPerDay
  BY DaysInOrder, Lengths DEF Window, DrainIndex
<1>2. DrainIndex * Hour = SealDay * Day + Window /\ SealDay * Day \in Nat /\ Window \in Nat
  <2>1. DrainDay * HoursPerDay * Hour = DrainDay * Day
    BY <1>1
  <2>2. (SealDay + Attribution) * Day = SealDay * Day + Attribution * Day
    BY <1>1
  <2> QED
    BY <1>1, <2>1, <2>2
<1>3. \A c \in TrainingClicks : /\ data.time[c] \in Nat /\ data.time[c] < SealDay * Day
                                /\ AvailableAt(c) \in Nat /\ AvailableAt(c) <= data.time[c] + Window
  BY ClickTimes, TrainingTimes, Availability DEF TrainingClicks
<1>4. SealDay * Day <= t
  BY <1>2
<1>5. \A c \in TrainingClicks : AvailableAt(c) <= t
  BY <1>2, <1>3
<1> QED
  BY <1>4, <1>5 DEF TruthBy

(* A checkpoint is what the restart expects, but for a click on the second  *)
(* of the seal.                                                             *)
LEMMA CheckpointAccepted ==
  ASSUME IInv, Resumable, checkpoint # NoCheckpoint, ~SealTied
  PROVE  ~RestoreRefused
<1>1. /\ FixtureTrue /\ checkpoint.next \in Nat /\ checkpoint.next > FirstIndex
      /\ checkpoint.next <= SealIndex + 1
      /\ ComponentsAt(checkpoint.state, TimeBefore(checkpoint.next))
      /\ checkpoint.state.model = ModelBefore(checkpoint.next * Hour)
      /\ NumBefore(checkpoint.next * Hour) <= Len(exposures)
      /\ checkpoint.credits = Len(checkpoint.state.model) - 1
  BY DEF IInv, Saved, Resumable
<1>2. PICK s, i : s = checkpoint.state /\ i = checkpoint.next
  OBVIOUS
<1>3. /\ i \in Nat /\ i > FirstIndex /\ i <= SealIndex + 1 /\ Hour \in Nat \ {0}
      /\ FirstIndex \in Nat /\ SealIndex \in Nat /\ i - 1 \in Nat
      /\ SealIndex * Hour = SealDay * Day
  BY <1>1, <1>2, Lengths, Indices
<1>4. PICK t \in Int : t = (i - 1) * Hour
  BY <1>3
<1>5. ComponentsAt(s, t) /\ s.lastTime = t
  <2>1. TimeBefore(checkpoint.next) = t
    BY <1>2, <1>3, <1>4 DEF TimeBefore
  <2> QED
    BY <1>1, <1>2, <2>1 DEF ComponentsAt
<1>6. /\ IsCursor(s.clickCursor, Reached(0, t)) /\ s.outcome = OutcomesAt(t)
      /\ Waits => IsCursor(s.dueCursor, Reached(Wait, t))
      /\ Settles => IsCursor(s.maturityCursor, Reached(Window, t))
  BY <1>5 DEF ComponentsAt, CursorsAt
<1>7. \A c \in Clicks : c \in Nat /\ data.time[c] \in Nat /\ data.time[c] + 0 = data.time[c]
                        /\ AvailableAt(c) \in Nat /\ data.time[c] <= AvailableAt(c)
  BY <1>1, ClickTimes, Availability
<1>8. TrainingClicks \subseteq Clicks
  BY DEF TrainingClicks
<1>9. ASSUME NEW c \in s.clickCursor .. NumClicks - 1
      PROVE  s.outcome[c] = "unresolved"
  <2>1. s.clickCursor \in Nat /\ \A b \in Nat : b < s.clickCursor <=> b \in Reached(0, t)
    BY <1>6, CursorMembers
  <2>2. c \in Clicks /\ c \in Nat /\ ~(c < s.clickCursor)
    BY <2>1, Lengths DEF Clicks
  <2>3. c \in TrainingClicks => ~(data.time[c] <= t)
    BY <1>7, <2>1, <2>2 DEF Reached
  <2>4. c \in TrainingClicks => ~(AvailableAt(c) <= t)
    BY <1>7, <2>2, <2>3
  <2> QED
    BY <1>6, <2>2, <2>4 DEF OutcomesAt
<1>10. ASSUME NEW lag \in Nat, NEW j, IsCursor(j, Reached(lag, t))
       PROVE  j = ClickedBy(s.clickCursor, t - lag)
  <2>1. PICK n : n = s.clickCursor
    OBVIOUS
  <2>2. IsCursor(n, Reached(0, t)) /\ t <= t
    BY <1>6, <2>1
  <2>3. IsCursor(ClickedBy(n, t - lag), Reached(lag, t))
    BY <1>1, <1>10, <2>2, Lagging
  <2>4. j = ClickedBy(n, t - lag)
    BY <1>10, <2>3, CursorOf
  <2> QED
    BY <2>1, <2>4
<1>11. ASSUME ~Packed
       PROVE  s.clickCursor = ClickedBy(NumClicks, t)
  <2>1. method = "oracle_reference"
    BY <1>11 DEF Packed
  <2>2. \A c \in Clicks : data.time[c] <= t => data.time[c] < SealDay * Day
    <3>1. CASE i = SealIndex + 1
      <4>1. t = SealDay * Day
        BY <1>3, <1>4, <3>1
      <4>2. \A c \in Clicks : data.time[c] # SealDay * Day
        BY <1>2, <2>1, <3>1 DEF SealTied, SealIndex
      <4> QED
        BY <1>7, <4>1, <4>2
    <3>2. CASE i # SealIndex + 1
      <4>1. i - 1 < SealIndex
        BY <1>3, <3>2
      <4>2. PICK k \in Int : k = i - 1
        BY <1>3
      <4>3. t < SealDay * Day /\ SealDay * Day \in Int
        BY <1>3, <1>4, <4>1, <4>2, Multiples
      <4> QED
        BY <1>7, <4>3
    <3> QED
      BY <3>1, <3>2
  <2>3. \A c \in Clicks : c \in TrainingClicks <=> data.time[c] < SealDay * Day
    BY <1>1, TrainingTimes
  <2>4. {c \in Clicks : data.time[c] <= t} = Reached(0, t)
    BY <1>7, <1>8, <2>2, <2>3 DEF Reached
  <2>5. IsCursor(ClickedBy(NumClicks, t), {c \in Clicks : data.time[c] <= t})
    BY <1>1, ClickedFirst, Lengths DEF Clicks
  <2>6. IsCursor(ClickedBy(NumClicks, t), Reached(0, t))
    BY <2>4, <2>5
  <2> QED
    BY <1>6, <2>6, CursorOf
<1>12. ~MethodRefuses(s)
  <2>1. Waits => s.dueCursor = ClickedBy(s.clickCursor, s.lastTime - Wait)
    BY <1>5, <1>6, <1>10, Lengths
  <2>2. Settles => s.maturityCursor = ClickedBy(s.clickCursor, s.lastTime - Window)
    BY <1>5, <1>6, <1>10, Lengths
  <2>3. ~Packed => s.clickCursor = ClickedBy(NumClicks, s.lastTime)
    BY <1>5, <1>11
  <2> QED
    BY <1>9, <2>1, <2>2, <2>3 DEF MethodRefuses
<1>13. i \in FirstDecision * HoursPerDay + 1 .. SealDay * HoursPerDay + 1
  BY <1>3 DEF FirstIndex, SealIndex
<1>14. i = s.lastTime \div Hour + 1
  <2>1. PICK k \in Int : k = i - 1
    BY <1>3
  <2>2. t \div Hour = k
    BY <1>3, <1>4, <2>1, ExactQuotient
  <2> QED
    BY <1>3, <1>5, <2>1, <2>2
<1>15. s.clickCursor = (IF ClickedBy(NumClicks, t) < TrainingLimit
                        THEN ClickedBy(NumClicks, t) ELSE TrainingLimit)
  <2>1. PICK m : m = (IF ClickedBy(NumClicks, t) < TrainingLimit
                      THEN ClickedBy(NumClicks, t) ELSE TrainingLimit)
    OBVIOUS
  <2>2. IsCursor(m, Reached(0, t))
    BY <1>1, <2>1, CappedCursor
  <2>3. s.clickCursor = m
    BY <1>6, <2>2, CursorOf
  <2> QED
    BY <2>1, <2>3
<1>16. checkpoint.credits = Len(s.model) - 1 /\ ~(Len(exposures) < checkpoint.credits)
  <2>1. PICK u \in Int : u = checkpoint.next * Hour
    BY <1>2, <1>3
  <2>2. Len(ModelBefore(u)) = NumBefore(u) + 1 /\ NumBefore(u) \in Nat
    BY <1>1, Models
  <2>3. checkpoint.credits = NumBefore(u) /\ NumBefore(u) <= Len(exposures)
    BY <1>1, <2>1, <2>2
  <2> QED
    BY <1>1, <1>2, <2>2, <2>3, Facts
<1> QED
  BY <1>2, <1>4, <1>12, <1>13, <1>14, <1>15, <1>16 DEF RestoreRefused

(* The decisions before a time, all of them after the seal.                 *)
LEMMA CountsGrow ==
  ASSUME FixtureTrue, NEW s \in Int, NEW t \in Int, s <= t
  PROVE  /\ NumBefore(s) <= NumBefore(t) /\ NumBefore(s) \in Nat /\ NumBefore(t) \in Nat
         /\ SealIndex * Hour <= s => NumBefore(s) = Cardinality(DecisionTimes)
<1> DEFINE Before(v) == {u \in DecisionTimes : u < v}
<1>1. /\ \A u \in DecisionTimes : u \in Nat
      /\ IsFiniteSet(DecisionTimes) /\ Cardinality(DecisionTimes) \in Nat
  BY DecisionInstants
<1>2. Before(s) \in SUBSET Before(t) /\ Before(t) \in SUBSET DecisionTimes
  BY <1>1
<1>3. IsFiniteSet(Before(t)) /\ Cardinality(Before(s)) <= Cardinality(Before(t))
  BY <1>1, <1>2, FS_Subset
<1>4. ASSUME SealIndex * Hour <= s
      PROVE  Before(s) = DecisionTimes
  <2>1. /\ data.credits \subseteq DecisionDays /\ SealDay = LastDay + 1 /\ LastDay \in Nat
        /\ Day \in Nat \ {0} /\ SealIndex * Hour = SealDay * Day /\ FirstDecision \in Nat
    BY ClickTimes, DaysInOrder, Lengths, Indices
  <2>2. ASSUME NEW d \in data.credits
        PROVE  d * Day < s
    <3>1. d \in Nat /\ d < SealDay
      BY <2>1 DEF DecisionDays
    <3>2. d * Day < SealDay * Day /\ d * Day \in Int /\ SealDay * Day \in Int
      BY <2>1, <3>1, Multiples
    <3> QED
      BY <1>4, <2>1, <3>2
  <2> QED
    BY <2>2 DEF DecisionTimes
<1>5. NumBefore(s) \in Nat /\ NumBefore(t) \in Nat
  BY <1>1, Counting
<1> QED
  BY <1>3, <1>4, <1>5 DEF NumBefore

(* What is seen, what evidence is due and what is predicted depend on the   *)
(* fixture alone, and predictions are only added.                           *)
LEMMA MeaningKept ==
  ASSUME UNCHANGED fixture
  PROVE  /\ \A s, t : SeenAt(s, t)' <=> SeenAt(s, t)
         /\ \A e, i : EvidenceIs(e, i)' <=> EvidenceIs(e, i)
         /\ DOMAIN predictions \subseteq DOMAIN predictions' =>
              \A t : PredictedBy(t) => PredictedBy(t)'
         /\ UNCHANGED checkpoint => (SealTied' <=> SealTied)
<1>1. method' = method /\ data' = data
  BY DEF fixture
<1>2. TrainingClicks' = TrainingClicks /\ EvaluationClicks' = EvaluationClicks
      /\ (StudyB' <=> StudyB)
  BY <1>1 DEF TrainingClicks, EvaluationClicks, ClickDay, StudyB, DecisionDays
<1>3. \A c : AvailableAt(c)' = AvailableAt(c)
  BY <1>1 DEF AvailableAt, Converts
<1>4. \A t : TruthBy(t)' = TruthBy(t)
  BY <1>2, <1>3 DEF TruthBy
<1>5. \A s, t : SeenAt(s, t)' <=> SeenAt(s, t)
  BY <1>1, <1>4 DEF SeenAt
<1>6. \A e, i : EvidenceIs(e, i)' <=> EvidenceIs(e, i)
  BY <1>2 DEF EvidenceIs, FirstIndex, DecisionDays
<1>7. ASSUME DOMAIN predictions \subseteq DOMAIN predictions', NEW t, PredictedBy(t)
      PROVE  PredictedBy(t)'
  BY <1>1, <1>2, <1>7 DEF PredictedBy
<1>8. UNCHANGED checkpoint => (SealTied' <=> SealTied)
  BY <1>1 DEF SealTied, Clicks
<1> QED
  BY <1>5, <1>6, <1>7, <1>8

(* The checkpoint, as long as it and the exposures are not changed.         *)
LEMMA CheckpointKept ==
  ASSUME Faultless, UNCHANGED <<fixture, checkpoint>>,
         DOMAIN predictions \subseteq DOMAIN predictions'
  PROVE  Resumable' /\ (UNCHANGED exposures => Ahead')
<1>1. Resumable'
  <2>1. PICK s, i : s = checkpoint.state /\ i = checkpoint.next
    OBVIOUS
  <2>2. PICK t : t = TimeBefore(i)
    OBVIOUS
  <2>3. checkpoint # NoCheckpoint =>
          /\ SeenAt(s, t) /\ EvidenceIs(s.evidenceDay, i)
          /\ checkpoint.credits = Len(s.model) - 1 /\ PredictedBy(t)
    BY <2>1, <2>2 DEF Faultless, Resumable
  <2>4. checkpoint # NoCheckpoint =>
          /\ SeenAt(s, t)' /\ EvidenceIs(s.evidenceDay, i)'
          /\ checkpoint.credits = Len(s.model) - 1 /\ PredictedBy(t)'
    BY <2>3, MeaningKept
  <2>5. checkpoint' = checkpoint /\ TimeBefore(checkpoint.next)' = t /\ NoCheckpoint' = NoCheckpoint
    BY <2>1, <2>2 DEF TimeBefore, NoCheckpoint
  <2> QED
    BY <2>1, <2>4, <2>5, MeaningKept DEF Resumable
<1>2. ASSUME UNCHANGED exposures
      PROVE  Ahead'
  BY <1>2, FixtureKept DEF Faultless, Ahead, IsDecision, DecisionDays
<1> QED
  BY <1>1, <1>2

(* The run stops, and was not refused.                                      *)
LEMMA StopsFaultless ==
  ASSUME Faultless, UNCHANGED <<fixture, next, state, seed, disk>>,
         pc' \in {"insufficient", "down", "stuck", "done", "refused"},
         pc' = "refused" => SealTied
  PROVE  Faultless'
<1>1. ~Alive'
  BY DEF Alive, Waiting, Working
<1>2. Seen' /\ Foretold' /\ Undecided'
  BY <1>1 DEF Seen, Foretold, Undecided
<1>3. Evidenced'
  BY DEF Evidenced
<1>4. UNCHANGED <<predictions, exposures, sealed, checkpoint>>
  BY DEF disk
<1>5. Ahead' /\ Resumable'
  BY <1>4, CheckpointKept
<1>6. NothingRefused'
  BY <1>4, MeaningKept DEF NothingRefused
<1> QED
  BY <1>2, <1>3, <1>5, <1>6 DEF Faultless

LEMMA InitiallyFaultless == Init => Faultless
<1> SUFFICES ASSUME Init PROVE Faultless
  OBVIOUS
<1>1. /\ FixtureTrue /\ pc = "predict" /\ next = 0 /\ state = Fresh
      /\ exposures = <<>> /\ checkpoint = NoCheckpoint
  BY DEF Init, FixtureTrue
<1>2. /\ state.lastTime = -1 /\ state.observed = {} /\ state.truthEvents = 0
      /\ state.evidenceDay = -1 /\ checkpoint.next = 0
  BY <1>1 DEF Fresh, NoCheckpoint
<1>3. Seen
  <2>1. \A c \in TrainingClicks : ~(AvailableAt(c) <= -1)
    BY <1>1, Availability DEF TrainingClicks
  <2>2. TruthBy(-1) = {}
    BY <2>1 DEF TruthBy
  <2>3. Cardinality(TruthBy(-1)) = 0
    BY <2>2, FS_EmptySet
  <2> QED
    BY <1>2, <2>2, <2>3 DEF Seen, SeenAt
<1>4. Evidenced
  BY <1>1, <1>2, Indices DEF Evidenced, EvidenceIs
<1>5. Foretold
  <2>1. \A c \in EvaluationClicks : ~(data.time[c] <= -1)
    BY <1>1, ClickTimes DEF EvaluationClicks
  <2> QED
    BY <1>1, <1>2, <2>1 DEF Foretold, PredictedBy
<1>6. Undecided
  BY <1>1, <1>2 DEF Undecided
<1>7. Ahead
  <2>1. ASSUME NEW i \in Nat
        PROVE  0 <= NumBefore(i * Hour + 1)
    <3>1. i * Hour + 1 \in Int
      BY Lengths
    <3> QED
      BY <1>1, <3>1, Models
  <2>2. Len(exposures) = 0
    BY <1>1
  <2> QED
    BY <2>1, <2>2 DEF Ahead
<1> QED
  BY <1>1, <1>3, <1>4, <1>5, <1>6, <1>7 DEF Faultless, NothingRefused, Resumable

(* A step of a run that goes on, to the same checkpoint.                    *)
LEMMA GoesOn ==
  ASSUME Faultless, UNCHANGED <<fixture, checkpoint>>, Alive, Alive',
         DOMAIN predictions \subseteq DOMAIN predictions',
         NEW t, t = state'.lastTime, SeenAt(state', t),
         NEW u, u = (IF pc' = "process" THEN Boundary' ELSE t), PredictedBy(u)',
         next \in Nat, next' = next \/ (next' = next + 1 /\ ~IsDecision(next)),
         Evidenced', UNCHANGED exposures \/ Ahead', checkpoint.next \in Nat
  PROVE  Faultless'
<1>1. pc' # "failed" /\ pc' # "refused"
  BY DEF Alive, Waiting, Working
<1>2. NothingRefused'
  BY <1>1 DEF NothingRefused
<1>3. Seen'
  <2>1. SeenAt(state, state.lastTime)'
    BY MeaningKept
  <2> QED
    BY <2>1 DEF Seen
<1>4. Foretold'
  BY DEF Foretold
<1>5. Undecided'
  <2>1. /\ checkpoint.next <= next
        /\ \A i \in Nat : checkpoint.next <= i /\ i < next => ~IsDecision(i)
    BY DEF Faultless, Undecided
  <2>2. checkpoint'.next <= next'
    BY <2>1
  <2>3. \A i \in Nat : i < next' => i < next \/ (i = next /\ ~IsDecision(i))
    OBVIOUS
  <2>4. \A i \in Nat : checkpoint'.next <= i /\ i < next' => ~IsDecision(i)
    BY <2>1, <2>3
  <2> QED
    BY <2>2, <2>4 DEF Undecided, IsDecision, DecisionDays
<1>6. Ahead' /\ Resumable'
  BY CheckpointKept
<1> QED
  BY <1>2, <1>3, <1>4, <1>5, <1>6 DEF Faultless

LEMMA CheckpointBefore ==
  ASSUME IInv
  PROVE  checkpoint.next \in Nat /\ (checkpoint = NoCheckpoint => checkpoint.next = 0)
BY DEF IInv, Saved, NoCheckpoint

LEMMA PredictFaultless == ASSUME IInv, Faultless, Predict PROVE Faultless'
<1> DEFINE refs == IF "primary" \in sealed THEN {} ELSE Arriving \cap EvaluationClicks
<1>1. pc = "predict" /\ Waiting /\ Alive /\ next \in Nat
  BY Facts DEF Predict, Waiting, Alive
<1>2. ASSUME NEW c \in refs \cap DOMAIN predictions
      PROVE  predictions[c] = state.model
  <2>1. c \in Arriving /\ c \in EvaluationClicks
    BY <1>2
  <2>2. state.model = ModelBefore(BoundaryOf(c))
    BY <1>1, <2>1, ArrivingModel
  <2> QED
    BY <1>2, <2>2 DEF IInv, Recorded
<1>3. /\ predictions' = [c \in DOMAIN predictions \cup refs |->
                          IF c \in refs THEN state.model ELSE predictions[c]]
      /\ pc' = "process"
      /\ UNCHANGED <<fixture, next, state, seed, exposures, sealed, checkpoint>>
  BY <1>2 DEF Predict
<1>4. AtProcess /\ state.lastTime = TimeBefore(next)
  BY <1>1, CanProcess
<1>5. SeenAt(state, state.lastTime) /\ PredictedBy(state.lastTime)
  BY <1>1 DEF Faultless, Seen, Foretold
<1>6. DOMAIN predictions' = DOMAIN predictions \cup refs
  BY <1>3
<1>7. ASSUME NEW c \in EvaluationClicks, data.time[c] <= Boundary
      PROVE  c \in DOMAIN predictions'
  <2>1. CASE "primary" \in sealed
    BY <1>6, <2>1 DEF IInv, Recorded
  <2>2. CASE "primary" \notin sealed
    <3>1. c \in TrainingClicks /\ c \in Clicks
      BY DaysInOrder DEF EvaluationClicks, TrainingClicks
    <3>2. data.time[c] + 0 = data.time[c] /\ data.time[c] \in Int /\ state.lastTime \in Int
      BY <3>1, Facts, ClickTimes
    <3>3. CASE data.time[c] <= state.lastTime
      BY <1>5, <1>6, <3>3 DEF PredictedBy
    <3>4. CASE ~(data.time[c] <= state.lastTime)
      <4>1. c \in Falling(0)
        BY <1>7, <3>1, <3>2, <3>4 DEF Falling, Between
      <4>2. c \in Arriving
        BY <1>4, <4>1, CursorsKept
      <4> QED
        BY <1>6, <2>2, <4>2
    <3> QED
      BY <3>3, <3>4
  <2> QED
    BY <2>1, <2>2
<1> HIDE DEF refs
<1>8. PICK t, u : t = state.lastTime /\ u = Boundary
  OBVIOUS
<1>9. /\ t = state'.lastTime /\ SeenAt(state', t) /\ Alive'
      /\ u = (IF pc' = "process" THEN Boundary' ELSE t)
  BY <1>3, <1>5, <1>8 DEF Boundary, Alive, Waiting
<1>10. PredictedBy(u)'
  BY <1>3, <1>7, <1>8, FixtureKept DEF PredictedBy, fixture
<1>11. Evidenced'
  BY <1>1, <1>3, MeaningKept DEF Faultless, Evidenced
<1>12. UNCHANGED <<fixture, checkpoint>> /\ next' = next /\ UNCHANGED exposures
  BY <1>3
<1> QED
  BY <1>1, <1>6, <1>9, <1>10, <1>11, <1>12, CheckpointBefore, GoesOn

LEMMA ProcessFaultless == ASSUME IInv, Faultless, ProcessBoundary PROVE Faultless'
<1>1. pc = "process" /\ Waiting /\ Alive /\ FixtureTrue /\ next \in Nat
  BY Facts DEF ProcessBoundary, Waiting, Alive
<1>2. AtProcess /\ SeenAt(state, state.lastTime) /\ PredictedBy(Boundary)
  BY <1>1, CanProcess DEF Faultless, Seen, Foretold
<1>3. ~ProcessRefused
  BY <1>2, ProcessAccepted
<1>4. /\ ComponentsAt(state', Boundary)
      /\ state'.observed = state.observed \cup (Truth \cap data.monitored)
      /\ state'.truthEvents = state.truthEvents + Cardinality(Truth)
      /\ state'.evidenceDay = state.evidenceDay
  BY <1>3, ProcessComponents
<1>5. /\ pc' = PlaceAfter(next)
      /\ next' = (IF PlaceAfter(next) = "predict" THEN next + 1 ELSE next)
      /\ UNCHANGED <<fixture, predictions, exposures, sealed, checkpoint>>
  BY <1>3 DEF ProcessBoundary, disk
<1>6. PlaceAfter(next) = IF next = FirstIndex THEN "initialize"
                         ELSE IF IsDecision(next) THEN "decide"
                         ELSE IF next = SealIndex THEN "seal primary" ELSE "predict"
  BY <1>1, PlaceIs
<1>7. /\ IsDecision(FirstIndex) /\ SealIndex \in Nat
      /\ next = SealIndex => ~IsDecision(next)
  BY <1>1, Indices, DecisionBoundaries
<1>8. PICK t : t = Boundary
  OBVIOUS
<1>9. t = state'.lastTime /\ SeenAt(state', t)
  <2>1. state'.lastTime = t
    BY <1>4, <1>8 DEF ComponentsAt
  <2> QED
    BY <1>2, <1>4, <1>8, <2>1, TruthOfBoundary DEF SeenAt
<1>10. pc' \in {"initialize", "decide", "seal primary", "predict"} /\ Alive'
  BY <1>5, <1>6 DEF Alive, Waiting, Working
<1>11. t = (IF pc' = "process" THEN Boundary' ELSE t) /\ PredictedBy(t)'
  BY <1>2, <1>5, <1>8, <1>10, MeaningKept
<1>12. next' = next \/ (next' = next + 1 /\ ~IsDecision(next))
  BY <1>5, <1>6, <1>7
<1>13. Evidenced'
  <2>1. PICK e : e = state.evidenceDay
    OBVIOUS
  <2>2. EvidenceIs(e, next) /\ state'.evidenceDay = e
    BY <1>1, <1>4, <2>1 DEF Faultless, Evidenced
  <2>3. ~IsDecision(next) => EvidenceIs(e, next + 1)
    BY <1>1, <2>2, EvidenceInTurn
  <2>4. CASE pc' \in {"initialize", "decide"}
    <3>1. next' = next
      BY <1>5, <2>4
    <3>2. EvidenceIs(e, next)'
      BY <1>5, <2>2, <3>1, MeaningKept
    <3> QED
      BY <2>2, <2>4, <3>2 DEF Evidenced
  <2>5. CASE pc' = "seal primary"
    <3>1. next' = next /\ ~IsDecision(next)
      BY <1>5, <1>6, <1>7, <2>5
    <3>2. EvidenceIs(e, next + 1)'
      BY <1>5, <2>3, <3>1, MeaningKept
    <3> QED
      BY <2>2, <2>5, <3>1, <3>2 DEF Evidenced
  <2>6. CASE pc' = "predict"
    <3>1. next' = next + 1 /\ ~IsDecision(next)
      BY <1>5, <1>6, <1>7, <2>6
    <3>2. EvidenceIs(e, next)'
      BY <1>5, <2>3, <3>1, MeaningKept
    <3> QED
      BY <2>2, <2>6, <3>2 DEF Evidenced
  <2> QED
    BY <1>10, <2>4, <2>5, <2>6
<1> QED
  BY <1>1, <1>5, <1>9, <1>10, <1>11, <1>12, <1>13, CheckpointBefore, GoesOn

(* Within a boundary only the model, the evidence and the seal change.      *)
LEMMA Within ==
  ASSUME IInv, Faultless, Working, UNCHANGED <<fixture, next, predictions, checkpoint>>, Working',
         state'.lastTime = state.lastTime, state'.observed = state.observed,
         state'.truthEvents = state.truthEvents, Evidenced', UNCHANGED exposures \/ Ahead'
  PROVE  Faultless'
<1>1. Alive /\ Alive' /\ pc # "process" /\ pc' # "process"
  BY DEF Alive, Working
<1>2. PICK t : t = state.lastTime
  OBVIOUS
<1>3. t = state'.lastTime /\ SeenAt(state', t)
  BY <1>1, <1>2 DEF Faultless, Seen, SeenAt
<1>4. t = (IF pc' = "process" THEN Boundary' ELSE t) /\ PredictedBy(t)'
  BY <1>1, <1>2, MeaningKept DEF Faultless, Foretold
<1> QED
  BY <1>1, <1>3, <1>4, Facts, CheckpointBefore, GoesOn

LEMMA InitializeFaultless == ASSUME IInv, Faultless, Initialize PROVE Faultless'
<1>1. pc = "initialize" /\ Working
  BY DEF Initialize, Working
<1>2. CASE Insufficient
  <2>1. UNCHANGED <<fixture, next, state, seed, disk>> /\ pc' = "insufficient"
    BY <1>2 DEF Initialize, Insufficient
  <2> QED
    BY <2>1, StopsFaultless
<1>3. CASE ~Insufficient
  <2>1. PICK m : state' = [state EXCEPT !.model = m]
    BY <1>3 DEF Initialize
  <2>2. /\ pc' = "decide" /\ Working'
        /\ UNCHANGED <<fixture, next, predictions, exposures, sealed, checkpoint>>
    BY <1>3 DEF Initialize, Working, disk
  <2>3. /\ state'.lastTime = state.lastTime /\ state'.observed = state.observed
        /\ state'.truthEvents = state.truthEvents /\ state'.evidenceDay = state.evidenceDay
    BY <2>1, Facts DEF IsState
  <2>4. Evidenced'
    BY <1>1, <2>2, <2>3, MeaningKept DEF Faultless, Evidenced
  <2> QED
    BY <1>1, <2>2, <2>3, <2>4, Within
<1> QED
  BY <1>2, <1>3

LEMMA DecideFaultless == ASSUME IInv, Faultless, Decide PROVE Faultless'
<1> DEFINE day == next \div HoursPerDay
           known == Credits < Len(exposures)
           decided == [state EXCEPT !.evidenceDay = IF StudyB THEN day ELSE @]
<1>1. pc = "decide" /\ Working /\ ~Waiting /\ ~Untrained /\ Horizon = Boundary
      /\ UNCHANGED fixture
  BY DEF Decide, Working, Waiting, Untrained, Horizon
<1>2. /\ FixtureTrue /\ next \in Nat /\ Boundary \in Nat /\ Boundary = next * Hour
      /\ IsDecision(next) /\ state.lastTime = Boundary /\ IsState(state)
      /\ state.model = ModelBefore(Boundary)
  BY <1>1, Facts DEF IInv, Placed, Settled, Trained, Boundary
<1>3. SeenAt(state, Boundary) /\ EvidenceIs(state.evidenceDay, next)
  BY <1>1, <1>2 DEF Faultless, Seen, Alive, Evidenced
<1>4. StudyB => ~EvidenceRefused(day)
  BY <1>2, <1>3, EvidenceAccepted
<1>5. day \in data.credits /\ known => exposures[Credits + 1] = Credit
  BY <1>1, CreditAccepted
<1>6. \/ Insufficient
      \/ /\ day \notin data.credits /\ state' = decided /\ pc' = "save"
         /\ UNCHANGED <<next, seed, disk>>
      \/ /\ day \in data.credits
         /\ state' = [decided EXCEPT !.model = Append(@, Credit)]
         /\ exposures' = (IF known THEN exposures ELSE Append(exposures, Credit))
         /\ pc' = "save"
         /\ UNCHANGED <<next, seed, predictions, sealed, checkpoint>>
  BY <1>4, <1>5 DEF Decide
<1>7. PICK e : e = (IF StudyB THEN day ELSE state.evidenceDay)
  OBVIOUS
<1>8. EvidenceIs(e, next + 1)
  <2>1. PICK old : old = state.evidenceDay
    OBVIOUS
  <2>2. /\ StudyB => EvidenceIs(day, next + 1)
        /\ ~StudyB => EvidenceIs(old, next + 1)
    BY <1>2, <1>3, <2>1, EvidenceInTurn
  <2> QED
    BY <1>7, <2>1, <2>2
<1>9. ASSUME NEW v, NEW m, v = decided \/ v = [decided EXCEPT !.model = m]
      PROVE  /\ v.lastTime = state.lastTime /\ v.observed = state.observed
             /\ v.truthEvents = state.truthEvents /\ v.evidenceDay = e
  <2>1. decided = [state EXCEPT !.evidenceDay = e]
    BY <1>7
  <2> HIDE DEF decided
  <2> QED
    BY <1>2, <1>9, <2>1 DEF IsState
<1>10. ASSUME pc' = "save", UNCHANGED <<next, predictions, checkpoint>>, state'.evidenceDay = e,
              state'.lastTime = state.lastTime, state'.observed = state.observed,
              state'.truthEvents = state.truthEvents, UNCHANGED exposures \/ Ahead'
       PROVE  Faultless'
  <2>1. EvidenceIs(e, next + 1)'
    BY <1>1, <1>8, <1>10, MeaningKept
  <2>2. Evidenced'
    BY <1>10, <2>1 DEF Evidenced
  <2> QED
    BY <1>1, <1>10, <2>2, Within DEF Working
<1>11. CASE Insufficient
  <2>1. UNCHANGED <<fixture, next, state, seed, disk>> /\ pc' = "insufficient"
    BY <1>1, <1>11 DEF Insufficient
  <2> QED
    BY <2>1, StopsFaultless
<1>12. CASE /\ day \notin data.credits /\ state' = decided /\ pc' = "save"
            /\ UNCHANGED <<next, seed, disk>>
  <2>1. UNCHANGED <<next, predictions, exposures, checkpoint>>
    BY <1>12 DEF disk
  <2>2. PICK v : v = state' /\ v = decided
    BY <1>12
  <2> HIDE DEF decided
  <2>3. /\ v.lastTime = state.lastTime /\ v.observed = state.observed
        /\ v.truthEvents = state.truthEvents /\ v.evidenceDay = e
    BY <1>9, <2>2
  <2> QED
    BY <1>10, <1>12, <2>1, <2>2, <2>3
<1>13. CASE /\ day \in data.credits
            /\ state' = [decided EXCEPT !.model = Append(@, Credit)]
            /\ exposures' = (IF known THEN exposures ELSE Append(exposures, Credit))
            /\ pc' = "save"
            /\ UNCHANGED <<next, seed, predictions, sealed, checkpoint>>
  <2>1. PICK v, m : v = state' /\ m = Append(decided.model, Credit)
    OBVIOUS
  <2>2. v = [decided EXCEPT !.model = m]
    BY <1>13, <2>1
  <2> HIDE DEF decided
  <2>3. /\ v.lastTime = state.lastTime /\ v.observed = state.observed
        /\ v.truthEvents = state.truthEvents /\ v.evidenceDay = e
    BY <1>9, <2>2
  <2>4. CASE known
    BY <1>10, <1>13, <2>1, <2>3, <2>4
  <2>5. CASE ~known
    <3>1. PICK n : n = NumBefore(Boundary)
      OBVIOUS
    <3>2. n \in Nat /\ Credits = n
      <4>1. Len(ModelBefore(Boundary)) = n + 1 /\ n \in Nat
        BY <1>2, <3>1, Models
      <4> QED
        BY <1>2, <4>1 DEF Credits
    <3>3. NumBefore(Boundary + 1) = n + 1
      <4>1. PICK t \in DecisionTimes : t = Boundary /\ t \in Int
        BY <1>2, <1>13, DecisionBoundaries
      <4> QED
        BY <1>2, <3>1, <4>1, Counting
    <3>4. Len(exposures') \in Nat /\ Len(exposures') <= n + 1
      <4>1. exposures = SubSeq(Schedule, 1, Len(exposures))
            /\ Len(exposures) \in 0 .. Cardinality(DecisionTimes)
            /\ Cardinality(DecisionTimes) \in Nat
        BY Facts DEF IInv, Recorded
      <4>2. PICK f, N, k : f = Schedule /\ N = Cardinality(DecisionTimes) /\ k = Len(exposures)
        OBVIOUS
      <4>3. N \in Nat /\ k \in 0 .. N /\ IsList(f, N)
        BY <4>1, <4>2 DEF Schedule, IsList
      <4>4. SubSeq(f, 1, k) \in Seq({f[j] : j \in 1 .. N})
        BY <4>3, Prefixes
      <4>5. exposures \in Seq({f[j] : j \in 1 .. N})
        BY <4>1, <4>2, <4>4
      <4>6. Len(Append(exposures, Credit)) = k + 1
        BY <4>2, <4>5
      <4> QED
        BY <1>13, <2>5, <3>2, <4>2, <4>3, <4>6
    <3>5. Ahead'
      <4>1. ASSUME NEW i \in Nat, IsDecision(i), checkpoint.next <= i
            PROVE  n + 1 <= NumBefore(i * Hour + 1) /\ NumBefore(i * Hour + 1) \in Nat
        <5>1. ~(i < next)
          BY <1>1, <4>1 DEF Faultless, Undecided, Alive
        <5>2. Hour \in Nat \ {0} /\ i * Hour \in Nat /\ next * Hour <= i * Hour
          BY <1>2, <5>1, Lengths, Multiples
        <5>3. PICK a \in Int, b \in Int : a = Boundary + 1 /\ b = i * Hour + 1
          BY <1>2, <5>2
        <5>4. a <= b
          BY <1>2, <5>2, <5>3
        <5>5. NumBefore(a) <= NumBefore(b) /\ NumBefore(b) \in Nat
          BY <1>2, <5>4, CountsGrow
        <5> QED
          BY <3>3, <5>3, <5>5
      <4>2. \A i \in Nat : IsDecision(i) /\ checkpoint'.next <= i =>
                             Len(exposures') <= NumBefore(i * Hour + 1)
        BY <1>13, <3>2, <3>4, <4>1
      <4> QED
        BY <1>1, <4>2, FixtureKept DEF Ahead, IsDecision, DecisionDays
    <3> QED
      BY <1>10, <1>13, <2>1, <2>3, <3>5
  <2> QED
    BY <2>4, <2>5
<1> QED
  BY <1>6, <1>11, <1>12, <1>13

LEMMA SealPrimaryFaultless == ASSUME IInv, Faultless, SealPrimary PROVE Faultless'
<1>1. pc = "seal primary" /\ Working /\ ~Waiting /\ ~Untrained /\ Horizon = Boundary /\ Alive
  BY DEF SealPrimary, Working, Waiting, Untrained, Horizon, Alive
<1>2. /\ FixtureTrue /\ next = SealIndex /\ Boundary \in Nat /\ Boundary = SealIndex * Hour
      /\ state.lastTime = Boundary /\ state.model = ModelBefore(Boundary)
      /\ NumBefore(Boundary) <= Len(exposures)
  BY <1>1, Facts DEF IInv, Placed, Settled, Trained, Boundary
<1>3. NumBefore(Boundary) = Cardinality(DecisionTimes)
  <2>1. PICK t \in Int : t = Boundary
    BY <1>2
  <2>2. NumBefore(t) = Cardinality(DecisionTimes)
    BY <1>2, <2>1, CountsGrow
  <2> QED
    BY <2>1, <2>2
<1>4. /\ Credits = Cardinality(data.credits) /\ Len(exposures) = Cardinality(data.credits)
  <2>1. PICK t \in Int : t = Boundary
    BY <1>2
  <2>2. Len(ModelBefore(t)) = NumBefore(t) + 1 /\ NumBefore(t) \in Nat
    BY <1>2, Models
  <2>3. Credits = Cardinality(DecisionTimes)
    BY <1>2, <1>3, <2>1, <2>2 DEF Credits
  <2>4. Len(exposures) \in 0 .. Cardinality(DecisionTimes)
    BY DEF IInv, Recorded
  <2>5. Len(exposures) = Cardinality(DecisionTimes)
    BY <1>2, <1>3, <2>4, Facts
  <2> QED
    BY <2>3, <2>5, Facts
<1>5. DOMAIN predictions = EvaluationClicks
  <2>1. \A c \in EvaluationClicks : data.time[c] <= Boundary
    <3>1. Reached(0, Boundary) = TrainingClicks
      BY <1>2, ReachedAll, Indices
    <3>2. EvaluationClicks \subseteq TrainingClicks /\ TrainingClicks \subseteq Clicks
      BY DaysInOrder DEF EvaluationClicks, TrainingClicks
    <3> QED
      BY <1>2, <3>1, <3>2, ClickTimes DEF Reached
  <2>2. PredictedBy(Boundary)
    BY <1>1, <1>2 DEF Faultless, Foretold
  <2> QED
    BY <2>1, <2>2 DEF PredictedBy, IInv, Recorded
<1>6. ~SealRefused
  BY <1>4, <1>5 DEF SealRefused
<1>7. /\ pc' = "seal exposures" /\ Working'
      /\ UNCHANGED <<fixture, next, state, predictions, exposures, checkpoint>>
  BY <1>6 DEF SealPrimary, Working
<1>8. Evidenced'
  BY <1>1, <1>7, MeaningKept DEF Faultless, Evidenced
<1> QED
  BY <1>1, <1>7, <1>8, Within

LEMMA SealExposuresFaultless == ASSUME IInv, Faultless, SealExposures PROVE Faultless'
<1>1. /\ pc = "seal exposures" /\ pc' = "save" /\ Working /\ Working'
      /\ UNCHANGED <<fixture, next, state, predictions, exposures, checkpoint>>
  BY DEF SealExposures, Working
<1>2. Evidenced'
  BY <1>1, MeaningKept DEF Faultless, Evidenced
<1> QED
  BY <1>1, <1>2, Within

LEMMA SaveFaultless == ASSUME IInv, Faultless, Save PROVE Faultless'
<1>1. /\ pc = "save" /\ pc' = "predict" /\ next' = next + 1
      /\ checkpoint' = [next |-> next + 1, state |-> state, credits |-> Len(exposures)]
      /\ UNCHANGED <<fixture, state, predictions, exposures, sealed>>
  BY DEF Save
<1>2. /\ Working /\ ~Waiting /\ ~Untrained /\ Horizon = Boundary + 1 /\ Alive
      /\ Alive' /\ ~Working'
  BY <1>1 DEF Working, Waiting, Untrained, Horizon, Alive
<1>3. /\ FixtureTrue /\ next \in Nat /\ Boundary \in Nat /\ Boundary = next * Hour
      /\ state.lastTime = Boundary /\ state.model = ModelBefore(Boundary + 1)
      /\ NumBefore(Boundary + 1) <= Len(exposures) /\ Len(exposures) \in Nat
      /\ (IsDecision(next) \/ next = SealIndex)
  BY <1>1, <1>2, Facts DEF IInv, Placed, Settled, Trained, Boundary
<1>4. /\ SeenAt(state, Boundary) /\ EvidenceIs(state.evidenceDay, next + 1)
      /\ PredictedBy(Boundary) /\ checkpoint.next <= next /\ checkpoint.next \in Nat
  BY <1>1, <1>2, <1>3, CheckpointBefore DEF Faultless, Seen, Evidenced, Foretold, Undecided
<1>5. PICK t \in Int : t = Boundary + 1
  BY <1>3
<1>6. NumBefore(t) \in Nat /\ Len(ModelBefore(t)) = NumBefore(t) + 1
  BY <1>3, Models
<1>7. Len(exposures) = NumBefore(t)
  <2>1. CASE IsDecision(next)
    <3>1. Len(exposures) <= NumBefore(next * Hour + 1)
      BY <1>3, <1>4, <2>1 DEF Faultless, Ahead
    <3> QED
      BY <1>3, <1>5, <1>6, <3>1
  <2>2. CASE next = SealIndex
    <3>1. SealIndex * Hour <= t
      BY <1>3, <1>5, <2>2
    <3>2. NumBefore(t) = Cardinality(DecisionTimes)
      BY <1>3, <3>1, CountsGrow
    <3>3. Len(exposures) \in 0 .. Cardinality(DecisionTimes)
      BY DEF IInv, Recorded
    <3> QED
      BY <1>3, <1>5, <3>2, <3>3, Facts
  <2> QED
    BY <1>3, <2>1, <2>2
<1>8. checkpoint'.credits = Len(state.model) - 1
  BY <1>1, <1>3, <1>5, <1>6, <1>7
<1>9. PICK s, e, u, i : s = state /\ e = state.evidenceDay /\ u = Boundary /\ i = next + 1
  OBVIOUS
<1>10. SeenAt(s, u)' /\ EvidenceIs(e, i)' /\ PredictedBy(u)'
  BY <1>1, <1>4, <1>9, MeaningKept
<1>11. /\ state'.lastTime = u /\ state' = s /\ s.evidenceDay = e /\ next' = i
       /\ checkpoint'.next = i /\ checkpoint'.state = s /\ TimeBefore(checkpoint.next)' = u
  <2>1. TimeBefore(next + 1) = Boundary
    BY <1>3, NextBoundary
  <2> QED
    BY <1>1, <1>3, <1>9, <2>1 DEF TimeBefore
<1>12. NothingRefused' /\ Seen' /\ Evidenced' /\ Foretold'
  BY <1>1, <1>10, <1>11 DEF NothingRefused, Seen, Evidenced, Foretold
<1>13. Undecided'
  BY <1>3, <1>9, <1>11 DEF Undecided
<1>14. Ahead'
  <2>1. \A j \in Nat : IsDecision(j) /\ next + 1 <= j => Len(exposures) <= NumBefore(j * Hour + 1)
    <3>1. \A j \in Nat : next + 1 <= j => checkpoint.next <= j
      BY <1>3, <1>4
    <3> QED
      BY <3>1 DEF Faultless, Ahead
  <2> QED
    BY <1>1, <1>9, <1>11, <2>1, FixtureKept DEF Ahead, IsDecision, DecisionDays
<1>15. Resumable'
  BY <1>1, <1>8, <1>9, <1>10, <1>11 DEF Resumable
<1> QED
  BY <1>12, <1>13, <1>14, <1>15 DEF Faultless

LEMMA FinishFaultless == ASSUME IInv, Faultless, Finish PROVE Faultless'
<1>1. /\ pc = "predict" /\ next > DrainIndex /\ Waiting /\ Alive
      /\ UNCHANGED <<fixture, next, state, seed, disk>>
  BY DEF Finish, DrainIndex, Waiting, Alive
<1>2. FixtureTrue /\ next \in Nat /\ AtProcess /\ state.lastTime = TimeBefore(next)
  BY <1>1, Facts, CanProcess
<1>3. PICK t \in Int : t = state.lastTime
  BY Facts
<1>4. DrainIndex * Hour <= t
  <2>1. PICK i \in Nat : i = next - 1
    BY <1>1, <1>2, Indices
  <2>2. next = i + 1 /\ t = i * Hour /\ DrainIndex <= i
    BY <1>1, <1>2, <1>3, <2>1, Indices DEF TimeBefore
  <2> QED
    BY <2>1, <2>2, Indices, Lengths, Multiples
<1>5. TruthBy(t) = TrainingClicks /\ Reached(0, t) = TrainingClicks
  BY <1>2, <1>4, TruthByAll, ReachedAll
<1>6. state.truthEvents = TrainingLimit
  BY <1>1, <1>3, <1>5 DEF Faultless, Seen, SeenAt, TrainingLimit
<1>7. state.clickCursor = TrainingLimit
  <2>1. IsCursor(state.clickCursor, TrainingClicks)
    BY <1>2, <1>3, <1>5 DEF AtProcess, ComponentsAt, CursorsAt
  <2> QED
    BY <1>2, <2>1, TrainingFirst, CursorOf
<1>8. pc' = "done"
  BY <1>6, <1>7 DEF Finish
<1> QED
  BY <1>1, <1>8, StopsFaultless

LEMMA RestoreFaultless == ASSUME IInv, Faultless, Restore PROVE Faultless'
<1>1. /\ checkpoint # NoCheckpoint /\ next' = checkpoint.next /\ state' = checkpoint.state
      /\ pc' = "predict"
      /\ UNCHANGED <<fixture, predictions, exposures, sealed, checkpoint>>
  BY DEF Restore, disk
<1>2. PICK s, i, t : s = checkpoint.state /\ i = checkpoint.next /\ t = TimeBefore(i)
  OBVIOUS
<1>3. SeenAt(s, t) /\ EvidenceIs(s.evidenceDay, i) /\ PredictedBy(t) /\ i \in Nat
      /\ s.lastTime = t
  BY <1>1, <1>2 DEF Faultless, Resumable, IInv, Saved, ComponentsAt
<1>4. SeenAt(s, t)' /\ EvidenceIs(s.evidenceDay, i)' /\ PredictedBy(t)'
  BY <1>1, <1>3, MeaningKept
<1>5. state' = s /\ next' = i /\ state'.lastTime = t
  BY <1>1, <1>2, <1>3
<1>6. NothingRefused' /\ Seen' /\ Evidenced' /\ Foretold'
  BY <1>1, <1>4, <1>5 DEF NothingRefused, Seen, Evidenced, Foretold
<1>7. Undecided'
  BY <1>1, <1>2, <1>3, <1>5 DEF Undecided
<1>8. Ahead' /\ Resumable'
  BY <1>1, CheckpointKept
<1> QED
  BY <1>6, <1>7, <1>8 DEF Faultless

LEMMA FaultlessKept == IInv /\ Faultless /\ [Next]_vars => Faultless'
<1> SUFFICES ASSUME IInv, Faultless, [Next]_vars PROVE Faultless'
  OBVIOUS
<1>1. CASE Run
  BY <1>1, PredictFaultless, ProcessFaultless, InitializeFaultless, DecideFaultless,
     SealPrimaryFaultless, SealExposuresFaultless, SaveFaultless, FinishFaultless DEF Run
<1>2. CASE Crash \/ RefuseRoot
  <2>1. UNCHANGED <<fixture, next, state, seed, disk>> /\ pc' \in {"down", "stuck"}
    BY <1>2 DEF Crash, RefuseRoot
  <2> QED
    BY <2>1, StopsFaultless
<1>3. CASE Refuse
  <2>1. SealTied
    BY <1>3, CheckpointAccepted DEF Refuse, Faultless
  <2>2. UNCHANGED <<fixture, next, state, seed, disk>> /\ pc' = "refused"
    BY <1>3 DEF Refuse
  <2> QED
    BY <2>1, <2>2, StopsFaultless
<1>4. CASE Restore
  BY <1>4, RestoreFaultless
<1>5. CASE UNCHANGED vars
  <2>1. UNCHANGED <<fixture, pc, next, state, predictions, exposures, sealed, checkpoint>>
    BY <1>5 DEF vars, disk
  <2>2. /\ (Alive' <=> Alive) /\ Boundary' = Boundary
    BY <2>1 DEF Alive, Waiting, Working, Boundary
  <2>3. PICK u : u = (IF pc = "process" THEN Boundary ELSE state.lastTime)
    OBVIOUS
  <2>4. NothingRefused'
    BY <2>1, MeaningKept DEF Faultless, NothingRefused
  <2>5. Seen'
    BY <2>1, <2>2, MeaningKept DEF Faultless, Seen
  <2>6. Evidenced'
    BY <2>1, MeaningKept DEF Faultless, Evidenced
  <2>7. Foretold'
    <3>1. Alive => PredictedBy(u)'
      BY <2>1, <2>3, MeaningKept DEF Faultless, Foretold
    <3> QED
      BY <2>1, <2>2, <2>3, <3>1 DEF Foretold
  <2>8. Undecided'
    BY <2>1, <2>2 DEF Faultless, Undecided, IsDecision, DecisionDays
  <2>9. Ahead' /\ Resumable'
    BY <2>1, CheckpointKept
  <2> QED
    BY <2>4, <2>5, <2>6, <2>7, <2>8, <2>9 DEF Faultless
<1> QED
  BY <1>1, <1>2, <1>3, <1>4, <1>5 DEF Next, Restart

(* No step of a run is refused: the records of a boundary go into the       *)
(* stores, its truth and its evidence are in turn, predictions and credits  *)
(* repeat what is on disk, the seal and the end find everything there; and  *)
(* a restart refuses no checkpoint but that of the oracle whose seal a      *)
(* click ties.                                                              *)
THEOREM NothingRefusedCorrect == Spec => []NothingRefused
<1>1. Init => IInv /\ Faultless
  BY Initially, InitiallyFaultless
<1>2. (IInv /\ Faultless) /\ [Next]_vars => (IInv /\ Faultless)'
  BY InvariantKept, FaultlessKept
<1>3. IInv /\ Faultless => NothingRefused
  BY DEF Faultless
<1> QED
  BY <1>1, <1>2, <1>3, PTL DEF Spec
=============================================================================
