------------------------ MODULE CreditScheduler_proofs ------------------------
(***************************************************************************)
(* Proofs about CreditScheduler: the windows tile the horizon, the state   *)
(* is always one load_state_dict accepts, and from that one credit per     *)
(* window, spent when due, for every horizon and window width.             *)
(***************************************************************************)
EXTENDS CreditScheduler, FiniteSetTheorems, TLAPS

LEMMA WidthPositive == Width \in Nat /\ Width > 0
  BY SchedulerConstants DEF Width

LEMMA WindowBounds ==
  ASSUME NEW w \in Windows
  PROVE  /\ w \in Nat
         /\ FirstDay(w) \in Nat /\ EndOfWindow(w) \in Nat
         /\ FirstDay(w) < EndOfWindow(w)
         /\ StartDay <= FirstDay(w) /\ EndOfWindow(w) <= EndDay
         /\ EndOfWindow(w) <= FirstDay(w) + Width
<1>1. w \in Nat /\ w * Width \in Nat
  BY WidthPositive, SchedulerConstants DEF Windows, WindowIds
<1> QED
  BY <1>1, WidthPositive, SchedulerConstants
  DEF Windows, WindowIds, FirstDay, EndOfWindow, Lesser

LEMMA OneWindow ==
  ASSUME NEW d \in Days, NEW v, NEW w, InWindow(d, v), InWindow(d, w)
  PROVE  v = w
<1>1. v \in Windows /\ w \in Windows
  BY DEF InWindow
<1>2. /\ v \in Nat /\ w \in Nat
      /\ StartDay + v * Width <= d /\ d < StartDay + v * Width + Width
      /\ StartDay + w * Width <= d /\ d < StartDay + w * Width + Width
  BY <1>1, WindowBounds, WidthPositive, SchedulerConstants DEF InWindow, FirstDay, Days
<1>3. ASSUME NEW a \in Nat, NEW b \in Nat, a < b
      PROVE  a * Width + Width <= b * Width
  <2>1. PICK c \in Nat : b = a + 1 + c
    BY <1>3
  <2>2. b * Width = a * Width + Width + c * Width /\ c * Width \in Nat
    BY <2>1, WidthPositive
  <2>3. a * Width \in Nat
    BY WidthPositive
  <2> QED
    BY <2>2, <2>3, WidthPositive
<1>4. ~(v < w)
  BY <1>2, <1>3, WidthPositive, SchedulerConstants DEF Days
<1>5. ~(w < v)
  BY <1>2, <1>3, WidthPositive, SchedulerConstants DEF Days
<1> QED
  BY <1>2, <1>4, <1>5

LEMMA SomeWindow ==
  ASSUME NEW d \in Days
  PROVE  \E w \in Windows : InWindow(d, w)
<1> DEFINE w == (d - StartDay) \div Width
<1>1. d \in Nat /\ StartDay <= d /\ d < EndDay
  BY SchedulerConstants DEF Days
<1>2. /\ w \in Nat
      /\ w * Width <= d - StartDay /\ d - StartDay < w * Width + Width
  BY <1>1, WidthPositive, SchedulerConstants
<1>3. w <= d - StartDay
  <2>1. w <= w * Width
    BY <1>2, WidthPositive
  <2> QED
    BY <1>1, <1>2, <2>1, WidthPositive, SchedulerConstants
<1>4. w * Width \in Nat
  BY <1>2, WidthPositive
<1> HIDE DEF w
<1>5. w \in Windows
  BY <1>1, <1>2, <1>3, <1>4, WidthPositive, SchedulerConstants DEF Windows, WindowIds
<1>6. InWindow(d, w)
  BY <1>1, <1>2, <1>4, <1>5, WidthPositive, SchedulerConstants
  DEF InWindow, FirstDay, EndOfWindow, Lesser
<1> QED
  BY <1>5, <1>6

\* The windows build_credit_windows returns tile the horizon, for every
\* horizon and width.
THEOREM Tiling == WindowsTile
<1>1. \A w \in Windows : InWindow(Deadline(w), w)
  BY WindowBounds DEF InWindow, Deadline
<1>2. \A d \in Days : \E w \in Windows :
        InWindow(d, w) /\ \A v \in Windows : InWindow(d, v) => v = w
  BY SomeWindow, OneWindow
<1> QED
  BY <1>1, <1>2 DEF WindowsTile

-----------------------------------------------------------------------------
(* Typing.                                                                 *)

LEMMA StartTyped == Init => TypeOK
  BY SchedulerConstants
  DEF Init, TypeOK, Checkpoints, Decision, Days, NoDay, WindowIds

LEMMA DecisionTyped ==
  ASSUME NEW d \in Days, NEW w \in Windows, NEW e \in Evidence
  PROVE  /\ DecisionOf(d, w, e) \in Decision
         /\ DecisionOf(d, w, e).reason # "undecided"
  BY DEF DecisionOf, Decision, Reasons, Evidence

LEMMA StepTyped == TypeOK /\ [Next]_vars => TypeOK'
<1> SUFFICES ASSUME TypeOK, [Next]_vars
             PROVE  TypeOK'
  OBVIOUS
<1> USE SchedulerConstants
<1>1. CASE \E e \in Evidence : Decide(e)
  <2>1. PICK e \in Evidence : Decide(e)
    BY <1>1
  <2>2. PICK w \in Windows :
          /\ InWindow(cursor, w)
          /\ decisions' = [decisions EXCEPT ![cursor] = DecisionOf(cursor, w, e)]
          /\ spent' = IF DecisionOf(cursor, w, e).spend THEN spent \cup {w} ELSE spent
          /\ credits' = IF DecisionOf(cursor, w, e).spend THEN credits + 1 ELSE credits
    BY <2>1 DEF Decide
  <2>3. cursor \in Days
    BY <2>1 DEF Decide, TypeOK, Days
  <2>4. decisions' \in [Days -> Decision]
    BY <2>2, <2>3, DecisionTyped DEF TypeOK
  <2>5. log' \in [Days -> Evidence \cup {"absent"}]
    BY <2>1, <2>3 DEF TypeOK, Decide
  <2>6. spent' \subseteq WindowIds /\ credits' \in Nat
    BY <2>2 DEF TypeOK, Windows
  <2> QED
    BY <2>1, <2>3, <2>4, <2>5, <2>6 DEF TypeOK, Decide
<1>2. CASE Save
  <2>1. cursor + 1 \in StartDay .. EndDay
    BY <1>2 DEF Save, TypeOK, Days
  <2> QED
    BY <1>2, <2>1 DEF Save, TypeOK, Checkpoints
<1>3. CASE Finish
  BY <1>3 DEF Finish, TypeOK
<1>4. CASE Crash
  BY <1>4 DEF Crash, TypeOK
<1>5. CASE Restore
  BY <1>5 DEF Restore, TypeOK, Checkpoints
<1>6. CASE RefuseRestore
  BY <1>6 DEF RefuseRestore, TypeOK
<1>7. CASE Corrupt
  <2>1. saved' \in Checkpoints
    <3>1. saved \in Checkpoints
      BY DEF TypeOK
    <3>2. ASSUME NEW d \in Days, NEW s \in BOOLEAN, NEW r \in {"waiting", "already_spent"},
                 saved' = [saved EXCEPT !.decisions[d] =
                             [spend |-> s, reason |-> r, score |-> "none"]]
          PROVE  saved' \in Checkpoints
      <4>1. [spend |-> s, reason |-> r, score |-> "none"] \in Decision
        BY DEF Decision, Reasons, Evidence
      <4>2. [saved.decisions EXCEPT ![d] = [spend |-> s, reason |-> r, score |-> "none"]]
              \in [Days -> Decision]
        BY <3>1, <4>1 DEF Checkpoints
      <4> QED
        BY <3>1, <3>2, <4>2 DEF Checkpoints
    <3>3. ASSUME NEW d \in Days, NEW e \in Evidence \cup {"absent"},
                 saved' = [saved EXCEPT !.log[d] = e]
          PROVE  saved' \in Checkpoints
      <4>1. [saved.log EXCEPT ![d] = e] \in [Days -> Evidence \cup {"absent"}]
        BY <3>1 DEF Checkpoints
      <4> QED
        BY <3>1, <3>3, <4>1 DEF Checkpoints
    <3>4. ASSUME NEW w \in Windows,
                 \/ saved' = [saved EXCEPT !.spent = @ \cup {w}]
                 \/ saved' = [saved EXCEPT !.spent = @ \ {w}]
          PROVE  saved' \in Checkpoints
      <4>1. saved.spent \cup {w} \in SUBSET WindowIds
        BY <3>1 DEF Checkpoints, Windows
      <4>2. saved.spent \ {w} \in SUBSET WindowIds
        BY <3>1 DEF Checkpoints
      <4> QED
        BY <3>1, <3>4, <4>1, <4>2 DEF Checkpoints
    <3> QED
      BY <1>7, <3>2, <3>3, <3>4 DEF Corrupt
  <2> QED
    BY <1>7, <2>1 DEF Corrupt, TypeOK
<1>8. CASE UNCHANGED vars
  BY <1>8 DEF vars, TypeOK
<1> QED
  BY <1>1, <1>2, <1>3, <1>4, <1>5, <1>6, <1>7, <1>8 DEF Next

\* Every field of the scheduler, the controller and the stored checkpoint keeps
\* its type, altered checkpoints included.
THEOREM TypeCorrect == Spec => []TypeOK
  BY StartTyped, StepTyped, PTL DEF Spec

-----------------------------------------------------------------------------
(* The state is always one that load_state_dict accepts.                   *)

LEMMA WindowsFixed ==
  ASSUME policy' = policy
  PROVE  /\ Windows' = Windows
         /\ \A d, w : InWindow(d, w)' <=> InWindow(d, w)
         /\ \A d, e : SameWindow(d, e)' <=> SameWindow(d, e)
         /\ \A d : IsDue(d)' <=> IsDue(d)
         /\ \A w : Due(w)' = Due(w)
<1>1. Width' = Width
  BY DEF Width
<1>2. Windows' = Windows
  BY <1>1 DEF Windows
<1>3. \A w : FirstDay(w)' = FirstDay(w) /\ EndOfWindow(w)' = EndOfWindow(w)
  BY <1>1 DEF FirstDay, EndOfWindow
<1>4. \A d, w : InWindow(d, w)' <=> InWindow(d, w)
  BY <1>2, <1>3 DEF InWindow
<1>5. \A d, e : SameWindow(d, e)' <=> SameWindow(d, e)
  BY <1>2, <1>4 DEF SameWindow
<1>6. \A w : Due(w)' = Due(w)
  BY <1>3 DEF Due, Early, Midpoint, Deadline
<1>7. \A d : IsDue(d)' <=> IsDue(d)
  BY <1>2, <1>4, <1>6 DEF IsDue
<1> QED
  BY <1>2, <1>4, <1>5, <1>6, <1>7

\* In a daily range every day is a window of its own and is due.
LEMMA DailyWindows ==
  ASSUME policy = "fixed_daily", NEW d \in Days, NEW w \in Windows, InWindow(d, w)
  PROVE  d = Due(w)
  BY WindowBounds, SchedulerConstants
  DEF InWindow, FirstDay, EndOfWindow, Lesser, Width, Due, Early, Days, Windows, WindowIds

\* What the log says of a window's credit is what the spent set says.
LEMMA SpentIsLogged ==
  ASSUME TypeOK, LoadsWhatItSaves, cursor = last + 1, cursor \in Days,
         NEW w \in Windows, InWindow(cursor, w)
  PROVE  SpentBefore(decisions, cursor) <=> w \in spent
<1>1. last \in Int /\ StartDay .. last = {d \in Days : d < cursor}
  BY SchedulerConstants DEF TypeOK, Days, NoDay
<1>2. \A e \in Days : SameWindow(cursor, e) <=> InWindow(e, w)
  BY OneWindow DEF SameWindow
<1>3. spent = {v \in Windows : \E d \in StartDay .. last : InWindow(d, v) /\ decisions[d].spend}
  BY DEF LoadsWhatItSaves, Accepts
<1> QED
  BY <1>1, <1>2, <1>3 DEF SpentBefore

LEMMA DecideAccepts ==
  ASSUME TypeOK, LoadsWhatItSaves, cursor = last + 1,
         NEW e \in Evidence, Decide(e)
  PROVE  LoadsWhatItSaves'
<1> USE SchedulerConstants
<1> PICK w \in Windows :
      /\ InWindow(cursor, w)
      /\ decisions' = [decisions EXCEPT ![cursor] = DecisionOf(cursor, w, e)]
      /\ spent' = IF DecisionOf(cursor, w, e).spend THEN spent \cup {w} ELSE spent
  BY DEF Decide
<1> DEFINE D == DecisionOf(cursor, w, e)
<1>1. /\ cursor \in Days /\ last' = cursor /\ log' = [log EXCEPT ![cursor] = e]
      /\ policy' = policy /\ cursor' = cursor
  BY DEF Decide, TypeOK, Days
<1>2. /\ decisions \in [Days -> Decision] /\ log \in [Days -> Evidence \cup {"absent"}]
      /\ D \in Decision /\ D.reason # "undecided"
  BY <1>1, DecisionTyped DEF TypeOK
<1>3. /\ decisions'[cursor] = D /\ log'[cursor] = e
      /\ \A d \in Days : d # cursor => decisions'[d] = decisions[d] /\ log'[d] = log[d]
  BY <1>1, <1>2
<1>4. /\ last \in Int
      /\ StartDay .. last = {d \in Days : d < cursor}
      /\ StartDay .. cursor = {d \in Days : d <= cursor}
      /\ StartDay .. cursor = (StartDay .. last) \cup {cursor}
  BY <1>1 DEF TypeOK, Days, NoDay
<1>5. /\ {d \in Days : decisions[d].reason # "undecided"} = StartDay .. last
      /\ {d \in Days : log[d] # "absent"} = StartDay .. last
      /\ \A d \in StartDay .. last : IsExpected(decisions, log, d)
      /\ \A d, f \in StartDay .. last :
           decisions[d].spend /\ decisions[f].spend /\ SameWindow(d, f) => d = f
      /\ spent = {v \in Windows : \E d \in StartDay .. last :
                                    InWindow(d, v) /\ decisions[d].spend}
  BY DEF LoadsWhatItSaves, Accepts
<1>6. SpentBefore(decisions, cursor) <=> w \in spent
  BY <1>1, SpentIsLogged
<1>7. IsDue(cursor) <=> cursor = Due(w)
  BY <1>1, OneWindow DEF IsDue
<1>8. policy = "fixed_daily" => cursor = Due(w)
  BY <1>1, DailyWindows
<1>9. e # "absent"
  BY DEF Evidence
<1> HIDE DEF D
<1>10. /\ {d \in Days : decisions'[d].reason # "undecided"} = StartDay .. cursor
       /\ {d \in Days : log'[d] # "absent"} = StartDay .. cursor
  <2>1. \A d \in Days : decisions'[d].reason # "undecided" <=> d \in StartDay .. cursor
    BY <1>1, <1>2, <1>3, <1>4, <1>5
  <2>2. \A d \in Days : log'[d] # "absent" <=> d \in StartDay .. cursor
    BY <1>1, <1>3, <1>4, <1>5, <1>9
  <2> QED
    BY <2>1, <2>2, <1>4
<1>11. \A d \in StartDay .. cursor : SpentBefore(decisions, d)' <=> SpentBefore(decisions, d)
  <2>1. SUFFICES ASSUME NEW d \in StartDay .. cursor
                 PROVE  SpentBefore(decisions, d)' <=> SpentBefore(decisions, d)
    OBVIOUS
  <2>2. \A f \in Days : f < d => decisions'[f] = decisions[f]
    BY <1>1, <1>3, <1>4, <2>1 DEF Days
  <2> QED
    BY <1>1, <2>2, WindowsFixed DEF SpentBefore
<1>12. \A d \in StartDay .. cursor : IsExpected(decisions, log, d)'
  <2>1. ASSUME NEW d \in StartDay .. last
        PROVE  IsExpected(decisions, log, d)'
    <3>1. d \in Days /\ d # cursor /\ d \in StartDay .. cursor
      BY <1>1, <1>4 DEF Days
    <3>2. IsExpected(decisions, log, d)
      BY <1>5
    <3>3. decisions'[d] = decisions[d] /\ log'[d] = log[d]
      BY <1>3, <3>1
    <3>4. IsDue(d)' <=> IsDue(d)
      BY <1>1, WindowsFixed
    <3>5. SpentBefore(decisions, d)' <=> SpentBefore(decisions, d)
      BY <1>11, <3>1
    <3> QED
      BY <1>1, <3>2, <3>3, <3>4, <3>5 DEF IsExpected
  <2>2. ASSUME NEW d \in StartDay .. cursor, d = cursor
        PROVE  IsExpected(decisions, log, d)'
    <3>1. SpentBefore(decisions, d)' <=> w \in spent
      BY <1>6, <1>11, <2>2
    <3>2. IsDue(d)' <=> cursor = Due(w)
      BY <1>1, <1>7, <2>2, WindowsFixed
    <3>3. policy = "calibration_drift" => Due(w) = Deadline(w)
      BY DEF Due
    <3>4. D = DecisionOf(cursor, w, e)
      BY DEF D
    <3>5. decisions'[d].spend = D.spend /\ decisions'[d].reason = D.reason
          /\ decisions'[d].score = D.score /\ log'[d] = e
      BY <1>3, <2>2
    <3>6. CASE policy = "fixed_daily"
      <4>1. D = [spend |-> TRUE, reason |-> "fixed_daily", score |-> "none"]
        BY <3>4, <3>6 DEF DecisionOf
      <4> QED
        BY <1>1, <1>8, <3>2, <3>5, <3>6, <4>1 DEF IsExpected
    <3>7. CASE policy # "fixed_daily" /\ w \in spent
      <4>1. D = [spend |-> FALSE, reason |-> "already_spent", score |-> "none"]
        BY <3>4, <3>7 DEF DecisionOf
      <4> QED
        BY <1>1, <3>1, <3>5, <3>7, <4>1 DEF IsExpected
    <3>8. CASE policy = "calibration_drift" /\ w \notin spent /\ e = "high"
      <4>1. D = [spend |-> TRUE, reason |-> "calibration_trigger", score |-> e]
        BY <3>4, <3>8 DEF DecisionOf
      <4> QED
        BY <1>1, <3>1, <3>5, <3>8, <4>1 DEF IsExpected
    <3>9. CASE policy = "calibration_drift" /\ w \notin spent /\ e # "high"
      <4>1. D = IF cursor = Due(w)
                THEN [spend |-> TRUE, reason |-> "forced_deadline", score |-> e]
                ELSE [spend |-> FALSE, reason |-> "waiting", score |-> e]
        BY <3>3, <3>4, <3>9 DEF DecisionOf
      <4> QED
        BY <1>1, <3>1, <3>2, <3>5, <3>9, <4>1 DEF IsExpected
    <3>10. CASE /\ policy # "fixed_daily" /\ policy # "calibration_drift"
                /\ w \notin spent
      <4>1. D = IF cursor = Due(w)
                THEN [spend |-> TRUE, reason |-> "fixed", score |-> "none"]
                ELSE [spend |-> FALSE, reason |-> "waiting", score |-> "none"]
        BY <3>4, <3>10 DEF DecisionOf
      <4> QED
        BY <1>1, <3>1, <3>2, <3>5, <3>10, <4>1 DEF IsExpected
    <3> QED
      BY <3>6, <3>7, <3>8, <3>9, <3>10
  <2> QED
    BY <1>4, <2>1, <2>2
<1>13. D.spend => policy = "fixed_daily" \/ w \notin spent
  BY DEF D, DecisionOf
<1>14. \A d \in StartDay .. last :
         decisions[d].spend /\ D.spend => ~SameWindow(d, cursor) /\ ~SameWindow(cursor, d)
  <2>1. SUFFICES ASSUME NEW d \in StartDay .. last, decisions[d].spend, D.spend,
                        InWindow(d, w)
                 PROVE  FALSE
    BY <1>1, OneWindow DEF SameWindow
  <2>2. d \in Days /\ d # cursor
    BY <1>1, <1>4, <2>1 DEF Days
  <2>3. w \in spent
    BY <1>5, <2>1
  <2>4. policy = "fixed_daily"
    BY <1>13, <2>1, <2>3
  <2> QED
    BY <1>1, <2>1, <2>2, <2>4, DailyWindows
<1>15. \A d, f \in StartDay .. cursor :
         decisions'[d].spend /\ decisions'[f].spend /\ SameWindow(d, f)' => d = f
  <2>1. SUFFICES ASSUME NEW d \in StartDay .. cursor, NEW f \in StartDay .. cursor,
                        decisions'[d].spend, decisions'[f].spend, SameWindow(d, f)
                 PROVE  d = f
    BY <1>1, WindowsFixed
  <2> QED
    BY <1>1, <1>3, <1>4, <1>5, <1>14, <2>1
<1>16. spent' = {v \in Windows : \E d \in StartDay .. cursor :
                                   InWindow(d, v) /\ decisions'[d].spend}
  <2>1. \A v \in Windows : InWindow(cursor, v) <=> v = w
    BY <1>1, OneWindow
  <2>2. \A d \in StartDay .. last : decisions'[d] = decisions[d]
    BY <1>1, <1>3, <1>4
  <2>3. spent' = IF D.spend THEN spent \cup {w} ELSE spent
    BY DEF D
  <2> QED
    BY <1>3, <1>4, <1>5, <2>1, <2>2, <2>3
<1>17. spent' = {v \in Windows : \E d \in StartDay .. last :
                                   InWindow(d, v) /\ decisions[d].spend}'
  BY <1>1, <1>16, WindowsFixed
<1> QED
  BY <1>1, <1>10, <1>12, <1>15, <1>17 DEF LoadsWhatItSaves, Accepts

LEMMA AcceptsFixed ==
  ASSUME policy' = policy
  PROVE  \A ds, lg, sp, la : Accepts(ds, lg, sp, la)' <=> Accepts(ds, lg, sp, la)
<1>1. SUFFICES ASSUME NEW ds, NEW lg, NEW sp, NEW la
               PROVE  Accepts(ds, lg, sp, la)' <=> Accepts(ds, lg, sp, la)
  OBVIOUS
<1>2. \A d : SpentBefore(ds, d)' <=> SpentBefore(ds, d)
  BY WindowsFixed DEF SpentBefore
<1>3. \A d : IsExpected(ds, lg, d)' <=> IsExpected(ds, lg, d)
  BY <1>2, WindowsFixed DEF IsExpected
<1>4. {w \in Windows : \E d \in StartDay .. la : InWindow(d, w) /\ ds[d].spend}'
        = {w \in Windows : \E d \in StartDay .. la : InWindow(d, w) /\ ds[d].spend}
  BY WindowsFixed
<1>5. \A d, e : SameWindow(d, e)' <=> SameWindow(d, e)
  BY WindowsFixed
<1> QED
  BY <1>3, <1>4, <1>5 DEF Accepts

LEMMA SpentFinite == ASSUME NEW S \in SUBSET WindowIds PROVE IsFiniteSet(S)
<1>1. EndDay - StartDay - 1 \in Int
  BY SchedulerConstants
<1>2. IsFiniteSet(WindowIds)
  BY <1>1, FS_Interval DEF WindowIds
<1> QED
  BY <1>2, FS_Subset

\* A decision that spends adds one window to the spent ones.
LEMMA DecideCounts ==
  ASSUME TypeOK, LoadsWhatItSaves, cursor = last + 1, credits = Cardinality(spent),
         NEW e \in Evidence, Decide(e)
  PROVE  credits' = Cardinality(spent')
<1> PICK w \in Windows :
      /\ InWindow(cursor, w)
      /\ decisions' = [decisions EXCEPT ![cursor] = DecisionOf(cursor, w, e)]
      /\ spent' = IF DecisionOf(cursor, w, e).spend THEN spent \cup {w} ELSE spent
      /\ credits' = IF DecisionOf(cursor, w, e).spend THEN credits + 1 ELSE credits
  BY DEF Decide
<1>1. cursor \in Days
  BY SchedulerConstants DEF Decide, TypeOK, Days
<1>2. DecisionOf(cursor, w, e).spend => w \notin spent
  <2>1. CASE policy = "fixed_daily"
    <3>1. \A d \in StartDay .. last : ~InWindow(d, w)
      <4>1. SUFFICES ASSUME NEW d \in StartDay .. last, InWindow(d, w) PROVE FALSE
        OBVIOUS
      <4>2. d \in Days /\ d # cursor
        BY <1>1, <4>1, SchedulerConstants DEF TypeOK, Days, NoDay
      <4> QED
        BY <1>1, <2>1, <4>1, <4>2, DailyWindows
    <3> QED
      BY <3>1 DEF LoadsWhatItSaves, Accepts
  <2>2. CASE policy # "fixed_daily"
    BY <2>2 DEF DecisionOf
  <2> QED
    BY <2>1, <2>2
<1>3. IsFiniteSet(spent)
  BY SpentFinite DEF TypeOK
<1>4. w \notin spent => Cardinality(spent \cup {w}) = Cardinality(spent) + 1
  BY <1>3, FS_AddElement
<1> QED
  BY <1>2, <1>4

LEMMA InvariantStart == Init => IInv
<1> SUFFICES ASSUME Init PROVE IInv
  OBVIOUS
<1> USE SchedulerConstants
<1>1. LoadsWhatItSaves
  <2>1. StartDay .. last = {}
    BY DEF Init, NoDay
  <2>2. last \in Days \cup {NoDay}
    BY DEF Init
  <2>3. {d \in Days : decisions[d].reason # "undecided"} = {}
    BY DEF Init, Undecided
  <2>4. {d \in Days : log[d] # "absent"} = {} /\ spent = {}
    BY DEF Init
  <2> QED
    BY <2>1, <2>2, <2>3, <2>4 DEF LoadsWhatItSaves, Accepts
<1>2. CursorInv
  BY DEF Init, CursorInv, NoDay
<1>3. CreditInv
  BY FS_EmptySet DEF Init, CreditInv
<1> QED
  BY <1>1, <1>2, <1>3 DEF IInv

LEMMA InvariantStep == TypeOK /\ IInv /\ [Next]_vars => IInv'
<1> SUFFICES ASSUME TypeOK, IInv, [Next]_vars PROVE IInv'
  OBVIOUS
<1> USE SchedulerConstants
<1>0. LoadsWhatItSaves /\ CursorInv /\ CreditInv
  BY DEF IInv
<1>1. CASE \E e \in Evidence : Decide(e)
  <2>1. PICK e \in Evidence : Decide(e)
    BY <1>1
  <2>2. cursor = last + 1
    BY <1>0, <2>1 DEF CursorInv, Decide
  <2>3. LoadsWhatItSaves'
    BY <1>0, <2>1, <2>2, DecideAccepts
  <2>4. CursorInv'
    BY <1>0, <2>1 DEF CursorInv, Decide
  <2>5. CreditInv'
    BY <1>0, <2>1, <2>2, DecideCounts DEF CreditInv, Decide
  <2> QED
    BY <2>3, <2>4, <2>5 DEF IInv
<1>2. CASE Save
  <2>1. LoadsWhatItSaves'
    BY <1>0, <1>2, AcceptsFixed DEF LoadsWhatItSaves, Save
  <2>2. CursorInv'
    BY <1>0, <1>2 DEF CursorInv, Save
  <2>3. CreditInv'
    BY <1>0, <1>2 DEF CreditInv, Save
  <2> QED
    BY <2>1, <2>2, <2>3 DEF IInv
<1>3. CASE Finish
  <2>1. LoadsWhatItSaves'
    BY <1>0, <1>3, AcceptsFixed DEF LoadsWhatItSaves, Finish
  <2> QED
    BY <1>0, <1>3, <2>1 DEF IInv, CursorInv, CreditInv, Finish
<1>4. CASE Crash
  <2>1. LoadsWhatItSaves'
    BY <1>0, <1>4, AcceptsFixed DEF LoadsWhatItSaves, Crash
  <2> QED
    BY <1>0, <1>4, <2>1 DEF IInv, CursorInv, CreditInv, Crash
<1>5. CASE Restore
  <2>1. LoadsWhatItSaves'
    BY <1>5, AcceptsFixed DEF LoadsWhatItSaves, Restore, SavedAccepted
  <2>2. CursorInv'
    BY <1>0, <1>5 DEF CursorInv, Restore, SavedAccepted
  <2>3. CreditInv'
    BY <1>0, <1>5 DEF CreditInv, Restore
  <2> QED
    BY <2>1, <2>2, <2>3 DEF IInv
<1>6. CASE RefuseRestore
  <2>1. LoadsWhatItSaves'
    BY <1>0, <1>6, AcceptsFixed DEF LoadsWhatItSaves, RefuseRestore
  <2> QED
    BY <1>0, <1>6, <2>1 DEF IInv, CursorInv, CreditInv, RefuseRestore
<1>7. CASE Corrupt
  <2>1. LoadsWhatItSaves'
    BY <1>0, <1>7, AcceptsFixed DEF LoadsWhatItSaves, Corrupt
  <2>2. saved'.exists = saved.exists /\ saved'.cursor = saved.cursor /\ saved'.last = saved.last
    BY <1>7 DEF Corrupt, TypeOK, Checkpoints
  <2>3. CursorInv'
    BY <1>0, <1>7, <2>2 DEF CursorInv, Corrupt
  <2>4. CreditInv'
    BY <1>7 DEF CreditInv, Corrupt, TypeOK
  <2> QED
    BY <2>1, <2>3, <2>4 DEF IInv
<1>8. CASE UNCHANGED vars
  <2>1. LoadsWhatItSaves'
    BY <1>0, <1>8, AcceptsFixed DEF LoadsWhatItSaves, vars
  <2> QED
    BY <1>0, <1>8, <2>1 DEF IInv, CursorInv, CreditInv, vars
<1> QED
  BY <1>1, <1>2, <1>3, <1>4, <1>5, <1>6, <1>7, <1>8 DEF Next

\* The scheduler is always in a state its own load_state_dict accepts, with the
\* controller's cursor on the next day and the budget counting the credits.
THEOREM InvariantCorrect == Spec => [](TypeOK /\ IInv)
<1>1. Init => TypeOK /\ IInv
  BY StartTyped, InvariantStart
<1>2. (TypeOK /\ IInv) /\ [Next]_vars => (TypeOK /\ IInv)'
  BY StepTyped, InvariantStep
<1> QED
  BY <1>1, <1>2, PTL DEF Spec

\* load_state_dict accepts every state the scheduler reaches: what deciding
\* logs and what loading derives from the log agree, at any day, for every
\* policy, and after restores of altered checkpoints that were accepted.
THEOREM RoundTrip == Spec => []LoadsWhatItSaves
<1>1. TypeOK /\ IInv => LoadsWhatItSaves
  BY DEF IInv
<1> QED
  BY <1>1, InvariantCorrect, PTL

-----------------------------------------------------------------------------
(* What follows for the credits.                                           *)

LEMMA UndecidedDays ==
  ASSUME TypeOK, LoadsWhatItSaves, NEW d \in Days, decisions[d].spend
  PROVE  d \in StartDay .. last
<1>1. decisions[d] \in Decision
  BY DEF TypeOK
<1>2. decisions[d].reason # "undecided"
  BY <1>1 DEF Decision, Undecided, Reasons
<1> QED
  BY <1>2 DEF LoadsWhatItSaves, Accepts

LEMMA OneCreditInvariant == TypeOK /\ LoadsWhatItSaves => OneCreditPerWindow
<1> SUFFICES ASSUME TypeOK, LoadsWhatItSaves, NEW d \in Days, NEW e \in Days,
                    decisions[d].spend, decisions[e].spend, SameWindow(d, e)
             PROVE  d = e
  BY DEF OneCreditPerWindow
<1>1. d \in StartDay .. last /\ e \in StartDay .. last
  BY UndecidedDays
<1> QED
  BY <1>1 DEF LoadsWhatItSaves, Accepts

\* No window's credit is ever spent twice, whatever the evidence, the crashes
\* and the alterations of stored checkpoints.
THEOREM OneCredit == Spec => []OneCreditPerWindow
  BY InvariantCorrect, OneCreditInvariant, PTL DEF IInv

LEMMA DueInside ==
  ASSUME NoSingleDayWindow, NEW w \in Windows
  PROVE  InWindow(Due(w), w) /\ Due(w) \in Days
<1> USE SchedulerConstants
<1>1. /\ w \in Nat
      /\ FirstDay(w) \in Nat /\ EndOfWindow(w) \in Nat
      /\ FirstDay(w) < EndOfWindow(w)
      /\ StartDay <= FirstDay(w) /\ EndOfWindow(w) <= EndDay
  BY WindowBounds
<1>2. policy # "fixed_daily" => FirstDay(w) + 2 <= EndOfWindow(w)
  <2>1. SUFFICES ASSUME policy # "fixed_daily" PROVE FirstDay(w) + 2 <= EndOfWindow(w)
    OBVIOUS
  <2>2. Width = WindowDays /\ WindowDays >= 2
    BY <2>1 DEF Width, NoSingleDayWindow
  <2>3. FirstDay(w) + 1 # EndDay
    BY <1>1, <2>2 DEF FirstDay, NoSingleDayWindow
  <2> QED
    BY <1>1, <2>2, <2>3 DEF EndOfWindow, Lesser
<1>3. /\ policy # "fixed_daily" =>
           FirstDay(w) <= Midpoint(w) /\ Midpoint(w) < EndOfWindow(w) /\ Midpoint(w) \in Int
      /\ FirstDay(w) <= Deadline(w) /\ Deadline(w) < EndOfWindow(w) /\ Deadline(w) \in Int
      /\ FirstDay(w) <= Early(w) /\ Early(w) < EndOfWindow(w) /\ Early(w) \in Int
  BY <1>1, <1>2 DEF Midpoint, Deadline, Early
<1>4. /\ FirstDay(w) <= Due(w) /\ Due(w) < EndOfWindow(w) /\ Due(w) \in Int
  BY <1>3 DEF Due
<1> QED
  BY <1>1, <1>4 DEF InWindow, Days

LEMMA DueInvariant ==
  NoSingleDayWindow /\ TypeOK /\ LoadsWhatItSaves => CreditByDue
<1> SUFFICES ASSUME NoSingleDayWindow, TypeOK, LoadsWhatItSaves,
                    NEW w \in Windows, Due(w) <= last
             PROVE  w \in spent
  BY DEF CreditByDue
<1> USE SchedulerConstants
<1> DEFINE d == Due(w)
<1>1. InWindow(d, w) /\ d \in Days
  BY DueInside
<1>2. d \in StartDay .. last
  BY <1>1 DEF TypeOK, Days, NoDay
<1>3. IsExpected(decisions, log, d)
  BY <1>2 DEF LoadsWhatItSaves, Accepts
<1>4. IsDue(d)
  BY <1>1 DEF IsDue
<1> HIDE DEF d
<1>5. CASE decisions[d].spend
  BY <1>1, <1>2, <1>5 DEF LoadsWhatItSaves, Accepts
<1>6. CASE ~decisions[d].spend
  <2>1. SpentBefore(decisions, d)
    BY <1>3, <1>4, <1>6 DEF IsExpected
  <2>2. PICK e \in Days : SameWindow(d, e) /\ decisions[e].spend
    BY <2>1 DEF SpentBefore
  <2>3. InWindow(e, w)
    BY <1>1, <2>2, OneWindow DEF SameWindow
  <2>4. e \in StartDay .. last
    BY <2>2, UndecidedDays
  <2> QED
    BY <2>2, <2>3, <2>4 DEF LoadsWhatItSaves, Accepts
<1> QED
  BY <1>5, <1>6

\* Under every policy the credit of a window is spent by its due day, for every
\* window width that leaves no window with a single day.
THEOREM DueMet ==
  ASSUME NoSingleDayWindow
  PROVE  Spec => []CreditByDue
<1>1. TypeOK /\ IInv => CreditByDue
  BY DueInvariant DEF IInv
<1> QED
  BY <1>1, InvariantCorrect, PTL

LEMMA CompleteInvariant ==
  NoSingleDayWindow /\ TypeOK /\ IInv => EveryCreditSpent
<1>0. TypeOK /\ NoSingleDayWindow /\ IInv => CreditByDue
  BY DueInvariant DEF IInv
<1> SUFFICES ASSUME NoSingleDayWindow, TypeOK, IInv,
                    corruptions = 0, pc = "running", cursor = EndDay
             PROVE  Complete
  BY <1>0 DEF EveryCreditSpent
<1>1. last = EndDay - 1
  BY SchedulerConstants DEF IInv, CursorInv, TypeOK, Days, NoDay
<1>2. \A w \in Windows : w \in spent
  BY <1>1, DueInside, DueInvariant DEF IInv, CreditByDue, Days
<1>3. spent \subseteq Windows
  BY DEF IInv, LoadsWhatItSaves, Accepts
<1>4. spent = Windows
  BY <1>2, <1>3
<1> QED
  BY <1>4 DEF Complete, IInv, CreditInv

\* Every credit is spent by its window's due day, and a run at the end of the
\* horizon has spent exactly one credit per window and its budget counts as
\* many: all policies spend the same number.
THEOREM AllCreditsSpent ==
  ASSUME NoSingleDayWindow
  PROVE  Spec => []EveryCreditSpent
<1>1. TypeOK /\ IInv => EveryCreditSpent
  BY CompleteInvariant
<1> QED
  BY <1>1, InvariantCorrect, PTL

-----------------------------------------------------------------------------
(* What follows for a run that is stopped and started again.               *)

\* What an unaltered checkpoint gives back: a state loading accepts.
ResumeInv ==
  corruptions = 0 =>
    /\ pc # "failed"
    /\ saved.exists => SavedAccepted /\ pc # "refused"

LEMMA ResumeStart == Init => ResumeInv
  BY DEF Init, ResumeInv

LEMMA DayInOrder == TypeOK /\ IInv /\ pc = "running" => ~DecideRefused
<1> SUFFICES ASSUME TypeOK, IInv, pc = "running" PROVE ~DecideRefused
  OBVIOUS
<1>1. cursor = last + 1 /\ last \in Int
  BY SchedulerConstants DEF IInv, CursorInv, TypeOK, Days, NoDay
<1> QED
  BY <1>1 DEF DecideRefused

LEMMA SavedKept ==
  ASSUME UNCHANGED <<policy, saved>>
  PROVE  SavedAccepted' <=> SavedAccepted
<1>1. Accepts(saved.decisions, saved.log, saved.spent, saved.last)' <=>
      Accepts(saved.decisions, saved.log, saved.spent, saved.last)
  BY AcceptsFixed
<1> QED
  BY <1>1 DEF SavedAccepted

LEMMA ResumeStep ==
  ASSUME NoSingleDayWindow, TypeOK, IInv, ResumeInv, [Next]_vars
  PROVE  ResumeInv'
<1>1. CASE UNCHANGED <<policy, saved, corruptions>> /\ pc' \in {"running", "decided", "down", "done", pc}
  BY <1>1, SavedKept DEF ResumeInv
<1>2. ASSUME NEW e \in Evidence, Decide(e)
      PROVE  ResumeInv'
  BY <1>1, <1>2 DEF Decide
<1>3. CASE Save
  <2>1. /\ saved'.decisions = decisions /\ saved'.log = log /\ saved'.spent = spent
        /\ saved'.last = last /\ saved'.exists /\ pc' = "running" /\ policy' = policy
    BY <1>3 DEF Save
  <2>2. Accepts(decisions, log, spent, last)
    BY DEF IInv, LoadsWhatItSaves
  <2>3. Accepts(decisions, log, spent, last)'
    BY <1>3, <2>2, AcceptsFixed DEF Save
  <2>4. SavedAccepted'
    BY <1>3, <2>1, <2>3 DEF Save, SavedAccepted
  <2> QED
    BY <2>1, <2>4 DEF ResumeInv
<1>4. CASE Finish
  <2>1. corruptions = 0 => Complete
    BY <1>4, CompleteInvariant DEF Finish, EveryCreditSpent
  <2> QED
    BY <1>4, <2>1, SavedKept DEF Finish, ResumeInv
<1>5. CASE Crash \/ Restore
  BY <1>1, <1>5 DEF Crash, Restore
<1>6. CASE RefuseRestore
  BY <1>6, SavedKept DEF RefuseRestore, ResumeInv
<1>7. CASE Corrupt
  BY <1>7 DEF Corrupt, ResumeInv, TypeOK
<1>8. CASE UNCHANGED vars
  BY <1>1, <1>8 DEF vars
<1> QED
  BY <1>2, <1>3, <1>4, <1>5, <1>6, <1>7, <1>8 DEF Next

\* No decision is refused for its day, and a run whose checkpoint nobody altered
\* neither fails at its end nor is refused that checkpoint by load_state_dict,
\* wherever it was stopped: what is left of EventuallyComplete is that the
\* controller's loop runs on.
THEOREM NothingRefused ==
  ASSUME NoSingleDayWindow
  PROVE  Spec => [](/\ pc = "running" => ~DecideRefused
                    /\ corruptions = 0 => pc # "failed" /\ (saved.exists => pc # "refused"))
<1>1. TypeOK /\ IInv /\ ResumeInv =>
        /\ pc = "running" => ~DecideRefused
        /\ corruptions = 0 => pc # "failed" /\ (saved.exists => pc # "refused")
  BY DayInOrder DEF ResumeInv
<1>2. Init => ResumeInv
  BY ResumeStart
<1>3. TypeOK /\ IInv /\ ResumeInv /\ [Next]_vars => ResumeInv'
  BY ResumeStep
<1> QED
  BY <1>1, <1>2, <1>3, InvariantCorrect, PTL DEF Spec
=============================================================================
