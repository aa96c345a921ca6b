--------------------------- MODULE CreditScheduler ---------------------------
(***************************************************************************)
(* The credit schedulers of Study A and Study B (scheduling/credit.py,     *)
(* base.py, fixed.py, calibration_drift.py, and DailyRangeCreditScheduler  *)
(* of production.py) as the final controller drives them: one decision per *)
(* day of the horizon [StartDay, EndDay), one retraining credit spent when *)
(* the decision says so, then a checkpoint.  The process may crash between *)
(* a decision and its checkpoint; a restart loads the scheduler's section  *)
(* of the last checkpoint, which load_state_dict derives again from the    *)
(* logged evidence and refuses when the two disagree.                      *)
(*                                                                         *)
(* Time is counted in days from the origin.  A day's evidence is one of    *)
(* "none" (no eligible bin), "low" (score <= threshold), "high" (score >   *)
(* threshold); the contributing bin goes with the score.  A decision's     *)
(* window_id is a function of its day, which load_state_dict checks, and   *)
(* is left out.                                                            *)
(***************************************************************************)
EXTENDS Integers, FiniteSets

CONSTANTS
  StartDay, EndDay, \* the horizon [StartDay, EndDay)
  WindowDays,       \* days in an allocation window; the last may be shorter
  Policies,         \* the policies checked
  MaxCrashes,       \* bound on crashes
  MaxCorruptions    \* bound on altered entries of the stored scheduler state

AllPolicies ==
  {"early", "midpoint", "deadline", "calibration_drift", "fixed_daily"}

ASSUME SchedulerConstants ==
  /\ StartDay \in Nat /\ EndDay \in Nat /\ StartDay < EndDay
  /\ WindowDays \in Nat \ {0}
  /\ Policies \subseteq AllPolicies
  /\ MaxCrashes \in Nat /\ MaxCorruptions \in Nat

Days == StartDay .. EndDay - 1
NoDay == StartDay - 1

Evidence == {"none", "low", "high"}
Reasons == {"already_spent", "waiting", "fixed", "calibration_trigger",
            "forced_deadline", "fixed_daily"}
Undecided == [spend |-> FALSE, reason |-> "undecided", score |-> "none"]
Decision == [spend : BOOLEAN, reason : Reasons, score : Evidence] \cup {Undecided}

VARIABLES
  policy,     \* the scheduler's policy, fixed for the run
  cursor,     \* day of the controller's next decision boundary
  decisions,  \* the scheduler's decision of each day
  log,        \* evidence logged for each day, or "absent"
  spent,      \* windows whose credit was spent
  last,       \* day of the last decision, or NoDay
  credits,    \* credits the trainer's budget counts
  saved,      \* what the newest checkpoint holds
  pc,         \* where the controller is
  crashes, corruptions

vars == <<policy, cursor, decisions, log, spent, last, credits, saved, pc,
          crashes, corruptions>>

-----------------------------------------------------------------------------
(* build_credit_windows: credit.py, lines 34-65.                           *)

Lesser(a, b) == IF a < b THEN a ELSE b

\* The daily range of Study A is a window per day.
Width == IF policy = "fixed_daily" THEN 1 ELSE WindowDays

WindowIds == 0 .. EndDay - StartDay - 1

\* Window w exists while its first day lies inside the horizon.
Windows == {w \in WindowIds : StartDay + w * Width < EndDay}
FirstDay(w) == StartDay + w * Width

EndOfWindow(w) == Lesser(FirstDay(w) + Width, EndDay)

Early(w) == FirstDay(w)
Midpoint(w) == (FirstDay(w) + EndOfWindow(w) + 1) \div 2
Deadline(w) == EndOfWindow(w) - 1

InWindow(d, w) == w \in Windows /\ FirstDay(w) <= d /\ d < EndOfWindow(w)

\* The day by which window w's credit is spent.
Due(w) ==
  CASE policy \in {"early", "fixed_daily"} -> Early(w)
    [] policy = "midpoint" -> Midpoint(w)
    [] OTHER -> Deadline(w)

-----------------------------------------------------------------------------
(* decide(): fixed.py 31-54, calibration_drift.py 31-67, production.py     *)
(* 299-311.                                                                *)

\* Faulty variant: whether the window's credit is already spent is not asked.
DecisionForgetful(d, w, e) ==
  CASE policy = "fixed_daily" ->
         [spend |-> TRUE, reason |-> "fixed_daily", score |-> "none"]
    [] policy = "calibration_drift" /\ (e = "high" \/ d = Deadline(w)) ->
         [spend |-> TRUE, reason |-> "calibration_trigger", score |-> e]
    [] OTHER ->
         [spend |-> policy # "calibration_drift" /\ d = Due(w),
          reason |-> "waiting", score |-> "none"]

DecisionOf(d, w, e) ==
  CASE policy = "fixed_daily" ->
         [spend |-> TRUE, reason |-> "fixed_daily", score |-> "none"]
    [] policy # "fixed_daily" /\ w \in spent ->
         [spend |-> FALSE, reason |-> "already_spent", score |-> "none"]
    [] policy = "calibration_drift" /\ w \notin spent /\ e = "high" ->
         [spend |-> TRUE, reason |-> "calibration_trigger", score |-> e]
    [] policy = "calibration_drift" /\ w \notin spent /\ e # "high" ->
         IF d = Deadline(w)
         THEN [spend |-> TRUE, reason |-> "forced_deadline", score |-> e]
         ELSE [spend |-> FALSE, reason |-> "waiting", score |-> e]
    [] OTHER ->
         IF d = Due(w)
         THEN [spend |-> TRUE, reason |-> "fixed", score |-> "none"]
         ELSE [spend |-> FALSE, reason |-> "waiting", score |-> "none"]

\* _window_at (base.py 50-60), and the next-boundary test of the daily range.
DecideRefused ==
  \/ cursor <= last
  \/ policy = "fixed_daily" /\ cursor # last + 1

\* The decision, its log entries, and the credit it spends.  Only the
\* calibration policy reads the evidence; the others log what they are given
\* (the daily range nothing), which one member of Evidence stands for.
Decide(e) ==
  /\ pc = "running"
  /\ cursor < EndDay
  /\ policy # "calibration_drift" => e = "none"
  /\ ~DecideRefused
  /\ \E w \in Windows :
       /\ InWindow(cursor, w)
       /\ LET decision == DecisionOf(cursor, w, e)
          IN /\ decisions' = [decisions EXCEPT ![cursor] = decision]
             /\ spent' = IF decision.spend THEN spent \cup {w} ELSE spent
             /\ credits' = IF decision.spend THEN credits + 1 ELSE credits
  /\ log' = [log EXCEPT ![cursor] = e]
  /\ last' = cursor
  /\ pc' = "decided"
  /\ UNCHANGED <<policy, cursor, saved, crashes, corruptions>>

-----------------------------------------------------------------------------
(* The controller's checkpoint after each decision, and its end.           *)

\* Faulty variant: the checkpoint holds the boundary just decided.
SaveStaleCursor ==
  /\ pc = "decided"
  /\ saved' = [exists |-> TRUE, cursor |-> cursor, decisions |-> decisions,
               log |-> log, spent |-> spent, last |-> last, credits |-> credits]
  /\ cursor' = cursor + 1
  /\ pc' = "running"
  /\ UNCHANGED <<policy, decisions, log, spent, last, credits, crashes, corruptions>>

Save ==
  /\ pc = "decided"
  /\ saved' = [exists |-> TRUE, cursor |-> cursor + 1, decisions |-> decisions,
               log |-> log, spent |-> spent, last |-> last, credits |-> credits]
  /\ cursor' = cursor + 1
  /\ pc' = "running"
  /\ UNCHANGED <<policy, decisions, log, spent, last, credits, crashes, corruptions>>

\* assert_complete (base.py 97-106, production.py 313-315) and the controller's
\* comparison of the trainer's budget with the plan (1260-1263).
Complete == spent = Windows /\ credits = Cardinality(Windows)

Finish ==
  /\ pc = "running"
  /\ cursor = EndDay
  /\ pc' = IF Complete THEN "done" ELSE "failed"
  /\ UNCHANGED <<policy, cursor, decisions, log, spent, last, credits, saved,
                 crashes, corruptions>>

-----------------------------------------------------------------------------
(* load_state_dict(): base.py 118-234, fixed.py 61-100,                    *)
(* calibration_drift.py 76-145, production.py 327-352.                     *)

SameWindow(d, e) == \E w \in Windows : InWindow(d, w) /\ InWindow(e, w)
\* Faulty variant: the day itself is counted before it is derived.
SpentBeforeInclusive(ds, d) ==
  \E e \in Days : e <= d /\ SameWindow(d, e) /\ ds[e].spend

SpentBefore(ds, d) == \E e \in Days : e < d /\ SameWindow(d, e) /\ ds[e].spend
IsDue(d) == \E w \in Windows : InWindow(d, w) /\ d = Due(w)

\* The decision load_state_dict derives for day d from the logged evidence.
IsExpected(ds, lg, d) ==
  LET already == policy # "fixed_daily" /\ SpentBefore(ds, d)
      trigger == policy = "calibration_drift" /\ ~already /\ lg[d] = "high"
      due == ~already /\ ~trigger /\ IsDue(d)
  IN /\ ds[d].spend = (trigger \/ due)
     /\ ds[d].reason =
          CASE policy = "fixed_daily" -> "fixed_daily"
            [] policy # "fixed_daily" /\ already -> "already_spent"
            [] policy # "fixed_daily" /\ trigger -> "calibration_trigger"
            [] policy # "fixed_daily" /\ due ->
                 IF policy = "calibration_drift" THEN "forced_deadline" ELSE "fixed"
            [] OTHER -> "waiting"
     /\ ds[d].score =
          IF policy = "calibration_drift" /\ ~already THEN lg[d] ELSE "none"

\* Daily and contiguous up to the last decision, each as derived, no window
\* spent twice, and the spent windows those of the spending decisions.
Accepts(ds, lg, sp, la) ==
  /\ la \in Days \cup {NoDay}
  /\ {d \in Days : ds[d].reason # "undecided"} = StartDay .. la
  /\ {d \in Days : lg[d] # "absent"} = StartDay .. la
  /\ \A d \in StartDay .. la : IsExpected(ds, lg, d)
  /\ \A d, e \in StartDay .. la :
       ds[d].spend /\ ds[e].spend /\ SameWindow(d, e) => d = e
  /\ sp = {w \in Windows : \E d \in StartDay .. la : InWindow(d, w) /\ ds[d].spend}

SavedAccepted ==
  saved.exists /\ Accepts(saved.decisions, saved.log, saved.spent, saved.last)

Crash ==
  /\ pc \in {"running", "decided"}
  /\ crashes < MaxCrashes
  /\ crashes' = crashes + 1
  /\ pc' = "down"
  /\ UNCHANGED <<policy, cursor, decisions, log, spent, last, credits, saved,
                 corruptions>>

\* Faulty variant: the trainer's budget is not restored.
RestoreKeepsBudget ==
  /\ pc = "down"
  /\ SavedAccepted
  /\ cursor' = saved.cursor
  /\ decisions' = saved.decisions
  /\ log' = saved.log
  /\ spent' = saved.spent
  /\ last' = saved.last
  /\ pc' = "running"
  /\ UNCHANGED <<policy, credits, saved, crashes, corruptions>>

Restore ==
  /\ pc = "down"
  /\ SavedAccepted
  /\ cursor' = saved.cursor
  /\ decisions' = saved.decisions
  /\ log' = saved.log
  /\ spent' = saved.spent
  /\ last' = saved.last
  /\ credits' = saved.credits
  /\ pc' = "running"
  /\ UNCHANGED <<policy, saved, crashes, corruptions>>

\* No checkpoint yet, or one that load_state_dict refuses.
RefuseRestore ==
  /\ pc = "down"
  /\ ~SavedAccepted
  /\ pc' = "refused"
  /\ UNCHANGED <<policy, cursor, decisions, log, spent, last, credits, saved,
                 crashes, corruptions>>

\* One entry of the stored scheduler state is altered; the daily range stores
\* its decisions only.
Corrupt ==
  /\ pc = "down"
  /\ saved.exists
  /\ corruptions < MaxCorruptions
  /\ corruptions' = corruptions + 1
  /\ \/ \E d \in Days, s \in BOOLEAN, r \in {"waiting", "already_spent"} :
          saved' = [saved EXCEPT !.decisions[d] =
                      [spend |-> s, reason |-> r, score |-> "none"]]
     \/ /\ policy # "fixed_daily"
        /\ \E d \in Days, e \in Evidence \cup {"absent"} :
             saved' = [saved EXCEPT !.log[d] = e]
     \/ /\ policy # "fixed_daily"
        /\ \E w \in Windows :
             \/ saved' = [saved EXCEPT !.spent = @ \cup {w}]
             \/ saved' = [saved EXCEPT !.spent = @ \ {w}]
  /\ UNCHANGED <<policy, cursor, decisions, log, spent, last, credits, pc, crashes>>

-----------------------------------------------------------------------------

Init ==
  /\ policy \in Policies
  /\ cursor = StartDay
  /\ decisions = [d \in Days |-> Undecided]
  /\ log = [d \in Days |-> "absent"]
  /\ spent = {}
  /\ last = NoDay
  /\ credits = 0
  /\ saved = [exists |-> FALSE, cursor |-> StartDay, decisions |-> decisions,
              log |-> log, spent |-> {}, last |-> NoDay, credits |-> 0]
  /\ pc = "running"
  /\ crashes = 0 /\ corruptions = 0

Next ==
  \/ \E e \in Evidence : Decide(e)
  \/ Save \/ Finish
  \/ Crash \/ Restore \/ RefuseRestore \/ Corrupt

Spec == Init /\ [][Next]_vars

\* The controller's loop runs on, and a stopped run is restarted.
FairSpec ==
  /\ Spec
  /\ WF_vars(\E e \in Evidence : Decide(e))
  /\ WF_vars(Save) /\ WF_vars(Finish)
  /\ WF_vars(Restore) /\ WF_vars(RefuseRestore)

-----------------------------------------------------------------------------
(* Properties.                                                             *)

Checkpoints ==
  [exists : BOOLEAN, cursor : StartDay .. EndDay,
   decisions : [Days -> Decision], log : [Days -> Evidence \cup {"absent"}],
   spent : SUBSET WindowIds, last : Days \cup {NoDay}, credits : Nat]

\* What the scheduler, the controller and the checkpoint may hold.
TypeOK ==
  /\ policy \in Policies
  /\ cursor \in StartDay .. EndDay
  /\ pc = "decided" => cursor \in Days
  /\ decisions \in [Days -> Decision]
  /\ log \in [Days -> Evidence \cup {"absent"}]
  /\ spent \subseteq WindowIds
  /\ last \in Days \cup {NoDay}
  /\ credits \in Nat
  /\ saved \in Checkpoints
  /\ pc \in {"running", "decided", "down", "refused", "done", "failed"}
  /\ crashes \in 0 .. MaxCrashes
  /\ corruptions \in 0 .. MaxCorruptions

\* The windows tile the horizon: every decision day lies in exactly one, and
\* every window holds its own deadline ("The final partial window is
\* retained", BUILD_PLAN.md:498; lines 44-64).
WindowsTile ==
  /\ \A d \in Days : \E w \in Windows :
       InWindow(d, w) /\ \A v \in Windows : InWindow(d, v) => v = w
  /\ \A w \in Windows : InWindow(Deadline(w), w)

\* "Credits cannot roll over or be spent twice" (docs/scheduler.md:9), over
\* the whole decision history, restores of altered checkpoints included.
OneCreditPerWindow ==
  \A d, e \in Days :
    decisions[d].spend /\ decisions[e].spend /\ SameWindow(d, e) => d = e

\* Once a window's due day was decided its credit is spent.
CreditByDue == \A w \in Windows : Due(w) <= last => w \in spent

\* "Each window owns exactly one credit" (BUILD_PLAN.md:492): it is spent by the
\* window's due day, on whatever evidence and after whatever restore
\* ("otherwise the window deadline forces the spend", docs/scheduler.md:18),
\* and the end of the horizon finds every credit spent, in the scheduler and
\* in the budget.
EveryCreditSpent ==
  /\ CreditByDue
  /\ (corruptions = 0 /\ pc = "running" /\ cursor = EndDay) => Complete

\* load_state_dict accepts every state the scheduler reaches: what decide logs
\* and what loading derives from the log agree (a round trip at any day).
LoadsWhatItSaves == Accepts(decisions, log, spent, last)

\* The inductive invariant: what loading accepts, with the cursor beside it and
\* the budget that counts the spent windows of a state nobody altered.
CursorInv ==
  /\ pc = "running" => cursor = last + 1
  /\ pc = "decided" => cursor = last
  /\ saved.exists => saved.cursor = saved.last + 1
CreditInv ==
  corruptions = 0 =>
    credits = Cardinality(spent) /\ saved.credits = Cardinality(saved.spent)
IInv == LoadsWhatItSaves /\ CursorInv /\ CreditInv

\* No window of the authored width is left with a single day; a window of one
\* day has no midpoint inside it.
NoSingleDayWindow ==
  WindowDays > 1 /\ \A w \in Nat : StartDay + w * WindowDays + 1 # EndDay

\* A run that wrote a checkpoint completes, however often it is stopped, unless
\* its checkpoint is altered.
EventuallyComplete ==
  (saved.exists /\ corruptions = 0) ~> (pc = "done" \/ corruptions > 0)
=============================================================================
