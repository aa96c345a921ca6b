---------------------------- MODULE DelayedMethods ----------------------------
(***************************************************************************)
(* The per-click delayed-label methods (methods/*.py) as Study A drives    *)
(* them (experiments/study_a.py): before every credit _deliver_through     *)
(* hands the method the clicks up to the decision, then the truth that     *)
(* became available, in order of availability, then the boundary itself,   *)
(* and adds what each call emits to the sampler.                           *)
(*                                                                         *)
(* A fixture (the clicks and their eventual truth) is chosen once.  Clicks *)
(* are numbered in the order of their ids, which is chronological.  Time   *)
(* counts from the first click.  A record carries its click, its kind (the *)
(* last part of record_id), its target and its legal time; features and    *)
(* weights are left out, and so is the correction group, the click of a    *)
(* provisional record and of its correction.                               *)
(***************************************************************************)
EXTENDS Integers, FiniteSets

CONSTANTS
  NumClicks,     \* clicks of the fixture
  ClickTimes,    \* the times a click may have
  Wait,          \* wait_seconds of fixed_wait and es_dfm
  Window,        \* attribution_seconds
  FirstDecision, \* the first decision
  Day,           \* time between two decisions
  Credits,       \* number of decisions
  Methods,       \* the methods checked
  AllowTies      \* whether fixtures with a tie (see Tied) are among them

AllMethods == {"complete_wait", "immediate_fake_negative", "fixed_wait", "dfm",
               "es_dfm", "oracle_reference"}

ASSUME StreamConstants ==
  /\ NumClicks \in Nat \ {0}
  /\ ClickTimes \subseteq Nat
  /\ Wait \in Nat \ {0} /\ Window \in Nat /\ Wait < Window
  /\ FirstDecision \in Nat \ {0} /\ Day \in Nat \ {0} /\ Credits \in Nat \ {0}
  /\ Methods \subseteq AllMethods
  /\ AllowTies \in BOOLEAN

Clicks == 0 .. NumClicks - 1
Never == Window + 1 \* the delay of a click that does not convert
Delays == 0 .. Window \cup {Never}
Decisions == {FirstDecision + k * Day : k \in 0 .. Credits - 1}
LastDecision == FirstDecision + (Credits - 1) * Day

VARIABLES
  method,      \* the method of this run
  clickTime,   \* the fixture: when each click happens
  delay,       \* the fixture: how long after it converts, or Never
  now,         \* the decision being prepared
  last,        \* the last decision whose credit was spent, or -1
  pc,          \* where _deliver_through is
  clicked,     \* click cursor: clicks 0 .. clicked - 1 were delivered
  revealed,    \* clicks whose truth was delivered
  provisional, \* provisional_emitted of fixed_wait
  settled,     \* emitted of complete_wait, auxiliary_emitted of es_dfm
  pool,        \* records added to the sampler
  auxiliary    \* records of the q_tn and q_dp pools of es_dfm

fixture == <<method, clickTime, delay>>
vars == <<method, clickTime, delay, now, last, pc, clicked, revealed,
          provisional, settled, pool, auxiliary>>

-----------------------------------------------------------------------------
(* The fixture's truth.                                                    *)

Converts(d, c) == d[c] # Never
\* When truth about c becomes available: the conversion, or the maturity.
AvailableAt(d, c) == clickTime[c] + IF Converts(d, c) THEN d[c] ELSE Window
Due(c) == clickTime[c] + Wait
Maturity(c) == clickTime[c] + Window

\* a matures at the instant b converts, and that is the very end of b's wait.
Tied(ct, d) ==
  \E a, b \in Clicks :
    /\ a < b
    /\ d[a] = Never /\ d[b] = Wait
    /\ ct[a] + Window = ct[b] + Wait

Label(c) == IF Converts(delay, c) THEN 1 ELSE 0
Record(c, kind, target, at) == [click |-> c, kind |-> kind, target |-> target, at |-> at]

-----------------------------------------------------------------------------
(* What the handlers read: the clicks registered and the truth seen so far.*)

Registered == 0 .. clicked - 1
Positive(seen) == {c \in seen : Converts(delay, c)}
Negative(seen) == {c \in seen : ~Converts(delay, c)}

\* Faulty variants: a click may get its provisional record again; the eventual
\* outcome decides instead of the truth seen so far.
OnBoundaryAgain(t, seen, given) ==
  {c \in Registered : c \notin Positive(seen) /\ Due(c) <= t}
OnBoundaryPeeking(t, seen, given) ==
  {c \in Registered : c \notin given /\ ~Converts(delay, c) /\ Due(c) <= t}

\* Provisional records due by time t, for clicks with no positive seen.
OnBoundaryFixed(t, seen, given) ==
  {c \in Registered : c \notin given /\ c \notin Positive(seen) /\ Due(c) <= t}

\* Clicks whose truth is known and whose window is over by time t.
OnBoundaryMature(t, seen, given) ==
  {c \in Registered : c \notin given /\ c \in seen /\ Maturity(c) <= t}

Provisionals(cs) == {Record(c, "provisional", 0, Due(c)) : c \in cs}
Finals(cs) == {Record(c, "final", Label(c), Maturity(c)) : c \in cs}

\* ES-DFM's auxiliary targets: q_tn leaves out what converted within the wait.
AuxiliaryOf(cs) ==
  {Record(c, "q_dp", IF Converts(delay, c) /\ delay[c] > Wait THEN 1 ELSE 0,
          Maturity(c)) : c \in cs}
  \cup {Record(c, "q_tn", 1 - Label(c), Maturity(c)) :
          c \in {b \in cs : ~(Converts(delay, b) /\ delay[b] <= Wait)}}

-----------------------------------------------------------------------------
(* The records each call returns.                                          *)

Fixed == method \in {"fixed_wait", "es_dfm"}

\* on_click, and the record Study A adds for a click of dfm.
AtClick(c) ==
  CASE method = "immediate_fake_negative" -> {Record(c, "provisional", 0, clickTime[c])}
    [] method = "dfm" -> {Record(c, "current", 0, clickTime[c])}
    [] method = "oracle_reference" ->
         {Record(c, "privileged-final", Label(c), clickTime[c])}
    [] OTHER -> {}

\* Faulty variant: a late positive leaves a provisional record still due unsent.
AtPositiveAlone(c) ==
  LET at == AvailableAt(delay, c)
  IN CASE method = "immediate_fake_negative" -> {Record(c, "correction", 1, at)}
       [] Fixed /\ at <= Due(c) -> {Record(c, "early-positive", 1, at)}
       [] Fixed /\ at > Due(c) -> {Record(c, "correction", 1, at)}
       [] OTHER -> {}

\* on_positive_reveal.
AtPositive(c) ==
  LET at == AvailableAt(delay, c)
  IN CASE method = "immediate_fake_negative" -> {Record(c, "correction", 1, at)}
       [] Fixed /\ at <= Due(c) -> {Record(c, "early-positive", 1, at)}
       [] Fixed /\ at > Due(c) ->
            {Record(c, "correction", 1, at)} \cup Provisionals({c} \ provisional)
       [] OTHER -> {}

-----------------------------------------------------------------------------
(* The sampler refuses a record that is not yet legal and a second record   *)
(* of one id; the run stops there.                                          *)

Refused(rs) ==
  \E r \in rs :
    \/ r.at > now
    \/ \E p \in pool : p.click = r.click /\ p.kind = r.kind

AddToSampler(rs, next) ==
  IF Refused(rs) THEN pool' = pool /\ pc' = "failed"
                 ELSE pool' = pool \cup rs /\ pc' = next

-----------------------------------------------------------------------------
(* The methods' own refusals.  One ends the run: what the call had changed  *)
(* by then is never looked at again.                                       *)

\* Faulty variant: a click at the decision itself is left for the next one.
ArrivedStrictly(c) == clickTime[c] < now

\* The loop over the clicks stops at the first one after the decision.
Arrived(c) == clickTime[c] <= now

\* "Click processed twice", of every method.
ClickRefused(c) == c \in Registered

\* "Truth arrived before click", "truth processed twice", and the two refusals
\* of complete_wait about the end of the window; the oracle ignores truth.
TruthRefused(c) ==
  /\ method # "oracle_reference"
  /\ \/ c \notin Registered
     \/ c \in revealed
     \/ /\ method = "complete_wait"
        /\ IF Converts(delay, c) THEN AvailableAt(delay, c) > Maturity(c)
           ELSE AvailableAt(delay, c) # Maturity(c)

\* What a credit refuses: time that went back, a record in the sampler or in
\* the auxiliary pool of es_dfm from the future, an observation of a click that
\* dfm does not hold or that has not happened.
CreditRefused ==
  \/ now < last
  \/ \E r \in pool : r.at > now
  \/ method = "es_dfm" /\ \E r \in auxiliary : r.at > now
  \/ /\ method = "dfm"
     /\ \E r \in pool : r.click \notin Registered \/ now < clickTime[r.click]

Refuse ==
  /\ pc' = "failed"
  /\ UNCHANGED <<now, last, clicked, revealed, provisional, settled, pool, auxiliary>>

-----------------------------------------------------------------------------
(* _deliver_through and the credit.                                        *)

DeliverClick ==
  /\ pc = "clicks"
  /\ clicked < NumClicks
  /\ Arrived(clicked)
  /\ IF ClickRefused(clicked) THEN Refuse
     ELSE /\ clicked' = clicked + 1
          /\ AddToSampler(AtClick(clicked), "clicks")
          /\ UNCHANGED <<now, last, revealed, provisional, settled, auxiliary>>
  /\ UNCHANGED fixture

EndClicks ==
  /\ pc = "clicks"
  /\ clicked < NumClicks => ~Arrived(clicked)
  /\ pc' = "truth"
  /\ UNCHANGED <<fixture, now, last, clicked, revealed, provisional, settled,
                 pool, auxiliary>>

\* The truth sorted by availability, a tie by click.
Before(b, c) ==
  \/ AvailableAt(delay, b) < AvailableAt(delay, c)
  \/ AvailableAt(delay, b) = AvailableAt(delay, c) /\ b < c

IsNextTruth(c) ==
  /\ c \notin revealed /\ AvailableAt(delay, c) <= now
  /\ \A b \in Clicks \ revealed : b = c \/ Before(c, b)

RevealPositive(c) ==
  /\ pc = "truth"
  /\ IsNextTruth(c) /\ Converts(delay, c)
  /\ IF TruthRefused(c) THEN Refuse
     ELSE /\ revealed' = revealed \cup {c}
          /\ provisional' = IF Fixed /\ AvailableAt(delay, c) > Due(c)
                            THEN provisional \cup {c} ELSE provisional
          /\ AddToSampler(AtPositive(c), "truth")
          /\ UNCHANGED <<now, last, clicked, settled, auxiliary>>
  /\ UNCHANGED fixture

\* on_boundary at time t with the truth seen, as a call of its own and inside
\* on_negative_maturity.
Boundary(t, seen, next) ==
  LET due == IF Fixed THEN OnBoundaryFixed(t, seen, provisional) ELSE {}
      mature == IF method \in {"complete_wait", "es_dfm"}
                THEN OnBoundaryMature(t, seen, settled) ELSE {}
      finals == IF method = "complete_wait" THEN Finals(mature) ELSE {}
  IN /\ provisional' = provisional \cup due
     /\ settled' = settled \cup mature
     /\ auxiliary' = IF method = "es_dfm" THEN auxiliary \cup AuxiliaryOf(mature)
                     ELSE auxiliary
     /\ AddToSampler(Provisionals(due) \cup finals, next)

RevealNegative(c) ==
  /\ pc = "truth"
  /\ IsNextTruth(c) /\ ~Converts(delay, c)
  /\ IF TruthRefused(c) THEN Refuse
     ELSE /\ revealed' = revealed \cup {c}
          /\ Boundary(AvailableAt(delay, c), revealed \cup {c}, "truth")
          /\ UNCHANGED <<now, last, clicked>>
  /\ UNCHANGED fixture

EndTruth ==
  /\ pc = "truth"
  /\ \A c \in Clicks : ~IsNextTruth(c)
  /\ Boundary(now, revealed, "credit")
  /\ UNCHANGED <<fixture, now, last, clicked, revealed>>

\* An empty pool, or an empty auxiliary pool of es_dfm, ends the run.
Insufficient ==
  \/ pool = {}
  \/ /\ method = "es_dfm"
     /\ \E kind \in {"q_tn", "q_dp"} : \A r \in auxiliary : r.kind # kind

SpendCredit ==
  /\ pc = "credit"
  /\ CASE CreditRefused -> pc' = "failed" /\ UNCHANGED <<now, last>>
       [] ~CreditRefused /\ Insufficient -> pc' = "insufficient" /\ UNCHANGED <<now, last>>
       [] OTHER -> /\ last' = now
                   /\ now' = IF now = LastDecision THEN now ELSE now + Day
                   /\ pc' = IF now = LastDecision THEN "done" ELSE "clicks"
  /\ UNCHANGED <<fixture, clicked, revealed, provisional, settled, pool, auxiliary>>

-----------------------------------------------------------------------------

Chronological(ct) == \A b, c \in Clicks : b <= c => ct[b] <= ct[c]

Init ==
  /\ method \in Methods
  /\ clickTime \in {ct \in [Clicks -> ClickTimes] : ct[0] = 0 /\ Chronological(ct)}
  /\ delay \in [Clicks -> Delays]
  /\ AllowTies \/ ~Tied(clickTime, delay)
  /\ now = FirstDecision
  /\ last = -1
  /\ pc = "clicks"
  /\ clicked = 0
  /\ revealed = {} /\ provisional = {} /\ settled = {}
  /\ pool = {} /\ auxiliary = {}

Next ==
  \/ DeliverClick \/ EndClicks
  \/ \E c \in Clicks : RevealPositive(c) \/ RevealNegative(c)
  \/ EndTruth \/ SpendCredit

Spec == Init /\ [][Next]_vars

-----------------------------------------------------------------------------
(* materialize: the observation dfm makes of a sampled click.               *)

Lesser(a, b) == IF a < b THEN a ELSE b

\* Faulty variant: the censoring time is not capped at the window.
ObservationUncapped(c) ==
  IF c \in Positive(revealed) /\ AvailableAt(delay, c) <= now
  THEN [target |-> 1, time |-> delay[c], status |-> "revealed_positive"]
  ELSE [target |-> 0, time |-> now - clickTime[c],
        status |-> IF c \in Negative(revealed) THEN "mature_negative" ELSE "right_censored"]

Observation(c) ==
  IF c \in Positive(revealed) /\ AvailableAt(delay, c) <= now
  THEN [target |-> 1, time |-> delay[c], status |-> "revealed_positive"]
  ELSE [target |-> 0, time |-> Lesser(now - clickTime[c], Window),
        status |-> IF c \in Negative(revealed) THEN "mature_negative" ELSE "right_censored"]

-----------------------------------------------------------------------------
(* Properties.                                                             *)

Records(kinds) ==
  [click : Clicks, kind : kinds, target : {0, 1}, at : Nat]
MainKinds == {"provisional", "early-positive", "correction", "final", "current",
              "privileged-final"}

\* What the method, the sampler and the cursors may hold.
TypeOK ==
  /\ method \in Methods
  /\ clickTime \in [Clicks -> ClickTimes] /\ delay \in [Clicks -> Delays]
  /\ now \in Decisions
  /\ last \in Decisions \cup {-1} /\ last <= now
  /\ pc \in {"clicks", "truth", "credit", "done", "insufficient", "failed"}
  /\ clicked \in 0 .. NumClicks
  /\ revealed \subseteq Clicks
  /\ provisional \subseteq Clicks /\ settled \subseteq Clicks
  /\ pool \subseteq Records(MainKinds) /\ auxiliary \subseteq Records({"q_tn", "q_dp"})

\* The records the protocol promises of click c that converts after d, one
\* sequence per method (BUILD_PLAN.md, sections 14.2 to 14.8).
FixedWaitStream(c, d) ==
  IF d <= Wait
  THEN {Record(c, "early-positive", 1, clickTime[c] + d)}
  ELSE {Record(c, "provisional", 0, clickTime[c] + Wait)} \cup
       (IF d = Never THEN {} ELSE {Record(c, "correction", 1, clickTime[c] + d)})

\* q_tn: mature clicks unresolved at the wait; q_dp: every mature click.
AuxiliaryStream(c, d) ==
  LET delayed == Wait < d /\ d <= Window
  IN {Record(c, "q_dp", IF delayed THEN 1 ELSE 0, clickTime[c] + Window)} \cup
     (IF d <= Wait THEN {}
      ELSE {Record(c, "q_tn", IF delayed THEN 0 ELSE 1, clickTime[c] + Window)})

Stream(c, d) ==
  CASE method = "complete_wait" ->
         {Record(c, "final", IF d = Never THEN 0 ELSE 1, clickTime[c] + Window)}
    [] method = "immediate_fake_negative" ->
         {Record(c, "provisional", 0, clickTime[c])} \cup
         (IF d = Never THEN {} ELSE {Record(c, "correction", 1, clickTime[c] + d)})
    [] method = "fixed_wait" -> FixedWaitStream(c, d)
    [] method = "es_dfm" -> FixedWaitStream(c, d) \cup AuxiliaryStream(c, d)
    [] method = "dfm" -> {Record(c, "current", 0, clickTime[c])}
    [] OTHER -> {Record(c, "privileged-final", IF d = Never THEN 0 ELSE 1, clickTime[c])}

Promised(ds) == UNION {Stream(c, ds[c]) : c \in Clicks}

\* Every method implements the stream it promises: at each credit the pools
\* hold the promised records legal by then, whatever the calls' order inside
\* the day and however many days one delivery spans.
LegalStream == INSTANCE LabelStream
  WITH promised <- Promised(delay), now <- last,
       pool <- {r \in pool \cup auxiliary : r.at <= last}
ImplementsStream == LegalStream!Spec

\* No call on a legal fixture meets a refusal of the methods ("Truth arrived
\* before click", "processed twice", a window that does not match, an auxiliary
\* pool or an observation of the future) or of the sampler ("Sampler record added
\* twice", "arrived before legal availability"): the two cursors keep each truth
\* behind its click, to the very instant of the decision.
NeverRefused == pc # "failed"

\* A deployable method's pools at a credit are the same for every outcome that
\* agrees with what has happened by then: nothing in them depends on truth that
\* is still to come (BUILD_PLAN.md, section 19; the oracle reference is the one
\* method that is allowed to look ahead).
AgreesSoFar(ds) ==
  \A c \in Clicks : ds[c] = delay[c] \/
    (AvailableAt(ds, c) > now /\ AvailableAt(delay, c) > now)
NoLookAhead ==
  (pc = "credit" /\ method # "oracle_reference") =>
    \A ds \in [Clicks -> Delays] :
      AgreesSoFar(ds) => pool \cup auxiliary = {r \in Promised(ds) : r.at <= now}

\* What dfm trains on is each click's status at the credit: converted with its
\* delay, or censored at the elapsed time up to the window (section 14.5).
ObservationLegal ==
  (pc = "credit" /\ method = "dfm") =>
    \A r \in pool : LET c == r.click  converted == clickTime[c] + delay[c] <= now
      IN Observation(c) =
           IF Converts(delay, c) /\ converted
           THEN [target |-> 1, time |-> delay[c], status |-> "revealed_positive"]
           ELSE [target |-> 0,
                 time |-> IF now >= Maturity(c) THEN Window ELSE now - clickTime[c],
                 status |-> IF now >= Maturity(c) THEN "mature_negative"
                            ELSE "right_censored"]

\* "If conversion reveals at or before c + w, emit one positive BCE record at
\* reveal and no provisional negative" (BUILD_PLAN.md:426).
EarlyHasNoProvisional ==
  \A p, q \in pool : p.click = q.click => ~(p.kind = "early-positive" /\ q.kind = "provisional")
=============================================================================
