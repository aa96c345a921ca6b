---------------------------- MODULE MCPackedReplay ----------------------------
(* Seven clicks: one a day, two in the last day and one after the training    *)
(* period.  A day has two boundaries, the window is two days, the wait one.   *)
EXTENDS PackedReplay

\* On the boundaries and between them; the last day's two clicks apart, with a
\* decision between them and their boundaries, and in one instant.
Times == {<<0, 4, 8, 12, 16, 18, 20>>, <<0, 7, 9, 13, 17, 17, 21>>}

\* Which clicks convert: none, one, or two in succession.
Pairs == {{0, 1}, {2, 3}, {4, 5}, {6}}
\* At once, at the end of the wait, just after it, at the end of the window.
Delays == {0, 4, 5, 8}
DelaysOf(pair) ==
  {[c \in Clicks |-> IF c \in pair THEN d[c] ELSE Never] : d \in [pair -> Delays \cup {Never}]}

\* Study A spends a credit every day, Study B on the last day only.  One click
\* is held out for monitoring.
Splits == {[monitored |-> {4}, credits |-> {3, 4}], [monitored |-> {1}, credits |-> {4}]}

MCFixtures ==
  {[time |-> [c \in Clicks |-> t[c + 1]], delay |-> d,
    monitored |-> split.monitored, credits |-> split.credits] :
     t \in Times, d \in UNION {DelaysOf(pair) : pair \in Pairs}, split \in Splits}
=============================================================================
