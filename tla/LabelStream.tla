----------------------------- MODULE LabelStream -----------------------------
(***************************************************************************)
(* What a delayed-label method promises its trainer.  The training records *)
(* of a method are settled by the clicks and their outcomes; each becomes  *)
(* legal at its own time.  At every decision the pool is exactly the set   *)
(* of promised records that are legal by then: none early, none late, none *)
(* twice, none withdrawn.  A restored process is back at an earlier        *)
(* decision, with the pool it had then.                                    *)
(***************************************************************************)
EXTENDS Integers

CONSTANT Decisions \* the decision times

VARIABLES
  promised, \* the records the method owes, each with its legal time "at"
  now,      \* the last decision, or -1 before the first
  pool      \* the records the trainer may use

vars == <<promised, now, pool>>

LegalBy(t) == {r \in promised : r.at <= t}

Init == now = -1 /\ pool = {}

Publish(t) ==
  /\ now < t
  /\ now' = t
  /\ pool' = LegalBy(t)
  /\ UNCHANGED promised

Rewind(t) ==
  /\ t < now
  /\ now' = t
  /\ pool' = LegalBy(t)
  /\ UNCHANGED promised

Next == \E t \in Decisions : Publish(t) \/ Rewind(t)

Spec == Init /\ [][Next]_vars
=============================================================================
