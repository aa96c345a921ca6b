----------------------------- MODULE RunMatrix -----------------------------
(***************************************************************************)
(* What the locked final stage promises of its matrix of runs: the runs    *)
(* settle one after another in the frozen order, what a run settled on     *)
(* never changes however often the stage is restarted, and what is         *)
(* published at the end is exactly what was settled, once.                 *)
(***************************************************************************)
EXTENDS Naturals, Sequences

CONSTANTS
  Size,      \* number of runs of the matrix
  Outcomes   \* what a run can settle on

VARIABLES
  settled,    \* evidence of the settled runs, in the frozen order
  published   \* the published matrix: no element or one

matrixVars == <<settled, published>>

Init == settled = <<>> /\ published = {}

Settle ==
  /\ Len(settled) < Size
  /\ Len(settled') = Len(settled) + 1
  /\ SubSeq(settled', 1, Len(settled)) = settled
  /\ settled'[Len(settled) + 1] \in Outcomes
  /\ UNCHANGED published

Publish ==
  /\ Len(settled) = Size
  /\ published = {}
  /\ published' = {settled}
  /\ UNCHANGED settled

Next == Settle \/ Publish
Spec == Init /\ [][Next]_matrixVars
=============================================================================
