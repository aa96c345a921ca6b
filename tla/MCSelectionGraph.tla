-------------------------- MODULE MCSelectionGraph --------------------------
(* Two stages of two candidates.  Losses 0 and 1 are tied, 2 is not; a pool *)
(* may be too small at the initialization or at the first credit.           *)
EXTENDS SelectionGraph

Loss(n) == [valid |-> TRUE, loss |-> n]
Fails(n) == [valid |-> FALSE, fails |-> n]
Home == [code |-> "c", gpu |-> "g"]
There == [code |-> "d", gpu |-> "h"]

MCWidth == <<2, 2>>
MCHosts == {Home, There}
MCFates ==
  { <<<<Loss(1), Loss(0)>>, <<Loss(0), Loss(2)>>>>,
    <<<<Loss(2), Loss(0)>>, <<Fails(1), Loss(1)>>>>,
    <<<<Fails(0), Loss(0)>>, <<Fails(0), Fails(1)>>>> }
=============================================================================
