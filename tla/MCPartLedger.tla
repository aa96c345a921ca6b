---------------------------- MODULE MCPartLedger ----------------------------
(* A run of four turns: a credit in each of the first three, predictions from *)
(* the second turn on, and an intermediate ledger of three rows written after *)
(* the last checkpoint.                                                       *)
EXTENDS PartLedger

RowsOf(rows) == [t \in 0 .. 4 |-> IF t = 0 THEN 0 ELSE rows[t]]

MCRowsBy ==
  [k \in Kinds |-> CASE k = "exposures" -> RowsOf(<<1, 2, 3, 3>>)
                     [] k = "primary" -> RowsOf(<<0, 1, 3, 4>>)
                     [] OTHER -> RowsOf(<<0, 0, 0, 3>>)]
=============================================================================
