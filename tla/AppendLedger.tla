---------------------------- MODULE AppendLedger ----------------------------
(***************************************************************************)
(* What a prediction or exposure ledger promises to the evaluation that    *)
(* reads it: published rows are never replaced or withdrawn, the ledger is *)
(* sealed only when it holds exactly the cohort's rows in order, and a     *)
(* sealed ledger never changes.                                            *)
(***************************************************************************)
EXTENDS Naturals, Sequences

VARIABLES
  cohort,     \* number of rows a sealed ledger holds, fixed
  published,  \* the rows readers may see, in order
  frozen      \* has the ledger been sealed?

ledgerVars == <<cohort, published, frozen>>

Init ==
  /\ cohort \in Nat
  /\ published = <<>>
  /\ frozen = FALSE

Publish ==
  /\ ~frozen
  /\ Len(published') = Len(published) + 1
  /\ \A i \in 1 .. Len(published) : published'[i] = published[i]
  /\ published'[Len(published')].row < cohort
  /\ UNCHANGED <<cohort, frozen>>

Freeze ==
  /\ ~frozen
  /\ Len(published) = cohort
  /\ \A i \in 1 .. cohort : published[i].row = i - 1
  /\ frozen' = TRUE
  /\ UNCHANGED <<cohort, published>>

Next == Publish \/ Freeze

Spec == Init /\ [][Next]_ledgerVars
=============================================================================
