----------------------------- MODULE PartLedger -----------------------------
(***************************************************************************)
(* The durable ledgers of a run (PredictionLedgerWriter of                 *)
(* experiments/predictions.py, ExposureLedgerWriter of                     *)
(* experiments/exposures.py), the production controller that appends to    *)
(* them, checkpoints and seals, and the restarts of that controller.       *)
(*                                                                         *)
(* A run is divided into turns; the controller ends each turn but the last *)
(* with a checkpoint and the last one with the seal and then a checkpoint. *)
(* In a turn it computes some rows (one part of the ledger each) and       *)
(* appends them.  The three kinds of ledger differ in where the index of   *)
(* the next part comes from and in what a sealed ledger answers:           *)
(*   "exposures"     index = the trainer's own count of credits; refuses   *)
(*   "primary"       index restored from the checkpoint; skipped           *)
(*   "intermediate"  written after the last checkpoint, always from part 0 *)
(*                                                                         *)
(* Every file operation is a step and the process may crash between two.   *)
(* Damage may take the newest checkpoint away, so that the previous one is *)
(* loaded (CheckpointStore models the store itself).  A row is a pair of   *)
(* its place in the event order and the software stack that computed it:   *)
(* a stack computes a row the same way every time (the reproducibility     *)
(* contract), another stack need not.                                      *)
(***************************************************************************)
EXTENDS Naturals, Sequences

CONSTANTS
  Kinds,       \* the kinds of ledger checked
  Turns,       \* number of turns of a run
  RowsBy,      \* RowsBy[k][t]: rows of ledger k computed by the end of turn t
  MaxCrashes,  \* bound on crashes
  MaxDamage,   \* bound on checkpoints lost to damage
  MaxDrift     \* bound on changes of the software stack

AllKinds == {"exposures", "primary", "intermediate"}

ASSUME LedgerConstants ==
  /\ Kinds \subseteq AllKinds
  /\ Turns \in Nat \ {0}
  /\ RowsBy \in [Kinds -> [0 .. Turns -> Nat]]
  /\ \A k \in Kinds :
       /\ RowsBy[k][0] = 0
       /\ \A s, t \in 0 .. Turns : s <= t => RowsBy[k][s] <= RowsBy[k][t]
       \* the last turn makes no decision; an intermediate ledger is all in it
       /\ k = "exposures" => RowsBy[k][Turns - 1] = RowsBy[k][Turns]
       /\ k = "intermediate" => RowsBy[k][Turns - 1] = 0
  /\ MaxCrashes \in Nat /\ MaxDamage \in Nat /\ MaxDrift \in Nat

VARIABLES
  kind,      \* the ledger's kind, fixed for the run
  identity,  \* does identity.json exist?
  parts,     \* the published parts, in order of their file names
  sealed,    \* does seal.json exist?
  strays,    \* temporary files that crashes left behind
  saved,     \* the verified checkpoints, newest last; at most two
  turn,      \* the turn the run is in
  row,       \* rows the run has computed
  index,     \* index the run gives its next part
  stack,     \* software stack the process runs on
  pc,        \* where the process is
  crashes, damage

vars == <<kind, identity, parts, sealed, strays, saved, turn, row, index,
          stack, pc, crashes, damage>>

Cohort == RowsBy[kind][Turns]
Refusals == {"refused_root", "refused_names", "refused_accounting",
             "refused_scan", "refused_retry", "refused_sealed"}
Working == {"opening", "identity_staged", "identity_linked", "running",
            "part_staged", "seal_staged", "seal_linked", "verified"}

\* The temporary file the process holds open, which a crash leaves behind.
Held == CASE pc \in {"identity_staged", "identity_linked"} -> {"identity"}
          [] pc = "part_staged" -> {"part"}
          [] pc \in {"seal_staged", "seal_linked"} -> {"seal"}
          [] OTHER -> {}

-----------------------------------------------------------------------------
(* Opening: __init__ of the writers, then the controller's _restore_latest. *)

\* write_json_atomic of the identity: fill a temporary, link it, unlink it.
StageIdentity ==
  /\ pc = "opening"
  /\ ~identity
  /\ pc' = "identity_staged"
  /\ UNCHANGED <<kind, identity, parts, sealed, strays, saved, turn, row, index,
                 stack, crashes, damage>>

LinkIdentity ==
  /\ pc = "identity_staged"
  /\ identity' = TRUE
  /\ pc' = "identity_linked"
  /\ UNCHANGED <<kind, parts, sealed, strays, saved, turn, row, index, stack,
                 crashes, damage>>

UnlinkIdentity ==
  /\ pc = "identity_linked"
  /\ pc' = "opening"
  /\ UNCHANGED <<kind, identity, parts, sealed, strays, saved, turn, row, index,
                 stack, crashes, damage>>

\* _remove_temporary_parts removes the parts' temporaries; _validate_names
\* refuses any other file that is not the ledger's.
NamesValid == strays \subseteq {"part"}

\* _scan of predictions: no click has two rows.
RowsDistinct ==
  \A i, j \in 1 .. Len(parts) : parts[i].row = parts[j].row => i = j

\* What position() evaluates: only the prediction ledgers scan their rows.
Position == Len(parts)
Scans == kind = "primary" => RowsDistinct

\* The checks _restore_latest makes of checkpoint c against the ledger.
Accounted(c) ==
  /\ kind = "exposures" => c.parts = c.row
  /\ c.parts <= Position

\* Faulty variant: the next part follows the last one on the disk.
RestoreFromDisk ==
  /\ pc = "opening" /\ identity /\ NamesValid
  /\ saved # <<>>
  /\ LET c == saved[Len(saved)] IN
       /\ Scans /\ Accounted(c)
       /\ turn' = c.turn
       /\ row' = c.row
       /\ index' = IF kind = "primary" THEN Len(parts) ELSE c.row
  /\ strays' = {}
  /\ pc' = "running"
  /\ UNCHANGED <<kind, identity, parts, sealed, saved, stack, crashes, damage>>

\* Resume from the newest checkpoint: the trainer's credit count is part of
\* its state, primary_part_index is the recorded position.
Restore ==
  /\ pc = "opening" /\ identity /\ NamesValid
  /\ saved # <<>>
  /\ LET c == saved[Len(saved)] IN
       /\ Scans /\ Accounted(c)
       /\ turn' = c.turn
       /\ row' = c.row
       /\ index' = IF kind = "primary" THEN c.parts ELSE c.row
  /\ strays' = {}
  /\ pc' = "running"
  /\ UNCHANGED <<kind, identity, parts, sealed, saved, stack, crashes, damage>>

\* A fresh run has nothing to restore.
OpenFresh ==
  /\ pc = "opening" /\ identity /\ NamesValid
  /\ saved = <<>>
  /\ pc' = "running"
  /\ UNCHANGED <<kind, identity, parts, sealed, strays, saved, turn, row, index,
                 stack, crashes, damage>>

\* An unexpected name, a row counted twice, or accounts that do not agree.
RefuseOpen ==
  /\ pc = "opening" /\ identity
  /\ \/ ~NamesValid /\ pc' = "refused_names"
     \/ NamesValid /\ saved # <<>> /\ ~Scans /\ pc' = "refused_scan"
     \/ /\ NamesValid /\ saved # <<>> /\ Scans
        /\ ~Accounted(saved[Len(saved)])
        /\ pc' = "refused_accounting"
  /\ UNCHANGED <<kind, identity, parts, sealed, strays, saved, turn, row, index,
                 stack, crashes, damage>>

-----------------------------------------------------------------------------
(* Appending: append and append_credit, called for each row of the turn.   *)

Row == [row |-> row, stack |-> stack]
RowPending == pc = "running" /\ turn <= Turns /\ row < RowsBy[kind][turn]

\* _predict_primary returns early once seal.json exists; exposures refuse.
SkipSealed ==
  /\ RowPending /\ sealed
  /\ kind = "primary"
  /\ row' = row + 1
  /\ UNCHANGED <<kind, identity, parts, sealed, strays, saved, turn, index,
                 stack, pc, crashes, damage>>

RefuseSealed ==
  /\ RowPending /\ sealed
  /\ kind = "exposures"
  /\ pc' = "refused_sealed"
  /\ UNCHANGED <<kind, identity, parts, sealed, strays, saved, turn, row, index,
                 stack, crashes, damage>>

\* Faulty variant: a retried part replaces the durable one.
RetryReplaces ==
  /\ RowPending /\ ~sealed
  /\ index < Len(parts)
  /\ parts' = [parts EXCEPT ![index + 1] = Row]
  /\ row' = row + 1
  /\ index' = index + 1
  /\ UNCHANGED <<kind, identity, sealed, strays, saved, turn, stack, pc,
                 crashes, damage>>

\* Faulty variant: a part that is there already is refused.
RetryRefused ==
  /\ RowPending /\ ~sealed
  /\ index < Len(parts)
  /\ pc' = "refused_retry"
  /\ UNCHANGED <<kind, identity, parts, sealed, strays, saved, turn, row, index,
                 stack, crashes, damage>>

\* Faulty variant: a retried part is found equal and tried again.
RetryForever ==
  /\ RowPending /\ ~sealed
  /\ index < Len(parts)
  /\ UNCHANGED vars

\* The part is on the disk: it must equal the one computed again.
Retry ==
  /\ RowPending /\ ~sealed
  /\ index < Len(parts)
  /\ IF parts[index + 1] = Row
     THEN /\ row' = row + 1
          /\ index' = index + 1
          /\ UNCHANGED pc
     ELSE /\ pc' = "refused_retry"
          /\ UNCHANGED <<row, index>>
  /\ UNCHANGED <<kind, identity, parts, sealed, strays, saved, turn, stack,
                 crashes, damage>>

\* The next part is written to a temporary file, then renamed.
StagePart ==
  /\ RowPending /\ ~sealed
  /\ index = Len(parts)
  /\ pc' = "part_staged"
  /\ UNCHANGED <<kind, identity, parts, sealed, strays, saved, turn, row, index,
                 stack, crashes, damage>>

\* Faulty variant: the run goes on although the part was not renamed.
PublishLost ==
  /\ pc = "part_staged"
  /\ row' = row + 1
  /\ index' = index + 1
  /\ pc' = "running"
  /\ UNCHANGED <<kind, identity, parts, sealed, strays, saved, turn, stack,
                 crashes, damage>>

PublishPart ==
  /\ pc = "part_staged"
  /\ parts' = Append(parts, Row)
  /\ row' = row + 1
  /\ index' = index + 1
  /\ pc' = "running"
  /\ UNCHANGED <<kind, identity, sealed, strays, saved, turn, stack, crashes,
                 damage>>

-----------------------------------------------------------------------------
(* The checkpoint that ends a turn, and the seal before the last one.      *)

TurnOver == turn <= Turns /\ row = RowsBy[kind][turn]

KeepTwo(s) == IF Len(s) <= 2 THEN s ELSE Tail(s)

\* The checkpoint stores the ledger's position() beside the run's state; it is
\* durable at one instant (CheckpointRegister).
Checkpoint ==
  /\ kind # "intermediate"
  /\ \/ pc = "running" /\ TurnOver /\ turn < Turns
     \/ pc = "verified"
  /\ Scans
  /\ saved' = KeepTwo(Append(saved,
       [turn |-> turn + 1, row |-> row, parts |-> Position]))
  /\ turn' = turn + 1
  /\ pc' = "running"
  /\ UNCHANGED <<kind, identity, parts, sealed, strays, row, index, stack,
                 crashes, damage>>

RefuseCheckpoint ==
  /\ pc = "running" /\ TurnOver /\ turn < Turns
  /\ ~Scans
  /\ pc' = "refused_scan"
  /\ UNCHANGED <<kind, identity, parts, sealed, strays, saved, turn, row, index,
                 stack, crashes, damage>>

\* Faulty variant: the rows are only counted.
CohortCounted == Len(parts) >= Cohort

\* seal() and verify_seal(): the parts are exactly the cohort, in order.
CohortComplete ==
  /\ Len(parts) = Cohort
  /\ \A i \in 1 .. Cohort : parts[i].row = i - 1

StageSeal ==
  /\ pc = "running" /\ TurnOver /\ turn = Turns
  /\ ~sealed
  /\ CohortComplete
  /\ pc' = "seal_staged"
  /\ UNCHANGED <<kind, identity, parts, sealed, strays, saved, turn, row, index,
                 stack, crashes, damage>>

RefuseSeal ==
  /\ pc = "running" /\ TurnOver /\ turn = Turns
  /\ ~sealed
  /\ ~CohortComplete
  /\ pc' = "refused_scan"
  /\ UNCHANGED <<kind, identity, parts, sealed, strays, saved, turn, row, index,
                 stack, crashes, damage>>

LinkSeal ==
  /\ pc = "seal_staged"
  /\ sealed' = TRUE
  /\ pc' = "seal_linked"
  /\ UNCHANGED <<kind, identity, parts, strays, saved, turn, row, index, stack,
                 crashes, damage>>

UnlinkSeal ==
  /\ pc = "seal_linked"
  /\ pc' = "verified"
  /\ UNCHANGED <<kind, identity, parts, sealed, strays, saved, turn, row, index,
                 stack, crashes, damage>>

\* verify_seal(): the seal is there already and matches the files.  A sealed
\* intermediate ledger is verified before any row is computed.
VerifySeal ==
  /\ pc = "running" /\ turn = Turns
  /\ TurnOver \/ kind = "intermediate"
  /\ sealed /\ CohortComplete
  /\ pc' = "verified"
  /\ UNCHANGED <<kind, identity, parts, sealed, strays, saved, turn, row, index,
                 stack, crashes, damage>>

\* The run ends with its ledger sealed; an intermediate ledger is sealed after
\* the last checkpoint.
Finish ==
  /\ \/ pc = "running" /\ turn > Turns
     \/ pc = "verified" /\ kind = "intermediate"
  /\ sealed
  /\ pc' = "done"
  /\ UNCHANGED <<kind, identity, parts, sealed, strays, saved, turn, row, index,
                 stack, crashes, damage>>

-----------------------------------------------------------------------------
(* Crashes, damage and restarts.                                           *)

Crash ==
  /\ pc \in Working
  /\ crashes < MaxCrashes
  /\ crashes' = crashes + 1
  /\ strays' = strays \cup Held
  /\ pc' = "down"
  /\ UNCHANGED <<kind, identity, parts, sealed, saved, turn, row, index, stack,
                 damage>>

\* The newest checkpoint no longer verifies: load_latest falls back.
Damage ==
  /\ pc = "down"
  /\ damage < MaxDamage
  /\ Len(saved) = 2
  /\ saved' = <<saved[1]>>
  /\ damage' = damage + 1
  /\ UNCHANGED <<kind, identity, parts, sealed, strays, turn, row, index, stack,
                 pc, crashes>>

\* execute() resumes when a checkpoint exists, perhaps on another stack.
Restart ==
  /\ pc = "down"
  /\ saved # <<>>
  /\ stack' \in {stack, stack + 1} \cap 0 .. MaxDrift
  /\ pc' = "opening"
  /\ UNCHANGED <<kind, identity, parts, sealed, strays, saved, turn, row, index,
                 crashes, damage>>

\* Without a checkpoint the controller wants an empty root.
RefuseRoot ==
  /\ pc = "down"
  /\ saved = <<>>
  /\ pc' = "refused_root"
  /\ UNCHANGED <<kind, identity, parts, sealed, strays, saved, turn, row, index,
                 stack, crashes, damage>>

-----------------------------------------------------------------------------

Init ==
  /\ kind \in Kinds
  /\ identity = FALSE
  /\ parts = <<>>
  /\ sealed = FALSE
  /\ strays = {}
  /\ saved = IF kind = "intermediate"
             THEN <<[turn |-> Turns, row |-> 0, parts |-> 0]>> ELSE <<>>
  /\ turn = IF kind = "intermediate" THEN Turns ELSE 1
  /\ row = 0
  /\ index = 0
  /\ stack = 0
  /\ pc = "opening"
  /\ crashes = 0 /\ damage = 0

Open == StageIdentity \/ LinkIdentity \/ UnlinkIdentity
        \/ Restore \/ OpenFresh \/ RefuseOpen
AppendRow == SkipSealed \/ RefuseSealed \/ Retry \/ StagePart \/ PublishPart
EndTurn == Checkpoint \/ RefuseCheckpoint \/ StageSeal \/ RefuseSeal
           \/ LinkSeal \/ UnlinkSeal \/ VerifySeal \/ Finish
Recover == Restart \/ RefuseRoot

Next == Open \/ AppendRow \/ EndTurn \/ Recover \/ Crash \/ Damage

Spec == Init /\ [][Next]_vars

\* The process runs on, and a stopped run is restarted.
FairSpec == Spec /\ WF_vars(Open) /\ WF_vars(AppendRow) /\ WF_vars(EndTurn)
                 /\ WF_vars(Recover)

-----------------------------------------------------------------------------
(* Properties.                                                             *)

Rows == [row : Nat, stack : 0 .. MaxDrift]
SavedCheckpoint == [turn : 1 .. Turns + 1, row : 0 .. Cohort, parts : Nat]

\* What the directory, the checkpoints and the process may hold.
TypeOK ==
  /\ kind \in Kinds
  /\ identity \in BOOLEAN
  /\ parts \in Seq(Rows)
  /\ sealed \in BOOLEAN
  /\ strays \subseteq {"identity", "part", "seal"}
  /\ saved \in Seq(SavedCheckpoint) /\ Len(saved) <= 2
  /\ turn \in 1 .. Turns + 1
  /\ row \in 0 .. Cohort
  /\ index \in 0 .. Len(parts)
  /\ stack \in 0 .. MaxDrift
  /\ pc \in Working \cup Refusals \cup {"down", "done"}
  /\ crashes \in 0 .. MaxCrashes
  /\ damage \in 0 .. MaxDamage

\* A sealed ledger holds every row of the cohort once, in event order, however
\* often the run was stopped, rolled back or moved ("Prediction ledger does not
\* match the locked evaluation cohort", predictions.py:350).
SealedIsComplete ==
  sealed => /\ Len(parts) = Cohort
            /\ \A i \in 1 .. Len(parts) : parts[i].row = i - 1

\* A checkpoint's evidence is durable before the checkpoint is: no checkpoint
\* counts a part that is not on the disk, nor a row that has none.
DurableBeforeCheckpoint ==
  \A i \in 1 .. Len(saved) :
    saved[i].row <= saved[i].parts /\ saved[i].parts <= Len(parts)

\* Without damage the parts are the event order: a resumed run neither skips a
\* row nor gives a click two.
RowsInOrder ==
  damage = 0 => \A i \in 1 .. Len(parts) : parts[i].row = i - 1

\* A restarted run is refused only for a reason: no checkpoint yet, a stray JSON
\* temporary, a lost checkpoint or another stack.  Retrying what was already
\* done is never one ("test_prediction_append_is_retry_safe_and_contiguous").
RefusedForReason ==
  pc \in Refusals =>
    saved = <<>> \/ ~NamesValid \/ damage > 0 \/ stack > 0

\* The inductive invariant.  What each place in the process knows; ...
PcInv ==
  /\ pc = "part_staged" => /\ ~sealed /\ index = Len(parts)
                           /\ turn <= Turns /\ row < RowsBy[kind][turn]
  /\ pc = "seal_staged" => ~sealed /\ CohortComplete
  /\ pc \in {"seal_linked", "verified"} => sealed
  /\ pc \in {"seal_staged", "seal_linked", "verified"} =>
       turn = Turns /\ (kind # "intermediate" => row = Cohort)
  /\ turn <= Turns => RowsBy[kind][turn - 1] <= row
  /\ row <= index \/ sealed

\* ... what a checkpoint recorded; ...
SavedInv ==
  \A i \in 1 .. Len(saved) :
    /\ saved[i].row = RowsBy[kind][saved[i].turn - 1]
    /\ kind = "intermediate" => saved[i].row = 0

StackInv == \A i \in 1 .. Len(parts) : parts[i].stack <= stack

\* ... and, without damage, that the run is in the turn after its newest
\* checkpoint and no part is on the disk that this turn does not write.
UndamagedInv ==
  damage = 0 =>
    /\ saved # <<>> => turn = saved[Len(saved)].turn
    /\ \A i \in 1 .. Len(saved) : saved[i].parts = saved[i].row
    /\ turn <= Turns => Len(parts) <= RowsBy[kind][turn]
    /\ sealed => turn >= Turns
    /\ row = index \/ sealed

IInv ==
  /\ SealedIsComplete /\ DurableBeforeCheckpoint /\ RowsInOrder
  /\ RefusedForReason
  /\ PcInv /\ SavedInv /\ StackInv /\ UndamagedInv

\* The run settles: sealed, or refused for good.
EventuallySettles == <>(pc \in {"done"} \cup Refusals)

\* "A resumed run must produce the same prediction and credit ledgers as an
\* uninterrupted run on the same stack." (BUILD_PLAN.md:652), from the previous
\* checkpoint too (test_corrupt_current_falls_back_to_verified_previous): a run
\* that fell back on the same stack finds accounts that agree and gives no
\* click a second row.
FallbackKeepsLedger ==
  stack = 0 => pc \notin {"refused_accounting", "refused_scan"}

Abstract == INSTANCE AppendLedger WITH
              cohort <- Cohort, published <- parts, frozen <- sealed
ImplementsLedger == Abstract!Spec
=============================================================================
