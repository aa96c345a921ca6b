-------------------------- MODULE PartLedger_proofs --------------------------
(***************************************************************************)
(* Theorems about PartLedger, for every number of turns, every number of   *)
(* rows in them, and every bound on crashes, damage and changes of stack.  *)
(***************************************************************************)
EXTENDS PartLedger, SequenceTheorems, TLAPS

RunTurns == 0 .. Turns

\* The rows computed by the end of a turn are a number, and only grow.
LEMMA RowsFacts ==
  ASSUME NEW k \in Kinds
  PROVE  /\ \A t \in RunTurns : RowsBy[k][t] \in Nat
         /\ \A s, t \in RunTurns : s <= t => RowsBy[k][s] <= RowsBy[k][t]
         /\ RowsBy[k][0] = 0
         /\ k = "exposures" => RowsBy[k][Turns - 1] = RowsBy[k][Turns]
         /\ k = "intermediate" => RowsBy[k][Turns - 1] = 0
         /\ Turns \in Nat \ {0}
         /\ \A t \in 1 .. Turns + 1 : t - 1 \in RunTurns
         /\ \A t \in 1 .. Turns + 1 : t <= Turns => t \in RunTurns
         /\ Turns \in RunTurns
<1>1. \A t \in RunTurns : RowsBy[k][t] \in Nat
  BY LedgerConstants DEF RunTurns
<1>2. \A s, t \in RunTurns : s <= t => RowsBy[k][s] <= RowsBy[k][t]
  BY LedgerConstants DEF RunTurns
<1>3. /\ RowsBy[k][0] = 0
      /\ k = "exposures" => RowsBy[k][Turns - 1] = RowsBy[k][Turns]
      /\ k = "intermediate" => RowsBy[k][Turns - 1] = 0
  BY LedgerConstants
<1>4. /\ Turns \in Nat \ {0}
      /\ \A t \in 1 .. Turns + 1 : t - 1 \in RunTurns
      /\ \A t \in 1 .. Turns + 1 : t <= Turns => t \in RunTurns
      /\ Turns \in RunTurns
  BY LedgerConstants DEF RunTurns
<1> QED
  BY <1>1, <1>2, <1>3, <1>4

LEMMA UpToTwo == ASSUME NEW n \in Nat, n <= 2 PROVE n = 0 \/ n = 1 \/ n = 2
  OBVIOUS

\* The last two of a sequence of three.
LEMMA TailOfThree ==
  ASSUME NEW S, NEW a \in Seq(S), Len(a) = 3, NEW r, r = Tail(a)
  PROVE  r \in Seq(S) /\ Len(r) = 2 /\ r[1] = a[2] /\ r[2] = a[3]
<1>1. a # <<>>
  OBVIOUS
<1>2. r \in Seq(S) /\ Len(r) = Len(a) - 1
  BY <1>1, HeadTailProperties
<1>3. \A i \in 1 .. Len(r) : r[i] = a[i + 1]
  BY <1>1, HeadTailProperties
<1>4. Len(r) = 2
  BY <1>2
<1>5. \A i \in 1 .. 2 : r[i] = a[i + 1]
  BY <1>3, <1>4
<1> QED
  BY <1>2, <1>4, <1>5

\* The newest two of a sequence of at most two and one more element.
LEMMA KeepTwoFacts ==
  ASSUME NEW S, NEW s \in Seq(S), Len(s) <= 2, NEW c \in S,
         NEW r, r = KeepTwo(Append(s, c))
  PROVE  /\ r \in Seq(S) /\ Len(r) \in 1 .. 2
         /\ r[Len(r)] = c
         /\ \A i \in 1 .. Len(r) :
              r[i] = c \/ \E j \in 1 .. Len(s) : r[i] = s[j]
<1> DEFINE a == Append(s, c)
<1>1. a \in Seq(S) /\ Len(a) = Len(s) + 1 /\ a[Len(s) + 1] = c
  BY AppendProperties
<1>2. \A i \in 1 .. Len(s) : a[i] = s[i]
  BY AppendProperties
<1>3. Len(s) = 0 \/ Len(s) = 1 \/ Len(s) = 2
  <2>1. Len(s) \in Nat
    OBVIOUS
  <2> QED
    BY <2>1, UpToTwo
<1>4. CASE Len(s) # 2
  <2>1. r = a
    BY <1>1, <1>3, <1>4 DEF KeepTwo
  <2> HIDE DEF a
  <2>2. Len(r) = Len(s) + 1
    BY <1>1, <2>1
  <2> QED
    BY <1>1, <1>2, <1>3, <1>4, <2>1, <2>2
<1>5. CASE Len(s) = 2
  <2>1. Len(a) = 3 /\ r = Tail(a)
    BY <1>1, <1>5 DEF KeepTwo
  <2> HIDE DEF a
  <2>2. r \in Seq(S) /\ Len(r) = 2 /\ r[1] = a[2] /\ r[2] = a[3]
    BY <1>1, <2>1, TailOfThree
  <2>3. a[2] = s[2] /\ a[3] = c
    BY <1>1, <1>2, <1>5
  <2> QED
    BY <1>5, <2>2, <2>3
<1> QED
  BY <1>4, <1>5

LEMMA StartOK == Init => TypeOK /\ IInv
<1> SUFFICES ASSUME Init PROVE TypeOK /\ IInv
  OBVIOUS
<1> USE DEF Init
<1>1. kind \in Kinds
  OBVIOUS
<1>2. Cohort \in Nat
  BY <1>1, RowsFacts DEF Cohort
<1>3. saved \in Seq(SavedCheckpoint) /\ Len(saved) <= 2
  <2>1. CASE kind = "intermediate"
    <3>1. [turn |-> Turns, row |-> 0, parts |-> 0] \in SavedCheckpoint
      BY <1>1, <1>2, RowsFacts DEF SavedCheckpoint
    <3>2. saved = <<[turn |-> Turns, row |-> 0, parts |-> 0]>>
      BY <2>1
    <3> HIDE DEF Init
    <3> QED
      BY <3>1, <3>2
  <2>2. CASE kind # "intermediate"
    BY <2>2
  <2> QED
    BY <2>1, <2>2
<1>4. TypeOK
  <2>1. /\ identity \in BOOLEAN /\ sealed \in BOOLEAN
        /\ strays \subseteq {"identity", "part", "seal"}
        /\ pc \in Working \cup Refusals \cup {"down", "done"}
    BY DEF Working
  <2>2. turn \in 1 .. Turns + 1
    BY <1>1, RowsFacts
  <2>4. parts \in Seq(Rows) /\ Len(parts) = 0
    BY EmptySeq
  <2>3. /\ row \in 0 .. Cohort /\ index \in 0 .. Len(parts)
        /\ stack \in 0 .. MaxDrift /\ crashes \in 0 .. MaxCrashes
        /\ damage \in 0 .. MaxDamage
    BY <1>2, <2>4, LedgerConstants
  <2> QED
    BY <1>1, <1>3, <2>1, <2>2, <2>3, <2>4 DEF TypeOK
<1>5. turn - 1 \in RunTurns /\ RowsBy[kind][turn - 1] = 0
  BY <1>1, RowsFacts DEF RunTurns
<1>6. PcInv
  BY <1>5 DEF PcInv
<1>7. SavedInv /\ DurableBeforeCheckpoint
  BY <1>5 DEF SavedInv, DurableBeforeCheckpoint
<1>8. turn \in 1 .. Turns
  BY <1>1, RowsFacts
<1>9. UndamagedInv
  BY <1>1, <1>8, RowsFacts DEF UndamagedInv
<1>10. SealedIsComplete /\ RowsInOrder /\ StackInv /\ RefusedForReason
  BY DEF SealedIsComplete, RowsInOrder, StackInv, RefusedForReason, Refusals
<1> QED
  BY <1>4, <1>6, <1>7, <1>9, <1>10 DEF IInv

\* What the ledger and the run hold, apart from where the process is.
data == <<kind, parts, sealed, saved, turn, row, index, damage>>

\* A step that leaves the data alone keeps the invariant when it keeps the two
\* parts of it that speak of the process.
LEMMA QuietStep ==
  ASSUME TypeOK, TypeOK', IInv, UNCHANGED data, stack <= stack',
         PcInv', RefusedForReason'
  PROVE  IInv'
<1> USE DEF data, Cohort
<1>1. SealedIsComplete'
  BY DEF IInv, SealedIsComplete
<1>2. DurableBeforeCheckpoint' /\ RowsInOrder'
  BY DEF IInv, DurableBeforeCheckpoint, RowsInOrder
<1>3. SavedInv'
  BY DEF IInv, SavedInv
<1>4. StackInv'
  <2> SUFFICES ASSUME NEW i \in 1 .. Len(parts)
               PROVE  parts[i].stack <= stack'
    BY DEF StackInv
  <2>1. parts[i] \in Rows /\ stack \in Nat /\ stack' \in Nat
    BY DEF TypeOK
  <2> QED
    BY <2>1 DEF IInv, StackInv, Rows
<1>5. UndamagedInv'
  BY DEF IInv, UndamagedInv
<1> QED
  BY <1>1, <1>2, <1>3, <1>4, <1>5 DEF IInv

\* The facts about a checkpoint that is kept: its turn, its row and its parts.
LEMMA NewestSaved ==
  ASSUME TypeOK, IInv, saved # <<>>, NEW c, c = saved[Len(saved)]
  PROVE  /\ Len(saved) \in 1 .. Len(saved)
         /\ c \in SavedCheckpoint
         /\ c.turn \in 1 .. Turns + 1 /\ c.row \in 0 .. Cohort /\ c.parts \in Nat
         /\ c.row = RowsBy[kind][c.turn - 1]
         /\ c.row <= c.parts /\ c.parts <= Len(parts)
         /\ kind = "intermediate" => c.row = 0
<1>1. Len(saved) \in 1 .. Len(saved)
  <2>1. Len(saved) \in Nat /\ Len(saved) # 0
    BY DEF TypeOK
  <2> QED
    BY <2>1
<1>2. c \in SavedCheckpoint
  BY <1>1 DEF TypeOK
<1>3. c.row = RowsBy[kind][c.turn - 1] /\ (kind = "intermediate" => c.row = 0)
  BY <1>1 DEF IInv, SavedInv
<1>4. c.row <= c.parts /\ c.parts <= Len(parts)
  BY <1>1 DEF IInv, DurableBeforeCheckpoint
<1> QED
  BY <1>1, <1>2, <1>3, <1>4 DEF SavedCheckpoint

\* Each action keeps the types.
LEMMA TypeStep == TypeOK /\ IInv /\ [Next]_vars => TypeOK'
<1> SUFFICES ASSUME TypeOK, IInv, [Next]_vars
             PROVE  TypeOK'
  OBVIOUS
<1>1. kind \in Kinds /\ Cohort \in Nat
  BY RowsFacts DEF TypeOK, Cohort, RunTurns
<1>2. ASSUME UNCHANGED data,
             identity' \in BOOLEAN,
             strays' \subseteq {"identity", "part", "seal"},
             stack' \in 0 .. MaxDrift,
             pc' \in Working \cup Refusals \cup {"down", "done"},
             crashes' \in 0 .. MaxCrashes
      PROVE  TypeOK'
  <2>1. SavedCheckpoint' = SavedCheckpoint /\ Cohort' = Cohort
    BY <1>2 DEF data, SavedCheckpoint, Cohort
  <2> QED
    BY <1>2, <2>1 DEF TypeOK, data, Rows
<1> USE DEF Working, Refusals
<1>3. CASE Open
  <2>1. CASE StageIdentity \/ LinkIdentity \/ UnlinkIdentity \/ OpenFresh
             \/ RefuseOpen
    BY <1>2, <2>1 DEF StageIdentity, LinkIdentity, UnlinkIdentity, OpenFresh,
                      RefuseOpen, TypeOK, data
  <2>2. CASE Restore
    <3> DEFINE c == saved[Len(saved)]
    <3>1. /\ saved # <<>> /\ Accounted(c)
          /\ turn' = c.turn /\ row' = c.row
          /\ index' = IF kind = "primary" THEN c.parts ELSE c.row
          /\ strays' = {} /\ pc' = "running"
          /\ UNCHANGED <<kind, identity, parts, sealed, saved, stack, crashes, damage>>
      BY <2>2 DEF Restore
    <3> HIDE DEF c
    <3>2. /\ c.turn \in 1 .. Turns + 1 /\ c.row \in 0 .. Cohort /\ c.parts \in Nat
          /\ c.row <= c.parts /\ c.parts <= Len(parts)
      BY <3>1, NewestSaved DEF c
    <3>3. Len(parts) \in Nat
      BY DEF TypeOK
    <3>4. c.parts \in 0 .. Len(parts) /\ c.row \in 0 .. Len(parts)
      BY <1>1, <3>2, <3>3
    <3>5. SavedCheckpoint' = SavedCheckpoint /\ Cohort' = Cohort
      BY <3>1 DEF SavedCheckpoint, Cohort
    <3>6. turn' \in 1 .. Turns + 1 /\ row' \in 0 .. Cohort
          /\ index' \in 0 .. Len(parts)
      BY <3>1, <3>2, <3>4
    <3> QED
      BY <3>1, <3>5, <3>6 DEF TypeOK, Rows
  <2> QED
    BY <1>3, <2>1, <2>2 DEF Open
<1>4. CASE AppendRow
  <2> DEFINE limit == RowsBy[kind][turn]
  <2>1. ASSUME turn <= Turns, row < RowsBy[kind][turn]
        PROVE  row + 1 \in 0 .. Cohort
    <3>1. turn \in RunTurns /\ Turns \in RunTurns
      BY <1>1, <2>1, RowsFacts DEF TypeOK
    <3>2. limit \in Nat /\ limit <= Cohort
      BY <1>1, <2>1, <3>1, RowsFacts DEF Cohort, RunTurns
    <3>3. row \in Nat /\ row < limit
      BY <2>1 DEF TypeOK
    <3> HIDE DEF limit
    <3> QED
      BY <1>1, <3>2, <3>3
  <2>2. CASE StagePart \/ RefuseSealed
    BY <1>2, <2>2 DEF StagePart, RefuseSealed, TypeOK, data
  <2>3. CASE SkipSealed
    <3>1. row' \in 0 .. Cohort
      BY <2>1, <2>3 DEF SkipSealed, RowPending
    <3>2. SavedCheckpoint' = SavedCheckpoint /\ Cohort' = Cohort
      BY <2>3 DEF SavedCheckpoint, Cohort, SkipSealed
    <3> QED
      BY <2>3, <3>1, <3>2 DEF SkipSealed, TypeOK, Rows
  <2>4. CASE Retry
    <3>1. row' \in 0 .. Cohort
      BY <2>1, <2>4 DEF Retry, RowPending, TypeOK
    <3>2. SavedCheckpoint' = SavedCheckpoint /\ Cohort' = Cohort
      BY <2>4 DEF SavedCheckpoint, Cohort, Retry
    <3>3. index' \in 0 .. Len(parts)
      <4>1. Len(parts) \in Nat /\ index \in Nat /\ index <= Len(parts)
        BY DEF TypeOK
      <4> QED
        BY <2>4, <4>1 DEF Retry
    <3> QED
      BY <2>4, <3>1, <3>2, <3>3 DEF Retry, RowPending, TypeOK, Rows
  <2>5. CASE PublishPart
    <3>1. turn <= Turns /\ row < RowsBy[kind][turn] /\ index = Len(parts)
      BY <2>5 DEF PublishPart, IInv, PcInv
    <3>2. row' \in 0 .. Cohort
      BY <2>1, <2>5, <3>1 DEF PublishPart
    <3>3. Row \in Rows
      BY <1>1 DEF Row, Rows, TypeOK
    <3>4. parts' \in Seq(Rows) /\ Len(parts') = Len(parts) + 1
      BY <2>5, <3>3, AppendProperties DEF PublishPart, TypeOK
    <3>5. index' \in 0 .. Len(parts')
      <4>1. Len(parts) \in Nat /\ index' = index + 1
        BY <2>5 DEF TypeOK, PublishPart
      <4> QED
        BY <3>1, <3>4, <4>1
    <3>6. SavedCheckpoint' = SavedCheckpoint /\ Cohort' = Cohort /\ Rows' = Rows
      BY <2>5 DEF SavedCheckpoint, Cohort, PublishPart, Rows
    <3> QED
      BY <2>5, <3>2, <3>4, <3>5, <3>6 DEF PublishPart, TypeOK
  <2> QED
    BY <1>4, <2>2, <2>3, <2>4, <2>5 DEF AppendRow
<1>5. CASE EndTurn
  <2>1. CASE RefuseCheckpoint \/ StageSeal \/ RefuseSeal \/ UnlinkSeal
             \/ VerifySeal \/ Finish
    BY <1>2, <2>1 DEF RefuseCheckpoint, StageSeal, RefuseSeal, UnlinkSeal,
                      VerifySeal, Finish, TypeOK, data
  <2>2. CASE LinkSeal
    <3>1. SavedCheckpoint' = SavedCheckpoint /\ Cohort' = Cohort
      BY <2>2 DEF SavedCheckpoint, Cohort, LinkSeal
    <3> QED
      BY <2>2, <3>1 DEF LinkSeal, TypeOK, Rows
  <2>3. CASE Checkpoint
    <3> DEFINE c == [turn |-> turn + 1, row |-> row, parts |-> Position]
    <3>1. /\ saved' = KeepTwo(Append(saved, c)) /\ turn' = turn + 1
          /\ pc' = "running"
          /\ UNCHANGED <<kind, identity, parts, sealed, strays, row, index,
                         stack, crashes, damage>>
      BY <2>3 DEF Checkpoint
    <3>2. turn \in 1 .. Turns
      BY <2>3 DEF Checkpoint, TurnOver, TypeOK, IInv, PcInv
    <3>3. Turns \in Nat
      BY LedgerConstants
    <3>4. turn + 1 \in 1 .. Turns + 1
      BY <3>2, <3>3
    <3>5. c \in SavedCheckpoint
      BY <3>4 DEF SavedCheckpoint, TypeOK, Position
    <3> HIDE DEF c
    <3>6. saved' \in Seq(SavedCheckpoint) /\ Len(saved') <= 2
      <4>1. saved' \in Seq(SavedCheckpoint) /\ Len(saved') \in 1 .. 2
        BY <3>1, <3>5, KeepTwoFacts DEF TypeOK
      <4> DEFINE n == Len(saved')
      <4>2. n \in 1 .. 2
        BY <4>1
      <4> HIDE DEF n
      <4>3. n <= 2
        BY <4>2
      <4> QED
        BY <4>1, <4>3 DEF n
    <3>7. SavedCheckpoint' = SavedCheckpoint /\ Cohort' = Cohort
      BY <3>1 DEF SavedCheckpoint, Cohort
    <3> QED
      BY <3>1, <3>4, <3>6, <3>7 DEF TypeOK, Rows
  <2> QED
    BY <1>5, <2>1, <2>2, <2>3 DEF EndTurn
<1>6. CASE Recover
  BY <1>2, <1>6 DEF Recover, Restart, RefuseRoot, TypeOK, data
<1>7. CASE Crash
  <2>1. crashes' \in 0 .. MaxCrashes
    BY <1>7, LedgerConstants DEF Crash, TypeOK
  <2>2. strays' \subseteq {"identity", "part", "seal"}
    BY <1>7 DEF Crash, TypeOK, Held
  <2> QED
    BY <1>2, <1>7, <2>1, <2>2 DEF Crash, TypeOK, data
<1>8. CASE Damage
  <2>1. SavedCheckpoint' = SavedCheckpoint /\ Cohort' = Cohort
    BY <1>8 DEF SavedCheckpoint, Cohort, Damage
  <2>2. saved' \in Seq(SavedCheckpoint) /\ Len(saved') = 1
    <3>1. saved[1] \in SavedCheckpoint
      <4>1. saved \in Seq(SavedCheckpoint) /\ Len(saved) = 2
        BY <1>8 DEF TypeOK, Damage
      <4>2. 1 \in 1 .. Len(saved)
        BY <4>1
      <4> QED
        BY <4>1, <4>2, ElementOfSeq
    <3>2. saved' = <<saved[1]>>
      BY <1>8 DEF Damage
    <3> QED
      BY <3>1, <3>2
  <2>3. damage' \in 0 .. MaxDamage
    BY <1>8, LedgerConstants DEF Damage, TypeOK
  <2> QED
    BY <1>8, <2>1, <2>2, <2>3 DEF Damage, TypeOK, Rows
<1>9. CASE UNCHANGED vars
  BY <1>2, <1>9 DEF vars, TypeOK, data
<1> QED
  BY <1>3, <1>4, <1>5, <1>6, <1>7, <1>8, <1>9 DEF Next

\* The numbers that a well-typed state holds.
LEMMA TypeFacts ==
  ASSUME TypeOK
  PROVE  /\ kind \in Kinds /\ Cohort \in Nat
         /\ row \in Nat /\ row <= Cohort
         /\ index \in Nat /\ Len(parts) \in Nat /\ index <= Len(parts)
         /\ stack \in Nat /\ damage \in Nat
         /\ RowsBy[kind][turn - 1] \in Nat
         /\ turn <= Turns => /\ RowsBy[kind][turn] \in Nat
                             /\ RowsBy[kind][turn] <= Cohort
<1>1. kind \in Kinds /\ Cohort \in Nat
  BY RowsFacts DEF TypeOK, Cohort
<1>2. row \in Nat /\ row <= Cohort
  BY <1>1 DEF TypeOK
<1>3. Len(parts) \in Nat
  BY DEF TypeOK
<1>4. index \in Nat /\ index <= Len(parts)
  BY <1>3 DEF TypeOK
<1>5. turn \in 1 .. Turns + 1
  BY DEF TypeOK
<1>6. RowsBy[kind][turn - 1] \in Nat
  BY <1>1, <1>5, RowsFacts
<1>7. ASSUME turn <= Turns
      PROVE  RowsBy[kind][turn] \in Nat /\ RowsBy[kind][turn] <= Cohort
  <2>1. turn \in RunTurns /\ Turns \in RunTurns
    BY <1>1, <1>5, <1>7, RowsFacts
  <2> QED
    BY <1>1, <1>7, <2>1, RowsFacts DEF Cohort
<1> QED
  BY <1>1, <1>2, <1>3, <1>4, <1>6, <1>7 DEF TypeOK

\* Rows in event order are distinct.
LEMMA InOrderDistinct == TypeOK /\ IInv /\ damage = 0 => RowsDistinct
<1> SUFFICES ASSUME TypeOK, IInv, damage = 0,
                    NEW i \in 1 .. Len(parts), NEW j \in 1 .. Len(parts),
                    parts[i].row = parts[j].row
             PROVE  i = j
  BY DEF RowsDistinct
<1>1. parts[i].row = i - 1 /\ parts[j].row = j - 1
  BY DEF IInv, RowsInOrder
<1>2. i \in Nat /\ j \in Nat
  <2>1. Len(parts) \in Nat
    BY DEF TypeOK
  <2> QED
    BY <2>1
<1>3. i - 1 = j - 1
  BY <1>1
<1> QED
  BY <1>2, <1>3

\* The steps that only move the process.
LEMMA MovePreserves ==
  ASSUME TypeOK, TypeOK', IInv,
         \/ StageIdentity \/ LinkIdentity \/ UnlinkIdentity \/ OpenFresh
         \/ StagePart \/ StageSeal \/ UnlinkSeal \/ VerifySeal \/ Finish
         \/ Crash \/ Restart
  PROVE  IInv'
<1> USE DEF data, IInv, PcInv, RefusedForReason, Refusals
<1>0. \A n \in Nat : n <= n
  OBVIOUS
<1>00. stack \in Nat
  BY DEF TypeOK
<1>1. CASE StageIdentity \/ LinkIdentity \/ UnlinkIdentity \/ OpenFresh
  BY <1>0, <1>00, <1>1, QuietStep DEF StageIdentity, LinkIdentity, UnlinkIdentity, OpenFresh
<1>2. CASE StagePart
  BY <1>0, <1>00, <1>2, QuietStep DEF StagePart, RowPending
<1>3. CASE StageSeal
  <2>1. kind \in Kinds
    BY DEF TypeOK
  <2>2. turn = Turns /\ row = Cohort /\ CohortComplete' /\ ~sealed
    BY <1>3 DEF StageSeal, TurnOver, Cohort, CohortComplete
  <2> QED
    BY <1>0, <1>00, <1>3, <2>2, QuietStep DEF StageSeal, Cohort
<1>4. CASE UnlinkSeal
  BY <1>0, <1>00, <1>4, QuietStep DEF UnlinkSeal, Cohort
<1>5. CASE VerifySeal
  BY <1>0, <1>00, <1>5, QuietStep DEF VerifySeal, TurnOver, Cohort
<1>6. CASE Finish
  BY <1>0, <1>00, <1>6, QuietStep DEF Finish
<1>7. CASE Crash
  BY <1>0, <1>00, <1>7, QuietStep DEF Crash
<1>8. CASE Restart
  <2>1. stack <= stack'
    BY <1>8, <1>00 DEF Restart
  <2> QED
    BY <1>8, <2>1, QuietStep DEF Restart
<1> QED
  BY <1>1, <1>2, <1>3, <1>4, <1>5, <1>6, <1>7, <1>8

\* The refusals: each has its reason.
LEMMA RefusalPreserves ==
  ASSUME TypeOK, TypeOK', IInv,
         \/ RefuseOpen \/ RefuseSealed \/ RefuseCheckpoint \/ RefuseSeal
         \/ RefuseRoot
  PROVE  IInv'
<1>1. UNCHANGED data /\ stack' = stack /\ strays' = strays /\ pc' \in Refusals
  <2> USE DEF Refusals, data
  <2>1. CASE RefuseOpen
    BY <2>1 DEF RefuseOpen
  <2>2. CASE RefuseSealed \/ RefuseCheckpoint \/ RefuseSeal \/ RefuseRoot
    BY <2>2 DEF RefuseSealed, RefuseCheckpoint, RefuseSeal, RefuseRoot
  <2> QED
    BY <2>1, <2>2
<1>2. kind \in Kinds /\ damage \in Nat /\ stack \in Nat
  BY DEF TypeOK
<1>3. saved = <<>> \/ ~NamesValid \/ damage > 0
  <2> SUFFICES ASSUME saved # <<>>, NamesValid, damage = 0 PROVE FALSE
    BY <1>2
  <2>1. RowsDistinct /\ Scans
    BY InOrderDistinct DEF Scans
  <2>2. CASE RefuseOpen
    <3> DEFINE c == saved[Len(saved)]
    <3>1. ~Accounted(c)
      BY <2>1, <2>2 DEF RefuseOpen
    <3>2. c.parts <= Len(parts)
      BY NewestSaved
    <3>3. c.parts = c.row
      BY NewestSaved DEF IInv, UndamagedInv
    <3> QED
      BY <3>1, <3>2, <3>3 DEF Accounted, Position
  <2>3. CASE RefuseSealed
    <3>1. /\ sealed /\ kind = "exposures" /\ turn <= Turns
          /\ row < RowsBy[kind][turn]
      BY <2>3 DEF RefuseSealed, RowPending
    <3>2. turn >= Turns /\ RowsBy[kind][turn - 1] <= row
      BY <3>1 DEF IInv, UndamagedInv, PcInv
    <3>3. turn = Turns
      BY <3>1, <3>2, LedgerConstants DEF TypeOK
    <3>4. RowsBy[kind][Turns - 1] = RowsBy[kind][Turns]
      BY <1>2, <3>1, RowsFacts
    <3>5. RowsBy[kind][Turns] \in Nat /\ row \in Nat
      <4>1. RowsBy[kind][Turns] \in Nat
        BY <1>2, RowsFacts
      <4> QED
        BY <4>1 DEF TypeOK, Cohort
    <3>6. RowsBy[kind][Turns] <= row /\ row < RowsBy[kind][Turns]
      BY <3>1, <3>2, <3>3, <3>4
    <3> QED
      BY <3>5, <3>6
  <2>4. CASE RefuseCheckpoint
    BY <2>1, <2>4 DEF RefuseCheckpoint
  <2>5. CASE RefuseSeal
    <3>1. turn = Turns /\ row = Cohort /\ ~sealed /\ ~CohortComplete
      BY <2>5 DEF RefuseSeal, TurnOver, Cohort
    <3>2. Len(parts) <= Cohort /\ row = index
      <4>1. turn <= Turns
        BY <3>1, LedgerConstants
      <4>2. Len(parts) <= RowsBy[kind][turn] /\ (row = index \/ sealed)
        BY <4>1 DEF IInv, UndamagedInv
      <4> QED
        BY <3>1, <4>2 DEF Cohort
    <3>3. index <= Len(parts) /\ Len(parts) \in Nat /\ index \in Nat
      BY DEF TypeOK
    <3>4. Len(parts) = Cohort
      <4> DEFINE n == Len(parts)
      <4>1. n \in Nat /\ Cohort \in Nat /\ n <= Cohort /\ Cohort <= n
        BY <3>1, <3>2, <3>3
      <4> HIDE DEF n
      <4>2. n = Cohort
        BY <4>1
      <4> QED
        BY <4>2 DEF n
    <3>5. \A i \in 1 .. Len(parts) : parts[i].row = i - 1
      BY DEF IInv, RowsInOrder
    <3> QED
      BY <3>1, <3>4, <3>5 DEF CohortComplete
  <2>6. CASE RefuseRoot
    BY <2>6 DEF RefuseRoot
  <2> QED
    BY <2>2, <2>3, <2>4, <2>5, <2>6
<1>4. RefusedForReason'
  BY <1>1, <1>3 DEF RefusedForReason, NamesValid, data
<1>5. PcInv'
  BY <1>1 DEF IInv, PcInv, Refusals, data
<1>6. stack <= stack'
  BY <1>1, <1>2
<1> QED
  BY <1>1, <1>4, <1>5, <1>6, QuietStep

LEMMA RestorePreserves ==
  ASSUME TypeOK, TypeOK', IInv, Restore
  PROVE  IInv'
<1> DEFINE c == saved[Len(saved)]
<1>1. /\ saved # <<>> /\ Accounted(c)
      /\ turn' = c.turn /\ row' = c.row
      /\ index' = IF kind = "primary" THEN c.parts ELSE c.row
      /\ pc' = "running"
      /\ UNCHANGED <<kind, parts, sealed, saved, stack, damage>>
  BY DEF Restore
<1> HIDE DEF c
<1>2. /\ c.row \in 0 .. Cohort /\ c.parts \in Nat
      /\ c.row = RowsBy[kind][c.turn - 1]
      /\ c.row <= c.parts
  BY <1>1, NewestSaved DEF c
<1>3. Cohort \in Nat /\ kind \in Kinds
  BY RowsFacts DEF TypeOK, Cohort, RunTurns
<1>4. PcInv'
  BY <1>1, <1>2, <1>3 DEF PcInv
<1>5. UndamagedInv'
  <2> SUFFICES ASSUME damage = 0 PROVE UndamagedInv'
    BY <1>1 DEF UndamagedInv
  <2>1. /\ turn = c.turn
        /\ \A i \in 1 .. Len(saved) : saved[i].parts = saved[i].row
        /\ turn <= Turns => Len(parts) <= RowsBy[kind][turn]
        /\ sealed => turn >= Turns
    BY <1>1 DEF IInv, UndamagedInv, c
  <2>2. c.parts = c.row
    BY <1>1, <2>1, NewestSaved DEF c
  <2>3. row' = index' /\ turn' = turn
    BY <1>1, <2>1, <2>2
  <2> QED
    BY <1>1, <2>1, <2>3 DEF UndamagedInv, c
<1>6. SealedIsComplete' /\ DurableBeforeCheckpoint' /\ RowsInOrder'
  BY <1>1 DEF IInv, SealedIsComplete, DurableBeforeCheckpoint, RowsInOrder, Cohort
<1>7. SavedInv' /\ StackInv' /\ RefusedForReason'
  BY <1>1 DEF IInv, SavedInv, StackInv, RefusedForReason, Refusals
<1> QED
  BY <1>4, <1>5, <1>6, <1>7 DEF IInv

LEMMA SkipPreserves ==
  ASSUME TypeOK, TypeOK', IInv, SkipSealed
  PROVE  IInv'
<1>1. /\ sealed /\ row' = row + 1 /\ pc = "running"
      /\ UNCHANGED <<kind, parts, sealed, strays, saved, turn, index, stack,
                     pc, damage>>
  BY DEF SkipSealed, RowPending
<1>2. RowsBy[kind][turn - 1] \in Nat /\ row \in Nat
  BY TypeFacts
<1>3. PcInv'
  BY <1>1, <1>2 DEF IInv, PcInv
<1>4. SealedIsComplete' /\ DurableBeforeCheckpoint' /\ RowsInOrder'
  BY <1>1 DEF IInv, SealedIsComplete, DurableBeforeCheckpoint, RowsInOrder, Cohort
<1>5. SavedInv' /\ StackInv' /\ RefusedForReason' /\ UndamagedInv'
  BY <1>1 DEF IInv, SavedInv, StackInv, RefusedForReason, Refusals, UndamagedInv
<1> QED
  BY <1>3, <1>4, <1>5 DEF IInv

LEMMA RetryPreserves ==
  ASSUME TypeOK, TypeOK', IInv, Retry
  PROVE  IInv'
<1>1. /\ ~sealed /\ index < Len(parts) /\ pc = "running"
      /\ UNCHANGED <<kind, parts, sealed, strays, saved, turn, stack, damage>>
  BY DEF Retry, RowPending
<1>2. /\ RowsBy[kind][turn - 1] \in Nat
      /\ row \in Nat /\ index \in Nat /\ Len(parts) \in Nat
  BY TypeFacts
<1>3. row <= index /\ (damage = 0 => row = index)
  BY <1>1 DEF IInv, PcInv, UndamagedInv
<1>4. SealedIsComplete' /\ DurableBeforeCheckpoint' /\ RowsInOrder'
  BY <1>1 DEF IInv, SealedIsComplete, DurableBeforeCheckpoint, RowsInOrder, Cohort
<1>5. SavedInv' /\ StackInv'
  BY <1>1 DEF IInv, SavedInv, StackInv
<1>6. CASE parts[index + 1] = Row
  <2>1. row' = row + 1 /\ index' = index + 1 /\ pc' = "running"
    BY <1>1, <1>6 DEF Retry
  <2>2. PcInv'
    BY <1>1, <1>2, <1>3, <2>1 DEF IInv, PcInv
  <2>3. UndamagedInv' /\ RefusedForReason'
    BY <1>1, <1>2, <1>3, <2>1 DEF IInv, UndamagedInv, RefusedForReason, Refusals
  <2> QED
    BY <1>4, <1>5, <2>2, <2>3 DEF IInv
<1>7. CASE parts[index + 1] # Row
  <2>1. row' = row /\ index' = index /\ pc' = "refused_retry"
    BY <1>7 DEF Retry
  <2>2. damage > 0 \/ stack > 0
    <3> SUFFICES ASSUME damage = 0, stack = 0 PROVE FALSE
      BY DEF TypeOK
    <3> DEFINE n == index + 1
    <3>1. n \in 1 .. Len(parts) /\ n - 1 = index
      BY <1>1, <1>2
    <3>5. parts[n] # Row
      BY <1>7
    <3> HIDE DEF n
    <3>2. parts[n].row = n - 1 /\ parts[n].stack <= 0
      BY <3>1 DEF IInv, RowsInOrder, StackInv
    <3>3. parts[n] \in Rows
      BY <3>1, ElementOfSeq DEF TypeOK
    <3>4. parts[n].row = row /\ parts[n].stack = stack
      BY <1>3, <3>1, <3>2, <3>3, LedgerConstants DEF Rows
    <3> QED
      BY <3>3, <3>4, <3>5 DEF Rows, Row
  <2>3. PcInv' /\ UndamagedInv'
    BY <1>1, <2>1 DEF IInv, PcInv, UndamagedInv
  <2>4. RefusedForReason'
    BY <1>1, <2>2 DEF RefusedForReason
  <2> QED
    BY <1>4, <1>5, <2>3, <2>4 DEF IInv
<1> QED
  BY <1>6, <1>7

LEMMA PublishPreserves ==
  ASSUME TypeOK, TypeOK', IInv, PublishPart
  PROVE  IInv'
<1>1. /\ pc = "part_staged" /\ parts' = Append(parts, Row)
      /\ row' = row + 1 /\ index' = index + 1 /\ pc' = "running"
      /\ UNCHANGED <<kind, sealed, strays, saved, turn, stack, damage>>
  BY DEF PublishPart
<1>2. /\ ~sealed /\ index = Len(parts) /\ turn <= Turns
      /\ row < RowsBy[kind][turn] /\ RowsBy[kind][turn - 1] <= row
      /\ row <= index
  BY <1>1 DEF IInv, PcInv
<1>3. damage = 0 => row = index
  BY <1>2 DEF IInv, UndamagedInv
<1>4. /\ RowsBy[kind][turn - 1] \in Nat /\ RowsBy[kind][turn] \in Nat
      /\ row \in Nat /\ index \in Nat /\ Len(parts) \in Nat /\ stack \in Nat
  BY <1>2, TypeFacts
<1>5. Row \in Rows /\ Row.row = row /\ Row.stack = stack
  BY <1>4 DEF Row, Rows, TypeOK
<1>6. /\ Len(parts') = Len(parts) + 1
      /\ parts'[Len(parts) + 1] = Row
  BY <1>1, <1>5, AppendProperties DEF TypeOK
<1>7. \A i \in 1 .. Len(parts) : parts'[i] = parts[i]
  BY <1>1, <1>5, AppendProperties DEF TypeOK
<1>8. ASSUME NEW i \in 1 .. Len(parts')
      PROVE  i \in 1 .. Len(parts) \/ i = Len(parts) + 1
  BY <1>4, <1>6, <1>8
<1>9. PcInv'
  BY <1>1, <1>2, <1>4 DEF PcInv
<1>10. SealedIsComplete' /\ SavedInv' /\ RefusedForReason'
  BY <1>1, <1>2 DEF SealedIsComplete, IInv, SavedInv, RefusedForReason, Refusals
<1>11. DurableBeforeCheckpoint'
  <2> SUFFICES ASSUME NEW i \in 1 .. Len(saved)
               PROVE  saved[i].row <= saved[i].parts /\ saved[i].parts <= Len(parts')
    BY <1>1 DEF DurableBeforeCheckpoint
  <2>1. saved[i] \in SavedCheckpoint
    BY ElementOfSeq DEF TypeOK
  <2>2. saved[i].parts \in Nat
    BY <2>1 DEF SavedCheckpoint
  <2>3. saved[i].row <= saved[i].parts /\ saved[i].parts <= Len(parts)
    BY DEF IInv, DurableBeforeCheckpoint
  <2> QED
    BY <1>4, <1>6, <2>2, <2>3
<1>12. RowsInOrder'
  <2> SUFFICES ASSUME damage = 0, NEW i \in 1 .. Len(parts')
               PROVE  parts'[i].row = i - 1
    BY <1>1 DEF RowsInOrder
  <2>1. CASE i \in 1 .. Len(parts)
    BY <1>7, <2>1 DEF IInv, RowsInOrder
  <2>2. CASE i = Len(parts) + 1
    BY <1>2, <1>3, <1>4, <1>5, <1>6, <2>2
  <2> QED
    BY <1>8, <2>1, <2>2
<1>13. StackInv'
  <2> SUFFICES ASSUME NEW i \in 1 .. Len(parts') PROVE parts'[i].stack <= stack
    BY <1>1 DEF StackInv
  <2>1. CASE i \in 1 .. Len(parts)
    BY <1>7, <2>1 DEF IInv, StackInv
  <2>2. CASE i = Len(parts) + 1
    BY <1>4, <1>5, <1>6, <2>2
  <2> QED
    BY <1>8, <2>1, <2>2
<1>14. UndamagedInv'
  <2> SUFFICES ASSUME damage = 0 PROVE UndamagedInv'
    BY <1>1 DEF UndamagedInv
  <2>1. Len(parts') <= RowsBy[kind][turn]
    BY <1>2, <1>3, <1>4, <1>6
  <2>2. row' = index'
    BY <1>1, <1>3
  <2> QED
    BY <1>1, <1>2, <2>1, <2>2 DEF IInv, UndamagedInv
<1> QED
  BY <1>9, <1>10, <1>11, <1>12, <1>13, <1>14 DEF IInv

LEMMA CheckpointPreserves ==
  ASSUME TypeOK, TypeOK', IInv, Checkpoint
  PROVE  IInv'
<1> DEFINE c == [turn |-> turn + 1, row |-> row, parts |-> Len(parts)]
<1>1. /\ saved' = KeepTwo(Append(saved, c)) /\ turn' = turn + 1
      /\ pc' = "running" /\ kind # "intermediate"
      /\ UNCHANGED <<kind, parts, sealed, row, index, stack, damage>>
  BY DEF Checkpoint, Position
<1>2. turn \in 1 .. Turns /\ row = RowsBy[kind][turn]
  BY DEF Checkpoint, TurnOver, TypeOK, IInv, PcInv, Cohort
<1>3. /\ row \in Nat /\ row <= Cohort /\ Cohort \in Nat /\ kind \in Kinds
      /\ index \in Nat /\ Len(parts) \in Nat /\ index <= Len(parts)
      /\ Turns \in Nat
  BY TypeFacts, LedgerConstants
<1>4. c \in SavedCheckpoint
  BY <1>2, <1>3 DEF SavedCheckpoint
<1>5. /\ c.turn = turn + 1 /\ c.row = row /\ c.parts = Len(parts)
      /\ c.turn - 1 = turn
  BY <1>2
<1> HIDE DEF c
<1>6. /\ Len(saved') \in 1 .. 2 /\ saved'[Len(saved')] = c
      /\ \A i \in 1 .. Len(saved') :
           saved'[i] = c \/ \E j \in 1 .. Len(saved) : saved'[i] = saved[j]
  <2>1. saved \in Seq(SavedCheckpoint) /\ Len(saved) <= 2
    BY DEF TypeOK
  <2>2. saved' = KeepTwo(Append(saved, c))
    BY <1>1
  <2>3. Len(saved') \in 1 .. 2 /\ saved'[Len(saved')] = c
    BY <1>4, <2>1, <2>2, KeepTwoFacts
  <2>4. \A i \in 1 .. Len(saved') :
          saved'[i] = c \/ \E j \in 1 .. Len(saved) : saved'[i] = saved[j]
    BY <1>4, <2>1, <2>2, KeepTwoFacts
  <2> QED
    BY <2>3, <2>4
<1>7. row <= Len(parts)
  <2>1. CASE sealed
    <3>1. Len(parts) = Cohort
      BY <2>1 DEF IInv, SealedIsComplete
    <3> QED
      BY <1>3, <3>1
  <2>2. CASE ~sealed
    BY <1>3, <2>2 DEF IInv, PcInv
  <2> QED
    BY <2>1, <2>2
<1>8. PcInv'
  BY <1>1, <1>2, <1>3 DEF IInv, PcInv
<1>9. DurableBeforeCheckpoint'
  <2> SUFFICES ASSUME NEW i \in 1 .. Len(saved')
               PROVE  /\ saved'[i].row <= saved'[i].parts
                      /\ saved'[i].parts <= Len(parts)
    BY <1>1 DEF DurableBeforeCheckpoint
  <2>1. CASE saved'[i] = c
    BY <1>3, <1>5, <1>7, <2>1
  <2>2. CASE \E j \in 1 .. Len(saved) : saved'[i] = saved[j]
    BY <2>2 DEF IInv, DurableBeforeCheckpoint
  <2> QED
    BY <1>6, <2>1, <2>2
<1>10. SavedInv'
  <2> SUFFICES ASSUME NEW i \in 1 .. Len(saved')
               PROVE  saved'[i].row = RowsBy[kind][saved'[i].turn - 1]
    BY <1>1 DEF SavedInv
  <2>1. CASE saved'[i] = c
    BY <1>2, <1>5, <2>1
  <2>2. CASE \E j \in 1 .. Len(saved) : saved'[i] = saved[j]
    BY <2>2 DEF IInv, SavedInv
  <2> QED
    BY <1>6, <2>1, <2>2
<1>11. SealedIsComplete' /\ RowsInOrder' /\ StackInv' /\ RefusedForReason'
  BY <1>1 DEF IInv, SealedIsComplete, RowsInOrder, StackInv, RefusedForReason,
              Refusals, Cohort
<1>12. UndamagedInv'
  <2> SUFFICES ASSUME damage = 0 PROVE UndamagedInv'
    BY <1>1 DEF UndamagedInv
  <2>1. /\ \A i \in 1 .. Len(saved) : saved[i].parts = saved[i].row
        /\ Len(parts) <= RowsBy[kind][turn]
        /\ sealed => turn >= Turns
        /\ row = index \/ sealed
    BY <1>2 DEF IInv, UndamagedInv
  <2>2. c.parts = c.row
    BY <1>2, <1>3, <1>5, <1>7, <2>1
  <2>3. \A i \in 1 .. Len(saved') : saved'[i].parts = saved'[i].row
    BY <1>6, <2>1, <2>2
  <2>4. turn' <= Turns => Len(parts) <= RowsBy[kind][turn']
    <3> SUFFICES ASSUME turn' <= Turns PROVE Len(parts) <= RowsBy[kind][turn']
      OBVIOUS
    <3>1. turn \in RunTurns /\ turn + 1 \in RunTurns
      BY <1>1, <1>2, <1>3 DEF RunTurns
    <3>2. /\ RowsBy[kind][turn] <= RowsBy[kind][turn + 1]
          /\ RowsBy[kind][turn] \in Nat /\ RowsBy[kind][turn + 1] \in Nat
      BY <1>2, <1>3, <3>1, RowsFacts
    <3> QED
      BY <1>1, <1>3, <2>1, <3>2
  <2>5. sealed => turn' >= Turns
    BY <1>1, <1>2, <1>3, <2>1
  <2>6. saved'[Len(saved')].turn = turn'
    BY <1>1, <1>5, <1>6
  <2> QED
    BY <1>1, <2>1, <2>3, <2>4, <2>5, <2>6 DEF UndamagedInv
<1> QED
  BY <1>8, <1>9, <1>10, <1>11, <1>12 DEF IInv

LEMMA SealPreserves ==
  ASSUME TypeOK, TypeOK', IInv, LinkSeal
  PROVE  IInv'
<1>1. /\ sealed' = TRUE /\ pc' = "seal_linked" /\ turn = Turns
      /\ kind # "intermediate" => row = Cohort
      /\ CohortComplete
      /\ UNCHANGED <<kind, parts, strays, saved, turn, row, index, stack, damage>>
  BY DEF LinkSeal, IInv, PcInv
<1>2. SealedIsComplete'
  BY <1>1 DEF SealedIsComplete, CohortComplete, Cohort
<1>3. PcInv'
  BY <1>1 DEF IInv, PcInv, Cohort
<1>4. DurableBeforeCheckpoint' /\ RowsInOrder' /\ SavedInv' /\ StackInv'
  BY <1>1 DEF IInv, DurableBeforeCheckpoint, RowsInOrder, SavedInv, StackInv
<1>5. RefusedForReason'
  BY <1>1 DEF RefusedForReason, Refusals
<1>6. UndamagedInv'
  BY <1>1, LedgerConstants DEF IInv, UndamagedInv
<1> QED
  BY <1>2, <1>3, <1>4, <1>5, <1>6 DEF IInv

LEMMA DamagePreserves ==
  ASSUME TypeOK, TypeOK', IInv, Damage
  PROVE  IInv'
<1>1. /\ pc = "down" /\ Len(saved) = 2 /\ saved' = <<saved[1]>>
      /\ damage' = damage + 1
      /\ UNCHANGED <<kind, parts, sealed, strays, turn, row, index, stack, pc>>
  BY DEF Damage
<1>2. damage' # 0
  BY <1>1, TypeFacts
<1>3. Len(saved') = 1 /\ saved'[1] = saved[1] /\ 1 \in 1 .. Len(saved)
  <2>1. Len(saved') = 1 /\ saved'[1] = saved[1]
    BY <1>1
  <2>2. 1 \in 1 .. Len(saved)
    BY <1>1
  <2> QED
    BY <2>1, <2>2
<1>4. \A i \in 1 .. Len(saved') : saved'[i] = saved[1]
  BY <1>3
<1>5. SealedIsComplete' /\ StackInv' /\ PcInv'
  BY <1>1 DEF IInv, SealedIsComplete, StackInv, PcInv, Cohort
<1>6. DurableBeforeCheckpoint' /\ SavedInv'
  BY <1>1, <1>3, <1>4 DEF IInv, DurableBeforeCheckpoint, SavedInv
<1>7. RowsInOrder' /\ UndamagedInv' /\ RefusedForReason'
  BY <1>1, <1>2 DEF RowsInOrder, UndamagedInv, RefusedForReason, Refusals
<1> QED
  BY <1>5, <1>6, <1>7 DEF IInv

LEMMA StepOK == TypeOK /\ TypeOK' /\ IInv /\ [Next]_vars => IInv'
<1> SUFFICES ASSUME TypeOK, TypeOK', IInv, [Next]_vars
             PROVE  IInv'
  OBVIOUS
<1>1. CASE Open
  BY <1>1, MovePreserves, RefusalPreserves, RestorePreserves DEF Open
<1>2. CASE AppendRow
  BY <1>2, MovePreserves, RefusalPreserves, SkipPreserves, RetryPreserves,
     PublishPreserves DEF AppendRow
<1>3. CASE EndTurn
  BY <1>3, MovePreserves, RefusalPreserves, CheckpointPreserves, SealPreserves
     DEF EndTurn
<1>4. CASE Recover \/ Crash
  BY <1>4, MovePreserves, RefusalPreserves DEF Recover
<1>5. CASE Damage
  BY <1>5, DamagePreserves
<1>6. CASE UNCHANGED vars
  BY <1>6 DEF vars, IInv, SealedIsComplete, DurableBeforeCheckpoint, RowsInOrder,
              RefusedForReason, NamesValid, PcInv, SavedInv, StackInv,
              UndamagedInv, CohortComplete, Cohort
<1> QED
  BY <1>1, <1>2, <1>3, <1>4, <1>5, <1>6 DEF Next

\* The invariant holds in every reachable state.
THEOREM InvariantCorrect == Spec => [](TypeOK /\ IInv)
<1>1. Init => TypeOK /\ IInv
  BY StartOK
<1>2. TypeOK /\ IInv /\ [Next]_vars => (TypeOK /\ IInv)'
  BY TypeStep, StepOK
<1> QED
  BY <1>1, <1>2, PTL DEF Spec

\* What the directory, the checkpoints and the process hold is well-typed.
THEOREM TypeCorrect == Spec => []TypeOK
<1> QED
  BY InvariantCorrect, PTL

\* A sealed ledger is exactly the cohort, in order, once each.
THEOREM SealedCorrect == Spec => []SealedIsComplete
<1>1. IInv => SealedIsComplete
  BY DEF IInv
<1> QED
  BY <1>1, InvariantCorrect, PTL

\* A checkpoint never counts what is not on the disk.
THEOREM DurableCorrect == Spec => []DurableBeforeCheckpoint
<1>1. IInv => DurableBeforeCheckpoint
  BY DEF IInv
<1> QED
  BY <1>1, InvariantCorrect, PTL

\* Crashes alone never reorder, skip or repeat a row.
THEOREM OrderCorrect == Spec => []RowsInOrder
<1>1. IInv => RowsInOrder
  BY DEF IInv
<1> QED
  BY <1>1, InvariantCorrect, PTL

\* A resumed run is refused only for one of the named reasons.
THEOREM RefusalCorrect == Spec => []RefusedForReason
<1>1. IInv => RefusedForReason
  BY DEF IInv
<1> QED
  BY <1>1, InvariantCorrect, PTL

\* Every behaviour of the writers, with its crashes, damage and changes of
\* stack, is one of the abstract ledger.
THEOREM Refinement == Spec => ImplementsLedger
<1> USE DEF Abstract!ledgerVars
<1>1. Init => Abstract!Init
  <2> SUFFICES ASSUME Init PROVE Abstract!Init
    OBVIOUS
  <2>1. Cohort \in Nat
    BY RowsFacts DEF Init, Cohort, RunTurns
  <2> QED
    BY <2>1 DEF Init, Abstract!Init
<1>2. TypeOK /\ IInv /\ [Next]_vars => [Abstract!Next]_(Abstract!ledgerVars)
  <2> SUFFICES ASSUME TypeOK, IInv, [Next]_vars
               PROVE  [Abstract!Next]_(Abstract!ledgerVars)
    OBVIOUS
  <2>1. Cohort' = Cohort
    <3>1. kind' = kind
      <4>1. CASE Open
        BY <4>1 DEF Open, StageIdentity, LinkIdentity, UnlinkIdentity, Restore,
                    OpenFresh, RefuseOpen
      <4>2. CASE AppendRow
        BY <4>2 DEF AppendRow, SkipSealed, RefuseSealed, Retry, StagePart,
                    PublishPart
      <4>3. CASE EndTurn
        BY <4>3 DEF EndTurn, Checkpoint, RefuseCheckpoint, StageSeal, RefuseSeal,
                    LinkSeal, UnlinkSeal, VerifySeal, Finish
      <4>4. CASE Recover \/ Crash \/ Damage \/ UNCHANGED vars
        BY <4>4 DEF Recover, Restart, RefuseRoot, Crash, Damage, vars
      <4> QED
        BY <4>1, <4>2, <4>3, <4>4 DEF Next
    <3> QED
      BY <3>1 DEF Cohort
  <2>2. CASE PublishPart
    <3>1. ~sealed /\ turn <= Turns /\ row < RowsBy[kind][turn]
      BY <2>2 DEF PublishPart, IInv, PcInv
    <3>2. row < Cohort /\ row \in Nat /\ Len(parts) \in Nat
      BY <3>1, TypeFacts
    <3>3. parts' = Append(parts, Row) /\ sealed' = sealed
      BY <2>2 DEF PublishPart
    <3>4. Row \in Rows /\ Row.row = row
      BY <3>2 DEF Row, Rows, TypeOK
    <3>5. Len(parts') = Len(parts) + 1 /\ parts'[Len(parts) + 1] = Row
      BY <3>3, <3>4, AppendProperties DEF TypeOK
    <3>6. \A i \in 1 .. Len(parts) : parts'[i] = parts[i]
      BY <3>3, <3>4, AppendProperties DEF TypeOK
    <3>7. Abstract!Publish
      BY <2>1, <3>1, <3>2, <3>3, <3>4, <3>5, <3>6 DEF Abstract!Publish
    <3> QED
      BY <3>7 DEF Abstract!Next
  <2>3. CASE LinkSeal
    <3>1. ~sealed /\ CohortComplete /\ sealed' = TRUE /\ parts' = parts
      BY <2>3 DEF LinkSeal, IInv, PcInv
    <3>2. Abstract!Freeze
      BY <2>1, <3>1 DEF Abstract!Freeze, CohortComplete
    <3> QED
      BY <3>2 DEF Abstract!Next
  <2>4. CASE ~PublishPart /\ ~LinkSeal
    <3>1. parts' = parts /\ sealed' = sealed
      <4>1. CASE Open
        BY <4>1 DEF Open, StageIdentity, LinkIdentity, UnlinkIdentity, Restore,
                    OpenFresh, RefuseOpen
      <4>2. CASE AppendRow
        BY <2>4, <4>2 DEF AppendRow, SkipSealed, RefuseSealed, Retry, StagePart
      <4>3. CASE EndTurn
        BY <2>4, <4>3 DEF EndTurn, Checkpoint, RefuseCheckpoint, StageSeal,
                          RefuseSeal, UnlinkSeal, VerifySeal, Finish
      <4>4. CASE Recover \/ Crash \/ Damage \/ UNCHANGED vars
        BY <4>4 DEF Recover, Restart, RefuseRoot, Crash, Damage, vars
      <4> QED
        BY <4>1, <4>2, <4>3, <4>4 DEF Next
    <3> QED
      BY <2>1, <3>1
  <2> QED
    BY <2>2, <2>3, <2>4
<1> QED
  BY <1>1, <1>2, InvariantCorrect, PTL DEF Spec, ImplementsLedger, Abstract!Spec
=============================================================================
