------------------------ MODULE CheckpointStore_proofs ------------------------
(***************************************************************************)
(* Theorems about CheckpointStore, for every bound on generations, crashes *)
(* and damage.                                                             *)
(***************************************************************************)
EXTENDS CheckpointStore, FiniteSetTheorems, TLAPS

USE CheckpointConstants DEF PointerTo

LEMMA StartOK == Init => TypeOK
<1> SUFFICES ASSUME Init PROVE TypeOK
  OBVIOUS
<1> USE DEF Init
<1>1. payload \in [Generation -> Nat]
  OBVIOUS
<1>2. latest \in [exists : BOOLEAN, decodes : BOOLEAN,
                 current : Generation \cup {None}, previous : Generation \cup {None}]
  BY DEF NoPointer
<1>3. crashes \in 0 .. MaxCrashes /\ damage \in 0 .. MaxDamage
  OBVIOUS
<1>4. progress \in Nat /\ acked \in Nat /\ orphans \in Nat
  OBVIOUS
<1>5. pc \in Writing \cup {"running", "down", "failed"}
  OBVIOUS
<1>6. pc \in Writing => target # None
  BY DEF Writing
<1> QED
  BY <1>1, <1>2, <1>3, <1>4, <1>5, <1>6 DEF TypeOK, DiskTypes, RunTypes

\* Each action keeps the types: payloads and progress only take values that
\* were there or their successors, and nothing is verified that is not present.
LEMMA StepOK == TypeOK /\ [Next]_vars => TypeOK'
<1> SUFFICES ASSUME TypeOK, [Next]_vars
             PROVE  TypeOK'
    OBVIOUS
<1> USE DEF TypeOK, DiskTypes, RunTypes, disk, Writing
<1>1. CASE BeginWrite
  <2>1. target' \in Generation /\ prior' \in Generation \cup {None} /\ target' # None
    BY <1>1 DEF BeginWrite, Generation, None
  <2>2. UNCHANGED <<disk, progress, acked, crashes, damage>> /\ pc' = "staged"
    BY <1>1 DEF BeginWrite
  <2> QED
    BY <2>1, <2>2
<1>2. CASE RefuseWrite
  BY <1>2 DEF RefuseWrite
<1>3. CASE Publish
  <2>1. target \in Generation
    BY <1>3 DEF Publish
  <2>2. payload' \in [Generation -> Nat]
    BY <1>3, <2>1 DEF Publish
  <2>3. sound' \subseteq present' /\ present' \subseteq Generation
    BY <1>3, <2>1 DEF Publish
  <2>4. garbled' \subseteq present'
    BY <1>3, <2>1 DEF Publish
  <2>5. UNCHANGED <<latest, stray, orphans, target, prior, progress, acked,
                    crashes, damage>> /\ pc' = "published"
    BY <1>3 DEF Publish
  <2>6. DiskTypes'
    BY <2>2, <2>3, <2>4, <2>5
  <2>7. RunTypes'
    BY <1>3, <2>5 DEF Publish
  <2> QED
    BY <2>6, <2>7 DEF TypeOK
<1>4. CASE StagePointer
  BY <1>4 DEF StagePointer
<1>5. CASE SwapPointer
  BY <1>5 DEF SwapPointer
<1>6. ASSUME NEW g \in Generation, Prune(g)
      PROVE  TypeOK'
  BY <1>6 DEF Prune, Stale
<1>7. CASE EndWrite
  BY <1>7 DEF EndWrite, Larger
<1>8. CASE Crash
  BY <1>8 DEF Crash
<1>9. CASE Resume
  BY <1>9 DEF Resume, Larger
<1>10. CASE RefuseRestart
  BY <1>10 DEF RefuseRestart
<1>11. ASSUME NEW g \in Generation, NEW kind \in DamageKinds, Damage(g, kind)
       PROVE  TypeOK'
  BY <1>11 DEF Damage
<1>12. ASSUME NEW kind \in DamageKinds, DamagePointer(kind)
       PROVE  TypeOK'
  <2>1. latest' \in [exists : BOOLEAN, decodes : BOOLEAN,
                   current : Generation \cup {None}, previous : Generation \cup {None}]
    BY <1>12 DEF DamagePointer, NoPointer
  <2>2. damage' \in 0 .. MaxDamage
    BY <1>12 DEF DamagePointer
  <2> QED
    BY <1>12, <2>1, <2>2 DEF DamagePointer
<1>13. CASE UNCHANGED vars
  BY <1>13 DEF vars
<1> QED
  BY <1>1, <1>2, <1>3, <1>4, <1>5, <1>6, <1>7, <1>8, <1>9, <1>10, <1>11,
     <1>12, <1>13 DEF Next

THEOREM TypeCorrect == Spec => []TypeOK
  BY StartOK, StepOK, PTL DEF Spec

-----------------------------------------------------------------------------
(* The invariant of a store that was not damaged.                          *)

LEMMA IntactStart == Init => IInv
  BY DEF Init, IInv, Intact, PointerInv, PayloadInv, ProgressInv, WriteInv,
         PairInv, Durable, NoPointer, None, Writing

LEMMA BeginWriteIntact == ASSUME TypeOK, Intact, BeginWrite PROVE Intact'
<1>1. PICK g \in Generation, p \in Generation \cup {None} :
        IsNextNumber(g) /\ IsPrevious(p) /\ target' = g /\ prior' = p
  BY DEF BeginWrite
<1>2. UNCHANGED <<present, sound, garbled, payload, latest, progress, acked>>
      /\ pc = "running" /\ pc' = "staged"
  BY DEF BeginWrite, disk
<1>3. Durable' = Durable
  BY <1>2 DEF Durable
<1>4. PointerInv' /\ PayloadInv' /\ ProgressInv' /\ PairInv'
  BY <1>2, <1>3 DEF Intact, PointerInv, PayloadInv, ProgressInv, PairInv
<1>5. \A h \in present : h < g
  BY <1>1 DEF TypeOK, DiskTypes, IsNextNumber, IsNewest, Generation
<1>6. p = None => progress = 0
  <2>1. p = None => sound = {}
    BY <1>1 DEF IsPrevious, IsNewest, TypeOK, DiskTypes, Generation, None
  <2>2. sound = {} => latest.current = None
    BY DEF Intact, PointerInv
  <2> QED
    BY <1>2, <2>1, <2>2 DEF Intact, PointerInv, ProgressInv, Durable
<1>7. p # None => p \in sound /\ p < g /\ progress <= payload[p]
  <2> SUFFICES ASSUME p # None PROVE p \in sound /\ p < g /\ progress <= payload[p]
    OBVIOUS
  <2>1. p \in sound /\ \A h \in sound : h <= p
    BY <1>1 DEF IsPrevious, IsNewest
  <2>2. p < g
    BY <2>1, <1>5 DEF TypeOK, DiskTypes
  <2>3. CASE latest.exists
    <3>1. latest.current \in sound
      BY <2>3 DEF Intact, PointerInv
    <3>2. payload[latest.current] <= payload[p]
      BY <2>1, <3>1 DEF Intact, PayloadInv
    <3> QED
      BY <1>2, <2>1, <2>2, <2>3, <3>2 DEF Intact, ProgressInv, Durable
  <2>4. CASE ~latest.exists
    <3>1. progress = 0
      BY <1>2, <2>4 DEF Intact, ProgressInv, Durable
    <3> QED
      BY <2>1, <2>2, <3>1 DEF Intact, PayloadInv, TypeOK, DiskTypes
  <2> QED
    BY <2>3, <2>4
<1>8. WriteInv'
  BY <1>1, <1>2, <1>5, <1>6, <1>7 DEF WriteInv, Writing
<1> QED
  BY <1>4, <1>8 DEF Intact

LEMMA PublishIntact == ASSUME TypeOK, Intact, Publish PROVE Intact'
<1>1. pc = "staged" /\ pc' = "published"
      /\ UNCHANGED <<garbled, latest, target, prior, progress, acked>>
  BY DEF Publish
<1>2. target \in Generation /\ target \notin sound
      /\ \A g \in sound : g < target
  BY <1>1 DEF Intact, WriteInv, TypeOK, DiskTypes, RunTypes, Writing, Generation, None
<1>3. sound' = sound \cup {target} /\ present' = present \cup {target}
  BY DEF Publish
<1>4. payload'[target] = progress + 1
      /\ \A g \in sound : payload'[g] = payload[g]
  BY <1>2 DEF Publish, TypeOK, DiskTypes
<1>5. Durable' = Durable
  <2>1. latest.exists => latest.current \in sound
    BY DEF Intact, PointerInv
  <2> QED
    BY <1>1, <1>4, <2>1 DEF Durable
<1>6. PointerInv'
  BY <1>1, <1>3 DEF Intact, PointerInv
<1>7. PayloadInv'
  <2>1. progress = Durable /\ progress \in Nat
    BY <1>1 DEF Intact, ProgressInv, TypeOK, RunTypes
  <2>2. \A g \in sound : g \in Nat /\ payload[g] \in Nat
    BY DEF TypeOK, DiskTypes, Generation
  <2>3. \A g, h \in sound' : g <= h => payload'[g] <= payload'[h]
    BY <1>2, <1>3, <1>4, <2>1, <2>2 DEF Intact, PayloadInv, Generation
  <2>4. \A g \in sound' : 0 < payload'[g] /\ payload'[g] <= Durable' + 1
    BY <1>3, <1>4, <1>5, <2>1 DEF Intact, PayloadInv
  <2> QED
    BY <2>3, <2>4 DEF PayloadInv
<1>8. ProgressInv'
  BY <1>1, <1>5 DEF Intact, ProgressInv
<1>9. WriteInv'
  BY <1>1, <1>3, <1>4 DEF Intact, WriteInv, Writing
<1>10. PairInv'
  BY <1>1, <1>3, <1>4, <1>5 DEF Intact, PairInv
<1> QED
  BY <1>6, <1>7, <1>8, <1>9, <1>10 DEF Intact

\* The pointer swap is where the new progress becomes the durable one.
LEMMA SwapPointerIntact == ASSUME TypeOK, Intact, SwapPointer PROVE Intact'
<1>1. pc = "pointing" /\ pc' = "pruning"
      /\ UNCHANGED <<present, sound, garbled, payload, target, prior, progress, acked>>
  BY DEF SwapPointer
<1>2. latest' = PointerTo(target, prior)
  BY DEF SwapPointer
<1>3. target \in sound /\ payload[target] = progress + 1 /\ target # None
  BY <1>1 DEF Intact, WriteInv, TypeOK, RunTypes, Writing
<1>4. Durable' = progress + 1
  BY <1>1, <1>2, <1>3 DEF Durable
<1>5. progress = Durable /\ acked = Durable /\ progress \in Nat
  BY <1>1 DEF Intact, ProgressInv, TypeOK, RunTypes
<1>6. prior # None => prior \in sound /\ prior < target /\ progress <= payload[prior]
  BY <1>1 DEF Intact, WriteInv, Writing
<1>7. prior = None => progress = 0
  BY <1>1 DEF Intact, WriteInv, Writing
<1>8. PointerInv'
  BY <1>1, <1>2, <1>3, <1>6 DEF Intact, PointerInv
<1>9. PayloadInv'
  <2>1. \A g \in sound : payload[g] \in Nat
    BY DEF TypeOK, DiskTypes
  <2> QED
    BY <1>1, <1>4, <1>5, <2>1 DEF Intact, PayloadInv
<1>10. ProgressInv'
  BY <1>1, <1>4, <1>5 DEF ProgressInv
<1>11. WriteInv'
  BY <1>1, <1>2, <1>6, <1>7 DEF WriteInv
<1>12. PairInv'
  <2>1. prior # None => payload[prior] \in Nat
    BY <1>6 DEF TypeOK, DiskTypes
  <2> QED
    BY <1>1, <1>2, <1>4, <1>5, <1>6, <1>7, <2>1 DEF PairInv
<1> QED
  BY <1>8, <1>9, <1>10, <1>11, <1>12 DEF Intact

LEMMA PruneIntact ==
  ASSUME TypeOK, Intact, NEW g \in Generation, Prune(g) PROVE Intact'
<1>1. pc = "pruning" /\ UNCHANGED <<payload, latest, target, prior, progress, acked, pc>>
      /\ sound' = sound \ {g} /\ garbled' = garbled \ {g}
  BY DEF Prune
<1>2. latest = PointerTo(target, prior)
  BY <1>1 DEF Intact, WriteInv
<1>3. g # target /\ g # prior
  BY DEF Prune, Stale
<1>4. Durable' = Durable
  BY <1>1 DEF Durable
<1>5. PointerInv' /\ PayloadInv' /\ ProgressInv'
  BY <1>1, <1>2, <1>3, <1>4 DEF Intact, PointerInv, PayloadInv, ProgressInv
<1>6. WriteInv'
  BY <1>1, <1>3 DEF Intact, WriteInv
<1>7. PairInv'
  BY <1>1, <1>2, <1>3, <1>4 DEF Intact, PairInv
<1> QED
  BY <1>5, <1>6, <1>7 DEF Intact

LEMMA EndWriteIntact == ASSUME TypeOK, Intact, EndWrite PROVE Intact'
<1>1. pc = "pruning" /\ pc' = "running" /\ progress' = progress + 1
      /\ UNCHANGED <<present, sound, garbled, payload, latest, target, prior>>
  BY DEF EndWrite, disk
<1>2. Durable' = Durable /\ progress' = Durable
  BY <1>1 DEF Durable, Intact, ProgressInv
<1>3. acked' = Durable
  BY <1>2 DEF EndWrite, Larger, Intact, ProgressInv, TypeOK, RunTypes
<1>4. PointerInv' /\ PayloadInv' /\ PairInv'
  BY <1>1, <1>2 DEF Intact, PointerInv, PayloadInv, PairInv
<1>5. ProgressInv'
  BY <1>1, <1>2, <1>3 DEF ProgressInv, TypeOK, RunTypes
<1>6. WriteInv'
  BY <1>1 DEF WriteInv, Writing
<1> QED
  BY <1>4, <1>5, <1>6 DEF Intact

\* What load_latest selects is what the pointer names.
LEMMA SelectsCurrent ==
  ASSUME TypeOK, Intact, latest.exists, NEW g \in Generation, IsSelected(g)
  PROVE  g = latest.current /\ payload[g] = Durable
<1>1. latest.current \in sound
  BY DEF Intact, PointerInv
<1> QED
  BY <1>1 DEF IsSelected, Durable

LEMMA ResumeIntact == ASSUME TypeOK, Intact, Resume PROVE Intact'
<1>1. UNCHANGED <<present, sound, garbled, payload, latest, target, prior>>
      /\ pc = "down" /\ pc' = "running" /\ latest.exists
  BY DEF Resume, disk
<1>2. PICK g \in Generation :
        IsSelected(g) /\ progress' = payload[g] /\ acked' = Larger(acked, payload[g])
  BY DEF Resume
<1>3. progress' = Durable /\ acked' = Larger(acked, Durable)
  BY <1>1, <1>2, SelectsCurrent
<1>4. Durable \in Nat /\ acked <= Durable
  BY <1>1, <1>2, SelectsCurrent DEF Intact, ProgressInv, TypeOK, DiskTypes
<1>5. acked' = Durable
  BY <1>3, <1>4 DEF Larger, TypeOK, RunTypes
<1>6. Durable' = Durable
  BY <1>1 DEF Durable
<1>7. PointerInv' /\ PayloadInv' /\ PairInv'
  BY <1>1, <1>6 DEF Intact, PointerInv, PayloadInv, PairInv
<1>8. ProgressInv'
  BY <1>1, <1>3, <1>4, <1>5, <1>6 DEF ProgressInv
<1>9. WriteInv'
  BY <1>1 DEF WriteInv, Writing
<1> QED
  BY <1>7, <1>8, <1>9 DEF Intact

\* A process that goes down, or is refused, leaves the disk as it was.
LEMMA StopIntact ==
  ASSUME TypeOK, Intact, pc' \in Down,
         UNCHANGED <<present, sound, garbled, payload, latest, target, prior,
                     progress, acked>>
  PROVE  Intact'
<1>1. Durable' = Durable
  BY DEF Durable
<1> QED
  BY <1>1 DEF Intact, PointerInv, PayloadInv, ProgressInv, WriteInv, PairInv,
              Writing, Down

LEMMA StagePointerIntact == ASSUME TypeOK, Intact, StagePointer PROVE Intact'
<1>1. Durable' = Durable
  BY DEF StagePointer, Durable
<1> QED
  BY <1>1 DEF StagePointer, Intact, PointerInv, PayloadInv, ProgressInv,
              WriteInv, PairInv, Writing

\* Damage is counted, so a store that is undamaged after a step was before it
\* and the step was none of the environment's.
LEMMA IntactStep == TypeOK /\ IInv /\ [Next]_vars => IInv'
<1> SUFFICES ASSUME TypeOK, IInv, [Next]_vars, damage' = 0
             PROVE  Intact'
  BY DEF IInv
<1>1. CASE UNCHANGED vars
  BY <1>1 DEF vars, IInv, Intact, PointerInv, PayloadInv, ProgressInv, WriteInv,
              PairInv, Durable
<1>2. ASSUME NEW g \in Generation, NEW kind \in DamageKinds, Damage(g, kind)
      PROVE  FALSE
  BY <1>2 DEF Damage, TypeOK, RunTypes
<1>3. ASSUME NEW kind \in DamageKinds, DamagePointer(kind)
      PROVE  FALSE
  BY <1>3 DEF DamagePointer, TypeOK, RunTypes
<1>4. SUFFICES ASSUME Next, damage = 0, Intact PROVE Intact'
  BY <1>1, <1>2, <1>3 DEF Next, IInv, BeginWrite, RefuseWrite, Publish,
     StagePointer, SwapPointer, Prune, EndWrite, Crash, Resume, RefuseRestart
<1>5. CASE BeginWrite
  BY <1>4, <1>5, BeginWriteIntact
<1>6. CASE Publish
  BY <1>4, <1>6, PublishIntact
<1>7. CASE StagePointer
  BY <1>4, <1>7, StagePointerIntact
<1>8. CASE SwapPointer
  BY <1>4, <1>8, SwapPointerIntact
<1>9. ASSUME NEW g \in Generation, Prune(g) PROVE Intact'
  BY <1>4, <1>9, PruneIntact
<1>10. CASE EndWrite
  BY <1>4, <1>10, EndWriteIntact
<1>11. CASE Resume
  BY <1>4, <1>11, ResumeIntact
<1>12. CASE RefuseWrite \/ Crash \/ RefuseRestart
  <2>1. pc' \in Down /\ UNCHANGED <<present, sound, garbled, payload, latest,
                                    target, prior, progress, acked>>
    BY <1>12 DEF RefuseWrite, Crash, RefuseRestart, Down, disk
  <2> QED
    BY <1>4, <2>1, StopIntact
<1> QED
  BY <1>2, <1>3, <1>4, <1>5, <1>6, <1>7, <1>8, <1>9, <1>10, <1>11, <1>12
     DEF Next

LEMMA IInvCorrect == Spec => []IInv
  BY IntactStart, TypeCorrect, IntactStep, PTL DEF Spec

\* latest.json never names a generation that is absent, half written or half
\* deleted, whatever the number of generations and crashes.
THEOREM PointerCorrect == Spec => []PointerNamesWholeGenerations
<1>1. IInv => PointerNamesWholeGenerations
  BY DEF IInv, Intact, PointerInv, PointerNamesWholeGenerations
<1> QED
  BY <1>1, IInvCorrect, PTL

\* Two verified generations back every store whose second write returned.
THEOREM RetentionCorrect == Spec => []RetainsTwoVerified
<1>1. TypeOK /\ IInv => RetainsTwoVerified
  <2> SUFFICES ASSUME TypeOK, Intact, acked >= 2
               PROVE  \E g, h \in sound :
                        h < g /\ payload[g] >= acked /\ payload[h] + 1 >= acked
    BY DEF IInv, RetainsTwoVerified
  <2>1. Durable >= acked
    BY DEF Intact, ProgressInv
  <2>2. latest.exists
    BY <2>1 DEF Durable, TypeOK, RunTypes
  <2>3. latest.current \in sound /\ payload[latest.current] = Durable
    BY <2>2 DEF Intact, PointerInv, Durable
  <2>4. Durable \in Nat
    BY <2>3 DEF TypeOK, DiskTypes
  <2>5. latest.previous \in sound /\ latest.previous < latest.current
        /\ payload[latest.previous] + 1 >= Durable
    BY <2>1, <2>4 DEF Intact, PairInv, TypeOK, RunTypes
  <2>6. payload[latest.previous] \in Nat /\ acked \in Nat
    BY <2>5 DEF TypeOK, DiskTypes, RunTypes
  <2>7. payload[latest.previous] + 1 >= acked
    BY <2>1, <2>4, <2>5, <2>6
  <2> QED
    BY <2>1, <2>3, <2>5, <2>7
<1> QED
  BY <1>1, TypeCorrect, IInvCorrect, PTL

\* A store that was refused has a temporary of the pointer, a pointer or a
\* manifest that does not decode, or nothing that verifies, and nobody touches
\* it again.
THEOREM FallbackCorrect == Spec => []FallsBackToVerified
<1>1. Init => FallsBackToVerified
  BY DEF Init, FallsBackToVerified
<1>2. TypeOK /\ FallsBackToVerified /\ [Next]_vars => FallsBackToVerified'
  <2> SUFFICES ASSUME TypeOK, FallsBackToVerified, [Next]_vars, pc' = "failed"
               PROVE  (latest'.exists /\ ~stray' /\ latest'.decodes /\ garbled' = {})
                    => sound' = {}
    BY DEF FallsBackToVerified
  <2>1. CASE RefuseWrite
    <3>1. UNCHANGED disk /\ WriteRefused
      BY <2>1 DEF RefuseWrite
    <3> QED
      BY <3>1 DEF disk, WriteRefused, TypeOK, DiskTypes
  <2>2. CASE RefuseRestart
    <3>1. UNCHANGED disk /\ (latest.exists => LoadRefused)
      BY <2>2 DEF RefuseRestart
    <3> QED
      BY <3>1 DEF disk, LoadRefused, LoadRaises
  <2>3. CASE UNCHANGED vars
    BY <2>3 DEF vars, FallsBackToVerified
  <2>4. CASE \E g \in Generation : Prune(g)
    BY <2>4 DEF Prune
  <2>5. CASE \E g \in Generation, kind \in DamageKinds : Damage(g, kind)
    BY <2>5 DEF Damage
  <2>6. CASE BeginWrite \/ Publish \/ StagePointer \/ SwapPointer \/ EndWrite \/ Crash \/ Resume
             \/ \E kind \in DamageKinds : DamagePointer(kind)
    BY <2>6 DEF BeginWrite, Publish, StagePointer, SwapPointer, EndWrite, Crash, Resume,
                DamagePointer
  <2> QED
    BY <2>1, <2>2, <2>3, <2>4, <2>5, <2>6 DEF Next
<1> QED
  BY <1>1, <1>2, TypeCorrect, PTL DEF Spec

-----------------------------------------------------------------------------
(* What damage costs: the invariant of LossBoundedByDamage.                *)

LEMMA NewerFinite ==
  ASSUME NEW S, S \subseteq Generation, NEW g
  PROVE  IsFiniteSet({h \in S : h > g}) /\ NewerIn(S, g) \in Nat
<1>1. IsFiniteSet(Generation)
  BY FS_Interval DEF Generation
<1>2. IsFiniteSet({h \in S : h > g})
  BY <1>1, FS_Subset
<1> QED
  BY <1>2, FS_CardinalityType DEF NewerIn

\* The generation being published is newer than all the others.
LEMMA NewerPublished ==
  ASSUME NEW S, S \subseteq Generation, NEW t \in Generation,
         \A h \in S : h < t, NEW g \in S
  PROVE  NewerIn(S \cup {t}, g) = NewerIn(S, g) + 1
<1>1. t \notin {h \in S : h > g}
  BY DEF Generation
<1>2. {h \in S \cup {t} : h > g} = {h \in S : h > g} \cup {t}
  BY DEF Generation
<1>3. IsFiniteSet({h \in S : h > g})
  BY NewerFinite
<1> QED
  BY <1>1, <1>2, <1>3, FS_AddElement DEF NewerIn

LEMMA NewerRemoved ==
  ASSUME NEW S, S \subseteq Generation, NEW d, NEW g
  PROVE  /\ NewerIn(S, g) <= NewerIn(S \ {d}, g) + 1
         /\ ~(d > g) => NewerIn(S \ {d}, g) = NewerIn(S, g)
<1>1. {h \in S \ {d} : h > g} = {h \in S : h > g} \ {d}
  OBVIOUS
<1>2. IsFiniteSet({h \in S : h > g}) /\ NewerIn(S, g) \in Nat
  BY NewerFinite
<1>3. NewerIn(S \ {d}, g)
      = IF d \in {h \in S : h > g} THEN NewerIn(S, g) - 1 ELSE NewerIn(S, g)
  BY <1>1, <1>2, FS_RemoveElement DEF NewerIn
<1> QED
  BY <1>2, <1>3

LEMMA NewerOfNewest ==
  ASSUME NEW S, S \subseteq Generation, NEW g \in S, \A h \in S : h <= g
  PROVE  NewerIn(S, g) = 0
<1>1. {h \in S : h > g} = {}
  <2>1. \A h \in S : h \in Nat /\ g \in Nat
    BY DEF Generation
  <2>2. \A h \in S : ~(h > g)
    BY <2>1
  <2> QED
    BY <2>2
<1> QED
  BY <1>1, FS_EmptySet DEF NewerIn

LEMMA NewerOfSecond ==
  ASSUME NEW S, S \subseteq Generation, NEW g, NEW t,
         \A h \in S : h = t \/ ~(h > g)
  PROVE  NewerIn(S, g) <= 1
<1>1. {h \in S : h > g} \subseteq {t}
  OBVIOUS
<1>2. IsFiniteSet({t}) /\ Cardinality({t}) = 1
  BY FS_Singleton
<1>3. Cardinality({h \in S : h > g}) <= Cardinality({t})
  BY <1>1, <1>2, FS_Subset
<1> QED
  BY <1>2, <1>3 DEF NewerIn

\* What the arithmetic of the invariant needs to know of its terms.
Measured ==
  /\ progress \in Nat /\ acked \in Nat /\ damage \in Nat
  /\ sound \subseteq Generation /\ None \notin sound
  /\ \A g \in sound : payload[g] \in Nat /\ NewerIn(sound, g) \in Nat
  /\ First \in {0, 1}

LEMMA MeasuredHolds == TypeOK => Measured
<1> SUFFICES ASSUME TypeOK PROVE Measured
  OBVIOUS
<1>1. sound \subseteq Generation /\ None \notin sound
  BY DEF TypeOK, DiskTypes, Generation, None
<1>2. \A g \in sound : payload[g] \in Nat
  BY <1>1 DEF TypeOK, DiskTypes
<1>3. \A g \in sound : NewerIn(sound, g) \in Nat
  BY <1>1, NewerFinite
<1>4. progress \in Nat /\ acked \in Nat /\ damage \in Nat
  BY DEF TypeOK, RunTypes
<1> QED
  BY <1>1, <1>2, <1>3, <1>4 DEF Measured, First

LEMMA LossStart == Init => LossInv
  BY DEF Init, LossInv, Held, Pointed, Underway, InWrite, NoPointer, None, Writing

\* The write builds on the newest verified generation, which nothing can come
\* before when the pointer fails.
LEMMA BeginWriteLoss == ASSUME TypeOK, LossInv, BeginWrite PROVE LossInv'
<1>1. PICK g \in Generation, p \in Generation \cup {None} :
        IsNextNumber(g) /\ IsPrevious(p) /\ target' = g /\ prior' = p
  BY DEF BeginWrite
<1>2. UNCHANGED <<present, sound, payload, latest, progress, acked, damage>>
      /\ pc = "running" /\ pc' = "staged"
  BY DEF BeginWrite, disk
<1>3. \A h \in present : h < g
  BY <1>1 DEF TypeOK, DiskTypes, IsNextNumber, IsNewest, Generation
<1>4. \A h \in sound : p # None /\ h <= p
  BY <1>1 DEF IsPrevious, IsNewest, TypeOK, DiskTypes, Generation, None
<1>5. p # None => p \in sound /\ p < g /\ progress <= payload[p] + damage
  <2> SUFFICES ASSUME p # None
               PROVE  p \in sound /\ p < g /\ progress <= payload[p] + damage
    OBVIOUS
  <2>1. p \in sound
    BY <1>1 DEF IsPrevious, IsNewest
  <2>2. p < g
    BY <2>1, <1>3 DEF TypeOK, DiskTypes
  <2>3. NewerIn(sound, p) = 0
    BY <2>1, <1>4, NewerOfNewest, MeasuredHolds DEF Measured
  <2>4. progress <= Behind(p)
    BY <1>2, <2>1 DEF LossInv, Underway
  <2> QED
    BY <2>1, <2>2, <2>3, <2>4, MeasuredHolds DEF Behind, Measured
<1>6. InWrite'
  BY <1>1, <1>2, <1>3, <1>4, <1>5 DEF InWrite
<1>7. Underway'
  BY <1>2 DEF LossInv, Underway, Behind, First
<1> QED
  BY <1>2, <1>6, <1>7 DEF LossInv, Held, Pointed, Behind, First

\* The published generation holds one checkpoint more than the run reached and
\* is one more to be damaged before any older one is selected.
LEMMA PublishLoss == ASSUME TypeOK, LossInv, Publish PROVE LossInv'
<1>1. pc = "staged" /\ pc' = "published"
      /\ UNCHANGED <<latest, target, prior, progress, acked, damage>>
      /\ sound' = sound \cup {target} /\ present' = present \cup {target}
  BY DEF Publish
<1>2. target \in Generation /\ target # None /\ \A h \in sound : h < target
  BY <1>1 DEF LossInv, InWrite, TypeOK, DiskTypes, RunTypes, Writing, Generation, None
<1>3. target \notin sound
  BY <1>2 DEF Generation
<1>4. payload'[target] = progress + 1 /\ \A g \in sound : payload'[g] = payload[g]
  BY <1>2, <1>3 DEF Publish, TypeOK, DiskTypes
<1>5. Measured
  BY MeasuredHolds
<1>6. \A g \in sound : NewerIn(sound', g) = NewerIn(sound, g) + 1
  BY <1>1, <1>2, <1>5, NewerPublished DEF Measured
<1>7. NewerIn(sound', target) = 0
  <2>1. sound' \subseteq Generation /\ target \in sound' /\ \A h \in sound' : h <= target
    BY <1>1, <1>2, <1>5 DEF Measured, Generation
  <2> QED
    BY <2>1, NewerOfNewest
<1>8. Behind(target)' = progress + 1 + damage
  <2>1. Behind(target)' = (progress + 1) + damage + 0
    BY <1>1, <1>4, <1>7 DEF Behind
  <2> QED
    BY <2>1, <1>5 DEF Measured
<1>9. \A g \in sound : Behind(g)' = Behind(g) + 1 /\ Behind(g) \in Nat
  <2> SUFFICES ASSUME NEW g \in sound
               PROVE  Behind(g)' = Behind(g) + 1 /\ Behind(g) \in Nat
    OBVIOUS
  <2>1. payload'[g] = payload[g] /\ damage' = damage
        /\ NewerIn(sound', g) = NewerIn(sound, g) + 1
    BY <1>1, <1>4, <1>6
  <2>2. payload[g] \in Nat /\ damage \in Nat /\ NewerIn(sound, g) \in Nat
    BY <1>5 DEF Measured
  <2> QED
    BY <2>1, <2>2 DEF Behind
<1>10. /\ acked <= progress + damage
       /\ \A g \in sound : payload[g] <= progress + damage + 1 /\ progress <= Behind(g)
       /\ latest.current \in sound => progress <= payload[latest.current] + damage
       /\ latest.previous \in sound => progress <= payload[latest.previous] + damage + First
  BY <1>1 DEF LossInv, Underway, Writing
<1>11. Held'
  <2>1. \A g \in sound' : acked <= Behind(g)' /\ payload'[target] <= Behind(g)'
    BY <1>1, <1>4, <1>5, <1>8, <1>9, <1>10 DEF LossInv, Held, Measured
  <2>2. \A g \in sound', h \in sound : payload'[h] <= Behind(g)'
    BY <1>1, <1>4, <1>5, <1>8, <1>9, <1>10 DEF LossInv, Held, Measured
  <2> QED
    BY <1>1, <2>1, <2>2 DEF Held
<1>12. First' \in {0, 1} /\ (latest.current \in sound => First = 1 /\ First' = 1)
       /\ (latest.current = target => First' = 1)
       /\ (latest.current \notin sound => First = 0)
       /\ (First' = 1 => latest.current \in sound \/ latest.current = target)
  BY <1>1 DEF First
<1>13. Pointed'
  <2>1. latest.current \in sound' =>
          /\ acked <= payload'[latest.current] + damage
          /\ \A h \in sound' : payload'[h] <= payload'[latest.current] + damage + 1
    BY <1>1, <1>4, <1>5, <1>10 DEF LossInv, Pointed, Measured
  <2>2. latest.previous \in sound' =>
          /\ acked <= payload'[latest.previous] + damage + First'
          /\ First' = 1 => payload'[latest.current] <= payload'[latest.previous] + damage + 1
    BY <1>1, <1>4, <1>5, <1>10, <1>12 DEF LossInv, Pointed, Measured
  <2>3. latest.previous \in sound' =>
          \A h \in sound' : payload'[h] <= payload'[latest.previous] + damage + First' + 1
    BY <1>1, <1>4, <1>5, <1>10, <1>12 DEF LossInv, Pointed, Measured
  <2> QED
    BY <1>1, <2>1, <2>2, <2>3 DEF Pointed
<1>14. Underway'
  <2>1. \A g \in sound' : payload'[g] <= progress + damage + 1 /\ progress <= Behind(g)'
    BY <1>1, <1>4, <1>5, <1>8, <1>9, <1>10 DEF Measured
  <2>2. latest.current \in sound' => progress <= payload'[latest.current] + damage
    BY <1>1, <1>4, <1>5, <1>10 DEF Measured
  <2>3. latest.previous \in sound' => progress <= payload'[latest.previous] + damage + First'
    BY <1>1, <1>4, <1>5, <1>10, <1>12 DEF Measured
  <2> QED
    BY <1>1, <1>10, <2>1, <2>2, <2>3 DEF Underway
<1>15. InWrite'
  BY <1>1, <1>3, <1>4 DEF LossInv, InWrite, Writing
<1> QED
  BY <1>11, <1>13, <1>14, <1>15 DEF LossInv

\* The pointer names the two newest verified generations from here on.
LEMMA SwapPointerLoss == ASSUME TypeOK, LossInv, SwapPointer PROVE LossInv'
<1>1. pc = "pointing" /\ pc' = "pruning"
      /\ UNCHANGED <<present, sound, payload, target, prior, progress, acked, damage>>
      /\ latest' = PointerTo(target, prior)
  BY DEF SwapPointer
<1>2. target \in sound /\ payload[target] = progress + 1
      /\ \A g \in sound : g = target \/ (prior # None /\ g <= prior)
  BY <1>1 DEF LossInv, InWrite, Writing
<1>3. prior # None => prior \in sound /\ prior < target /\ progress <= payload[prior] + damage
  BY <1>1 DEF LossInv, InWrite, Writing
<1>4. Measured
  BY MeasuredHolds
<1>5. latest'.current = target /\ latest'.previous = prior /\ First' = 1
  BY <1>1, <1>2 DEF First
<1>6. acked <= progress + damage /\ \A g \in sound : payload[g] <= progress + damage + 1
  BY <1>1 DEF LossInv, Underway, Writing
<1>7. prior \in sound =>
        /\ acked <= payload[prior] + damage + 1
        /\ \A h \in sound : payload[h] <= payload[prior] + damage + 1
  <2> SUFFICES ASSUME prior \in sound
               PROVE  /\ acked <= payload[prior] + damage + 1
                      /\ \A h \in sound : payload[h] <= payload[prior] + damage + 1
    OBVIOUS
  <2>1. NewerIn(sound, prior) <= 1
    <3>1. \A h \in sound : h = target \/ ~(h > prior)
      BY <1>2, <1>4 DEF Measured, Generation
    <3> QED
      BY <3>1, <1>4, NewerOfSecond DEF Measured
  <2> QED
    BY <2>1, <1>4 DEF LossInv, Held, Behind, Measured
<1>8. Pointed'
  <2>1. acked <= payload[target] + damage
        /\ \A h \in sound : payload[h] <= payload[target] + damage + 1
    BY <1>2, <1>4, <1>6 DEF Measured
  <2>2. prior \in sound =>
          /\ payload[target] <= payload[prior] + damage + 1
          /\ \A h \in sound : payload[h] <= payload[prior] + damage + 1 + 1
    BY <1>2, <1>4, <1>7 DEF Measured
  <2> QED
    BY <1>1, <1>5, <1>7, <2>1, <2>2 DEF Pointed
<1>9. Underway'
  <2>1. progress <= payload[target] + damage
    BY <1>2, <1>4 DEF Measured
  <2>2. prior \in sound => progress <= payload[prior] + damage + 1
    BY <1>3, <1>4 DEF Measured
  <2>3. \A g \in sound : progress <= Behind(g)
    BY <1>1 DEF LossInv, Underway, Writing
  <2> QED
    BY <1>1, <1>5, <1>6, <2>1, <2>2, <2>3 DEF Underway, Behind
<1>10. Held' /\ InWrite'
  BY <1>1, <1>2, <1>3 DEF LossInv, Held, Behind, InWrite
<1> QED
  BY <1>8, <1>9, <1>10 DEF LossInv

\* rmtree takes the oldest stale generation: none of those that stay is older,
\* so what is in front of them stays in front of them.
LEMMA PruneLoss ==
  ASSUME TypeOK, LossInv, NEW g \in Generation, Prune(g) PROVE LossInv'
<1>1. pc = "pruning" /\ sound' = sound \ {g} /\ present' \subseteq present
      /\ UNCHANGED <<payload, latest, pc, target, prior, progress, acked, damage>>
  BY DEF Prune
<1>2. g # target /\ g # prior /\ g \in present
      /\ \A h \in present \ {target, prior} : g <= h
  BY DEF Prune, Stale
<1>3. Measured
  BY MeasuredHolds
<1>4. latest = PointerTo(target, prior)
      /\ (prior # None => prior < target)
      /\ \A h \in sound : h = target \/ (prior # None /\ h <= prior)
  BY <1>1 DEF LossInv, InWrite, Writing
<1>5. \A h \in sound' : NewerIn(sound', h) = NewerIn(sound, h)
  <2> SUFFICES ASSUME NEW h \in sound, h # g
               PROVE  NewerIn(sound \ {g}, h) = NewerIn(sound, h)
    BY <1>1
  <2>1. CASE g \notin sound
    <3>1. sound \ {g} = sound
      BY <2>1
    <3> QED
      BY <3>1
  <2>2. CASE g \in sound
    <3>1. prior # None /\ g <= prior /\ prior < target
      BY <1>2, <1>4, <2>2
    <3>2. prior \in Nat /\ target \in Nat /\ g \in Nat /\ h \in Nat
      BY <1>3 DEF TypeOK, RunTypes, Generation, None, Measured
    <3>3. ~(g > h)
      BY <1>2, <3>1, <3>2 DEF TypeOK, DiskTypes
    <3> QED
      BY <1>3, <3>3, NewerRemoved DEF Measured
  <2> QED
    BY <2>1, <2>2
<1>6. \A h \in sound' : h \in sound /\ Behind(h)' = Behind(h)
  BY <1>1, <1>5 DEF Behind
<1>7. Held'
  BY <1>1, <1>6 DEF LossInv, Held
<1>8. latest.current # g /\ latest.previous # g
  BY <1>2, <1>4
<1>9. First' = First /\ latest' = latest
  BY <1>1, <1>8 DEF First
<1>10. Pointed'
  BY <1>1, <1>6, <1>9 DEF LossInv, Pointed
<1>11. Underway'
  BY <1>1, <1>6, <1>9 DEF LossInv, Underway
<1>12. InWrite'
  BY <1>1, <1>2, <1>6 DEF LossInv, InWrite
<1> QED
  BY <1>7, <1>10, <1>11, <1>12 DEF LossInv

LEMMA EndWriteLoss == ASSUME TypeOK, LossInv, EndWrite PROVE LossInv'
<1>1. pc = "pruning" /\ pc' = "running" /\ progress' = progress + 1
      /\ UNCHANGED <<present, sound, payload, latest, damage>>
      /\ acked' = Larger(acked, progress + 1)
  BY DEF EndWrite, disk
<1>2. target \in sound /\ payload[target] = progress + 1
      /\ latest = PointerTo(target, prior)
  BY <1>1 DEF LossInv, InWrite, Writing
<1>3. prior \in sound => progress <= payload[prior] + damage
  <2>1. prior # None => progress <= payload[prior] + damage
    BY <1>1 DEF LossInv, InWrite, Writing
  <2> QED
    BY <2>1, MeasuredHolds DEF Measured
<1>4. Measured
  BY MeasuredHolds
<1>5. acked' \in {acked, progress + 1}
  BY <1>1 DEF Larger
<1>6. First = 1 /\ First' = 1
  BY <1>1, <1>2 DEF First
<1>7. \A g \in sound : Behind(g)' = Behind(g) /\ progress + 1 <= Behind(g)
  BY <1>1, <1>2 DEF LossInv, Held, Behind
<1>8. Held'
  BY <1>1, <1>5, <1>7 DEF LossInv, Held
<1>9. Pointed'
  BY <1>1, <1>2, <1>3, <1>4, <1>5, <1>6 DEF LossInv, Pointed, Measured
<1>10. acked <= progress + damage /\ \A g \in sound : payload[g] <= progress + damage + 1
  BY <1>1 DEF LossInv, Underway, Writing
<1>11. Underway'
  <2>1. acked' <= progress' + damage' /\ \A g \in sound' : payload'[g] <= progress' + damage' + 1
    BY <1>1, <1>4, <1>5, <1>10 DEF Measured
  <2>2. progress + 1 <= payload[target] + damage
    BY <1>2, <1>4 DEF Measured
  <2>3. prior \in sound => progress + 1 <= payload[prior] + damage + 1
    BY <1>3, <1>4 DEF Measured
  <2> QED
    BY <1>1, <1>2, <1>6, <1>7, <2>1, <2>2, <2>3 DEF Underway
<1>12. InWrite'
  BY <1>1 DEF InWrite, Writing
<1> QED
  BY <1>8, <1>9, <1>11, <1>12 DEF LossInv

\* The generation a restart selects is behind by the damage so far at most,
\* and nothing that verifies is ahead of it by more than a write in flight.
LEMMA SelectedIsClose ==
  ASSUME TypeOK, LossInv, NEW g \in Generation, IsSelected(g)
  PROVE  /\ g \in sound
         /\ acked <= payload[g] + damage
         /\ \A h \in sound : payload[h] <= payload[g] + damage + 1
         /\ latest.current \in sound => g = latest.current
         /\ latest.previous \in sound => payload[g] <= payload[latest.previous] + damage + First
<1>1. Measured
  BY MeasuredHolds
<1>2. CASE g = latest.current /\ g \in sound
  <2>1. First = 1
    BY <1>2 DEF First
  <2> QED
    BY <1>1, <1>2, <2>1 DEF LossInv, Pointed, Measured
<1>3. CASE g = latest.previous /\ g \in sound /\ latest.current \notin sound
  <2>1. First = 0
    BY <1>3 DEF First
  <2> QED
    BY <1>1, <1>3, <2>1 DEF LossInv, Pointed, Measured
<1>4. CASE {latest.current, latest.previous} \cap sound = {} /\ IsNewest(g, sound)
  <2>1. g \in sound /\ NewerIn(sound, g) = 0
    BY <1>1, <1>4, NewerOfNewest DEF IsNewest, Measured
  <2>2. Behind(g) = payload[g] + damage
    BY <1>1, <2>1 DEF Behind, Measured
  <2> QED
    BY <1>1, <1>4, <2>1, <2>2 DEF LossInv, Held, Measured
<1> QED
  BY <1>2, <1>3, <1>4 DEF IsSelected

LEMMA ResumeLoss ==
  ASSUME TypeOK, LossInv, Resume PROVE LossInv' /\ progress' + damage >= acked
<1>1. UNCHANGED <<present, sound, payload, latest, damage>> /\ pc' = "running"
  BY DEF Resume, disk
<1>2. PICK g \in Generation :
        IsSelected(g) /\ progress' = payload[g] /\ acked' = Larger(acked, payload[g])
  BY DEF Resume
<1>3. /\ g \in sound
      /\ acked <= payload[g] + damage
      /\ \A h \in sound : payload[h] <= payload[g] + damage + 1
      /\ latest.current \in sound => g = latest.current
      /\ latest.previous \in sound => payload[g] <= payload[latest.previous] + damage + First
  BY <1>2, SelectedIsClose
<1>4. Measured
  BY MeasuredHolds
<1>5. acked' \in {acked, payload[g]}
  BY <1>2 DEF Larger
<1>6. First' = First /\ \A h \in sound : Behind(h)' = Behind(h) /\ payload[g] <= Behind(h)
  BY <1>1, <1>3 DEF First, Behind, LossInv, Held
<1>7. Held'
  BY <1>1, <1>5, <1>6 DEF LossInv, Held
<1>8. Pointed'
  BY <1>1, <1>3, <1>4, <1>5, <1>6 DEF LossInv, Pointed, Measured
<1>9. Underway'
  BY <1>1, <1>2, <1>3, <1>4, <1>5, <1>6 DEF Underway, Measured
<1>10. InWrite'
  BY <1>1 DEF InWrite, Writing
<1> QED
  BY <1>2, <1>3, <1>4, <1>7, <1>8, <1>9, <1>10 DEF LossInv, Measured

\* Damage takes one generation from the front and is counted once.
LEMMA DamageLoss ==
  ASSUME TypeOK, LossInv, NEW d \in Generation, NEW kind, Damage(d, kind)
  PROVE  LossInv'
<1>1. sound' = sound \ {d} /\ damage' = damage + 1 /\ pc \in {"running", "down"}
      /\ UNCHANGED <<payload, latest, pc, progress, acked>>
  BY DEF Damage
<1>2. Measured
  BY MeasuredHolds
<1>3. \A g \in sound' : g \in sound /\ Behind(g) \in Nat /\ Behind(g)' \in Nat
                        /\ Behind(g)' >= Behind(g)
  <2> SUFFICES ASSUME NEW g \in sound
               PROVE  /\ Behind(g) \in Nat /\ Behind(g)' \in Nat
                      /\ Behind(g)' >= Behind(g)
    BY <1>1
  <2>1. NewerIn(sound \ {d}, g) \in Nat
    BY <1>2, NewerFinite DEF Measured
  <2>2. NewerIn(sound, g) <= NewerIn(sound \ {d}, g) + 1
    BY <1>2, NewerRemoved DEF Measured
  <2> QED
    BY <1>1, <1>2, <2>1, <2>2 DEF Behind, Measured
<1>4. First' \in {0, 1} /\ First' + 1 >= First /\ (First' = 1 => First = 1)
  BY <1>1 DEF First
<1>5. Held'
  BY <1>1, <1>2, <1>3 DEF LossInv, Held, Measured
<1>6. Pointed'
  <2>1. latest.current \in sound' =>
          /\ acked <= payload[latest.current] + (damage + 1)
          /\ \A h \in sound' : payload[h] <= payload[latest.current] + (damage + 1) + 1
    BY <1>1, <1>2 DEF LossInv, Pointed, Measured
  <2>2. latest.previous \in sound' =>
          /\ acked <= payload[latest.previous] + (damage + 1) + First'
          /\ First' = 1 =>
               payload[latest.current] <= payload[latest.previous] + (damage + 1) + 1
    BY <1>1, <1>2, <1>4 DEF LossInv, Pointed, Measured, First
  <2>3. latest.previous \in sound' =>
          \A h \in sound' : payload[h] <= payload[latest.previous] + (damage + 1) + First' + 1
    BY <1>1, <1>2, <1>4 DEF LossInv, Pointed, Measured
  <2> QED
    BY <1>1, <2>1, <2>2, <2>3 DEF Pointed
<1>7. Underway'
  <2> SUFFICES ASSUME pc = "running"
               PROVE  /\ acked <= progress + (damage + 1)
                      /\ \A g \in sound' : payload[g] <= progress + (damage + 1) + 1
                                           /\ progress <= Behind(g)'
                      /\ latest.current \in sound' =>
                           progress <= payload[latest.current] + (damage + 1)
                      /\ latest.previous \in sound' =>
                           progress <= payload[latest.previous] + (damage + 1) + First'
    BY <1>1 DEF Underway, Writing
  <2>1. /\ acked <= progress + damage
        /\ \A g \in sound : payload[g] <= progress + damage + 1 /\ progress <= Behind(g)
        /\ latest.current \in sound => progress <= payload[latest.current] + damage
        /\ latest.previous \in sound => progress <= payload[latest.previous] + damage + First
    BY DEF LossInv, Underway
  <2> QED
    BY <1>1, <1>2, <1>3, <1>4, <2>1 DEF Measured
<1>8. InWrite'
  BY <1>1 DEF InWrite, Writing
<1> QED
  BY <1>5, <1>6, <1>7, <1>8 DEF LossInv

LEMMA DamagePointerLoss ==
  ASSUME TypeOK, LossInv, NEW kind, DamagePointer(kind) PROVE LossInv'
<1>1. damage' = damage + 1 /\ pc \in {"running", "down"}
      /\ UNCHANGED <<sound, payload, pc, progress, acked>>
      /\ latest'.current = None /\ latest'.previous = None
  BY DEF DamagePointer, NoPointer
<1>2. Measured
  BY MeasuredHolds
<1>3. \A g \in sound : Behind(g)' = Behind(g) + 1 /\ Behind(g) \in Nat
  BY <1>1, <1>2 DEF Behind, Measured
<1>4. Held'
  BY <1>1, <1>2, <1>3 DEF LossInv, Held, Measured
<1>5. Pointed'
  BY <1>1, <1>2 DEF Pointed, Measured
<1>6. pc = "running" =>
        /\ acked <= progress + damage
        /\ \A g \in sound : payload[g] <= progress + damage + 1 /\ progress <= Behind(g)
  BY DEF LossInv, Underway
<1>7. Underway'
  BY <1>1, <1>2, <1>3, <1>6 DEF Underway, Measured, Writing
<1>8. InWrite'
  BY <1>1 DEF InWrite, Writing
<1> QED
  BY <1>4, <1>5, <1>7, <1>8 DEF LossInv

LEMMA LossStep == TypeOK /\ LossInv /\ [Next]_vars => LossInv'
<1> SUFFICES ASSUME TypeOK, LossInv, [Next]_vars PROVE LossInv'
  OBVIOUS
<1>1. CASE UNCHANGED vars
  BY <1>1 DEF vars, LossInv, Held, Pointed, Underway, InWrite, Behind, First
<1>2. CASE BeginWrite
  BY <1>2, BeginWriteLoss
<1>3. CASE Publish
  BY <1>3, PublishLoss
<1>4. CASE StagePointer
  BY <1>4 DEF StagePointer, LossInv, Held, Pointed, Underway, InWrite, Behind, First, Writing
<1>5. CASE SwapPointer
  BY <1>5, SwapPointerLoss
<1>6. ASSUME NEW g \in Generation, Prune(g) PROVE LossInv'
  BY <1>6, PruneLoss
<1>7. CASE EndWrite
  BY <1>7, EndWriteLoss
<1>8. CASE RefuseWrite \/ Crash \/ RefuseRestart
  <2>1. pc' \in Down /\ UNCHANGED <<sound, payload, latest, acked, damage>>
    BY <1>8 DEF RefuseWrite, Crash, RefuseRestart, Down, disk
  <2> QED
    BY <2>1 DEF LossInv, Held, Pointed, Underway, InWrite, Behind, First, Writing, Down
<1>9. CASE Resume
  BY <1>9, ResumeLoss
<1>10. ASSUME NEW g \in Generation, NEW kind \in DamageKinds, Damage(g, kind) PROVE LossInv'
  BY <1>10, DamageLoss
<1>11. ASSUME NEW kind \in DamageKinds, DamagePointer(kind) PROVE LossInv'
  BY <1>11, DamagePointerLoss
<1> QED
  BY <1>1, <1>2, <1>3, <1>4, <1>5, <1>6, <1>7, <1>8, <1>9, <1>10, <1>11 DEF Next

\* A restart reaches what was acknowledged but for one checkpoint for each
\* damage, whatever was damaged and in whatever order.
THEOREM LossCorrect == Spec => LossBoundedByDamage
<1>1. TypeOK /\ LossInv /\ [Next]_vars
      => [pc = "down" /\ pc' = "running" => progress' + damage >= acked]_vars
  <2> SUFFICES ASSUME TypeOK, LossInv, Next, pc = "down", pc' = "running"
               PROVE  progress' + damage >= acked
    OBVIOUS
  <2>1. Resume
    BY DEF Next, BeginWrite, RefuseWrite, Publish, StagePointer, SwapPointer, Prune, EndWrite,
           Crash, RefuseRestart, Damage, DamagePointer, Writing
  <2> QED
    BY <2>1, ResumeLoss
<1> QED
  BY <1>1, LossStart, LossStep, TypeCorrect, PTL DEF Spec, LossBoundedByDamage

-----------------------------------------------------------------------------
(* The store implements a durable register.                                *)

LEMMA RegisterStart == Init => Register!Init
  BY DEF Init, Register!Init, Durable, Down, NoPointer

LEMMA RegisterStep ==
  ASSUME TypeOK, Intact, damage' = 0, [Next]_vars
  PROVE  [Register!Next]_(Register!registerVars)
<1> USE DEF Register!registerVars, Register!Next
<1>1. CASE UNCHANGED vars
  BY <1>1 DEF vars, Durable
<1>2. CASE BeginWrite \/ StagePointer
  BY <1>2 DEF BeginWrite, StagePointer, Durable, disk, Down
<1>3. CASE Publish
  <2>1. target \notin sound /\ pc = "staged"
    BY <1>3 DEF Publish, Intact, WriteInv, TypeOK, DiskTypes, RunTypes,
                Generation, None
  <2>2. latest.exists => latest.current \in sound
    BY DEF Intact, PointerInv
  <2>3. Durable' = Durable
    BY <1>3, <2>1, <2>2 DEF Publish, Durable, TypeOK, DiskTypes
  <2> QED
    BY <1>3, <2>3 DEF Publish, Down
<1>4. CASE SwapPointer
  <2>1. payload[target] = progress + 1
    BY <1>4 DEF SwapPointer, Intact, WriteInv
  <2>2. Durable' = progress + 1
    BY <1>4, <2>1 DEF SwapPointer, Durable
  <2> QED
    BY <1>4, <2>2 DEF SwapPointer, Register!Save, Down
<1>5. ASSUME NEW g \in Generation, Prune(g)
      PROVE  [Register!Next]_(Register!registerVars)
  BY <1>5 DEF Prune, Durable
<1>6. CASE EndWrite
  BY <1>6 DEF EndWrite, disk, Durable, Down, Register!Return, Intact, ProgressInv
<1>7. CASE Crash \/ RefuseWrite
  BY <1>7 DEF Crash, RefuseWrite, disk, Durable, Down, Writing, Register!Crash
<1>8. CASE Resume
  <2>1. UNCHANGED <<payload, latest>> /\ pc = "down" /\ pc' = "running" /\ latest.exists
    BY <1>8 DEF Resume, disk
  <2>2. progress' = Durable
    BY <1>8, <2>1, SelectsCurrent DEF Resume
  <2>3. Durable > 0
    BY <2>1 DEF Intact, PointerInv, PayloadInv, Durable, TypeOK, DiskTypes
  <2> QED
    BY <2>1, <2>2, <2>3 DEF Register!Recover, Durable, Down
<1>9. CASE RefuseRestart
  BY <1>9 DEF RefuseRestart, disk, Durable, Down
<1>10. ASSUME NEW g \in Generation, NEW kind \in DamageKinds, Damage(g, kind)
       PROVE  FALSE
  BY <1>10 DEF Damage, TypeOK, RunTypes
<1>11. ASSUME NEW kind \in DamageKinds, DamagePointer(kind)
       PROVE  FALSE
  BY <1>11 DEF DamagePointer, TypeOK, RunTypes
<1> QED
  BY <1>1, <1>2, <1>3, <1>4, <1>5, <1>6, <1>7, <1>8, <1>9, <1>10, <1>11 DEF Next

\* Until a file is damaged every behaviour of the store is one of the register:
\* what a resume reads is what the last completed pointer swap made durable.
THEOREM Refinement == Spec => ImplementsRegister
<1>1. TypeOK /\ [Next]_vars /\ damage' = 0 => damage = 0
  <2> SUFFICES ASSUME TypeOK, [Next]_vars, damage' = 0 PROVE damage = 0
    OBVIOUS
  <2>1. damage' = damage \/ damage' = damage + 1
    <3>1. ASSUME NEW g \in Generation, NEW kind \in DamageKinds, Damage(g, kind)
          PROVE  damage' = damage + 1
      BY <3>1 DEF Damage
    <3>2. ASSUME NEW kind \in DamageKinds, DamagePointer(kind)
          PROVE  damage' = damage + 1
      BY <3>2 DEF DamagePointer
    <3>3. ASSUME NEW g \in Generation, Prune(g)
          PROVE  damage' = damage
      BY <3>3 DEF Prune
    <3>4. CASE BeginWrite \/ RefuseWrite \/ Publish \/ StagePointer \/ SwapPointer \/ EndWrite
               \/ Crash \/ Resume \/ RefuseRestart \/ UNCHANGED vars
      BY <3>4 DEF BeginWrite, RefuseWrite, Publish, StagePointer, SwapPointer, EndWrite, Crash,
                  Resume, RefuseRestart, vars
    <3> QED
      BY <3>1, <3>2, <3>3, <3>4 DEF Next
  <2> QED
    BY <2>1 DEF TypeOK, RunTypes
<1>2. TypeOK /\ IInv /\ [Next]_vars
      => (damage' = 0 => [Register!Next]_(Register!registerVars))
  BY <1>1, RegisterStep DEF IInv
<1> QED
  BY <1>2, RegisterStart, TypeCorrect, IInvCorrect, PTL DEF Spec, ImplementsRegister
=============================================================================
