------------------------- MODULE DataAndLabels_proofs -------------------------
(***************************************************************************)
(* What a run learns from: the data it was given, and the labels it makes  *)
(* of them.                                                                *)
(*                                                                         *)
(* The data.  What a run accepts comes from the archive that was           *)
(* configured or reviewed, and no manifest is in place without its files,  *)
(* for every set of archives and policies and every bound.                 *)
(*                                                                         *)
(* The labels.  The per-click methods keep the promise of LabelStream for  *)
(* every fixture, wait, window and pace of decisions: no call is refused,  *)
(* the pools at a credit are the promised records legal by then, and       *)
(* nothing in them depends on truth still to come.  The invariant gives    *)
(* the pools as a function of four sets (the clicks delivered, the truth   *)
(* seen, what got a provisional record, what was settled) and says up to   *)
(* which time each of the four is complete.                                *)
(***************************************************************************)
EXTENDS DataPipeline, DelayedMethods, WellFoundedInduction, TLAPS

-----------------------------------------------------------------------------
(* The data (DataPipeline).                                                 *)

(* Where a file may come from, file by file.                                *)
FilesTyped ==
  /\ configured \in Configurations
  /\ remote \in Contents
  /\ reviewed \subseteq Contents
  /\ cmd \in {"none", "fetch", "inspect", "prepare", "cache"}
  /\ at \in Nat

LockFounded ==
  InPlace(ArtifactLock) =>
    /\ disk[ArtifactLock] \in Trusted
    /\ disk[ArtifactLock] \in Contents
    /\ InPlace(Artifact(disk[ArtifactLock]))

CandidateFounded ==
  InPlace(Candidate) =>
    /\ configured = {}
    /\ disk[Candidate] \in Contents
    /\ InPlace(Artifact(disk[Candidate]))

InspectionFounded ==
  InPlace(Inspection) =>
    /\ InPlace(ArtifactLock) /\ InPlace(Quarantine)
    /\ disk[Inspection] = disk[ArtifactLock]

(* The published digest of the rejected rows is that of the report, unless  *)
(* the report has been damaged since.                                       *)
PreparationFounded ==
  InPlace(Preparation) =>
    /\ InPlace(Inspection)
    /\ InPlace(Features) /\ InPlace(Truth) /\ InPlace(Rejected)
    /\ disk[Preparation][1] = disk[ArtifactLock]
    /\ disk[Preparation][2] = disk[ArtifactLock]
    /\ disk[Preparation][3] = disk[Quarantine] \/ disk[Quarantine] = Rot

CacheFounded ==
  \A p \in Policies : InPlace(CacheManifest(p)) =>
    /\ InPlace(Preparation)
    /\ disk[CacheManifest(p)] = disk[ArtifactLock]
    /\ \A k \in 1..Parts : InPlace(Part(p, k))

Founded ==
  /\ LockFounded /\ CandidateFounded /\ InspectionFounded
  /\ PreparationFounded /\ CacheFounded

(* What a running command has checked and done.                             *)
FetchHolds ==
  cmd = "fetch" =>
    /\ ~InPlace(ArtifactLock)
    /\ work[1] \in Contents /\ InPlace(Artifact(work[1]))
    /\ configured \subseteq {work[1]}
    /\ work[2] \subseteq reviewed

InspectHolds ==
  cmd = "inspect" =>
    /\ Locked
    /\ at <= 1 => ~InPlace(Inspection)
    /\ at >= 1 => InPlace(Quarantine)

PrepareHolds ==
  cmd = "prepare" =>
    /\ Locked /\ InPlace(Inspection)
    /\ at <= 3 => ~InPlace(Preparation)
    /\ at >= 1 => InPlace(Features)
    /\ at >= 2 => InPlace(Truth)
    /\ at >= 3 => InPlace(Rejected)
    /\ work[1] = disk[ArtifactLock] /\ work[2] = disk[ArtifactLock]
    /\ work[3] = disk[Quarantine]

CacheHolds ==
  cmd = "cache" =>
    /\ work[1] \in Policies
    /\ InPlace(Preparation)
    /\ disk[Features] = disk[ArtifactLock]
    /\ \A k \in 1..Parts : k <= at => InPlace(Part(work[1], k))

Holds == FetchHolds /\ InspectHolds /\ PrepareHolds /\ CacheHolds

Chained == FilesTyped /\ Founded /\ Holds

-----------------------------------------------------------------------------
(* The names of different files differ.                                     *)
LEMMA Names ==
  /\ \A c : Artifact(c)[1] = "artifact"
  /\ \A p, k : Part(p, k)[1] = "part"
  /\ \A p : CacheManifest(p)[1] = "manifest.json"
  /\ \A p, q : CacheManifest(p) = CacheManifest(q) => p = q
  /\ ArtifactLock[1] = "artifact-lock.json" /\ Candidate[1] = "download-candidate.json"
  /\ Quarantine[1] = "rejected.jsonl" /\ Inspection[1] = "inspection.json"
  /\ Features[1] = "features" /\ Truth[1] = "truth" /\ Rejected[1] = "rejected.parquet"
  /\ Preparation[1] = "preparation.json"
BY DEF Artifact, Part, CacheManifest, ArtifactLock, Candidate, Quarantine, Inspection,
       Features, Truth, Rejected, Preparation

(* Put adds one file, or replaces it, and leaves the others.                *)
LEMMA PutFile ==
  ASSUME NEW f, NEW value, disk' = Put(f, value)
  PROVE  /\ \A g : InPlace(g)' <=> InPlace(g) \/ g = f
         /\ disk'[f] = value
         /\ \A g : InPlace(g) /\ g # f => disk'[g] = disk[g]
BY DEF Put, InPlace

(* Without removes the given files and leaves the others.                   *)
LEMMA WithoutFiles ==
  ASSUME NEW files, disk' = Without(files)
  PROVE  /\ \A g : InPlace(g)' <=> InPlace(g) /\ g \notin files
         /\ \A g : InPlace(g) /\ g \notin files => disk'[g] = disk[g]
BY DEF Without, InPlace

(* Nothing Founded says changes while the files and the trust do not.       *)
LEMMA FoundedStays ==
  ASSUME Founded, UNCHANGED <<disk, configured>>, reviewed \subseteq reviewed'
  PROVE  Founded'
BY DEF Founded, LockFounded, CandidateFounded, InspectionFounded, PreparationFounded,
       CacheFounded, InPlace, Trusted

(* A command that is over, or not begun, holds nothing.                     *)
LEMMA HoldsNothing ==
  ASSUME cmd' = "none"
  PROVE  Holds'
BY DEF Holds, FetchHolds, InspectHolds, PrepareHolds, CacheHolds

(* At the start no file is in place.                                        *)
THEOREM Establishes == PipelineInit => Chained
<1> SUFFICES ASSUME PipelineInit PROVE Chained
  OBVIOUS
<1>1. \A f : ~InPlace(f)
  BY DEF PipelineInit, InPlace
<1>2. FilesTyped
  BY DEF PipelineInit, FilesTyped, Idle
<1>3. Founded
  BY <1>1 DEF Founded, LockFounded, CandidateFounded, InspectionFounded, PreparationFounded, CacheFounded
<1>4. Holds
  BY DEF PipelineInit, Idle, Holds, FetchHolds, InspectHolds, PrepareHolds, CacheHolds
<1>. QED
  BY <1>2, <1>3, <1>4 DEF Chained

-----------------------------------------------------------------------------
(* The lock of a reviewed candidate: no configured digest, the digest given. *)
LEMMA ReviewStep ==
  ASSUME Chained, NEW d \in Approved, Review(d)
  PROVE  Chained'
<1>1. /\ \A g : InPlace(g)' <=> InPlace(g) \/ g = ArtifactLock
      /\ disk'[ArtifactLock] = d
      /\ \A g : InPlace(g) /\ g # ArtifactLock => disk'[g] = disk[g]
  BY PutFile DEF Review
<1>2. FilesTyped'
  BY DataConstants DEF Chained, FilesTyped, Review, command
<1>3. LockFounded'
  BY <1>1, Names DEF Chained, Founded, LockFounded, Review, CandidateFounded, Trusted
<1>4. CandidateFounded'
  BY <1>1, Names DEF Chained, Founded, CandidateFounded, Review
<1>5. InspectionFounded'
  BY <1>1, Names DEF Chained, Founded, InspectionFounded, Review
<1>6. PreparationFounded'
  BY <1>1, Names DEF Chained, Founded, PreparationFounded, Review, InspectionFounded
<1>7. CacheFounded'
  BY <1>1, Names DEF Chained, Founded, CacheFounded, Review, PreparationFounded, InspectionFounded
<1>8. FetchHolds'
  BY <1>1, Names DEF Chained, Holds, FetchHolds, Review, Idle, command
<1>9. InspectHolds'
  BY <1>1, Names DEF Chained, Holds, InspectHolds, Review, Idle, command
<1>10. PrepareHolds'
  BY <1>1, Names DEF Chained, Holds, PrepareHolds, Review, Idle, command
<1>11. CacheHolds'
  BY <1>1, Names DEF Chained, Holds, CacheHolds, Review, Idle, command
<1>. QED
  BY <1>2, <1>3, <1>4, <1>5, <1>6, <1>7, <1>8, <1>9, <1>10, <1>11 DEF Chained, Founded, Holds

(* A download replaces an archive by the same one, or adds one.             *)
LEMMA DownloadStep ==
  ASSUME Chained, NEW review \in SUBSET Approved, Download(review)
  PROVE  Chained'
<1>1. /\ \A g : InPlace(g)' <=> InPlace(g) \/ g = Artifact(remote)
      /\ disk'[Artifact(remote)] = remote
      /\ \A g : InPlace(g) /\ g # Artifact(remote) => disk'[g] = disk[g]
  BY PutFile DEF Download
<1>2. FilesTyped'
  BY DataConstants DEF Chained, FilesTyped, Download, Begin
<1>3. LockFounded'
  BY <1>1, Names DEF Chained, Founded, LockFounded, Download
<1>4. CandidateFounded'
  BY <1>1, Names DEF Chained, Founded, CandidateFounded, Download
<1>5. InspectionFounded'
  BY <1>1, Names DEF Chained, Founded, InspectionFounded, Download
<1>6. PreparationFounded'
  BY <1>1, Names DEF Chained, Founded, PreparationFounded, Download, InspectionFounded
<1>7. CacheFounded'
  BY <1>1, Names DEF Chained, Founded, CacheFounded, Download, PreparationFounded, InspectionFounded
<1>8. FetchHolds'
  BY <1>1, Names DEF Chained, Holds, FetchHolds, Download, Begin, FilesTyped
<1>9. InspectHolds'
  BY <1>1, Names DEF Chained, Holds, InspectHolds, Download, Begin
<1>10. PrepareHolds'
  BY <1>1, Names DEF Chained, Holds, PrepareHolds, Download, Begin
<1>11. CacheHolds'
  BY <1>1, Names DEF Chained, Holds, CacheHolds, Download, Begin
<1>. QED
  BY <1>2, <1>3, <1>4, <1>5, <1>6, <1>7, <1>8, <1>9, <1>10, <1>11 DEF Chained, Founded, Holds

(* A settled download is locked only if it is trusted.                      *)
LEMMA SettleStep ==
  ASSUME Chained, SettleDownload
  PROVE  Chained'
<1>. DEFINE trusted == IF configured # {} THEN configured ELSE work[2]
<1>0. FilesTyped'
  BY DEF Chained, FilesTyped, SettleDownload, End
<1>1. CASE work[1] \in trusted
  <2>1. /\ \A g : InPlace(g)' <=> InPlace(g) \/ g = ArtifactLock
        /\ disk'[ArtifactLock] = work[1]
        /\ \A g : InPlace(g) /\ g # ArtifactLock => disk'[g] = disk[g]
    BY <1>1, PutFile DEF SettleDownload
  <2>2. LockFounded'
    BY <1>1, <2>1, Names DEF Chained, Holds, FetchHolds, LockFounded, SettleDownload, Trusted
  <2>3. CandidateFounded'
    BY <2>1, Names DEF Chained, Founded, CandidateFounded, SettleDownload
  <2>4. InspectionFounded' /\ PreparationFounded' /\ CacheFounded'
    BY <2>1, Names DEF Chained, Founded, Holds, FetchHolds, SettleDownload,
       InspectionFounded, PreparationFounded, CacheFounded
  <2>. QED
    BY <1>0, <2>2, <2>3, <2>4, HoldsNothing DEF Chained, Founded, SettleDownload, End
<1>2. CASE work[1] \notin trusted
  <2>1. /\ \A g : InPlace(g)' <=> InPlace(g) \/ g = Candidate
        /\ disk'[Candidate] = work[1]
        /\ \A g : InPlace(g) /\ g # Candidate => disk'[g] = disk[g]
    BY <1>2, PutFile DEF SettleDownload
  <2>2. CandidateFounded'
    BY <1>2, <2>1, Names DEF Chained, Holds, FetchHolds, CandidateFounded, SettleDownload
  <2>3. LockFounded' /\ InspectionFounded' /\ PreparationFounded' /\ CacheFounded'
    BY <2>1, Names DEF Chained, Founded, Holds, FetchHolds, SettleDownload, LockFounded,
       InspectionFounded, PreparationFounded, CacheFounded
  <2>. QED
    BY <1>0, <2>2, <2>3, HoldsNothing DEF Chained, Founded, SettleDownload, End
<1>. QED
  BY <1>1, <1>2

(* No inspection, so no preparation, rests on the report yet.               *)
LEMMA PromoteQuarantineStep ==
  ASSUME Chained, PromoteQuarantine
  PROVE  Chained'
<1>1. /\ \A g : InPlace(g)' <=> InPlace(g) \/ g = Quarantine
      /\ disk'[Quarantine] = Source
      /\ \A g : InPlace(g) /\ g # Quarantine => disk'[g] = disk[g]
  BY PutFile DEF PromoteQuarantine
<1>2. FilesTyped'
  BY DataConstants DEF Chained, FilesTyped, PromoteQuarantine, Advance
<1>3. LockFounded'
  BY <1>1, Names DEF Chained, Founded, LockFounded, PromoteQuarantine, Trusted
<1>4. CandidateFounded'
  BY <1>1, Names DEF Chained, Founded, CandidateFounded, PromoteQuarantine
<1>5. InspectionFounded'
  BY <1>1, Names DEF Chained, Founded, InspectionFounded, PromoteQuarantine, Holds, InspectHolds
<1>6. PreparationFounded'
  BY <1>1, Names DEF Chained, Founded, PreparationFounded, PromoteQuarantine, Holds, InspectHolds, InspectionFounded
<1>7. CacheFounded'
  BY <1>1, Names DEF Chained, Founded, CacheFounded, PromoteQuarantine, PreparationFounded, InspectionFounded, Holds, InspectHolds
<1>8. FetchHolds'
  BY <1>1, Names DEF Chained, Holds, FetchHolds, PromoteQuarantine, Advance
<1>9. InspectHolds'
  BY <1>1, Names DEF Chained, Holds, InspectHolds, PromoteQuarantine, Advance, Locked, FilesTyped, Founded, LockFounded
<1>10. PrepareHolds'
  BY <1>1, Names DEF Chained, Holds, PrepareHolds, PromoteQuarantine, Advance
<1>11. CacheHolds'
  BY <1>1, Names DEF Chained, Holds, CacheHolds, PromoteQuarantine, Advance
<1>. QED
  BY <1>2, <1>3, <1>4, <1>5, <1>6, <1>7, <1>8, <1>9, <1>10, <1>11 DEF Chained, Founded, Holds

(* The inspection is of the locked archive.                                 *)
LEMMA WriteInspectionStep ==
  ASSUME Chained, WriteInspection
  PROVE  Chained'
<1>1. /\ \A g : InPlace(g)' <=> InPlace(g) \/ g = Inspection
      /\ disk'[Inspection] = Source
      /\ \A g : InPlace(g) /\ g # Inspection => disk'[g] = disk[g]
  BY PutFile DEF WriteInspection
<1>2. FilesTyped'
  BY DataConstants DEF Chained, FilesTyped, WriteInspection, Advance
<1>3. LockFounded'
  BY <1>1, Names DEF Chained, Founded, LockFounded, WriteInspection, Trusted
<1>4. CandidateFounded'
  BY <1>1, Names DEF Chained, Founded, CandidateFounded, WriteInspection
<1>5. InspectionFounded'
  BY <1>1, Names DEF Chained, Founded, InspectionFounded, WriteInspection, Holds, InspectHolds, Locked, Source
<1>6. PreparationFounded'
  BY <1>1, Names DEF Chained, Founded, PreparationFounded, WriteInspection, Holds, InspectHolds, InspectionFounded
<1>7. CacheFounded'
  BY <1>1, Names DEF Chained, Founded, CacheFounded, WriteInspection, PreparationFounded, InspectionFounded, Holds, InspectHolds
<1>8. FetchHolds'
  BY <1>1, Names DEF Chained, Holds, FetchHolds, WriteInspection, Advance
<1>9. InspectHolds'
  BY <1>1, Names DEF Chained, Holds, InspectHolds, WriteInspection, Advance, Locked, FilesTyped, Founded, LockFounded
<1>10. PrepareHolds'
  BY <1>1, Names DEF Chained, Holds, PrepareHolds, WriteInspection, Advance
<1>11. CacheHolds'
  BY <1>1, Names DEF Chained, Holds, CacheHolds, WriteInspection, Advance
<1>. QED
  BY <1>2, <1>3, <1>4, <1>5, <1>6, <1>7, <1>8, <1>9, <1>10, <1>11 DEF Chained, Founded, Holds

(* The three promotions are the files the manifest lists, in this order.    *)
LEMMA PromotionOrder ==
  /\ Len(Promotions) = 3
  /\ Promotions[1] = Features /\ Promotions[2] = Truth /\ Promotions[3] = Rejected
BY DEF Promotions

(* A promotion replaces no file a published manifest lists.                 *)
LEMMA PromoteNextStep ==
  ASSUME Chained, PromoteNext
  PROVE  Chained'
<1>1. /\ \A g : InPlace(g)' <=> InPlace(g) \/ g = Promotions[at + 1]
      /\ disk'[Promotions[at + 1]] = work[at + 1]
      /\ \A g : InPlace(g) /\ g # Promotions[at + 1] => disk'[g] = disk[g]
  BY PutFile DEF PromoteNext
<1>2. FilesTyped'
  BY DataConstants DEF Chained, FilesTyped, PromoteNext, Advance
<1>3. LockFounded'
  BY <1>1, Names, PromotionOrder DEF Chained, Founded, LockFounded, PromoteNext, Trusted, FilesTyped
<1>4. CandidateFounded'
  BY <1>1, Names, PromotionOrder DEF Chained, Founded, CandidateFounded, PromoteNext, FilesTyped
<1>5. InspectionFounded'
  BY <1>1, Names, PromotionOrder DEF Chained, Founded, InspectionFounded, PromoteNext, FilesTyped
<1>6. PreparationFounded'
  BY <1>1, Names, PromotionOrder DEF Chained, Founded, PreparationFounded, PromoteNext, Holds, PrepareHolds, FilesTyped
<1>7. CacheFounded'
  BY <1>1, Names, PromotionOrder DEF Chained, Founded, CacheFounded, PromoteNext, PreparationFounded, Holds, PrepareHolds, FilesTyped
<1>8. FetchHolds'
  BY <1>1, Names, PromotionOrder DEF Chained, Holds, FetchHolds, PromoteNext, Advance
<1>9. InspectHolds'
  BY <1>1, Names, PromotionOrder DEF Chained, Holds, InspectHolds, PromoteNext, Advance
<1>10. PrepareHolds'
  BY <1>1, Names, PromotionOrder DEF Chained, Holds, PrepareHolds, PromoteNext, Advance, Locked, FilesTyped, Founded, LockFounded, InspectionFounded
<1>11. CacheHolds'
  BY <1>1, Names, PromotionOrder DEF Chained, Holds, CacheHolds, PromoteNext, Advance
<1>. QED
  BY <1>2, <1>3, <1>4, <1>5, <1>6, <1>7, <1>8, <1>9, <1>10, <1>11 DEF Chained, Founded, Holds

(* The manifest is published over the three promoted stores.                *)
LEMMA PublishPreparationStep ==
  ASSUME Chained, PublishPreparation
  PROVE  Chained'
<1>1. /\ \A g : InPlace(g)' <=> InPlace(g) \/ g = Preparation
      /\ disk'[Preparation] = work
      /\ \A g : InPlace(g) /\ g # Preparation => disk'[g] = disk[g]
  BY PutFile DEF PublishPreparation
<1>2. FilesTyped'
  BY DataConstants DEF Chained, FilesTyped, PublishPreparation, Advance
<1>3. LockFounded'
  BY <1>1, Names, PromotionOrder DEF Chained, Founded, LockFounded, PublishPreparation, Trusted
<1>4. CandidateFounded'
  BY <1>1, Names, PromotionOrder DEF Chained, Founded, CandidateFounded, PublishPreparation
<1>5. InspectionFounded'
  BY <1>1, Names, PromotionOrder DEF Chained, Founded, InspectionFounded, PublishPreparation
<1>6. PreparationFounded'
  BY <1>1, Names, PromotionOrder DEF Chained, Founded, PreparationFounded, PublishPreparation, Holds, PrepareHolds, InspectionFounded, Locked
<1>7. CacheFounded'
  BY <1>1, Names, PromotionOrder DEF Chained, Founded, CacheFounded, PublishPreparation, Holds, PrepareHolds
<1>8. FetchHolds'
  BY <1>1, Names, PromotionOrder DEF Chained, Holds, FetchHolds, PublishPreparation, Advance
<1>9. InspectHolds'
  BY <1>1, Names, PromotionOrder DEF Chained, Holds, InspectHolds, PublishPreparation, Advance
<1>10. PrepareHolds'
  BY <1>1, Names, PromotionOrder DEF Chained, Holds, PrepareHolds, PublishPreparation, Advance, Locked, FilesTyped, Founded, LockFounded, InspectionFounded
<1>11. CacheHolds'
  BY <1>1, Names, PromotionOrder DEF Chained, Holds, CacheHolds, PublishPreparation, Advance
<1>. QED
  BY <1>2, <1>3, <1>4, <1>5, <1>6, <1>7, <1>8, <1>9, <1>10, <1>11 DEF Chained, Founded, Holds

(* A part is written from the verified features.                            *)
LEMMA WritePartStep ==
  ASSUME Chained, WritePart
  PROVE  Chained'
<1>1. /\ \A g : InPlace(g)' <=> InPlace(g) \/ g = Part(work[1], at + 1)
      /\ disk'[Part(work[1], at + 1)] = disk[Features]
      /\ \A g : InPlace(g) /\ g # Part(work[1], at + 1) => disk'[g] = disk[g]
  BY PutFile DEF WritePart
<1>2. FilesTyped'
  BY DataConstants DEF Chained, FilesTyped, WritePart, Advance
<1>3. LockFounded'
  BY <1>1, Names DEF Chained, Founded, LockFounded, WritePart, Trusted
<1>4. CandidateFounded'
  BY <1>1, Names DEF Chained, Founded, CandidateFounded, WritePart
<1>5. InspectionFounded'
  BY <1>1, Names DEF Chained, Founded, InspectionFounded, WritePart
<1>6. PreparationFounded'
  BY <1>1, Names DEF Chained, Founded, PreparationFounded, WritePart, InspectionFounded
<1>7. CacheFounded'
  BY <1>1, Names DEF Chained, Founded, CacheFounded, WritePart, PreparationFounded, InspectionFounded
<1>8. FetchHolds'
  BY <1>1, Names DEF Chained, Holds, FetchHolds, WritePart, Advance
<1>9. InspectHolds'
  BY <1>1, Names DEF Chained, Holds, InspectHolds, WritePart, Advance
<1>10. PrepareHolds'
  BY <1>1, Names DEF Chained, Holds, PrepareHolds, WritePart, Advance
<1>11. CacheHolds'
  BY <1>1, Names DEF Chained, Holds, CacheHolds, WritePart, Advance, FilesTyped, Founded, PreparationFounded, InspectionFounded
<1>. QED
  BY <1>2, <1>3, <1>4, <1>5, <1>6, <1>7, <1>8, <1>9, <1>10, <1>11 DEF Chained, Founded, Holds

(* The cache's manifest is published over all its parts.                    *)
LEMMA PublishCacheStep ==
  ASSUME Chained, PublishCache
  PROVE  Chained'
<1>1. /\ \A g : InPlace(g)' <=> InPlace(g) \/ g = CacheManifest(work[1])
      /\ disk'[CacheManifest(work[1])] = disk[Features]
      /\ \A g : InPlace(g) /\ g # CacheManifest(work[1]) => disk'[g] = disk[g]
  BY PutFile DEF PublishCache
<1>2. FilesTyped'
  BY DataConstants DEF Chained, FilesTyped, PublishCache, Advance
<1>3. LockFounded'
  BY <1>1, Names DEF Chained, Founded, LockFounded, PublishCache, Trusted
<1>4. CandidateFounded'
  BY <1>1, Names DEF Chained, Founded, CandidateFounded, PublishCache
<1>5. InspectionFounded'
  BY <1>1, Names DEF Chained, Founded, InspectionFounded, PublishCache
<1>6. PreparationFounded'
  BY <1>1, Names DEF Chained, Founded, PreparationFounded, PublishCache, InspectionFounded
<1>7. CacheFounded'
  BY <1>1, Names DEF Chained, Founded, CacheFounded, PublishCache, PreparationFounded, InspectionFounded, Holds, CacheHolds, FilesTyped
<1>8. FetchHolds'
  BY <1>1, Names DEF Chained, Holds, FetchHolds, PublishCache, Advance
<1>9. InspectHolds'
  BY <1>1, Names DEF Chained, Holds, InspectHolds, PublishCache, Advance
<1>10. PrepareHolds'
  BY <1>1, Names DEF Chained, Holds, PrepareHolds, PublishCache, Advance
<1>11. CacheHolds'
  BY <1>1, Names DEF Chained, Holds, CacheHolds, PublishCache, Advance, FilesTyped, Founded, PreparationFounded, InspectionFounded
<1>. QED
  BY <1>2, <1>3, <1>4, <1>5, <1>6, <1>7, <1>8, <1>9, <1>10, <1>11 DEF Chained, Founded, Holds

(* A rollback takes back nothing a published manifest lists.                *)
LEMMA FailStep ==
  ASSUME Chained, Fail
  PROVE  Chained'
<1>a. /\ RolledBack \subseteq {Quarantine, Features, Truth, Rejected}
      /\ Quarantine \in RolledBack => ~InPlace(Inspection)
      /\ RolledBack # {} => ~InPlace(Preparation)
  BY Names, PromotionOrder DEF Fail, RolledBack, Store, Chained, FilesTyped, Holds, InspectHolds, PrepareHolds,
     Founded, PreparationFounded
<1>b. disk' = Without(RolledBack)
  BY DEF Fail
<1>c. /\ \A g : InPlace(g)' <=> InPlace(g) /\ g \notin RolledBack
      /\ \A g : InPlace(g) /\ g \notin RolledBack => disk'[g] = disk[g]
  BY <1>b, WithoutFiles
<1>1. /\ \A g : InPlace(g)' => InPlace(g) /\ disk'[g] = disk[g]
      /\ \A g : InPlace(g) /\ g \notin {Quarantine, Features, Truth, Rejected} => InPlace(g)'
      /\ InPlace(Inspection) /\ InPlace(Quarantine) => InPlace(Quarantine)'
      /\ InPlace(Preparation) => \A g : InPlace(g) => InPlace(g)'
  BY <1>a, <1>c
<1>2. FilesTyped'
  BY DataConstants DEF Chained, FilesTyped, Fail, End
<1>3. LockFounded'
  BY <1>1, Names DEF Chained, Founded, LockFounded, Fail, Trusted
<1>4. CandidateFounded'
  BY <1>1, Names DEF Chained, Founded, CandidateFounded, Fail
<1>5. InspectionFounded'
  BY <1>1, Names DEF Chained, Founded, InspectionFounded, Fail
<1>6. PreparationFounded'
  BY <1>1, Names DEF Chained, Founded, PreparationFounded, Fail, InspectionFounded
<1>7. CacheFounded'
  BY <1>1, Names DEF Chained, Founded, CacheFounded, Fail, PreparationFounded, InspectionFounded
<1>8. Holds'
  BY HoldsNothing DEF Fail, End
<1>. QED
  BY <1>2, <1>3, <1>4, <1>5, <1>6, <1>7, <1>8 DEF Chained, Founded

(* Damage spares the manifests and meets no running command.                *)
LEMMA DamageStep ==
  ASSUME Chained, Damage
  PROVE  Chained'
<1>b. PICK f \in DataFiles \cap DOMAIN disk : disk' = [disk EXCEPT ![f] = Rot]
  BY DEF Damage
<1>1. /\ \A g : InPlace(g)' <=> InPlace(g)
      /\ disk'[f] = Rot
      /\ \A g : InPlace(g) /\ g # f => disk'[g] = disk[g]
  BY <1>b DEF InPlace
<1>a. /\ f \notin {ArtifactLock, Candidate, Inspection, Preparation}
      /\ \A p : f # CacheManifest(p)
  BY <1>b, Names DEF DataFiles, Store, PartsOf
<1>2. FilesTyped'
  BY DataConstants DEF Chained, FilesTyped, Damage, command
<1>3. LockFounded'
  BY <1>1, Names, <1>a DEF Chained, Founded, LockFounded, Damage, Trusted
<1>4. CandidateFounded'
  BY <1>1, Names, <1>a DEF Chained, Founded, CandidateFounded, Damage
<1>5. InspectionFounded'
  BY <1>1, Names, <1>a DEF Chained, Founded, InspectionFounded, Damage
<1>6. PreparationFounded'
  BY <1>1, Names, <1>a DEF Chained, Founded, PreparationFounded, Damage, InspectionFounded
<1>7. CacheFounded'
  BY <1>1, Names, <1>a DEF Chained, Founded, CacheFounded, Damage, PreparationFounded, InspectionFounded
<1>8. Holds'
  BY HoldsNothing DEF Damage, Idle, command
<1>. QED
  BY <1>2, <1>3, <1>4, <1>5, <1>6, <1>7, <1>8 DEF Chained, Founded

(* Every other step leaves the files; a command begins with what it checked *)
(* and ends with nothing.                                                   *)
LEMMA InspectStep ==
  ASSUME Chained, Inspect
  PROVE  Chained'
<1>1. FilesTyped'
  BY DEF Chained, FilesTyped, Inspect, Begin
<1>2. Founded'
  BY FoundedStays DEF Chained, Inspect
<1>3. Holds'
  BY DEF Inspect, Begin, Locked, InPlace, Holds, FetchHolds, InspectHolds, PrepareHolds, CacheHolds
<1>. QED
  BY <1>1, <1>2, <1>3 DEF Chained

(* The staged stores are of the locked archive, the rejected rows of the    *)
(* report as it is.                                                         *)
LEMMA PrepareStep ==
  ASSUME Chained, Prepare
  PROVE  Chained'
<1>1. FilesTyped'
  BY DEF Chained, FilesTyped, Prepare, Begin
<1>2. Founded'
  BY FoundedStays DEF Chained, Prepare
<1>3. FetchHolds' /\ InspectHolds' /\ CacheHolds'
  BY DEF Prepare, Begin, FetchHolds, InspectHolds, CacheHolds
<1>4. /\ Locked' /\ InPlace(Inspection)' /\ ~InPlace(Preparation)'
      /\ work' = <<disk[ArtifactLock], disk[ArtifactLock], disk[Quarantine]>>
  BY DEF Prepare, Begin, Locked, Source, InPlace
<1>5. PrepareHolds'
  BY <1>4 DEF Prepare, Begin, PrepareHolds
<1>. QED
  BY <1>1, <1>2, <1>3, <1>5 DEF Chained, Holds

(* A verified inventory has the features of the locked archive.             *)
LEMMA BuildCacheStep ==
  ASSUME Chained, NEW p \in Policies, BuildCache(p)
  PROVE  Chained'
<1>1. FilesTyped'
  BY DEF Chained, FilesTyped, BuildCache, Begin
<1>2. Founded'
  BY FoundedStays DEF Chained, BuildCache
<1>3. FetchHolds' /\ InspectHolds' /\ PrepareHolds'
  BY DEF BuildCache, Begin, FetchHolds, InspectHolds, PrepareHolds
<1>4. InPlace(Preparation) /\ disk[Features] = disk[ArtifactLock]
  BY PromotionOrder DEF BuildCache, InventoryVerified, Chained, Founded, PreparationFounded
<1>5. CacheHolds'
  BY <1>4 DEF BuildCache, Begin, CacheHolds, InPlace
<1>. QED
  BY <1>1, <1>2, <1>3, <1>5 DEF Chained, Holds

(* The end of a command, as intended or not.                                *)
LEMMA EndStep ==
  ASSUME Chained, Finish \/ Crash \/ Interrupt
  PROVE  Chained'
<1>1. FilesTyped'
  BY DEF Chained, FilesTyped, Finish, Crash, Interrupt, End
<1>2. Founded'
  BY FoundedStays DEF Chained, Finish, Crash, Interrupt
<1>3. Holds'
  BY HoldsNothing DEF Finish, Crash, Interrupt, End
<1>. QED
  BY <1>1, <1>2, <1>3 DEF Chained

(* The server's offer is nothing the local files depend on.                 *)
LEMMA ChangeRemoteStep ==
  ASSUME Chained, ChangeRemote \/ UNCHANGED pipelineVars
  PROVE  Chained'
<1>1. FilesTyped'
  BY DEF Chained, FilesTyped, ChangeRemote, command, pipelineVars
<1>2. Founded'
  BY FoundedStays DEF Chained, ChangeRemote, pipelineVars
<1>3. UNCHANGED <<disk, configured, reviewed, cmd, at, work>>
  BY DEF ChangeRemote, command, pipelineVars
<1>4. Holds'
  BY <1>3 DEF Chained, Holds, FetchHolds, InspectHolds, PrepareHolds, CacheHolds, Locked, InPlace
<1>. QED
  BY <1>1, <1>2, <1>4 DEF Chained

(* The invariant is kept by every step.                                     *)
THEOREM Keeps == Chained /\ [PipelineNext]_pipelineVars => Chained'
<1> SUFFICES ASSUME Chained, [PipelineNext]_pipelineVars PROVE Chained'
  OBVIOUS
<1>1. CASE \E d \in Approved : Review(d) \/ Download({d})
  BY <1>1, ReviewStep, DownloadStep
<1>2. CASE Download({})
  BY <1>2, DownloadStep
<1>3. CASE Inspect
  BY <1>3, InspectStep
<1>4. CASE Prepare
  BY <1>4, PrepareStep
<1>5. CASE \E p \in Policies : BuildCache(p)
  BY <1>5, BuildCacheStep
<1>6. CASE CommandStep
  BY <1>6, SettleStep, PromoteQuarantineStep, WriteInspectionStep, PromoteNextStep,
     PublishPreparationStep, WritePartStep, PublishCacheStep, EndStep DEF CommandStep
<1>7. CASE Crash \/ Interrupt
  BY <1>7, EndStep
<1>8. CASE Fail
  BY <1>8, FailStep
<1>9. CASE ChangeRemote \/ UNCHANGED pipelineVars
  BY <1>9, ChangeRemoteStep
<1>10. CASE Damage
  BY <1>10, DamageStep
<1>. QED
  BY <1>1, <1>2, <1>3, <1>4, <1>5, <1>6, <1>7, <1>8, <1>9, <1>10 DEF PipelineNext

(* The invariant holds throughout.                                          *)
LEMMA InvariantCorrect == PipelineSpec => []Chained
BY Establishes, Keeps, PTL DEF PipelineSpec

(* A store that is accepted was made from the archive the lock names: the   *)
(* two verifications tie each file to a manifest and each manifest to the   *)
(* lock, the rejected rows by way of the report they were copied from.      *)
LEMMA AcceptedFromLock ==
  ASSUME Chained, NEW p \in Policies, Usable(p)
  PROVE  \A f \in {Inspection, Quarantine} \cup Store \cup PartsOf(p) :
           disk[f] = disk[ArtifactLock]
<1>1. /\ InPlace(Preparation) /\ InPlace(Inspection)
      /\ disk[Quarantine] = disk[Inspection]
      /\ disk[Inspection] = disk[ArtifactLock]
      /\ disk[ArtifactLock] \in Contents
  BY DEF Usable, InventoryVerified, ControlFiles, Chained, Founded, InspectionFounded, LockFounded
<1>2. disk[Quarantine] # Rot
  BY <1>1, DataConstants
<1>3. /\ disk[Features] = disk[ArtifactLock]
      /\ disk[Truth] = disk[ArtifactLock]
      /\ disk[Rejected] = disk[ArtifactLock]
  BY <1>1, <1>2, PromotionOrder DEF Usable, InventoryVerified, Chained, Founded, PreparationFounded
<1>4. \A f \in PartsOf(p) : disk[f] = disk[ArtifactLock]
  BY DEF Usable, CacheVerified, Chained, Founded, CacheFounded
<1>. QED
  BY <1>1, <1>3, <1>4 DEF Store

(* Every lock is of a configured or reviewed digest, and whatever a run     *)
(* accepts was made from that archive, for every set of archives, policies  *)
(* and partitions and every number of changes, kills, failures and damages. *)
THEOREM ChainCorrect == PipelineSpec => []EvidenceChain
<1>1. Chained => EvidenceChain
  BY AcceptedFromLock DEF Chained, Founded, LockFounded, EvidenceChain
<1>. QED
  BY <1>1, InvariantCorrect, PTL

(* No manifest, and no lock, is ever in place without the files it lists.   *)
THEOREM ManifestsCorrect == PipelineSpec => []ManifestsLast
<1>1. Chained => ManifestsLast
  BY DEF Chained, Founded, LockFounded, InspectionFounded, PreparationFounded, CacheFounded,
     ManifestsLast, Store, PartsOf, InPlace
<1>. QED
  BY <1>1, InvariantCorrect, PTL

-----------------------------------------------------------------------------
(* The labels (DelayedMethods).                                             *)

At(c) == AvailableAt(delay, c)
Late(c) == delay[c] > Wait
Settles == method \in {"complete_wait", "es_dfm"}
Spending == {"credit", "insufficient", "done"}

Typed ==
  /\ method \in Methods
  /\ clickTime \in [Clicks -> ClickTimes] /\ delay \in [Clicks -> Delays]
  /\ now \in Decisions /\ last \in Decisions \cup {-1}
  /\ pc \in {"clicks", "truth"} \cup Spending
  /\ clicked \in 0 .. NumClicks
  /\ revealed \subseteq Clicks /\ provisional \subseteq Clicks /\ settled \subseteq Clicks

FixtureTrue ==
  /\ Chronological(clickTime)
  /\ AllowTies \/ ~Tied(clickTime, delay)

Paced == IF pc = "done" THEN last = now ELSE last < now

(* Nothing is held before its time.                                        *)
Within ==
  /\ \A c \in Registered : clickTime[c] <= now
  /\ \A c \in revealed : At(c) <= now
  /\ \A c \in provisional : Fixed /\ Due(c) <= now
  /\ \A c \in settled : c \in revealed /\ Maturity(c) <= now

(* All of time t was delivered.                                            *)
Heard(t) == \A c \in Clicks : clickTime[c] <= t => c \in Registered
Complete(t) ==
  /\ Heard(t)
  /\ \A c \in Clicks : At(c) <= t => c \in revealed
  /\ Fixed => \A c \in Clicks : Late(c) /\ Due(c) <= t => c \in provisional
  /\ Settles => \A c \in Clicks : Maturity(c) <= t => c \in settled

Delivered ==
  /\ Complete(last)
  /\ pc = "truth" => Heard(now)
  /\ pc \in Spending => Complete(now)

(* What a late conversion corrects was sent, and nothing early was.        *)
Corrected ==
  /\ Fixed => \A c \in Positive(revealed) : Late(c) => c \in provisional
  /\ ~AllowTies => \A c \in provisional : Late(c)

Correction(c) == Record(c, "correction", 1, At(c))
Early(c) == Record(c, "early-positive", 1, At(c))

Pools ==
  /\ method = "complete_wait" => pool = Finals(settled)
  /\ method = "immediate_fake_negative" =>
       pool = {Record(c, "provisional", 0, clickTime[c]) : c \in Registered}
              \cup {Correction(c) : c \in Positive(revealed)}
  /\ Fixed =>
       pool = Provisionals(provisional)
              \cup {Correction(c) : c \in {b \in Positive(revealed) : Late(b)}}
              \cup {Early(c) : c \in {b \in Positive(revealed) : ~Late(b)}}
  /\ method = "dfm" => pool = {Record(c, "current", 0, clickTime[c]) : c \in Registered}
  /\ method = "oracle_reference" =>
       pool = {Record(c, "privileged-final", Label(c), clickTime[c]) : c \in Registered}
  /\ auxiliary = IF method = "es_dfm" THEN AuxiliaryOf(settled) ELSE {}

IInv == Typed /\ FixtureTrue /\ Paced /\ Within /\ Delivered /\ Corrected /\ Pools

-----------------------------------------------------------------------------
(* Facts about times, records and decisions.                               *)

(* A record is what it was made of.                                        *)
LEMMA RecordFields ==
  ASSUME NEW c, NEW kind, NEW target, NEW when
  PROVE  /\ Record(c, kind, target, when).click = c
         /\ Record(c, kind, target, when).kind = kind
         /\ Record(c, kind, target, when).target = target
         /\ Record(c, kind, target, when).at = when
  BY DEF Record

(* Every time of a click is a number, and they come in the order click,    *)
(* truth, maturity.                                                        *)
LEMMA Times ==
  ASSUME Typed, NEW c \in Clicks
  PROVE  /\ c \in Nat /\ delay[c] \in Delays /\ delay[c] \in Nat
         /\ clickTime[c] \in Nat /\ At(c) \in Nat /\ Due(c) \in Nat /\ Maturity(c) \in Nat
         /\ clickTime[c] <= At(c) /\ At(c) <= Maturity(c)
         /\ clickTime[c] <= Due(c) /\ Due(c) < Maturity(c)
         /\ Converts(delay, c) => At(c) = clickTime[c] + delay[c]
         /\ ~Converts(delay, c) => At(c) = Maturity(c) /\ Late(c)
         /\ Late(c) <=> At(c) > Due(c)
<1>1. /\ c \in Nat /\ delay[c] \in Delays /\ delay[c] \in Nat /\ clickTime[c] \in Nat
      /\ Wait \in Nat /\ Window \in Nat /\ Wait < Window
      /\ delay[c] <= Window \/ delay[c] = Never
  <2>1. clickTime[c] \in ClickTimes /\ delay[c] \in Delays
    BY DEF Typed
  <2>2. c \in Nat
    BY DEF Clicks
  <2>3. Window \in Nat /\ Wait \in Nat /\ Wait < Window /\ ClickTimes \subseteq Nat
    BY StreamConstants
  <2>4. delay[c] \in Nat /\ (delay[c] <= Window \/ delay[c] = Never)
    BY <2>1, <2>3 DEF Delays, Never
  <2> QED
    BY <2>1, <2>2, <2>3, <2>4
<1> QED
  BY <1>1 DEF Never, At, Due, Maturity, Late, Converts, AvailableAt

(* Decisions are numbers after the first, and the next one is a decision.  *)
LEMMA DecisionTimes ==
  ASSUME NEW t \in Decisions
  PROVE  /\ t \in Nat /\ t > 0
         /\ t # LastDecision => t + Day \in Decisions
<1> USE StreamConstants
<1>1. PICK k \in 0 .. Credits - 1 : t = FirstDecision + k * Day
  BY DEF Decisions
<1> DEFINE d == k * Day
<1>2. d \in Nat
  BY <1>1
<1>3. t \in Nat /\ t > 0
  BY <1>1, <1>2
<1>4. ASSUME t # LastDecision
      PROVE  t + Day \in Decisions
  <2>1. k + 1 \in 0 .. Credits - 1
    BY <1>1, <1>4 DEF LastDecision
  <2>2. (k + 1) * Day = d + Day
    BY <1>1
  <2>3. t + Day = FirstDecision + (k + 1) * Day
    BY <1>1, <1>2, <2>2
  <2> QED
    BY <2>1, <2>3 DEF Decisions
<1> QED
  BY <1>3, <1>4

LEMMA Registration ==
  ASSUME Typed
  PROVE  Registered \subseteq Clicks /\ \A c \in Clicks : c \in Registered <=> c < clicked
<1>1. clicked \in Nat /\ clicked <= NumClicks /\ NumClicks \in Nat
  BY StreamConstants DEF Typed
<1> QED
  BY <1>1 DEF Registered, Clicks

(* A nonempty set of numbers has a least.                                  *)
LEMMA LeastNatural ==
  ASSUME NEW S, S \subseteq Nat, S # {}
  PROVE  \E m \in S : \A n \in S : m <= n
<1> DEFINE R == {ss \in Nat \X Nat : ss[1] < ss[2]}
<1>1. IsWellFoundedOn(R, Nat)
  BY NatLessThanWellFounded DEF OpToRel
<1> HIDE DEF R
<1>2. PICK m \in S : \A y \in S : ~(<<y, m>> \in R)
  BY <1>1, WFMin
<1>3. \A n \in S : ~(n < m)
  BY <1>2 DEF R
<1> QED
  BY <1>3

(* When no truth is next, all that is available was revealed: among what   *)
(* is left there is one whose time is least, and the least click of those. *)
LEMMA NothingLeft ==
  ASSUME Typed, \A c \in Clicks : ~IsNextTruth(c)
  PROVE  \A c \in Clicks : At(c) <= now => c \in revealed
<1> SUFFICES ASSUME NEW e \in Clicks, At(e) <= now, e \notin revealed
             PROVE  FALSE
  OBVIOUS
<1> DEFINE Left == Clicks \ revealed
           Hours == {At(c) : c \in Left}
<1>1. \A c \in Left : c \in Nat /\ At(c) \in Nat
  BY Times
<1>2. e \in Left /\ At(e) \in Hours
  OBVIOUS
<1>3. Hours \subseteq Nat
  BY <1>1
<1>4. PICK h \in Hours : \A n \in Hours : h <= n
  <2> HIDE DEF Hours
  <2> QED
    BY <1>2, <1>3, LeastNatural
<1> DEFINE Firsts == {c \in Left : At(c) = h}
<1>5. Firsts \subseteq Nat /\ Firsts # {}
  BY <1>1, <1>4
<1>6. PICK c \in Firsts : \A n \in Firsts : c <= n
  <2> HIDE DEF Firsts
  <2> QED
    BY <1>5, LeastNatural
<1>7. c \in Left /\ At(c) = h /\ c \in Nat
  BY <1>1, <1>6
<1>8. now \in Nat
  BY DecisionTimes DEF Typed
<1>9. At(c) <= now
  BY <1>1, <1>2, <1>4, <1>7, <1>8
<1>10. ASSUME NEW b \in Left, b # c
       PROVE  Before(c, b)
  <2>1. h <= At(b)
    BY <1>4, <1>10
  <2>2. CASE At(b) = h
    <3>1. c <= b /\ b \in Nat
      BY <1>1, <1>6, <1>10, <2>2
    <3> QED
      BY <1>7, <1>10, <2>2, <3>1 DEF Before, At
  <2>3. CASE At(b) # h
    <3>1. At(b) \in Nat /\ h \in Nat
      BY <1>1, <1>7, <1>10
    <3> QED
      BY <1>7, <2>1, <2>3, <3>1 DEF Before, At
  <2> QED
    BY <2>2, <2>3
<1>11. IsNextTruth(c)
  BY <1>7, <1>9, <1>10 DEF IsNextTruth, At
<1> QED
  BY <1>7, <1>11

-----------------------------------------------------------------------------
(* What a call of the sampler does, and what no step touches.              *)

LEMMA Admitted ==
  ASSUME NEW rs, NEW next, AddToSampler(rs, next), ~Refused(rs)
  PROVE  pool' = pool \cup rs /\ pc' = next
  BY DEF AddToSampler

(* A set is admitted when all of it is legal and its ids are new.          *)
LEMMA Admissible ==
  ASSUME NEW rs, \A r \in rs : ~(r.at > now),
         \A r \in rs, p \in pool : p.click # r.click \/ p.kind # r.kind
  PROVE  ~Refused(rs)
  BY DEF Refused

(* The fixture is the same after every step, and so are its times.         *)
LEMMA FixtureKept ==
  ASSUME UNCHANGED fixture
  PROVE  /\ method' = method /\ clickTime' = clickTime /\ delay' = delay
         /\ \A c : /\ At(c)' = At(c) /\ Due(c)' = Due(c) /\ Maturity(c)' = Maturity(c)
                   /\ Late(c)' = Late(c) /\ Label(c)' = Label(c)
                   /\ Correction(c)' = Correction(c) /\ Early(c)' = Early(c)
         /\ Fixed' = Fixed /\ Settles' = Settles
         /\ FixtureTrue => FixtureTrue'
<1>1. method' = method /\ clickTime' = clickTime /\ delay' = delay
  BY DEF fixture
<1>2. \A c : At(c)' = At(c) /\ Due(c)' = Due(c) /\ Maturity(c)' = Maturity(c)
             /\ Late(c)' = Late(c) /\ Label(c)' = Label(c)
  BY <1>1 DEF At, AvailableAt, Due, Maturity, Late, Label
<1>3. \A c : Correction(c)' = Correction(c) /\ Early(c)' = Early(c)
  BY <1>2 DEF Correction, Early
<1>4. Fixed' = Fixed /\ Settles' = Settles
  BY <1>1 DEF Fixed, Settles
<1>5. FixtureTrue => FixtureTrue'
  BY <1>1 DEF FixtureTrue
<1> QED
  BY <1>1, <1>2, <1>3, <1>4, <1>5

-----------------------------------------------------------------------------
(* A click: its record is new, because only clicks delivered before have   *)
(* any.                                                                    *)

LEMMA ClickAdmitted ==
  ASSUME IInv, NEW c \in Clicks, c \notin Registered, clickTime[c] <= now
  PROVE  ~Refused(AtClick(c))
<1>1. clickTime[c] \in Nat /\ now \in Nat
  BY Times, DecisionTimes DEF IInv, Typed
<1>2. \A r \in AtClick(c) : r.click = c /\ r.at = clickTime[c]
                            /\ r.kind \notin {"correction", "early-positive"}
  BY RecordFields DEF AtClick
<1>3. ASSUME AtClick(c) # {}
      PROVE  \A p \in pool : p.click # c \/ p.kind \in {"correction", "early-positive"}
  <2>1. method \in {"immediate_fake_negative", "dfm", "oracle_reference"}
    BY <1>3 DEF AtClick
  <2>2. CASE method = "immediate_fake_negative"
    BY <2>2, RecordFields DEF IInv, Pools, Correction
  <2>3. CASE method = "dfm"
    BY <2>3, RecordFields DEF IInv, Pools
  <2>4. CASE method = "oracle_reference"
    BY <2>4, RecordFields DEF IInv, Pools
  <2> QED
    BY <2>1, <2>2, <2>3, <2>4
<1> QED
  BY <1>1, <1>2, <1>3, Admissible

LEMMA DeliverClickKeeps ==
  ASSUME IInv, DeliverClick
  PROVE  IInv'
<1>1. UNCHANGED fixture /\ UNCHANGED <<now, last, revealed, provisional, settled, auxiliary>>
      /\ clicked < NumClicks /\ clickTime[clicked] <= now /\ clicked' = clicked + 1
      /\ AddToSampler(AtClick(clicked), "clicks") /\ pc = "clicks"
  <2>1. ~ClickRefused(clicked)
    BY DEF ClickRefused, Registered, IInv, Typed
  <2> QED
    BY <2>1 DEF DeliverClick, Arrived
<1>2. clicked \in Clicks /\ clicked \notin Registered /\ clicked' \in 0 .. NumClicks
      /\ Registered' = Registered \cup {clicked}
  <2>1. clicked \in Nat /\ NumClicks \in Nat
    BY StreamConstants DEF IInv, Typed
  <2> QED
    BY <1>1, <2>1 DEF Clicks, Registered
<1>3. pool' = pool \cup AtClick(clicked) /\ pc' = "clicks"
  BY <1>1, <1>2, ClickAdmitted, Admitted
<1>4. method' = method /\ clickTime' = clickTime /\ delay' = delay
      /\ Fixed' = Fixed /\ Settles' = Settles /\ FixtureTrue'
  BY <1>1, FixtureKept DEF IInv
<1>5. \A c : /\ At(c)' = At(c) /\ Due(c)' = Due(c) /\ Maturity(c)' = Maturity(c)
             /\ Late(c)' = Late(c) /\ Label(c)' = Label(c)
             /\ Correction(c)' = Correction(c) /\ Early(c)' = Early(c)
  BY <1>1, FixtureKept
<1>6. Typed' /\ Paced'
  BY <1>1, <1>2, <1>3, <1>4 DEF IInv, Typed, Paced
<1>7. Within'
  BY <1>1, <1>2, <1>4, <1>5 DEF IInv, Within
<1>8. Delivered'
  BY <1>1, <1>2, <1>3, <1>4, <1>5 DEF IInv, Delivered, Complete, Heard, Spending
<1>9. Corrected'
  BY <1>1, <1>4, <1>5 DEF IInv, Corrected, Positive
<1>10. Pools'
  <2>1. method \in AllMethods
    BY StreamConstants DEF IInv, Typed
  <2>2. auxiliary' = IF method' = "es_dfm" THEN AuxiliaryOf(settled)' ELSE {}
    BY <1>1, <1>4 DEF IInv, Pools, AuxiliaryOf, Record, Label, Maturity
  <2>3. CASE method = "complete_wait"
    BY <1>1, <1>3, <1>4, <1>5, <2>2, <2>3 DEF IInv, Pools, AtClick, Finals, Fixed
  <2>4. CASE method = "immediate_fake_negative"
    BY <1>1, <1>2, <1>3, <1>4, <1>5, <2>2, <2>4 DEF IInv, Pools, AtClick, Positive, Fixed
  <2>5. CASE Fixed
    BY <1>1, <1>3, <1>4, <1>5, <2>2, <2>5 DEF IInv, Pools, AtClick, Provisionals, Positive, Fixed
  <2>6. CASE method = "dfm"
    BY <1>1, <1>2, <1>3, <1>4, <1>5, <2>2, <2>6 DEF IInv, Pools, AtClick, Fixed
  <2>7. CASE method = "oracle_reference"
    BY <1>1, <1>2, <1>3, <1>4, <1>5, <2>2, <2>7 DEF IInv, Pools, AtClick, Fixed
  <2> QED
    BY <2>1, <2>3, <2>4, <2>5, <2>6, <2>7 DEF AllMethods, Fixed
<1> QED
  BY <1>4, <1>6, <1>7, <1>8, <1>9, <1>10 DEF IInv

LEMMA EndClicksKeeps ==
  ASSUME IInv, EndClicks
  PROVE  IInv'
<1>1. UNCHANGED fixture
      /\ UNCHANGED <<now, last, clicked, revealed, provisional, settled, pool, auxiliary>>
      /\ pc = "clicks" /\ pc' = "truth"
      /\ (clicked < NumClicks => ~(clickTime[clicked] <= now))
  BY DEF EndClicks, Arrived
<1>2. UNCHANGED <<method, clickTime, delay>>
  BY <1>1 DEF fixture
<1>3. Heard(now)
  <2> SUFFICES ASSUME NEW c \in Clicks, clickTime[c] <= now, c \notin Registered
               PROVE  FALSE
    BY DEF Heard
  <2>1. clicked \in Clicks /\ clicked <= c
    <3>1. clicked \in Nat /\ c \in Nat /\ ~(c < clicked) /\ c < NumClicks /\ NumClicks \in Nat
      BY Registration, StreamConstants DEF IInv, Typed, Clicks
    <3> QED
      BY <3>1 DEF Clicks
  <2>2. clickTime[clicked] <= clickTime[c] /\ clickTime[clicked] \in Nat /\ clickTime[c] \in Nat
    BY <2>1, Times DEF IInv, FixtureTrue, Chronological
  <2>3. ~(clickTime[clicked] <= now) /\ now \in Nat
    <3>1. clicked < NumClicks
      BY <2>1, StreamConstants DEF Clicks
    <3> QED
      BY <1>1, <3>1, DecisionTimes DEF IInv, Typed
  <2> QED
    BY <2>2, <2>3
<1>4. Typed' /\ FixtureTrue' /\ Paced' /\ Within' /\ Corrected' /\ Pools'
  <2>1. Typed' /\ FixtureTrue' /\ Paced'
    BY <1>1, <1>2 DEF IInv, Typed, FixtureTrue, Paced
  <2>2. Within' /\ Corrected'
    BY <1>1, <1>2 DEF IInv, Within, Corrected, Registered, Fixed, At, AvailableAt, Due, Maturity,
                      Late, Positive
  <2>3. Pools'
    BY <1>1, <1>2 DEF IInv, Pools, Registered, Fixed, At, AvailableAt, Due, Maturity, Late, Label,
                      Positive, Finals, Provisionals, AuxiliaryOf, Correction, Early
  <2> QED
    BY <2>1, <2>2, <2>3
<1>5. Delivered'
  <2>1. Complete(last)' /\ Heard(now)'
    BY <1>1, <1>2, <1>3 DEF IInv, Delivered, Complete, Heard, Registered, Fixed, Settles, At,
                            AvailableAt, Due, Maturity, Late
  <2> QED
    BY <1>1, <2>1 DEF Delivered, Spending
<1> QED
  BY <1>4, <1>5 DEF IInv

-----------------------------------------------------------------------------
(* A positive: its correction or early positive is new, because only what  *)
(* was revealed before has one, and so is the provisional it completes.    *)

LEMMA PositiveAdmitted ==
  ASSUME IInv, NEW c \in Clicks, c \notin revealed, At(c) <= now
  PROVE  ~Refused(AtPositive(c))
<1>1. At(c) \in Nat /\ Due(c) \in Nat /\ now \in Nat /\ (Late(c) <=> At(c) > Due(c))
  BY Times, DecisionTimes DEF IInv, Typed
<1>2. \A r \in AtPositive(c) :
        /\ r.click = c
        /\ \/ r.kind \in {"correction", "early-positive"}
           \/ Fixed /\ c \notin provisional /\ r.kind = "provisional"
  BY <1>1, RecordFields DEF AtPositive, Provisionals, At
<1>3. ASSUME AtPositive(c) # {}
      PROVE  \A p \in pool :
               \/ p.click # c
               \/ p.kind = "provisional" /\ (Fixed => c \in provisional)
  <2>1. method = "immediate_fake_negative" \/ Fixed
    BY <1>3 DEF AtPositive
  <2>2. CASE method = "immediate_fake_negative"
    BY <2>2, RecordFields DEF IInv, Pools, Correction, Positive, Fixed
  <2>3. CASE Fixed
    BY <2>3, RecordFields DEF IInv, Pools, Correction, Early, Provisionals, Positive
  <2> QED
    BY <2>1, <2>2, <2>3
<1>4. \A r \in AtPositive(c) : \A p \in pool : p.click # r.click \/ p.kind # r.kind
  BY <1>2, <1>3
<1>5. \A r \in AtPositive(c) : ~(r.at > now)
  <2> SUFFICES ASSUME NEW r \in AtPositive(c), r.at > now
               PROVE  FALSE
    OBVIOUS
  <2>1. r.at = At(c) \/ (r.at = Due(c) /\ At(c) > Due(c))
    BY <1>1, RecordFields DEF AtPositive, Provisionals, At
  <2> QED
    BY <1>1, <2>1
<1> QED
  BY <1>4, <1>5, Admissible

(* The truth that is next has its click, is new, and fits the window: the  *)
(* methods take it.                                                        *)
LEMMA TruthAccepted ==
  ASSUME IInv, pc = "truth", NEW c \in Clicks, IsNextTruth(c)
  PROVE  ~TruthRefused(c)
<1>1. c \notin revealed /\ At(c) <= now
  BY DEF IsNextTruth, At
<1>2. /\ clickTime[c] \in Nat /\ At(c) \in Nat /\ Maturity(c) \in Nat /\ now \in Nat
      /\ clickTime[c] <= At(c) /\ At(c) <= Maturity(c)
      /\ ~Converts(delay, c) => At(c) = Maturity(c)
  BY Times, DecisionTimes DEF IInv, Typed
<1>3. clickTime[c] <= now
  BY <1>1, <1>2
<1>4. c \in Registered
  BY <1>3 DEF IInv, Delivered, Heard
<1>5. ~(At(c) > Maturity(c))
  BY <1>2
<1> QED
  BY <1>1, <1>2, <1>4, <1>5 DEF TruthRefused, At

LEMMA RevealPositiveKeeps ==
  ASSUME IInv, NEW c \in Clicks, RevealPositive(c)
  PROVE  IInv'
<1>1. UNCHANGED fixture /\ UNCHANGED <<now, last, clicked, settled, auxiliary>>
      /\ pc = "truth" /\ Converts(delay, c) /\ revealed' = revealed \cup {c}
      /\ AddToSampler(AtPositive(c), "truth")
  BY TruthAccepted DEF RevealPositive
<1>2. c \notin revealed /\ At(c) <= now
  BY DEF RevealPositive, IsNextTruth, At
<1>3. At(c) \in Nat /\ Due(c) \in Nat /\ now \in Nat /\ clickTime[c] \in Nat
      /\ clickTime[c] <= At(c) /\ (Late(c) <=> At(c) > Due(c))
  BY Times, DecisionTimes DEF IInv, Typed
<1>4. pool' = pool \cup AtPositive(c) /\ pc' = "truth"
  BY <1>1, <1>2, PositiveAdmitted, Admitted
<1>5. provisional' = IF Fixed /\ Late(c) THEN provisional \cup {c} ELSE provisional
  BY <1>3, TruthAccepted DEF RevealPositive, At
<1>6. c \in Registered
  BY <1>1, <1>2, <1>3, DecisionTimes DEF IInv, Delivered, Heard
<1>7. method' = method /\ clickTime' = clickTime /\ delay' = delay
      /\ Fixed' = Fixed /\ Settles' = Settles /\ FixtureTrue' /\ Registered' = Registered
  BY <1>1, FixtureKept DEF IInv, Registered
<1>8. \A b : /\ At(b)' = At(b) /\ Due(b)' = Due(b) /\ Maturity(b)' = Maturity(b)
             /\ Late(b)' = Late(b) /\ Label(b)' = Label(b)
             /\ Correction(b)' = Correction(b) /\ Early(b)' = Early(b)
  BY <1>1, FixtureKept
<1>9. Positive(revealed)' = Positive(revealed) \cup {c}
  BY <1>1, <1>7 DEF Positive
<1>10. Typed' /\ Paced'
  BY <1>1, <1>4, <1>5, <1>7 DEF IInv, Typed, Paced
<1>11. Within'
  <2>1. Late(c) => Due(c) <= now
    BY <1>2, <1>3
  <2> QED
    BY <1>1, <1>2, <1>5, <1>7, <1>8, <2>1 DEF IInv, Within
<1>12. Delivered'
  BY <1>1, <1>4, <1>5, <1>7, <1>8 DEF IInv, Delivered, Complete, Heard, Spending
<1>13. Corrected'
  BY <1>5, <1>7, <1>8, <1>9 DEF IInv, Corrected
<1>14. Pools'
  <2>1. method \in AllMethods
    BY StreamConstants DEF IInv, Typed
  <2>2. auxiliary' = IF method' = "es_dfm" THEN AuxiliaryOf(settled)' ELSE {}
    BY <1>1, <1>7 DEF IInv, Pools, AuxiliaryOf, Record, Label, Maturity
  <2>3. CASE method = "complete_wait"
    BY <1>1, <1>4, <1>7, <1>8, <2>2, <2>3 DEF IInv, Pools, AtPositive, Finals, Fixed
  <2>4. CASE method = "immediate_fake_negative"
    BY <1>1, <1>4, <1>7, <1>8, <1>9, <2>2, <2>4 DEF IInv, Pools, AtPositive, Correction, At, Fixed
  <2>5. CASE Fixed /\ Late(c)
    <3>1. AtPositive(c) = {Correction(c)} \cup Provisionals({c} \ provisional)
      BY <1>3, <2>5 DEF AtPositive, Correction, At, Fixed
    <3>2. Provisionals(provisional)' = Provisionals(provisional) \cup Provisionals({c} \ provisional)
      BY <1>5, <1>8, <2>5 DEF Provisionals
    <3>3. {b \in Positive(revealed) : Late(b)}' = {b \in Positive(revealed) : Late(b)} \cup {c}
          /\ {b \in Positive(revealed) : ~Late(b)}' = {b \in Positive(revealed) : ~Late(b)}
      BY <1>8, <1>9, <2>5
    <3> QED
      BY <1>4, <1>7, <1>8, <2>2, <2>5, <3>1, <3>2, <3>3 DEF IInv, Pools, Fixed
  <2>6. CASE Fixed /\ ~Late(c)
    <3>1. AtPositive(c) = {Early(c)}
      BY <1>3, <2>6 DEF AtPositive, Early, At, Fixed
    <3>2. Provisionals(provisional)' = Provisionals(provisional)
      BY <1>5, <1>8, <2>6 DEF Provisionals
    <3>3. {b \in Positive(revealed) : ~Late(b)}' = {b \in Positive(revealed) : ~Late(b)} \cup {c}
          /\ {b \in Positive(revealed) : Late(b)}' = {b \in Positive(revealed) : Late(b)}
      BY <1>8, <1>9, <2>6
    <3> QED
      BY <1>4, <1>7, <1>8, <2>2, <2>6, <3>1, <3>2, <3>3 DEF IInv, Pools, Fixed
  <2>7. CASE method \in {"dfm", "oracle_reference"}
    BY <1>1, <1>4, <1>7, <1>8, <2>2, <2>7 DEF IInv, Pools, AtPositive, Fixed
  <2> QED
    BY <2>1, <2>3, <2>4, <2>5, <2>6, <2>7 DEF AllMethods, Fixed
<1> QED
  BY <1>7, <1>10, <1>11, <1>12, <1>13, <1>14 DEF IInv

-----------------------------------------------------------------------------
(* A boundary: what it emits is new, because nothing given before is given *)
(* again.                                                                  *)

DueAt(t, seen) == IF Fixed THEN OnBoundaryFixed(t, seen, provisional) ELSE {}
MatureAt(t, seen) == IF Settles THEN OnBoundaryMature(t, seen, settled) ELSE {}
FinalsAt(t, seen) == IF method = "complete_wait" THEN Finals(MatureAt(t, seen)) ELSE {}

LEMMA BoundaryIs ==
  ASSUME NEW t, NEW seen, NEW next, Boundary(t, seen, next)
  PROVE  /\ provisional' = provisional \cup DueAt(t, seen)
         /\ settled' = settled \cup MatureAt(t, seen)
         /\ auxiliary' = IF method = "es_dfm" THEN auxiliary \cup AuxiliaryOf(MatureAt(t, seen))
                         ELSE auxiliary
         /\ AddToSampler(Provisionals(DueAt(t, seen)) \cup FinalsAt(t, seen), next)
<1>1. MatureAt(t, seen) = IF method \in {"complete_wait", "es_dfm"}
                          THEN OnBoundaryMature(t, seen, settled) ELSE {}
  BY DEF MatureAt, Settles
<1> QED
  BY <1>1 DEF Boundary, DueAt, FinalsAt

(* Whom a boundary at time t concerns.                                     *)
LEMMA Concerned ==
  ASSUME Typed, NEW t, NEW seen
  PROVE  /\ \A c \in DueAt(t, seen) :
              /\ c \in Clicks /\ c \in Registered /\ Fixed /\ c \notin provisional
              /\ c \notin Positive(seen) /\ Due(c) <= t
         /\ \A c \in MatureAt(t, seen) :
              c \in Clicks /\ Settles /\ c \in seen /\ c \notin settled /\ Maturity(c) <= t
  BY Registration DEF DueAt, MatureAt, OnBoundaryFixed, OnBoundaryMature

LEMMA BoundaryAdmitted ==
  ASSUME IInv, NEW t \in Nat, t <= now, NEW seen
  PROVE  ~Refused(Provisionals(DueAt(t, seen)) \cup FinalsAt(t, seen))
<1>1. now \in Nat /\ Typed
  BY DecisionTimes DEF IInv, Typed
<1>2. ASSUME NEW r \in Provisionals(DueAt(t, seen))
      PROVE  /\ ~(r.at > now)
             /\ \A p \in pool : p.click # r.click \/ p.kind # r.kind
  <2>1. PICK c \in DueAt(t, seen) : r = Record(c, "provisional", 0, Due(c))
    BY <1>2 DEF Provisionals
  <2>2. r.click = c /\ r.kind = "provisional" /\ r.at = Due(c)
    BY <2>1, RecordFields
  <2>3. c \in Clicks /\ Fixed /\ c \notin provisional /\ Due(c) <= t
    BY <1>1, Concerned
  <2>4. Due(c) \in Nat
    BY <1>1, <2>3, Times
  <2>5. ~(r.at > now)
    BY <1>1, <2>2, <2>3, <2>4
  <2>6. \A p \in pool : p.click # c \/ p.kind # "provisional"
    BY <2>3, RecordFields DEF IInv, Pools, Provisionals, Correction, Early
  <2> QED
    BY <2>2, <2>5, <2>6
<1>3. ASSUME NEW r \in FinalsAt(t, seen)
      PROVE  /\ ~(r.at > now)
             /\ \A p \in pool : p.click # r.click \/ p.kind # r.kind
  <2>1. method = "complete_wait"
    BY <1>3 DEF FinalsAt
  <2>2. PICK c \in MatureAt(t, seen) : r = Record(c, "final", Label(c), Maturity(c))
    BY <1>3, <2>1 DEF FinalsAt, Finals
  <2>3. r.click = c /\ r.at = Maturity(c)
    BY <2>2, RecordFields
  <2>4. c \in Clicks /\ c \notin settled /\ Maturity(c) <= t
    BY <1>1, Concerned
  <2>5. Maturity(c) \in Nat
    BY <1>1, <2>4, Times
  <2>6. ~(r.at > now)
    BY <1>1, <2>3, <2>4, <2>5
  <2>7. \A p \in pool : p.click # c
    BY <2>1, <2>4, RecordFields DEF IInv, Pools, Finals
  <2> QED
    BY <2>3, <2>6, <2>7
<1> QED
  BY <1>2, <1>3, Admissible

(* What a boundary is called with: the truth of its time seen, and nothing *)
(* early among what it takes for unresolved.                               *)
Called(t, seen, next) ==
  /\ t \in Nat /\ t <= now
  /\ seen \subseteq Clicks /\ revealed \subseteq seen
  /\ Positive(seen) = Positive(revealed)
  /\ \A c \in seen : At(c) <= now
  /\ ~AllowTies => \A c \in DueAt(t, seen) : Late(c)
  /\ next \in {"truth", "credit"}
  /\ next = "credit" => t = now /\ \A c \in Clicks : At(c) <= now => c \in seen

LEMMA BoundaryKeeps ==
  ASSUME IInv, pc = "truth", NEW t, NEW seen, NEW next, Called(t, seen, next),
         Boundary(t, seen, next), revealed' = seen,
         UNCHANGED fixture, UNCHANGED <<now, last, clicked>>
  PROVE  IInv'
<1>1. t \in Nat /\ t <= now /\ now \in Nat /\ Typed
  BY DecisionTimes DEF IInv, Typed, Called
<1>2. /\ provisional' = provisional \cup DueAt(t, seen)
      /\ settled' = settled \cup MatureAt(t, seen)
      /\ auxiliary' = IF method = "es_dfm" THEN auxiliary \cup AuxiliaryOf(MatureAt(t, seen))
                      ELSE auxiliary
      /\ AddToSampler(Provisionals(DueAt(t, seen)) \cup FinalsAt(t, seen), next)
  BY BoundaryIs
<1>3. pool' = pool \cup Provisionals(DueAt(t, seen)) \cup FinalsAt(t, seen) /\ pc' = next
  BY <1>1, <1>2, BoundaryAdmitted, Admitted
<1>4. method' = method /\ clickTime' = clickTime /\ delay' = delay
      /\ Fixed' = Fixed /\ Settles' = Settles /\ FixtureTrue' /\ Registered' = Registered
  BY FixtureKept DEF IInv, Registered
<1>5. \A b : /\ At(b)' = At(b) /\ Due(b)' = Due(b) /\ Maturity(b)' = Maturity(b)
             /\ Late(b)' = Late(b) /\ Label(b)' = Label(b)
             /\ Correction(b)' = Correction(b) /\ Early(b)' = Early(b)
  BY FixtureKept
<1>6. Positive(revealed)' = Positive(revealed)
  BY <1>4 DEF Positive, Called
<1>7. \A c \in DueAt(t, seen) :
        c \in Clicks /\ Fixed /\ c \notin provisional /\ Due(c) <= t
  BY <1>1, Concerned
<1>8. \A c \in MatureAt(t, seen) :
        c \in Clicks /\ Settles /\ c \in seen /\ Maturity(c) <= t
  BY <1>1, Concerned
<1>9. Typed' /\ Paced'
  <2>1. next \in {"truth", "credit"} /\ seen \subseteq Clicks
    BY DEF Called
  <2>2. pc' # "done" /\ pc' \in {"clicks", "truth"} \cup Spending
    BY <1>3, <2>1 DEF Spending
  <2>3. provisional' \subseteq Clicks /\ settled' \subseteq Clicks
    BY <1>1, <1>2, <1>7, <1>8 DEF Typed
  <2> QED
    BY <1>1, <1>4, <2>1, <2>2, <2>3 DEF IInv, Typed, Paced
<1>10. Within'
  <2>1. \A c \in DueAt(t, seen) : Due(c) <= now
    BY <1>1, <1>7, Times
  <2>2. \A c \in MatureAt(t, seen) : Maturity(c) <= now
    BY <1>1, <1>8, Times
  <2> QED
    BY <1>2, <1>4, <1>5, <1>7, <1>8, <2>1, <2>2 DEF IInv, Within, Called
<1>11. Delivered'
  <2>1. Complete(last)' /\ Heard(now)'
    BY <1>2, <1>4, <1>5 DEF IInv, Delivered, Complete, Heard, Called
  <2>2. ASSUME next = "credit"
        PROVE  Complete(now)'
    <3>1. t = now /\ \A c \in Clicks : At(c) <= now => c \in seen
      BY <2>2 DEF Called
    <3>2. ASSUME Fixed, NEW c \in Clicks, Late(c), Due(c) <= now
          PROVE  c \in provisional'
      <4>1. c \in Registered
        BY <1>1, <3>2, Times DEF IInv, Delivered, Heard
      <4>2. CASE c \in Positive(seen)
        BY <1>2, <3>2, <4>2 DEF IInv, Corrected, Called
      <4>3. CASE c \notin Positive(seen)
        BY <1>2, <3>1, <3>2, <4>1, <4>3 DEF DueAt, OnBoundaryFixed
      <4> QED
        BY <4>2, <4>3
    <3>3. ASSUME Settles, NEW c \in Clicks, Maturity(c) <= now
          PROVE  c \in settled'
      <4>1. c \in Registered /\ c \in seen
        BY <1>1, <3>1, <3>3, Times DEF IInv, Delivered, Heard
      <4> QED
        BY <1>2, <3>1, <3>3, <4>1 DEF MatureAt, OnBoundaryMature
    <3> QED
      BY <1>4, <1>5, <2>1, <3>1, <3>2, <3>3 DEF Complete
  <2> QED
    BY <1>3, <2>1, <2>2 DEF Delivered, Spending, Called
<1>12. Corrected'
  BY <1>2, <1>4, <1>5, <1>6 DEF IInv, Corrected, Called
<1>13. Pools'
  <2>1. method \in AllMethods
    BY StreamConstants DEF IInv, Typed
  <2>2. AuxiliaryOf(settled)' = AuxiliaryOf(settled) \cup AuxiliaryOf(MatureAt(t, seen))
    BY <1>2, <1>4, <1>5 DEF AuxiliaryOf
  <2>3. auxiliary' = IF method' = "es_dfm" THEN AuxiliaryOf(settled)' ELSE {}
    BY <1>2, <1>4, <2>2 DEF IInv, Pools
  <2>4. CASE method = "complete_wait"
    <3>1. Finals(settled)' = Finals(settled) \cup Finals(MatureAt(t, seen))
      BY <1>2, <1>5 DEF Finals
    <3>2. Provisionals(DueAt(t, seen)) = {}
      BY <2>4 DEF Provisionals, DueAt, Fixed
    <3> QED
      BY <1>3, <1>4, <2>3, <2>4, <3>1, <3>2 DEF IInv, Pools, FinalsAt, Fixed
  <2>5. CASE Fixed
    <3>1. Provisionals(provisional)' = Provisionals(provisional) \cup Provisionals(DueAt(t, seen))
      BY <1>2, <1>5 DEF Provisionals
    <3>2. FinalsAt(t, seen) = {}
      BY <2>5 DEF FinalsAt, Fixed
    <3>3. {b \in Positive(revealed) : Late(b)}' = {b \in Positive(revealed) : Late(b)}
          /\ {b \in Positive(revealed) : ~Late(b)}' = {b \in Positive(revealed) : ~Late(b)}
      BY <1>5, <1>6
    <3> QED
      BY <1>3, <1>4, <1>5, <2>3, <2>5, <3>1, <3>2, <3>3 DEF IInv, Pools, Fixed
  <2>6. CASE method \in {"immediate_fake_negative", "dfm", "oracle_reference"}
    <3>1. pool' = pool
      BY <1>3, <2>6 DEF Provisionals, DueAt, FinalsAt, Fixed
    <3> QED
      BY <1>4, <1>5, <1>6, <2>3, <2>6, <3>1 DEF IInv, Pools, Fixed
  <2> QED
    BY <2>1, <2>4, <2>5, <2>6 DEF AllMethods, Fixed
<1> QED
  BY <1>4, <1>9, <1>10, <1>11, <1>12, <1>13 DEF IInv

(* The maturity of a negative runs the boundary of all clicks at its own    *)
(* time.  Whoever is due then and not revealed has not converted by then:   *)
(* its truth comes later in the order, at the same instant only in a tie.   *)
LEMMA RevealNegativeKeeps ==
  ASSUME IInv, NEW c \in Clicks, RevealNegative(c)
  PROVE  IInv'
<1>1. UNCHANGED fixture /\ UNCHANGED <<now, last, clicked>>
      /\ pc = "truth" /\ IsNextTruth(c) /\ ~Converts(delay, c)
      /\ revealed' = revealed \cup {c}
      /\ Boundary(At(c), revealed \cup {c}, "truth")
  BY TruthAccepted DEF RevealNegative, At
<1>2. At(c) \in Nat /\ At(c) <= now /\ c \in Nat /\ delay[c] = Never
      /\ At(c) = clickTime[c] + Window /\ Typed
  BY <1>1, Times DEF IInv, IsNextTruth, At, Converts, Maturity
<1>3. ASSUME ~AllowTies, NEW b \in DueAt(At(c), revealed \cup {c}), ~Late(b)
      PROVE  FALSE
  <2>1. b \in Clicks /\ b \in Registered /\ b \notin Positive(revealed \cup {c})
        /\ Due(b) <= At(c)
    BY <1>2, Concerned
  <2>2. /\ b \in Nat /\ delay[b] \in Nat /\ clickTime[b] \in Nat
        /\ At(b) \in Nat /\ Due(b) \in Nat /\ At(b) <= Due(b)
        /\ Converts(delay, b) /\ At(b) = clickTime[b] + delay[b]
    BY <1>2, <1>3, <2>1, Times
  <2>3. b # c /\ b \notin revealed
    BY <1>1, <2>1, <2>2 DEF Positive
  <2>4. At(c) = At(b) /\ c < b
    <3>1. Before(c, b)
      BY <1>1, <2>1, <2>3 DEF IsNextTruth
    <3>2. At(b) <= At(c)
      BY <1>2, <2>1, <2>2
    <3> QED
      BY <1>2, <2>2, <3>1, <3>2 DEF Before, At
  <2>5. delay[b] = Wait /\ clickTime[c] + Window = clickTime[b] + Wait
    <3>1. Due(b) = clickTime[b] + Wait /\ Wait \in Nat
      BY StreamConstants DEF Due
    <3> QED
      BY <1>2, <2>1, <2>2, <2>4, <3>1
  <2>6. Tied(clickTime, delay)
    BY <1>2, <2>1, <2>4, <2>5 DEF Tied
  <2> QED
    BY <1>3, <2>6 DEF IInv, FixtureTrue
<1>4. Called(At(c), revealed \cup {c}, "truth")
  <2>1. Positive(revealed \cup {c}) = Positive(revealed)
    BY <1>1 DEF Positive
  <2>2. revealed \subseteq Clicks /\ \A b \in revealed : At(b) <= now
    BY DEF IInv, Typed, Within
  <2> QED
    BY <1>2, <1>3, <2>1, <2>2 DEF Called
<1> QED
  BY <1>1, <1>4, BoundaryKeeps

LEMMA EndTruthKeeps ==
  ASSUME IInv, EndTruth
  PROVE  IInv'
<1>1. UNCHANGED fixture /\ UNCHANGED <<now, last, clicked, revealed>>
      /\ pc = "truth" /\ Boundary(now, revealed, "credit")
      /\ \A c \in Clicks : ~IsNextTruth(c)
  BY DEF EndTruth
<1>2. now \in Nat /\ Typed
  BY DecisionTimes DEF IInv, Typed
<1>3. \A c \in Clicks : At(c) <= now => c \in revealed
  BY <1>1, <1>2, NothingLeft
<1>4. ASSUME NEW b \in DueAt(now, revealed), ~Late(b)
      PROVE  FALSE
  <2>1. b \in Clicks /\ b \notin Positive(revealed) /\ Due(b) <= now
    BY <1>2, Concerned
  <2>2. At(b) \in Nat /\ Due(b) \in Nat /\ At(b) <= Due(b) /\ Converts(delay, b)
    BY <1>2, <1>4, <2>1, Times
  <2>3. b \in revealed
    BY <1>2, <1>3, <2>1, <2>2
  <2> QED
    BY <2>1, <2>2, <2>3 DEF Positive
<1>5. Called(now, revealed, "credit")
  <2>1. revealed \subseteq Clicks /\ \A b \in revealed : At(b) <= now
    BY DEF IInv, Typed, Within
  <2> QED
    BY <1>2, <1>3, <1>4, <2>1 DEF Called
<1> QED
  BY <1>1, <1>5, BoundaryKeeps

-----------------------------------------------------------------------------
(* A credit: nothing in the pools is from the future, and dfm holds every  *)
(* click it may observe, so it is not refused; what is complete at the     *)
(* decision is complete at the last one.                                   *)

LEMMA CreditAccepted ==
  ASSUME IInv, pc = "credit"
  PROVE  ~CreditRefused
<1>1. now \in Nat /\ last \in Int /\ ~(now < last)
  <2>1. now \in Nat /\ (last \in Nat \/ last = -1)
    BY DecisionTimes DEF IInv, Typed
  <2>2. last < now
    BY DEF IInv, Paced
  <2> QED
    BY <2>1, <2>2
<1>2. Registered \subseteq Clicks /\ revealed \subseteq Clicks
      /\ provisional \subseteq Clicks /\ settled \subseteq Clicks
  BY Registration DEF IInv, Typed
<1>3. \A c \in Clicks : clickTime[c] \in Nat /\ At(c) \in Nat /\ Due(c) \in Nat
                        /\ Maturity(c) \in Nat
  BY Times DEF IInv
<1>4. /\ \A c \in Registered : ~(clickTime[c] > now) /\ ~(now < clickTime[c])
      /\ \A c \in Positive(revealed) : ~(At(c) > now)
      /\ \A c \in provisional : ~(Due(c) > now)
      /\ \A c \in settled : ~(Maturity(c) > now)
  BY <1>1, <1>2, <1>3 DEF IInv, Within, Positive
<1>5. \A r \in pool : ~(r.at > now)
  <2>1. CASE method = "complete_wait"
    BY <1>4, <2>1, RecordFields DEF IInv, Pools, Finals
  <2>2. CASE method = "immediate_fake_negative"
    BY <1>4, <2>2, RecordFields DEF IInv, Pools, Correction
  <2>3. CASE Fixed
    BY <1>4, <2>3, RecordFields DEF IInv, Pools, Provisionals, Correction, Early
  <2>4. CASE method = "dfm"
    BY <1>4, <2>4, RecordFields DEF IInv, Pools
  <2>5. CASE method = "oracle_reference"
    BY <1>4, <2>5, RecordFields DEF IInv, Pools
  <2>6. method \in AllMethods
    BY StreamConstants DEF IInv, Typed
  <2> QED
    BY <2>1, <2>2, <2>3, <2>4, <2>5, <2>6 DEF AllMethods, Fixed
<1>6. method = "es_dfm" => \A r \in auxiliary : ~(r.at > now)
  BY <1>4, RecordFields DEF IInv, Pools, AuxiliaryOf
<1>7. method = "dfm" => \A r \in pool : r.click \in Registered /\ ~(now < clickTime[r.click])
  BY <1>4, RecordFields DEF IInv, Pools
<1> QED
  BY <1>1, <1>5, <1>6, <1>7 DEF CreditRefused

LEMMA SpendCreditKeeps ==
  ASSUME IInv, SpendCredit
  PROVE  IInv'
<1>1. UNCHANGED fixture
      /\ UNCHANGED <<clicked, revealed, provisional, settled, pool, auxiliary>> /\ pc = "credit"
  BY DEF SpendCredit
<1>2. now \in Nat /\ Day \in Nat \ {0} /\ (now # LastDecision => now + Day \in Decisions)
  BY DecisionTimes, StreamConstants DEF IInv, Typed
<1>3. \/ pc' = "insufficient" /\ UNCHANGED <<now, last>>
      \/ pc' = "done" /\ now' = now /\ last' = now
      \/ pc' = "clicks" /\ now' = now + Day /\ last' = now /\ now # LastDecision
  <2>1. ~CreditRefused
    BY <1>1, CreditAccepted
  <2> QED
    BY <2>1 DEF SpendCredit
<1>4. method' = method /\ clickTime' = clickTime /\ delay' = delay
      /\ Fixed' = Fixed /\ Settles' = Settles /\ FixtureTrue' /\ Registered' = Registered
  BY <1>1, FixtureKept DEF IInv, Registered
<1>5. \A b : /\ At(b)' = At(b) /\ Due(b)' = Due(b) /\ Maturity(b)' = Maturity(b)
             /\ Late(b)' = Late(b) /\ Label(b)' = Label(b)
             /\ Correction(b)' = Correction(b) /\ Early(b)' = Early(b)
  BY <1>1, FixtureKept
<1>6. now <= now' /\ now' \in Nat
  BY <1>2, <1>3
<1>7. Typed' /\ Paced'
  <2>1. now' \in Decisions /\ last' \in Decisions \cup {-1}
        /\ pc' \in {"clicks", "truth"} \cup Spending
    BY <1>2, <1>3 DEF IInv, Typed, Spending
  <2>2. Typed'
    BY <1>1, <1>4, <2>1 DEF IInv, Typed
  <2>3. Paced'
    BY <1>1, <1>2, <1>3 DEF IInv, Paced
  <2> QED
    BY <2>2, <2>3
<1>8. Within'
  <2>1. /\ \A c \in Registered : clickTime[c] <= now'
        /\ \A c \in revealed : At(c) <= now'
        /\ \A c \in provisional : Fixed /\ Due(c) <= now'
        /\ \A c \in settled : c \in revealed /\ Maturity(c) <= now'
    <3>1. Registered \subseteq Clicks /\ revealed \subseteq Clicks
          /\ provisional \subseteq Clicks /\ settled \subseteq Clicks
      BY Registration DEF IInv, Typed
    <3>2. \A c \in Clicks : clickTime[c] \in Nat /\ At(c) \in Nat /\ Due(c) \in Nat
                            /\ Maturity(c) \in Nat
      BY Times DEF IInv
    <3> QED
      BY <1>2, <1>6, <3>1, <3>2 DEF IInv, Within
  <2> QED
    BY <1>1, <1>4, <1>5, <2>1 DEF Within
<1>9. Delivered'
  <2>1. Complete(last) /\ Complete(now)
    BY <1>1 DEF IInv, Delivered, Spending
  <2>2. Complete(last)' /\ (now' = now => Complete(now)')
    BY <1>1, <1>3, <1>4, <1>5, <2>1 DEF Complete, Heard
  <2> QED
    BY <1>3, <2>2 DEF Delivered, Spending
<1>10. Corrected'
  BY <1>1, <1>4, <1>5 DEF IInv, Corrected, Positive
<1>11. Pools'
  BY <1>1, <1>4, <1>5 DEF IInv, Pools, Positive, Finals, Provisionals, AuxiliaryOf
<1> QED
  BY <1>4, <1>7, <1>8, <1>9, <1>10, <1>11 DEF IInv

LEMMA Initially ==
  Init => IInv
<1> SUFFICES ASSUME Init PROVE IInv
  OBVIOUS
<1>1. clickTime \in [Clicks -> ClickTimes] /\ delay \in [Clicks -> Delays]
      /\ Chronological(clickTime) /\ (AllowTies \/ ~Tied(clickTime, delay))
      /\ method \in Methods
      /\ now = FirstDecision /\ last = -1 /\ pc = "clicks" /\ clicked = 0
      /\ revealed = {} /\ provisional = {} /\ settled = {} /\ pool = {} /\ auxiliary = {}
  BY DEF Init
<1>2. FirstDecision \in Decisions /\ FirstDecision \in Nat
  BY StreamConstants DEF Decisions
<1>3. Typed
  BY <1>1, <1>2, StreamConstants DEF Typed
<1>4. FixtureTrue /\ Paced
  BY <1>1, <1>2 DEF FixtureTrue, Paced
<1>5. Registered = {}
  BY <1>1 DEF Registered
<1>6. Within /\ Corrected
  BY <1>1, <1>5 DEF Within, Corrected, Positive
<1>7. Delivered
  <2>1. \A c \in Clicks : ~(clickTime[c] <= -1) /\ ~(At(c) <= -1) /\ ~(Due(c) <= -1)
                          /\ ~(Maturity(c) <= -1)
    BY <1>3, Times
  <2> QED
    BY <1>1, <2>1 DEF Delivered, Complete, Heard, Spending
<1>8. Pools
  BY <1>1, <1>5 DEF Pools, Finals, Provisionals, AuxiliaryOf, Positive, Fixed
<1> QED
  BY <1>3, <1>4, <1>6, <1>7, <1>8 DEF IInv

LEMMA InvariantKept ==
  IInv /\ [Next]_vars => IInv'
<1> SUFFICES ASSUME IInv, [Next]_vars PROVE IInv'
  OBVIOUS
<1>1. CASE DeliverClick
  BY <1>1, DeliverClickKeeps
<1>2. CASE EndClicks
  BY <1>2, EndClicksKeeps
<1>3. ASSUME NEW c \in Clicks, RevealPositive(c) PROVE IInv'
  BY <1>3, RevealPositiveKeeps
<1>4. ASSUME NEW c \in Clicks, RevealNegative(c) PROVE IInv'
  BY <1>4, RevealNegativeKeeps
<1>5. CASE EndTruth
  BY <1>5, EndTruthKeeps
<1>6. CASE SpendCredit
  BY <1>6, SpendCreditKeeps
<1>7. CASE UNCHANGED vars
  BY <1>7 DEF vars, IInv, Typed, FixtureTrue, Paced, Within, Delivered, Complete, Heard, Corrected,
              Pools, At, AvailableAt, Due, Maturity, Late, Label, Settles, Fixed, Registered,
              Positive, Finals, Provisionals, AuxiliaryOf, Correction, Early
<1> QED
  BY <1>1, <1>2, <1>3, <1>4, <1>5, <1>6, <1>7 DEF Next

(* The inductive invariant: the pools are a function of the clicks         *)
(* delivered, the truth seen and what was given and settled, each complete *)
(* up to the last decision and, from the end of a delivery, the current.   *)
THEOREM StreamCorrect == Spec => []IInv
  BY Initially, InvariantKept, PTL DEF Spec

(* What the method, the cursors and the pools hold has its type.           *)
THEOREM TypeCorrect == Spec => []TypeOK
<1>1. IInv => TypeOK
  <2> SUFFICES ASSUME IInv PROVE TypeOK
    OBVIOUS
  <2>1. Typed /\ Registered \subseteq Clicks /\ revealed \subseteq Clicks
        /\ provisional \subseteq Clicks /\ settled \subseteq Clicks
    BY Registration DEF IInv, Typed
  <2>2. \A c \in Clicks : /\ clickTime[c] \in Nat /\ At(c) \in Nat /\ Due(c) \in Nat
                          /\ Maturity(c) \in Nat /\ Label(c) \in {0, 1}
    BY <2>1, Times DEF Label
  <2>3. \A c \in Clicks, target \in {0, 1}, when \in Nat :
          /\ \A kind \in MainKinds : Record(c, kind, target, when) \in Records(MainKinds)
          /\ \A kind \in {"q_tn", "q_dp"} :
               Record(c, kind, target, when) \in Records({"q_tn", "q_dp"})
    BY DEF Record, Records
  <2>4. {"provisional", "early-positive", "correction", "final", "current", "privileged-final"}
          = MainKinds
    BY DEF MainKinds
  <2>5. pool \subseteq Records(MainKinds)
    <3>1. Positive(revealed) \subseteq Clicks
      BY <2>1 DEF Positive
    <3>2. \A c \in Clicks : Correction(c) \in Records(MainKinds) /\ Early(c) \in Records(MainKinds)
      BY <2>2, <2>3, <2>4 DEF Correction, Early
    <3>3. CASE method = "complete_wait"
      BY <2>1, <2>2, <2>3, <2>4, <3>3 DEF IInv, Pools, Finals
    <3>4. CASE method = "immediate_fake_negative"
      BY <2>1, <2>2, <2>3, <2>4, <3>1, <3>2, <3>4 DEF IInv, Pools
    <3>5. CASE Fixed
      BY <2>1, <2>2, <2>3, <2>4, <3>1, <3>2, <3>5 DEF IInv, Pools, Provisionals
    <3>6. CASE method = "dfm"
      BY <2>1, <2>2, <2>3, <2>4, <3>6 DEF IInv, Pools
    <3>7. CASE method = "oracle_reference"
      BY <2>1, <2>2, <2>3, <2>4, <3>7 DEF IInv, Pools
    <3> QED
      BY <2>1, <3>3, <3>4, <3>5, <3>6, <3>7, StreamConstants DEF Typed, AllMethods, Fixed
  <2>6. auxiliary \subseteq Records({"q_tn", "q_dp"})
    <3>1. \A c \in Clicks : 1 - Label(c) \in {0, 1}
      BY <2>2
    <3> QED
      BY <2>1, <2>2, <2>3, <3>1 DEF IInv, Pools, AuxiliaryOf
  <2>7. last <= now
    <3>1. now \in Nat /\ last \in Int
      BY DecisionTimes DEF IInv, Typed
    <3> QED
      BY <3>1 DEF IInv, Paced
  <2> QED
    BY <2>1, <2>5, <2>6, <2>7 DEF TypeOK, Typed, Spending
<1> QED
  BY <1>1, StreamCorrect, PTL

(* No call on a legal fixture meets a refusal of the methods or of the     *)
(* sampler, no credit one of theirs: "failed" is left out of IInv's Typed. *)
THEOREM NeverRefusedCorrect == Spec => []NeverRefused
<1>1. IInv => NeverRefused
  BY DEF IInv, Typed, Spending, NeverRefused
<1> QED
  BY <1>1, StreamCorrect, PTL

(* What dfm makes of a click at a credit is the click's status then.       *)
THEOREM ObservationCorrect == Spec => []ObservationLegal
<1>1. IInv => ObservationLegal
  <2> SUFFICES ASSUME IInv, pc = "credit", method = "dfm", NEW r \in pool
               PROVE  LET c == r.click  converted == clickTime[c] + delay[c] <= now
                      IN Observation(c) =
                         IF Converts(delay, c) /\ converted
                         THEN [target |-> 1, time |-> delay[c], status |-> "revealed_positive"]
                         ELSE [target |-> 0,
                               time |-> IF now >= Maturity(c) THEN Window ELSE now - clickTime[c],
                               status |-> IF now >= Maturity(c) THEN "mature_negative"
                                          ELSE "right_censored"]
    BY DEF ObservationLegal
  <2> DEFINE c == r.click
  <2>1. c \in Registered
    BY RecordFields DEF IInv, Pools
  <2> HIDE DEF c
  <2>2. Typed /\ c \in Clicks /\ now \in Nat /\ Window \in Nat
    BY <2>1, Registration, DecisionTimes, StreamConstants DEF IInv, Typed
  <2>3. /\ At(c) \in Nat /\ Maturity(c) \in Nat /\ clickTime[c] \in Nat /\ delay[c] \in Nat
        /\ At(c) <= Maturity(c) /\ Maturity(c) = clickTime[c] + Window
        /\ Converts(delay, c) => At(c) = clickTime[c] + delay[c]
        /\ ~Converts(delay, c) => At(c) = Maturity(c)
    BY <2>2, Times DEF Maturity
  <2>4. c \in revealed <=> At(c) <= now
    BY <2>2 DEF IInv, Within, Delivered, Complete, Spending
  <2>5. c \in Positive(revealed) /\ AvailableAt(delay, c) <= now
        <=> Converts(delay, c) /\ clickTime[c] + delay[c] <= now
    BY <2>3, <2>4 DEF Positive, At
  <2>6. c \in Negative(revealed) <=> ~Converts(delay, c) /\ Maturity(c) <= now
    BY <2>3, <2>4 DEF Negative
  <2>7. Lesser(now - clickTime[c], Window)
          = IF now >= Maturity(c) THEN Window ELSE now - clickTime[c]
    BY <2>2, <2>3 DEF Lesser
  <2>8. now >= Maturity(c) <=> Maturity(c) <= now
    BY <2>2, <2>3
  <2>9. Converts(delay, c) /\ Maturity(c) <= now => clickTime[c] + delay[c] <= now
    BY <2>2, <2>3
  <2>10. CASE Converts(delay, c) /\ clickTime[c] + delay[c] <= now
    BY <2>5, <2>10 DEF Observation, c
  <2>11. CASE ~(Converts(delay, c) /\ clickTime[c] + delay[c] <= now)
    <3>1. c \in Negative(revealed) <=> now >= Maturity(c)
      BY <2>6, <2>8, <2>9, <2>11
    <3>2. Observation(c) =
            [target |-> 0, time |-> Lesser(now - clickTime[c], Window),
             status |-> IF c \in Negative(revealed) THEN "mature_negative" ELSE "right_censored"]
      BY <2>5, <2>11 DEF Observation
    <3> QED
      BY <2>7, <2>11, <3>1, <3>2 DEF c
  <2> QED
    BY <2>10, <2>11
<1> QED
  BY <1>1, StreamCorrect, PTL

-----------------------------------------------------------------------------
(* What is promised of a click, in the terms of the pools.                 *)

LEMMA FixedStreamIs ==
  ASSUME Typed, NEW c \in Clicks
  PROVE  FixedWaitStream(c, delay[c]) =
           IF Late(c) THEN {Record(c, "provisional", 0, Due(c))} \cup
                           (IF Converts(delay, c) THEN {Correction(c)} ELSE {})
                      ELSE {Early(c)}
<1>1. /\ delay[c] \in Nat /\ Wait \in Nat
      /\ Converts(delay, c) => At(c) = clickTime[c] + delay[c]
      /\ ~Converts(delay, c) => Late(c)
  BY Times, StreamConstants
<1>2. Late(c) <=> ~(delay[c] <= Wait)
  BY <1>1 DEF Late
<1>3. Due(c) = clickTime[c] + Wait /\ (Converts(delay, c) <=> delay[c] # Never)
  BY DEF Due, Converts
<1> QED
  BY <1>1, <1>2, <1>3 DEF FixedWaitStream, Correction, Early

LEMMA AuxiliaryStreamIs ==
  ASSUME Typed, NEW c \in Clicks
  PROVE  /\ AuxiliaryStream(c, delay[c]) =
              {Record(c, "q_dp", IF Converts(delay, c) /\ Late(c) THEN 1 ELSE 0, Maturity(c))} \cup
              (IF Late(c) THEN {Record(c, "q_tn", 1 - Label(c), Maturity(c))} ELSE {})
<1>1. delay[c] \in Nat /\ Wait \in Nat /\ Window \in Nat /\ Wait < Window
      /\ (delay[c] <= Window \/ delay[c] = Never)
  BY Times, StreamConstants DEF Delays
<1>2. Late(c) <=> ~(delay[c] <= Wait)
  BY <1>1 DEF Late
<1>3. Wait < delay[c] /\ delay[c] <= Window <=> Converts(delay, c) /\ Late(c)
  BY <1>1 DEF Late, Converts, Never
<1>4. Late(c) => 1 - Label(c) = IF Converts(delay, c) /\ Late(c) THEN 0 ELSE 1
  BY DEF Label
<1>5. Maturity(c) = clickTime[c] + Window
  BY DEF Maturity
<1> DEFINE delayed == Wait < delay[c] /\ delay[c] <= Window
<1>6. AuxiliaryStream(c, delay[c]) =
        {Record(c, "q_dp", IF delayed THEN 1 ELSE 0, Maturity(c))} \cup
        (IF delay[c] <= Wait THEN {}
         ELSE {Record(c, "q_tn", IF delayed THEN 0 ELSE 1, Maturity(c))})
  BY <1>5 DEF AuxiliaryStream
<1>7. delayed <=> Converts(delay, c) /\ Late(c)
  BY <1>3
<1> HIDE DEF delayed
<1>8. CASE Late(c)
  BY <1>2, <1>4, <1>6, <1>7, <1>8
<1>9. CASE ~Late(c)
  BY <1>2, <1>6, <1>7, <1>9
<1> QED
  BY <1>8, <1>9

(* The pools hold what is promised by any time up to which all was         *)
(* delivered.                                                              *)
LEMMA PoolsArePromised ==
  ASSUME IInv, ~AllowTies, NEW t \in Int, Complete(t)
  PROVE  {r \in pool \cup auxiliary : r.at <= t} = {r \in Promised(delay) : r.at <= t}
<1>1. Typed /\ Registered \subseteq Clicks /\ revealed \subseteq Clicks
      /\ provisional \subseteq Clicks /\ settled \subseteq Clicks /\ method \in AllMethods
  BY Registration, StreamConstants DEF IInv, Typed
<1>2. Positive(revealed) \subseteq Clicks /\ \A c \in Positive(revealed) : Converts(delay, c)
  BY <1>1 DEF Positive
<1>3. Fixed => \A c \in provisional : Late(c)
  BY DEF IInv, Corrected
<1>4. \A c \in Clicks : Label(c) = IF delay[c] = Never THEN 0 ELSE 1
  BY DEF Label, Converts
<1>5. \A c \in Clicks : Converts(delay, c) => At(c) = clickTime[c] + delay[c]
  BY <1>1, Times
<1>6. \A r : r \in Promised(delay) <=> \E c \in Clicks : r \in Stream(c, delay[c])
  BY DEF Promised
<1>7. CASE method = "complete_wait"
  <2>1. \A c \in Clicks : Stream(c, delay[c]) = {Record(c, "final", Label(c), Maturity(c))}
    BY <1>4, <1>7 DEF Stream, Maturity
  <2>2. pool = Finals(settled) /\ auxiliary = {}
    BY <1>7 DEF IInv, Pools
  <2>3. \A c \in Clicks : Maturity(c) <= t => c \in settled
    BY <1>7 DEF Complete, Settles
  <2> QED
    BY <1>1, <1>6, <2>1, <2>2, <2>3, RecordFields DEF Finals
<1>8. CASE method = "immediate_fake_negative"
  <2>1. \A c \in Clicks : Stream(c, delay[c]) =
          {Record(c, "provisional", 0, clickTime[c])} \cup
          (IF Converts(delay, c) THEN {Correction(c)} ELSE {})
    BY <1>5, <1>8 DEF Stream, Converts, Correction
  <2>2. pool = {Record(c, "provisional", 0, clickTime[c]) : c \in Registered}
               \cup {Correction(c) : c \in Positive(revealed)} /\ auxiliary = {}
    BY <1>8 DEF IInv, Pools
  <2>3. \A c \in Clicks : Correction(c).at = At(c)
    BY RecordFields DEF Correction
  <2>4. \A c \in Clicks : Converts(delay, c) /\ At(c) <= t => c \in Positive(revealed)
    BY DEF Complete, Positive
  <2>5. \A c \in Clicks : clickTime[c] <= t => c \in Registered
    BY DEF Complete, Heard
  <2>6. ASSUME NEW r \in pool
        PROVE  r \in Promised(delay)
    BY <1>1, <1>2, <1>6, <2>1, <2>2, <2>6
  <2>7. ASSUME NEW r \in Promised(delay), r.at <= t
        PROVE  r \in pool
    <3>1. PICK c \in Clicks : r \in Stream(c, delay[c])
      BY <1>6, <2>7
    <3> QED
      BY <2>1, <2>2, <2>3, <2>4, <2>5, <2>7, <3>1, RecordFields
  <2> QED
    BY <2>2, <2>6, <2>7
<1>9. CASE Fixed
  <2>1. \A c \in Clicks : Correction(c).at = At(c) /\ Early(c).at = At(c)
    BY RecordFields DEF Correction, Early
  <2>2. \A c \in Clicks : Converts(delay, c) /\ At(c) <= t => c \in Positive(revealed)
    BY DEF Complete, Positive
  <2>3. \A c \in Clicks : Late(c) /\ Due(c) <= t => c \in provisional
    BY <1>9 DEF Complete
  <2>4. pool = Provisionals(provisional)
               \cup {Correction(c) : c \in {b \in Positive(revealed) : Late(b)}}
               \cup {Early(c) : c \in {b \in Positive(revealed) : ~Late(b)}}
    BY <1>9 DEF IInv, Pools
  <2>5. ASSUME NEW r \in pool
        PROVE  \E c \in Clicks : r \in FixedWaitStream(c, delay[c])
    BY <1>1, <1>2, <1>3, <1>9, <2>4, <2>5, FixedStreamIs DEF Provisionals
  <2>6. ASSUME NEW c \in Clicks, NEW r \in FixedWaitStream(c, delay[c]), r.at <= t
        PROVE  r \in pool
    <3>1. Late(c) \/ Converts(delay, c)
      BY <1>1, Times
    <3>2. CASE Late(c)
      <4>1. r = Record(c, "provisional", 0, Due(c)) \/ (Converts(delay, c) /\ r = Correction(c))
        BY <1>1, <2>6, <3>2, FixedStreamIs
      <4>2. CASE r = Record(c, "provisional", 0, Due(c))
        <5>1. c \in provisional
          BY <2>3, <2>6, <3>2, <4>2, RecordFields
        <5> QED
          BY <2>4, <4>2, <5>1 DEF Provisionals
      <4>3. CASE Converts(delay, c) /\ r = Correction(c)
        BY <2>1, <2>2, <2>4, <2>6, <3>2, <4>3
      <4> QED
        BY <4>1, <4>2, <4>3
    <3>3. CASE ~Late(c)
      BY <1>1, <2>1, <2>2, <2>4, <2>6, <3>1, <3>3, FixedStreamIs
    <3> QED
      BY <3>2, <3>3
  <2>7. CASE method = "fixed_wait"
    <3>1. \A c \in Clicks : Stream(c, delay[c]) = FixedWaitStream(c, delay[c])
      BY <2>7 DEF Stream
    <3>2. auxiliary = {}
      BY <2>7 DEF IInv, Pools
    <3> QED
      BY <1>6, <2>5, <2>6, <3>1, <3>2
  <2>8. CASE method = "es_dfm"
    <3>1. \A c \in Clicks :
            Stream(c, delay[c]) = FixedWaitStream(c, delay[c]) \cup AuxiliaryStream(c, delay[c])
      BY <2>8 DEF Stream
    <3>2. auxiliary = AuxiliaryOf(settled)
      BY <2>8 DEF IInv, Pools
    <3>3. \A c \in Clicks : Maturity(c) <= t => c \in settled
      BY <2>8 DEF Complete, Settles
    <3>4. \A c \in Clicks : Converts(delay, c) /\ delay[c] > Wait <=> Converts(delay, c) /\ Late(c)
      BY DEF Late
    <3>5. \A c \in Clicks : ~(Converts(delay, c) /\ delay[c] <= Wait) <=> Late(c)
      <4> SUFFICES ASSUME NEW c \in Clicks
                   PROVE  ~(Converts(delay, c) /\ delay[c] <= Wait) <=> Late(c)
        OBVIOUS
      <4>1. delay[c] \in Nat /\ Wait \in Nat /\ (~Converts(delay, c) => Late(c))
        BY <1>1, Times, StreamConstants
      <4> QED
        BY <4>1 DEF Late
    <3>6. AuxiliaryOf(settled) =
            {Record(c, "q_dp", IF Converts(delay, c) /\ Late(c) THEN 1 ELSE 0, Maturity(c)) :
               c \in settled}
            \cup {Record(c, "q_tn", 1 - Label(c), Maturity(c)) : c \in {b \in settled : Late(b)}}
      BY <1>1, <3>4, <3>5 DEF AuxiliaryOf
    <3>7. ASSUME NEW r \in auxiliary
          PROVE  \E c \in Clicks : r \in AuxiliaryStream(c, delay[c])
      BY <1>1, <3>2, <3>6, <3>7, AuxiliaryStreamIs
    <3>8. ASSUME NEW c \in Clicks, NEW r \in AuxiliaryStream(c, delay[c]), r.at <= t
          PROVE  r \in auxiliary
      <4>1. r.at = Maturity(c)
        BY <1>1, <3>8, AuxiliaryStreamIs, RecordFields
      <4>2. c \in settled
        BY <3>3, <3>8, <4>1
      <4> QED
        BY <1>1, <3>2, <3>6, <3>8, <4>2, AuxiliaryStreamIs
    <3> QED
      BY <1>6, <2>5, <2>6, <3>1, <3>7, <3>8
  <2> QED
    BY <1>9, <2>7, <2>8 DEF Fixed
<1>10. CASE method = "dfm"
  <2>1. \A c \in Clicks : Stream(c, delay[c]) = {Record(c, "current", 0, clickTime[c])}
    BY <1>10 DEF Stream
  <2>2. pool = {Record(c, "current", 0, clickTime[c]) : c \in Registered} /\ auxiliary = {}
    BY <1>10 DEF IInv, Pools
  <2>3. \A c \in Clicks : clickTime[c] <= t => c \in Registered
    BY DEF Complete, Heard
  <2> QED
    BY <1>1, <1>6, <2>1, <2>2, <2>3, RecordFields
<1>11. CASE method = "oracle_reference"
  <2>1. \A c \in Clicks : Stream(c, delay[c]) =
          {Record(c, "privileged-final", Label(c), clickTime[c])}
    BY <1>4, <1>11 DEF Stream
  <2>2. pool = {Record(c, "privileged-final", Label(c), clickTime[c]) : c \in Registered}
        /\ auxiliary = {}
    BY <1>11 DEF IInv, Pools
  <2>3. \A c \in Clicks : clickTime[c] <= t => c \in Registered
    BY DEF Complete, Heard
  <2> QED
    BY <1>1, <1>6, <2>1, <2>2, <2>3, RecordFields
<1> QED
  BY <1>1, <1>7, <1>8, <1>9, <1>10, <1>11 DEF AllMethods, Fixed

(* Of an outcome still to come at time t, nothing but the click shows.     *)
Shown(c) ==
  CASE method = "immediate_fake_negative" -> {Record(c, "provisional", 0, clickTime[c])}
    [] Fixed -> {Record(c, "provisional", 0, Due(c))}
    [] method = "dfm" -> {Record(c, "current", 0, clickTime[c])}
    [] OTHER -> {}

LEMMA StillToCome ==
  ASSUME Typed, method # "oracle_reference", NEW c \in Clicks, NEW d \in Delays, NEW t \in Int,
         clickTime[c] + (IF d # Never THEN d ELSE Window) > t, NEW r, r.at <= t
  PROVE  r \in Stream(c, d) <=> r \in Shown(c)
<1>1. /\ clickTime[c] \in Nat /\ Window \in Nat /\ Wait \in Nat /\ Wait < Window
      /\ d \in Nat /\ (d <= Window \/ d = Never) /\ Never = Window + 1
      /\ method \in AllMethods
  BY Times, StreamConstants DEF Typed, Delays, Never
<1>2. ~(clickTime[c] + Window <= t) /\ (d # Never => ~(clickTime[c] + d <= t))
  BY <1>1
<1>3. r # Record(c, "correction", 1, clickTime[c] + d) \/ d = Never
  BY <1>2, RecordFields
<1>4. CASE method = "complete_wait"
  BY <1>2, <1>4, RecordFields DEF Stream, Shown, Fixed
<1>5. CASE method = "immediate_fake_negative"
  BY <1>3, <1>5 DEF Stream, Shown, Fixed
<1>6. ASSUME Fixed
      PROVE  r \in FixedWaitStream(c, d) <=> r \in Shown(c)
  <2>1. Shown(c) = {Record(c, "provisional", 0, clickTime[c] + Wait)}
    BY <1>6 DEF Shown, Fixed, Due
  <2>2. CASE d <= Wait
    <3>1. d # Never /\ ~(clickTime[c] + d <= t) /\ ~(clickTime[c] + Wait <= t)
      BY <1>1, <1>2, <2>2
    <3> QED
      BY <2>1, <2>2, <3>1, RecordFields DEF FixedWaitStream
  <2>3. CASE ~(d <= Wait)
    BY <1>3, <2>1, <2>3 DEF FixedWaitStream
  <2> QED
    BY <2>2, <2>3
<1>7. CASE method = "fixed_wait"
  BY <1>6, <1>7 DEF Stream, Fixed
<1>8. CASE method = "es_dfm"
  <2>1. r \notin AuxiliaryStream(c, d)
    BY <1>2, RecordFields DEF AuxiliaryStream
  <2>2. Stream(c, d) = FixedWaitStream(c, d) \cup AuxiliaryStream(c, d)
    BY <1>8 DEF Stream
  <2> QED
    BY <1>6, <1>8, <2>1, <2>2 DEF Fixed
<1>9. CASE method = "dfm"
  BY <1>9 DEF Stream, Shown, Fixed
<1> QED
  BY <1>1, <1>4, <1>5, <1>7, <1>8, <1>9 DEF AllMethods

-----------------------------------------------------------------------------

(* A deployable method's pools at a credit are the same for every outcome  *)
(* that agrees with what has happened by then.                             *)
THEOREM NoLookAheadCorrect ==
  ASSUME ~AllowTies
  PROVE  Spec => []NoLookAhead
<1>1. IInv => NoLookAhead
  <2> SUFFICES ASSUME IInv, pc = "credit", method # "oracle_reference",
                      NEW ds \in [Clicks -> Delays], AgreesSoFar(ds)
               PROVE  pool \cup auxiliary = {r \in Promised(ds) : r.at <= now}
    BY DEF NoLookAhead
  <2>1. Typed /\ now \in Nat /\ Complete(now) /\ \A c \in Clicks : delay[c] \in Delays
    BY DecisionTimes, Times DEF IInv, Typed, Delivered, Spending
  <2>2. {r \in pool \cup auxiliary : r.at <= now} = {r \in Promised(delay) : r.at <= now}
    BY <2>1, PoolsArePromised
  <2>3. \A r \in pool \cup auxiliary : r.at <= now
    <3>1. \A c \in Clicks : Correction(c).at = At(c) /\ Early(c).at = At(c)
      BY RecordFields DEF Correction, Early
    <3>2. Registered \subseteq Clicks /\ Positive(revealed) \subseteq revealed
          /\ revealed \subseteq Clicks
      BY <2>1, Registration DEF Typed, Positive
    <3>3. \A r \in auxiliary : r.at <= now
      BY RecordFields DEF IInv, Within, Pools, AuxiliaryOf
    <3>4. CASE method = "complete_wait"
      BY <3>3, <3>4, RecordFields DEF IInv, Within, Pools, Finals
    <3>5. CASE method = "immediate_fake_negative"
      BY <3>1, <3>2, <3>3, <3>5, RecordFields DEF IInv, Within, Pools
    <3>6. CASE Fixed
      BY <3>1, <3>2, <3>3, <3>6, RecordFields DEF IInv, Within, Pools, Provisionals
    <3>7. CASE method = "dfm"
      BY <3>3, <3>7, RecordFields DEF IInv, Within, Pools
    <3> QED
      BY <2>1, <3>4, <3>5, <3>6, <3>7, StreamConstants DEF Typed, AllMethods, Fixed
  <2>4. ASSUME NEW r, r.at <= now, NEW c \in Clicks
        PROVE  r \in Stream(c, delay[c]) <=> r \in Stream(c, ds[c])
    <3>1. CASE ds[c] = delay[c]
      BY <3>1
    <3>2. CASE AvailableAt(ds, c) > now /\ AvailableAt(delay, c) > now
      <4>1. clickTime[c] + (IF ds[c] # Never THEN ds[c] ELSE Window) > now
            /\ clickTime[c] + (IF delay[c] # Never THEN delay[c] ELSE Window) > now
        BY <3>2 DEF AvailableAt, Converts
      <4>2. ds[c] \in Delays /\ delay[c] \in Delays
        BY <2>1
      <4> QED
        BY <2>1, <2>4, <4>1, <4>2, StillToCome
    <3> QED
      BY <3>1, <3>2 DEF AgreesSoFar
  <2>5. {r \in Promised(delay) : r.at <= now} = {r \in Promised(ds) : r.at <= now}
    BY <2>4 DEF Promised
  <2> QED
    BY <2>2, <2>3, <2>5
<1> QED
  BY <1>1, StreamCorrect, PTL

(* Every method implements the stream of promised records: a credit        *)
(* publishes what is legal by its decision, and no other step changes what *)
(* was legal by the last.                                                  *)
THEOREM StreamImplemented ==
  ASSUME ~AllowTies
  PROVE  Spec => ImplementsStream
<1> DEFINE Legal == {r \in pool \cup auxiliary : r.at <= last}
<1>1. Init => LegalStream!Init
  BY DEF Init, LegalStream!Init
<1>2. IInv => Legal = {r \in Promised(delay) : r.at <= last}
  <2> SUFFICES ASSUME IInv PROVE Legal = {r \in Promised(delay) : r.at <= last}
    OBVIOUS
  <2>1. last \in Int
    BY DecisionTimes DEF IInv, Typed
  <2> QED
    BY <2>1, PoolsArePromised DEF IInv, Delivered
<1>3. IInv' => Legal' = {r \in Promised(delay)' : r.at <= last'}
  <2>1. (IInv => Legal = {r \in Promised(delay) : r.at <= last})'
    BY <1>2, PTL
  <2> QED
    BY <2>1
<1>4. IInv /\ IInv' /\ [Next]_vars => [LegalStream!Next]_LegalStream!vars
  <2> SUFFICES ASSUME IInv, IInv', [Next]_vars
               PROVE  [LegalStream!Next]_LegalStream!vars
    OBVIOUS
  <2>1. UNCHANGED fixture /\ (last' = last \/ (pc = "credit" /\ last' = now))
    BY DEF Next, vars, fixture, DeliverClick, EndClicks, RevealPositive, RevealNegative, EndTruth,
           SpendCredit, Refuse
  <2>2. Promised(delay)' = Promised(delay)
    BY <2>1 DEF fixture, Promised, Stream, FixedWaitStream, AuxiliaryStream
  <2>3. Legal = {r \in Promised(delay) : r.at <= last}
        /\ Legal' = {r \in Promised(delay) : r.at <= last'}
    BY <1>2, <1>3, <2>2
  <2>4. CASE last' = last
    BY <2>2, <2>3, <2>4 DEF LegalStream!vars
  <2>5. CASE pc = "credit" /\ last' = now
    <3>1. PICK t \in Decisions : t = now
      BY DEF IInv, Typed
    <3>2. last < t
      BY <2>5, <3>1 DEF IInv, Paced
    <3>3. LegalStream!Publish(t)
      BY <2>2, <2>3, <2>5, <3>1, <3>2 DEF LegalStream!Publish, LegalStream!LegalBy
    <3> QED
      BY <3>3 DEF LegalStream!Next
  <2> QED
    BY <2>1, <2>4, <2>5
<1> QED
  BY <1>1, <1>4, StreamCorrect, PTL DEF Spec, ImplementsStream, LegalStream!Spec
=============================================================================
