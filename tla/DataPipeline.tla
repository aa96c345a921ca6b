---------------------------- MODULE DataPipeline ----------------------------
(* The four commands that turn a remote archive into what a run may read:   *)
(* fetch (with the operator's review of the first digest), inspect, prepare *)
(* and the build of a feature cache per hashing policy.  One command runs   *)
(* at a time; it can be killed, interrupted from the keyboard or fail       *)
(* between any two durable steps.  A file is named by a tuple and stands    *)
(* for the archive its bytes come from; Rot is what no archive holds.       *)
EXTENDS Naturals, Sequences

CONSTANTS
  Contents,        \* archives of the configured size and members the server may offer
  Configurations,  \* digests an authored configuration may name: none or one
  Approved,        \* digests the operator accepts in a review
  Policies,        \* hashing policies a cache is built for
  Parts,           \* number of feature partitions
  Rot,             \* bytes that come from no archive
  MaxChanges,      \* bound: how often the server's archive changes
  MaxCrashes,      \* bound: kills between two steps
  MaxFailures,     \* bound: keyboard interrupts and failing steps
  MaxDamage        \* bound: files damaged at rest

ASSUME DataConstants ==
  /\ Approved \subseteq Contents
  /\ Rot \notin Contents
  /\ Parts \in Nat \ {0}
  /\ Configurations \subseteq {{}} \cup {{c} : c \in Contents}
  /\ {MaxChanges, MaxCrashes, MaxFailures, MaxDamage} \subseteq Nat

VARIABLES
  configured,  \* the digest the configuration names: none or one
  remote,      \* the archive the server offers
  reviewed,    \* digests the operator has passed as --review-sha256
  disk,        \* the files in place: what each was made from
  left,        \* temporaries no running command owns
  cmd,         \* the running command
  at,          \* how many of its durable steps are done
  work,        \* what it holds in memory
  changes, crashes, failures, damage

pipelineVars == <<configured, remote, reviewed, disk, left, cmd, at, work, changes, crashes, failures, damage>>
bounds == <<changes, crashes, failures, damage>>

Artifact(c) == <<"artifact", c>>
Candidate == <<"download-candidate.json">>
ArtifactLock == <<"artifact-lock.json">>
Quarantine == <<"rejected.jsonl">>
Inspection == <<"inspection.json">>
Features == <<"features">>
Truth == <<"truth">>
Rejected == <<"rejected.parquet">>
Preparation == <<"preparation.json">>
Part(p, k) == <<"part", p, k>>
CacheManifest(p) == <<"manifest.json", p>>

Promotions == <<Features, Truth, Rejected>>
Store == {Features, Truth, Rejected}
PartsOf(p) == {Part(p, k) : k \in 1..Parts}

(* Leftovers under the processed root, and those beside a cache.            *)
Audit == <<"audit temporaries">>
Stage == <<".prepare">>
PartTemporary(p) == <<"part.tmp", p>>
ManifestTemporary(p) == <<".manifest.json", p>>

InPlace(f) == f \in DOMAIN disk
Put(f, value) == [g \in DOMAIN disk \cup {f} |-> IF g = f THEN value ELSE disk[g]]
Without(files) == [f \in DOMAIN disk \ files |-> disk[f]]

Idle == cmd = "none"
Begin(name, data) == cmd' = name /\ at' = 0 /\ work' = data
Advance == at' = at + 1 /\ UNCHANGED <<cmd, work>>
End == cmd' = "none" /\ at' = 0 /\ work' = <<>>
command == <<cmd, at, work>>

-----------------------------------------------------------------------------
(* fetch_dataset.  With a lock in place it only verifies the archive again. *)

(* _review_candidate: the digest must be that of the retained candidate,    *)
(* whose bytes are hashed once more, before the lock is written.            *)
Review(d) ==
  /\ Idle /\ ~InPlace(ArtifactLock)
  /\ InPlace(Candidate)
  /\ disk[Candidate] = d /\ disk[Artifact(d)] = d
  /\ disk' = Put(ArtifactLock, d)
  /\ reviewed' = reviewed \cup {d}
  /\ UNCHANGED <<configured, remote, left, command, bounds>>

(* The download: without a candidate to review, the server's archive goes   *)
(* to its content-addressed path unless another digest is configured or the *)
(* path already holds other bytes.                                          *)
Download(review) ==
  /\ Idle /\ ~InPlace(ArtifactLock)
  /\ review # {} => ~InPlace(Candidate)
  /\ configured \subseteq {remote}
  /\ InPlace(Artifact(remote)) => disk[Artifact(remote)] = remote
  /\ disk' = Put(Artifact(remote), remote)
  /\ Begin("fetch", <<remote, review>>)
  /\ reviewed' = reviewed \cup review
  /\ UNCHANGED <<configured, remote, left, bounds>>

(* The digest is trusted if the configuration names it or, without one, the *)
(* caller did: then the archive is locked.  Otherwise it stays a candidate. *)
SettleDownload ==
  /\ cmd = "fetch"
  /\ LET trusted == IF configured # {} THEN configured ELSE work[2]
         record == IF work[1] \in trusted THEN ArtifactLock ELSE Candidate
     IN  disk' = Put(record, work[1])
  /\ End
  /\ UNCHANGED <<configured, remote, reviewed, left, bounds>>

-----------------------------------------------------------------------------
(* inspect_locked_archive.  The bytes it reads are hashed against the lock. *)

Locked == InPlace(ArtifactLock) /\ disk[Artifact(disk[ArtifactLock])] = disk[ArtifactLock]
Source == disk[Artifact(disk[ArtifactLock])]

Inspect ==
  /\ Idle /\ Locked
  /\ ~InPlace(Inspection) /\ ~InPlace(Quarantine)
  /\ Begin("inspect", <<>>)
  /\ UNCHANGED <<configured, remote, reviewed, disk, left, bounds>>

PromoteQuarantine ==
  /\ cmd = "inspect" /\ at = 0
  /\ disk' = Put(Quarantine, Source)
  /\ Advance
  /\ UNCHANGED <<configured, remote, reviewed, left, bounds>>

WriteInspection ==
  /\ cmd = "inspect" /\ at = 1
  /\ disk' = Put(Inspection, Source)
  /\ Advance
  /\ UNCHANGED <<configured, remote, reviewed, left, bounds>>

-----------------------------------------------------------------------------
(* prepare_data.  It trusts the lock and the inspection only if both name   *)
(* the archive's bytes; a damaged quarantine of the right length is read.   *)
(* The staged stores are promoted one by one, the manifest last.            *)

Prepare ==
  /\ Idle /\ Locked
  /\ InPlace(Inspection) /\ disk[Inspection] = Source
  /\ InPlace(Quarantine)
  /\ \A f \in Store \cup {Preparation} : ~InPlace(f)
  /\ Begin("prepare", <<Source, Source, disk[Quarantine]>>)
  /\ UNCHANGED <<configured, remote, reviewed, disk, left, bounds>>

PromoteNext ==
  /\ cmd = "prepare" /\ at < Len(Promotions)
  /\ disk' = Put(Promotions[at + 1], work[at + 1])
  /\ Advance
  /\ UNCHANGED <<configured, remote, reviewed, left, bounds>>

(* Faulty variant: the manifest is written before the last store.           *)
PublishPreparationEarly ==
  /\ cmd = "prepare" /\ at = Len(Promotions) - 1
  /\ disk' = Put(Preparation, work)
  /\ at' = at + 2 /\ UNCHANGED <<cmd, work>>
  /\ UNCHANGED <<configured, remote, reviewed, left, bounds>>

PublishPreparation ==
  /\ cmd = "prepare" /\ at = Len(Promotions)
  /\ disk' = Put(Preparation, work)
  /\ Advance
  /\ UNCHANGED <<configured, remote, reviewed, left, bounds>>

-----------------------------------------------------------------------------
(* Faulty variant: the quarantine is only looked for, not hashed.           *)
ControlFilesPresent == InPlace(Inspection) /\ InPlace(Quarantine)

(* verify_prepared_inventory: every listed byte, the two control files by   *)
(* their digests, and nothing else under the processed root.                *)
ControlFiles ==
  /\ InPlace(Inspection) /\ InPlace(Quarantine)
  /\ disk[Quarantine] = disk[Inspection]

InventoryVerified ==
  /\ InPlace(Preparation)
  /\ \A k \in 1..Len(Promotions) :
       InPlace(Promotions[k]) /\ disk[Promotions[k]] = disk[Preparation][k]
  /\ ControlFiles
  /\ left \cap {Audit, Stage} = {}

(* verify_feature_cache: the listed parts and no other file.                *)
CacheVerified(p) ==
  /\ InPlace(CacheManifest(p))
  /\ \A f \in PartsOf(p) : InPlace(f) /\ disk[f] = disk[CacheManifest(p)]
  /\ left \cap {PartTemporary(p), ManifestTemporary(p)} = {}

(* Faulty variant: the temporaries of an earlier build stay.                *)
RemoveNoParts(p) == left

(* build_feature_cache.  It removes part temporaries of an earlier build    *)
(* and writes every part again; a manifest in place is only verified.       *)
RemoveTemporaryParts(p) == left \ {PartTemporary(p)}

BuildCache(p) ==
  /\ Idle /\ InventoryVerified /\ ~InPlace(CacheManifest(p))
  /\ left' = RemoveTemporaryParts(p)
  /\ Begin("cache", <<p>>)
  /\ UNCHANGED <<configured, remote, reviewed, disk, bounds>>

WritePart ==
  /\ cmd = "cache" /\ at < Parts
  /\ disk' = Put(Part(work[1], at + 1), disk[Features])
  /\ Advance
  /\ UNCHANGED <<configured, remote, reviewed, left, bounds>>

PublishCache ==
  /\ cmd = "cache" /\ at = Parts
  /\ disk' = Put(CacheManifest(work[1]), disk[Features])
  /\ Advance
  /\ UNCHANGED <<configured, remote, reviewed, left, bounds>>

-----------------------------------------------------------------------------
(* The end of a command: its temporaries are removed.                       *)
Finish ==
  /\ \/ cmd = "inspect" /\ at = 2
     \/ cmd = "prepare" /\ at = Len(Promotions) + 1
     \/ cmd = "cache" /\ at = Parts + 1
  /\ End
  /\ UNCHANGED <<configured, remote, reviewed, disk, left, bounds>>

(* What a killed command may leave: the audit's database and the stage are  *)
(* there from start to end, a temporary of a cache only around its write.   *)
Leftovers ==
  CASE cmd = "fetch" -> {{}}
    [] cmd = "inspect" -> {{Audit}}
    [] cmd = "prepare" -> {{Stage}}
    [] cmd = "cache" /\ at < Parts -> {{}, {PartTemporary(work[1])}}
    [] OTHER -> {{}, {ManifestTemporary(work[1])}}

Crash ==
  /\ ~Idle /\ crashes < MaxCrashes
  /\ \E files \in Leftovers : left' = left \cup files
  /\ End /\ crashes' = crashes + 1
  /\ UNCHANGED <<configured, remote, reviewed, disk, changes, failures, damage>>

(* A keyboard interrupt is no Exception: temporaries go, promotions stay.   *)
Interrupt ==
  /\ ~Idle /\ failures < MaxFailures
  /\ End /\ failures' = failures + 1
  /\ UNCHANGED <<configured, remote, reviewed, disk, left, changes, crashes, damage>>

(* A step that fails: what the command promoted is taken back.              *)
RolledBack ==
  IF cmd = "inspect" /\ at = 1 THEN {Quarantine}
  ELSE IF cmd = "prepare" THEN Store ELSE {}

Fail ==
  /\ ~Idle /\ failures < MaxFailures
  /\ \/ cmd = "fetch"
     \/ cmd = "inspect" /\ at < 2
     \/ cmd = "prepare" /\ at <= Len(Promotions)
     \/ cmd = "cache"
  /\ disk' = Without(RolledBack)
  /\ End /\ failures' = failures + 1
  /\ UNCHANGED <<configured, remote, reviewed, left, changes, crashes, damage>>

(* The server offers another archive.                                       *)
ChangeRemote ==
  /\ changes < MaxChanges
  /\ remote' \in Contents \ {remote}
  /\ changes' = changes + 1
  /\ UNCHANGED <<configured, reviewed, disk, left, command, crashes, failures, damage>>

(* Bytes of a data file change while no command runs.                       *)
DataFiles == {Artifact(c) : c \in Contents} \cup {Quarantine} \cup Store
                \cup UNION {PartsOf(p) : p \in Policies}

Damage ==
  /\ Idle /\ damage < MaxDamage
  /\ \E f \in DataFiles \cap DOMAIN disk :
       disk[f] # Rot /\ disk' = [disk EXCEPT ![f] = Rot]
  /\ damage' = damage + 1
  /\ UNCHANGED <<configured, remote, reviewed, left, command, changes, crashes, failures>>

-----------------------------------------------------------------------------
PipelineInit ==
  /\ configured \in Configurations
  /\ remote \in Contents
  /\ reviewed = {} /\ disk = <<>> /\ left = {}
  /\ Idle /\ at = 0 /\ work = <<>>
  /\ changes = 0 /\ crashes = 0 /\ failures = 0 /\ damage = 0

CommandStep ==
  \/ SettleDownload
  \/ PromoteQuarantine \/ WriteInspection
  \/ PromoteNext \/ PublishPreparation
  \/ WritePart \/ PublishCache
  \/ Finish

PipelineNext ==
  \/ \E d \in Approved : Review(d) \/ Download({d})
  \/ Download({})
  \/ Inspect \/ Prepare
  \/ \E p \in Policies : BuildCache(p)
  \/ CommandStep
  \/ Crash \/ Interrupt \/ Fail \/ ChangeRemote \/ Damage

PipelineSpec == PipelineInit /\ [][PipelineNext]_pipelineVars

(* A command that runs goes on; the operator repeats each command until it  *)
(* has succeeded, in whatever order, between whatever other commands.       *)
FairSpec ==
  /\ PipelineSpec
  /\ WF_pipelineVars(CommandStep)
  /\ SF_pipelineVars(Download({})) /\ \A d \in Approved : SF_pipelineVars(Review(d))
  /\ SF_pipelineVars(Inspect) /\ SF_pipelineVars(Prepare)
  /\ \A p \in Policies : SF_pipelineVars(BuildCache(p))

-----------------------------------------------------------------------------
(* A run may read a policy's cache if both verifications pass.              *)
Usable(p) == InventoryVerified /\ CacheVerified(p)
Trusted == IF configured # {} THEN configured ELSE reviewed

(* Whatever the server offers, whichever download was retained and whatever *)
(* was damaged in between: the lock names a digest the configuration names  *)
(* or the operator reviewed, and what a run accepts comes from that archive *)
(* in every file, the quarantined rows included (download.py, prepare.py,   *)
(* prepared.py and cache.py together).                                      *)
EvidenceChain ==
  /\ InPlace(ArtifactLock) => disk[ArtifactLock] \in Trusted
  /\ \A p \in Policies : Usable(p) =>
       \A f \in {Inspection, Quarantine} \cup Store \cup PartsOf(p) :
         disk[f] = disk[ArtifactLock]

(* Each manifest is published after everything it lists, and a rollback     *)
(* never takes back what a published manifest lists: a kill, an interrupt   *)
(* or a failing step in between leaves files without a manifest, never a    *)
(* manifest without its files.                                              *)
ManifestsLast ==
  /\ InPlace(ArtifactLock) => InPlace(Artifact(disk[ArtifactLock]))
  /\ InPlace(Inspection) => InPlace(Quarantine)
  /\ InPlace(Preparation) => Store \subseteq DOMAIN disk
  /\ \A p \in Policies : InPlace(CacheManifest(p)) => PartsOf(p) \subseteq DOMAIN disk

(* What blocks the pipeline for good.                                       *)
Unserved == ~InPlace(ArtifactLock)
              /\ remote \notin (IF configured # {} THEN configured ELSE Approved)
HalfPublished ==
  \/ InPlace(Quarantine) /\ ~InPlace(Inspection)
  \/ \E f \in Store : InPlace(f) /\ ~InPlace(Preparation)
Littered == left \ {PartTemporary(p) : p \in Policies} # {}
Damaged == damage > 0

(* Every cache becomes usable and stays so, unless the server never offers  *)
(* an acceptable archive, a command was killed or interrupted between its   *)
(* promotions and its manifest, a killed command left a temporary the       *)
(* readers refuse, or a file was damaged.  In particular a failed step and  *)
(* a build killed between two parts are always recovered from.              *)
EventuallyReady ==
  <>[](\/ \A p \in Policies : Usable(p)
       \/ Unserved \/ HalfPublished \/ Littered \/ Damaged)
=============================================================================
