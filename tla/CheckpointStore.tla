--------------------------- MODULE CheckpointStore ---------------------------
(***************************************************************************)
(* RollingCheckpointStore (experiments/checkpoint.py) together with the    *)
(* run that writes to it and the executor that restarts that run.          *)
(*                                                                         *)
(* One write is the sequence of durable steps the code performs: a hidden  *)
(* temporary directory is filled, renamed to generation-N, latest.json is  *)
(* replaced through a temporary file of its own, and every generation but  *)
(* the new one and the previously newest verified one is deleted.  The     *)
(* process may crash between any two of them.  The environment may also    *)
(* damage a generation or the pointer.                                     *)
(*                                                                         *)
(* Abstractions.  A state is the number of checkpoints the run has made    *)
(* (its progress).  The SHA-256 checks of a generation are one fact: it is *)
(* in "sound", or it is not and verification raises ConsistencyError, or   *)
(* it is in "garbled" and reading its manifest raises another exception    *)
(* (bytes that are not UTF-8: read_json turns an OSError or a              *)
(* JSONDecodeError alone into a ConsistencyError, manifests.py:56-61).     *)
(* Bytes of latest.json are of the same two kinds: "decodes" says which.   *)
(* Directory fsyncs give the crash points their order and have no state of *)
(* their own.                                                              *)
(***************************************************************************)
EXTENDS Naturals, FiniteSets

CONSTANTS
  MaxGeneration,  \* bound on generation numbers
  MaxCrashes,     \* bound on crashes of the process
  MaxDamage,      \* bound on files the environment damages
  DamageKinds     \* what damage may do: subset of Kinds

\* A generation that no longer verifies, or whose manifest is not UTF-8; a
\* latest.json that is no pointer any more, or that is not UTF-8.
Kinds == {"damaged", "garbled", "pointer", "undecodable"}

ASSUME CheckpointConstants ==
  /\ MaxGeneration \in Nat
  /\ MaxCrashes \in Nat
  /\ MaxDamage \in Nat
  /\ DamageKinds \subseteq Kinds

Generation == 1 .. MaxGeneration
None == 0

VARIABLES
  present,   \* generation-N directories in the checkpoint root
  sound,     \* those whose file set and digests verify
  garbled,   \* those whose manifest cannot even be decoded
  payload,   \* progress stored in each generation
  latest,    \* latest.json: [exists, decodes, current, previous]
  stray,     \* is a ".latest.json.*" temporary left in the root?
  orphans,   \* ".generation-*" temporaries left in the root by crashes
  pc,        \* where the process is in a write, or down, or failed
  target,    \* generation being written
  prior,     \* newest verified generation when the write began, or None
  progress,  \* checkpoints the running process has completed
  acked,     \* greatest progress a write() returned for or a resume began from
  crashes, damage

disk == <<present, sound, garbled, payload, latest, stray, orphans>>
vars == <<present, sound, garbled, payload, latest, stray, orphans,
          pc, target, prior, progress, acked, crashes, damage>>

Writing == {"staged", "published", "pointing", "pruning"}
NoPointer == [exists |-> FALSE, decodes |-> TRUE, current |-> None, previous |-> None]
PointerTo(g, p) == [exists |-> TRUE, decodes |-> TRUE, current |-> g, previous |-> p]

DiskTypes ==
  /\ present \subseteq Generation
  /\ sound \subseteq present
  /\ garbled \subseteq present
  /\ payload \in [Generation -> Nat]
  /\ latest \in [exists : BOOLEAN, decodes : BOOLEAN,
                 current : Generation \cup {None}, previous : Generation \cup {None}]
  /\ stray \in BOOLEAN
  /\ orphans \in Nat

RunTypes ==
  /\ pc \in Writing \cup {"running", "down", "failed"}
  /\ target \in Generation \cup {None}
  /\ pc \in Writing => target # None
  /\ prior \in Generation \cup {None}
  /\ progress \in Nat
  /\ acked \in Nat
  /\ crashes \in 0 .. MaxCrashes
  /\ damage \in 0 .. MaxDamage

\* What each file and each field of the process may hold.
TypeOK == DiskTypes /\ RunTypes

Init ==
  /\ present = {} /\ sound = {} /\ garbled = {}
  /\ payload = [g \in Generation |-> 0]
  /\ latest = NoPointer
  /\ stray = FALSE
  /\ orphans = 0
  /\ pc = "running"
  /\ target = None /\ prior = None
  /\ progress = 0 /\ acked = 0
  /\ crashes = 0 /\ damage = 0

-----------------------------------------------------------------------------
(* write(): lines 177-243.                                                 *)

IsNewest(g, S) == g \in S /\ \A h \in S : h <= g

\* generations[-1][0] + 1, or 1 when there is none.
IsNextNumber(g) ==
  IF present = {} THEN g = 1 ELSE IsNewest(g - 1, present)

\* Faulty variant: the oldest verified generation is taken for the previous one.
IsPreviousOldest(g) ==
  IF sound = {} THEN g = None ELSE g \in sound /\ \A h \in sound : g <= h

\* The newest generation that verifies, or None when there is none.
IsPrevious(g) ==
  IF sound = {} THEN g = None ELSE IsNewest(g, sound)

\* _generation_paths refuses the temporary of an interrupted pointer write;
\* _verified_generations lets a decoding error through; generations that all
\* fail verification are refused ("refusing a silent restart").
WriteRefused == stray \/ garbled # {} \/ (present # {} /\ sound = {})

\* The checks, mkdtemp, the three files and their verification.
BeginWrite ==
  /\ pc = "running"
  /\ ~WriteRefused
  /\ \E g \in Generation, p \in Generation \cup {None} :
       /\ IsNextNumber(g)
       /\ IsPrevious(p)
       /\ target' = g
       /\ prior' = p
  /\ pc' = "staged"
  /\ UNCHANGED <<disk, progress, acked, crashes, damage>>

RefuseWrite ==
  /\ pc = "running"
  /\ WriteRefused
  /\ pc' = "failed"
  /\ UNCHANGED <<disk, target, prior, progress, acked, crashes, damage>>

\* os.replace(temporary, target): the generation appears whole.
Publish ==
  /\ pc = "staged"
  /\ present' = present \cup {target}
  /\ sound' = sound \cup {target}
  /\ payload' = [payload EXCEPT ![target] = progress + 1]
  /\ pc' = "published"
  /\ UNCHANGED <<garbled, latest, stray, orphans, target, prior,
                 progress, acked, crashes, damage>>

\* write_json_atomic: mkstemp, write and fsync of the pointer's temporary.
StagePointer ==
  /\ pc = "published"
  /\ stray' = TRUE
  /\ pc' = "pointing"
  /\ UNCHANGED <<present, sound, garbled, payload, latest, orphans, target,
                 prior, progress, acked, crashes, damage>>

\* os.replace(temporary, latest.json).
SwapPointer ==
  /\ pc = "pointing"
  /\ stray' = FALSE
  /\ latest' = PointerTo(target, prior)
  /\ pc' = "pruning"
  /\ UNCHANGED <<present, sound, garbled, payload, orphans, target, prior,
                 progress, acked, crashes, damage>>

Larger(a, b) == IF a < b THEN b ELSE a

\* Faulty variant: only the new generation is kept.
StaleKeepsNew == present \ {target}

Stale == present \ {target, prior}

\* rmtree of the oldest generation outside "keep": first no longer whole,
\* then gone.
Prune(g) ==
  /\ pc = "pruning"
  /\ g \in Stale /\ \A h \in Stale : g <= h
  /\ sound' = sound \ {g}
  /\ garbled' = garbled \ {g}
  /\ present' = IF g \in sound \cup garbled THEN present ELSE present \ {g}
  /\ UNCHANGED <<payload, latest, stray, orphans, pc, target, prior,
                 progress, acked, crashes, damage>>

\* write() returns the candidate; the run counts the checkpoint.
EndWrite ==
  /\ pc = "pruning"
  /\ Stale = {}
  /\ progress' = progress + 1
  /\ acked' = Larger(acked, progress + 1)
  /\ pc' = "running"
  /\ UNCHANGED <<disk, target, prior, crashes, damage>>

-----------------------------------------------------------------------------
(* Crash, and restart through the executor and load_latest(): 254-284.     *)

Crash ==
  /\ pc \in Writing \cup {"running"}
  /\ crashes < MaxCrashes
  /\ crashes' = crashes + 1
  /\ orphans' = IF pc = "staged" THEN orphans + 1 ELSE orphans
  /\ pc' = "down"
  /\ UNCHANGED <<present, sound, garbled, payload, latest, stray, target,
                 prior, progress, acked, damage>>

\* Faulty variants: the pointer's previous is tried first; the pointer is
\* ignored; only the two generations the pointer names are tried.
IsSelectedPreviousFirst(g) ==
  \/ g = latest.previous /\ g \in sound
  \/ g = latest.current /\ g \in sound /\ latest.previous \notin sound
IsSelectedNewest(g) == IsNewest(g, sound)
LoadRefusedPointerOnly ==
  stray \/ {latest.current, latest.previous} \cap sound = {}

\* load_latest tries the pointer's current, its previous, and then every
\* generation from the newest down, and returns the first that verifies.
IsSelected(g) ==
  \/ g = latest.current /\ g \in sound
  \/ g = latest.previous /\ g \in sound /\ latest.current \notin sound
  \/ /\ {latest.current, latest.previous} \cap sound = {}
     /\ IsNewest(g, sound)

\* A pointer that does not decode, or a garbled manifest met before that one:
\* the loops catch ConsistencyError alone.
LoadRaises ==
  \/ ~latest.decodes
  \/ latest.current \in garbled
  \/ latest.current \notin sound /\ latest.previous \in garbled
  \/ /\ {latest.current, latest.previous} \cap sound = {}
     /\ \E u \in garbled : \A g \in sound : g < u

LoadRefused == stray \/ LoadRaises \/ sound = {}

\* The executor resumes when latest.json exists.
Resume ==
  /\ pc = "down"
  /\ latest.exists
  /\ ~LoadRefused
  /\ \E g \in Generation :
       /\ IsSelected(g)
       /\ progress' = payload[g]
       /\ acked' = Larger(acked, payload[g])
  /\ pc' = "running"
  /\ UNCHANGED <<disk, target, prior, crashes, damage>>

\* With no latest.json the run is built afresh, and its controller refuses
\* an output root that is not empty; with one, load_latest may refuse.
RefuseRestart ==
  /\ pc = "down"
  /\ latest.exists => LoadRefused
  /\ pc' = "failed"
  /\ UNCHANGED <<disk, target, prior, progress, acked, crashes, damage>>

-----------------------------------------------------------------------------
(* The environment damages a file at rest.                                 *)

Damage(g, kind) ==
  /\ damage < MaxDamage
  /\ kind \in DamageKinds \cap {"damaged", "garbled"}
  /\ g \in sound
  /\ pc \in {"running", "down"}
  /\ damage' = damage + 1
  /\ sound' = sound \ {g}
  /\ garbled' = IF kind = "garbled" THEN garbled \cup {g} ELSE garbled
  /\ UNCHANGED <<present, payload, latest, stray, orphans, pc, target, prior,
                 progress, acked, crashes>>

\* The pointer that names nothing is passed over by load_latest, the one that
\* does not decode is not; write() reads neither and replaces both.
DamagePointer(kind) ==
  /\ damage < MaxDamage
  /\ kind \in DamageKinds \cap {"pointer", "undecodable"}
  /\ latest.exists /\ latest.decodes
  /\ pc \in {"running", "down"}
  /\ damage' = damage + 1
  /\ latest' = [NoPointer EXCEPT !.exists = TRUE, !.decodes = (kind = "pointer")]
  /\ UNCHANGED <<present, sound, garbled, payload, stray, orphans, pc, target,
                 prior, progress, acked, crashes>>

Next ==
  \/ BeginWrite \/ RefuseWrite
  \/ Publish \/ StagePointer \/ SwapPointer
  \/ \E g \in Generation : Prune(g)
  \/ EndWrite
  \/ Crash \/ Resume \/ RefuseRestart
  \/ \E g \in Generation, kind \in DamageKinds : Damage(g, kind)
  \/ \E kind \in DamageKinds : DamagePointer(kind)

Spec == Init /\ [][Next]_vars

-----------------------------------------------------------------------------
(* Properties.                                                             *)

Down == {"down", "failed"}
Durable == IF latest.exists THEN payload[latest.current] ELSE 0

\* Without damage latest.json never names a generation that is missing or
\* half written or half deleted, at no point of a write and after no crash
\* (the order rename, pointer, cleanup of lines 217-239).
PointerNamesWholeGenerations ==
  damage = 0 => {latest.current, latest.previous} \ {None} \subseteq sound

\* "Retain two verified generations" (line 100): once two writes have returned
\* there are always two verified generations, the newer holding at least the
\* last acknowledged progress and the older at least the one before it.
RetainsTwoVerified ==
  (damage = 0 /\ acked >= 2) =>
    \E g, h \in sound : h < g /\ payload[g] >= acked /\ payload[h] + 1 >= acked

\* Resuming loses at most one acknowledged checkpoint for each damaged file,
\* and none without damage (pointer order and fallback of lines 254-284, the
\* "newest verified" kept by lines 186-191 and 234-239).
LossBoundedByDamage ==
  [][pc = "down" /\ pc' = "running" => progress' + damage >= acked]_vars

\* A crash alone never makes the store unusable once it holds a checkpoint:
\* resumption is refused only for damage ("Every stage writes immutable
\* resumable evidence", README.md:172).
CrashAloneIsResumable == (damage = 0 /\ latest.exists) => pc # "failed"

\* A damaged generation is skipped while another one verifies (the test
\* test_corrupt_current_falls_back_to_verified_previous,
\* tests/unit/test_real_checkpoints.py:60), and so is a pointer that is JSON no
\* more: a store gives up only when nothing verifies, or over bytes of a
\* generation's manifest or of latest.json that are not UTF-8, whose reading
\* raises an exception that neither try catches (lines 263-283).
FallsBackToVerified ==
  (/\ pc = "failed" /\ latest.exists /\ ~stray
   /\ latest.decodes /\ garbled = {}) => sound = {}

Register == INSTANCE CheckpointRegister WITH
  durable <- Durable, memory <- progress, alive <- pc \notin Down

\* Until a file is damaged the store is a durable register: the pointer swap
\* is the instant a save takes effect, and a crash loses the memory alone.
ImplementsRegister ==
  Register!Init /\ [][damage' = 0 => [Register!Next]_(Register!registerVars)]_vars

-----------------------------------------------------------------------------
(* The inductive invariant of a store that was not damaged.                *)

PointerInv ==
  /\ latest.exists <=> latest.current # None
  /\ {latest.current, latest.previous} \ {None} \subseteq sound
  /\ garbled = {}

\* A later generation never holds less progress than an earlier one, and none
\* is more than the write in flight ahead of the pointer.
PayloadInv ==
  /\ \A g, h \in sound : g <= h => payload[g] <= payload[h]
  /\ \A g \in sound : 0 < payload[g] /\ payload[g] <= Durable + 1

ProgressInv ==
  /\ acked <= Durable /\ Durable <= acked + 1
  /\ pc \in {"running", "staged", "published", "pointing"} =>
       progress = Durable /\ acked = Durable
  /\ pc = "pruning" => progress + 1 = Durable

WriteInv ==
  /\ pc \in Writing /\ prior = None => progress = 0
  /\ pc \in Writing /\ prior # None =>
       prior \in sound /\ prior < target /\ progress <= payload[prior]
  /\ pc = "staged" => \A g \in present : g < target
  /\ pc \in {"published", "pointing"} =>
       target \in sound /\ payload[target] = progress + 1
  /\ pc = "pruning" => latest = PointerTo(target, prior)

\* The pointer's previous generation is at most one checkpoint behind.
PairInv ==
  Durable >= 2 =>
    /\ latest.previous \in sound
    /\ latest.previous < latest.current
    /\ payload[latest.previous] + 1 >= Durable

Intact == PointerInv /\ PayloadInv /\ ProgressInv /\ WriteInv /\ PairInv
IInv == damage = 0 => Intact
-----------------------------------------------------------------------------
(* What damage costs.                                                      *)

\* How many verified generations are newer than g: as many must be damaged
\* before load_latest comes to g, if the pointer names none of them.
NewerIn(S, g) == Cardinality({h \in S : h > g})
Behind(g) == payload[g] + damage + NewerIn(sound, g)

\* Each verified generation is behind by one checkpoint at most for each
\* damage so far and each damage that must still happen before it is selected.
Held ==
  \A g \in sound : acked <= Behind(g) /\ \A h \in sound : payload[h] <= Behind(g)

\* The same for the generations the pointer names, which are selected first.
First == IF latest.current \in sound THEN 1 ELSE 0
Pointed ==
  /\ latest.current \in sound =>
       /\ acked <= payload[latest.current] + damage
       /\ \A h \in sound : payload[h] <= payload[latest.current] + damage + 1
  /\ latest.previous \in sound =>
       /\ acked <= payload[latest.previous] + damage + First
       /\ First = 1 => payload[latest.current] <= payload[latest.previous] + damage + 1
       /\ \A h \in sound : payload[h] <= payload[latest.previous] + damage + First + 1

\* A run is behind what was acknowledged by the damages, and nothing stored is
\* ahead or behind of it by more.
Underway ==
  pc \in Writing \cup {"running"} =>
    /\ acked <= progress + damage
    /\ \A g \in sound : payload[g] <= progress + damage + 1 /\ progress <= Behind(g)
    /\ latest.current \in sound => progress <= payload[latest.current] + damage
    /\ latest.previous \in sound => progress <= payload[latest.previous] + damage + First

\* Of the generations a write keeps, prior is the newest verified one below.
InWrite ==
  pc \in Writing =>
    /\ \A g \in sound : g = target \/ (prior # None /\ g <= prior)
    /\ prior # None =>
         prior \in sound /\ prior < target /\ progress <= payload[prior] + damage
    /\ pc = "staged" => \A g \in present : g < target
    /\ pc # "staged" => target \in sound /\ payload[target] = progress + 1
    /\ pc = "pruning" => latest = PointerTo(target, prior)

LossInv == Held /\ Pointed /\ Underway /\ InWrite
=============================================================================
