------------------------- MODULE OfflineReferences -------------------------
(***************************************************************************)
(* The offline reference runs that follow the online matrix                *)
(* (production_offline.py): each is fitted, its probabilities sealed under *)
(* a manifest, and only then joined with truth.  The coordinator verifies  *)
(* the runs from the first one at every launch and rewrites its state file *)
(* from that launch's own list, so the recorded prefix shrinks and grows   *)
(* again.                                                                  *)
(***************************************************************************)
EXTENDS FinalRun

CONSTANT Offline   \* number of offline runs

ASSUME OfflineConstants == Offline \in Nat

VARIABLES
  ref,      \* ref[j]: the files of offline run j
  list,     \* the coordinator's files: plan, state and manifest
  previous, \* what the state file recorded when this launch began
  next      \* the offline run being executed

refVars == <<ref, list, previous, next>>
References == 1 .. Offline

RefInit ==
  /\ ref = [j \in References |-> [array |-> FALSE, manifest |-> {}, evaluation |-> {}]]
  /\ list = [planned |-> FALSE, recorded |-> <<>>, complete |-> FALSE, matrix |-> {}]
  /\ previous = <<>> /\ next = 1

RefSettled(j) == ref[j].evaluation # {}
RefEvidence(j) == [launch |-> CHOOSE e \in ref[j].evaluation : TRUE, models |-> NoModels]
RefStage(stage, j) == pc = stage /\ next = j

\* the plan is written once; the state of an earlier launch is read back
PlanReferences ==
  /\ pc = "offline"
  /\ list' = [list EXCEPT !.planned = TRUE]
  /\ previous' = list.recorded /\ next' = 1
  /\ Go(IF Offline = 0 THEN "offline matrix" ELSE "reference")
  /\ UNCHANGED <<root, ref, env>>

\* an evaluated run is verified against its own files
ReuseReference(j) ==
  /\ RefStage("reference", j)
  /\ RefSettled(j)
  /\ ref[j].array /\ ref[j].evaluation = ref[j].manifest
  /\ Go("record reference")
  /\ UNCHANGED <<root, refVars, env>>

\* fitted again whenever there is no manifest; a stale temporary file is
\* removed first, the array is replaced
Fit(j) ==
  /\ RefStage("reference", j)
  /\ ~RefSettled(j) /\ ref[j].manifest = {}
  /\ ref' = [ref EXCEPT ![j].array = TRUE]
  /\ Go("seal reference")
  /\ UNCHANGED <<root, list, previous, next, env>>

\* the manifest carries the fit's wall-clock time
SealReference(j) ==
  /\ RefStage("seal reference", j)
  /\ ref' = [ref EXCEPT ![j].manifest = {Launched}]
  /\ Go("reference")
  /\ UNCHANGED <<root, list, previous, next, env>>

JoinReference(j) ==
  /\ RefStage("reference", j)
  /\ ~RefSettled(j) /\ ref[j].manifest # {} /\ ref[j].array
  /\ ref' = [ref EXCEPT ![j].evaluation = ref[j].manifest]
  /\ Go("reference")
  /\ UNCHANGED <<root, list, previous, next, env>>

\* the evidence must be what an earlier launch recorded; the state file is
\* replaced by this launch's list
RecordReference(j) ==
  /\ RefStage("record reference", j)
  /\ j <= Len(previous) => previous[j] = RefEvidence(j)
  /\ list' = [list EXCEPT !.recorded = [k \in 1 .. j |-> RefEvidence(k)],
                          !.complete = FALSE]
  /\ next' = IF j = Offline THEN 1 ELSE j + 1
  /\ Go(IF j = Offline THEN "offline matrix" ELSE "reference")
  /\ UNCHANGED <<root, ref, previous, env>>

PublishReferences ==
  /\ pc = "offline matrix"
  /\ list.matrix \subseteq {list.recorded}
  /\ list' = [list EXCEPT !.matrix = {list.recorded}]
  /\ Go("close offline")
  /\ UNCHANGED <<root, ref, previous, next, env>>

CompleteReferences ==
  /\ pc = "close offline"
  /\ list' = [list EXCEPT !.complete = TRUE]
  /\ previous' = <<>>
  /\ Go("combine")
  /\ UNCHANGED <<root, ref, next, env>>

RefStep ==
  \/ PlanReferences \/ PublishReferences \/ CompleteReferences
  \/ \E j \in References : \/ ReuseReference(j) \/ Fit(j) \/ SealReference(j)
                           \/ JoinReference(j) \/ RecordReference(j)

RefTypeOK ==
  /\ \A j \in References :
       /\ ref[j].array \in BOOLEAN
       /\ ref[j].manifest \in SUBSET (1 .. MaxCrashes + 1)
       /\ ref[j].evaluation \in SUBSET (1 .. MaxCrashes + 1)
  /\ Len(list.recorded) <= Offline /\ Len(previous) <= Offline
  /\ Cardinality(list.matrix) <= 1
  /\ next \in 1 .. Offline + 1
=============================================================================
