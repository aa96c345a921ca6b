----------------------- MODULE SelectionGraph_proofs -----------------------
(* No candidate is scored before its stage is sealed, evidence goes only    *)
(* under what replaces it, a lock is of the best candidates of every stored *)
(* stage under the budget they were planned for, and the graph implements   *)
(* the matrix of runs: for every graph of stages, every fate of its         *)
(* candidates and every number of crashes, moves and measurements.          *)
EXTENDS SelectionGraph, WellFoundedInduction, TLAPS

Dirs == TrainingDirs \cup {"predictions"}

IsRoot(d) ==
  /\ d = [dirs |-> d.dirs, saved |-> d.saved, exposures |-> d.exposures,
          sealed |-> d.sealed, manifest |-> d.manifest, receipt |-> d.receipt,
          prepared |-> d.prepared, evaluated |-> d.evaluated, result |-> d.result]
  /\ d.dirs \subseteq Dirs

(* A begun candidate lost its training evidence under a receipt and its     *)
(* predictions with a result, and is complete only without the former.      *)
Accounted(d) ==
  d # EmptyRoot =>
    /\ ~(TrainingDirs \subseteq d.dirs) => d.receipt /\ d.manifest # {}
    /\ "predictions" \notin d.dirs => d.result # {}
    /\ d.prepared = {"complete"} => TrainingDirs \cap d.dirs = {}

Typed ==
  /\ stage \in Stages /\ at \in 1 .. Width[stage]
  /\ root = [s \in Stages |-> [c \in 1 .. Width[s] |-> root[s][c]]]
  /\ stored = [s \in Stages |-> stored[s]]
  /\ \A s \in Stages : \A c \in 1 .. Width[s] : IsRoot(root[s][c])

Replaying == {"train", "save", "seal", "seal exposures", "save sealed", "manifest"}
Compacting == {"compact", "prune checkpoints", "prune exposures", "receipt"}
Preparing == {"prepare"} \cup Replaying \cup Compacting
Scoring == {"score", "result", "prune predictions", "store"}

(* What a place in the launch knows of the candidate it is at.              *)
AtCandidate ==
  /\ pc \in Replaying => Dirs \subseteq Here.dirs
  /\ pc \in Compacting => Here.manifest # {}
  /\ pc \in Compacting \ {"compact"} => Here.receipt
  /\ pc \in {"prune exposures", "receipt"} => "checkpoints" \notin Here.dirs
  /\ pc = "receipt" => "exposures" \notin Here.dirs
  /\ pc = "prune predictions" => Here.result # {}

(* And of the stages and the other candidates of its stage.                 *)
AtStage ==
  /\ \A t \in Stages : t < stage => stored[t] # {}
  /\ pc = "choose" => stored[stage] # {}
  /\ pc \in Preparing \cup Scoring => stored[stage] = {}
  /\ pc \in Preparing => \A c \in 1 .. at - 1 : root[stage][c].prepared # {}
  /\ pc \in Scoring => \A c \in 1 .. Width[stage] : root[stage][c].prepared # {}
  /\ pc \in Scoring => \A c \in 1 .. at - 1 :
       root[stage][c].prepared = {"complete"} => root[stage][c].dirs = {}
  /\ pc = "store" => /\ at = Width[stage]
                     /\ Here.prepared = {"complete"} => Here.dirs = {}

StoredEmpty ==
  \A s \in Stages : stored[s] # {} =>
    \A c \in 1 .. Width[s] : root[s][c].prepared = {"complete"} => root[s][c].dirs = {}

AllAccounted == \A s \in Stages : \A c \in 1 .. Width[s] : Accounted(root[s][c])

FilesCorrect == Typed /\ AllAccounted /\ ScoredAfterSealed /\ StoredEmpty
IInv == FilesCorrect /\ AtCandidate /\ AtStage

LEMMA Sizes ==
  /\ Stages = 1 .. Len(Width) /\ Len(Width) \in Nat \ {0}
  /\ \A s \in Stages : Width[s] \in Nat \ {0}
  <1>1. Width \in Seq(Nat \ {0}) /\ Width # <<>>
    BY SelectionConstants
  <1>2. Stages = 1 .. Len(Width) /\ Len(Width) \in Nat
    BY <1>1 DEF Stages
  <1>3. \A s \in Stages : Width[s] \in Nat \ {0}
    BY <1>1, <1>2
  <1>4. Len(Width) # 0
    BY <1>1
  <1> QED
    BY <1>2, <1>3, <1>4

LEMMA Initially == Init => IInv
  <1> SUFFICES ASSUME Init PROVE IInv
    OBVIOUS
  <1>1. /\ pc = "off" /\ stage = 1 /\ at = 1
        /\ root = [s \in Stages |-> [c \in 1 .. Width[s] |-> EmptyRoot]]
        /\ stored = [s \in Stages |-> {}]
    BY DEF Init, CandidateInit
  <1>2. 1 \in Stages /\ 1 \in 1 .. Width[1] /\ \A t \in Stages : ~(t < 1)
    <2>1. 1 \in Stages /\ \A t \in Stages : ~(t < 1)
      BY Sizes
    <2>2. Width[1] \in Nat \ {0}
      BY <2>1, Sizes
    <2> QED
      BY <2>1, <2>2
  <1>3. \A s \in Stages : \A c \in 1 .. Width[s] : root[s][c] = EmptyRoot
    BY <1>1
  <1>4. IsRoot(EmptyRoot)
    BY DEF IsRoot, EmptyRoot
  <1>5. Typed
    <2>1. \A s \in Stages : root[s] = [c \in 1 .. Width[s] |-> root[s][c]]
      BY <1>1
    <2>2. root = [s \in Stages |-> [c \in 1 .. Width[s] |-> root[s][c]]]
      BY <1>1, <2>1
    <2> QED
      BY <1>1, <1>2, <1>3, <1>4, <2>2 DEF Typed
  <1>6. AllAccounted
    BY <1>3 DEF AllAccounted, Accounted
  <1>7. ScoredAfterSealed
    BY <1>3 DEF ScoredAfterSealed, EmptyRoot
  <1>8. StoredEmpty
    BY <1>1 DEF StoredEmpty
  <1>9. AtCandidate /\ AtStage
    BY <1>1, <1>2 DEF AtCandidate, AtStage, Preparing, Scoring, Replaying, Compacting
  <1> QED
    BY <1>5, <1>6, <1>7, <1>8, <1>9 DEF IInv, FilesCorrect

(* The one place where a step writes a root.                                *)
LEMMA Placed ==
  ASSUME Typed, NEW d, Put(d), UNCHANGED <<stage, stored>>, at' \in 1 .. Width[stage],
         IsRoot(d)
  PROVE  /\ Typed'
         /\ root'[stage][at] = d
         /\ \A s \in Stages : \A c \in 1 .. Width[s] :
              s # stage \/ c # at => root'[s][c] = root[s][c]
  <1> DEFINE new == [root[stage] EXCEPT ![at] = d]
  <1>1. /\ stage \in Stages /\ at \in 1 .. Width[stage]
        /\ root' = [root EXCEPT ![stage] = new]
        /\ root = [s \in Stages |-> [c \in 1 .. Width[s] |-> root[s][c]]]
    BY DEF Typed, Put
  <1>2. root[stage] = [c \in 1 .. Width[stage] |-> root[stage][c]]
    BY <1>1
  <1>3. /\ new = [c \in 1 .. Width[stage] |-> new[c]]
        /\ new[at] = d
        /\ \A c \in 1 .. Width[stage] : c # at => new[c] = root[stage][c]
    BY <1>1, <1>2
  <1> HIDE DEF new
  <1>4. /\ root' = [s \in Stages |-> root'[s]]
        /\ root'[stage] = new
        /\ \A s \in Stages : s # stage => root'[s] = root[s]
    BY <1>1
  <1>5. /\ root'[stage][at] = d
        /\ \A s \in Stages : \A c \in 1 .. Width[s] :
             s # stage \/ c # at => root'[s][c] = root[s][c]
    BY <1>3, <1>4
  <1>6. \A s \in Stages : root'[s] = [c \in 1 .. Width[s] |-> root'[s][c]]
    <2>1. root'[stage] = [c \in 1 .. Width[stage] |-> root'[stage][c]]
      BY <1>3, <1>4
    <2>2. \A s \in Stages : root[s] = [c \in 1 .. Width[s] |-> root[s][c]]
      BY <1>1
    <2> QED
      BY <1>4, <2>1, <2>2
  <1>7. root' = [s \in Stages |-> [c \in 1 .. Width[s] |-> root'[s][c]]]
    BY <1>4, <1>6
  <1>8. \A s \in Stages : \A c \in 1 .. Width[s] : IsRoot(root'[s][c])
    BY <1>5 DEF Typed
  <1> QED
    BY <1>5, <1>7, <1>8 DEF Typed

LEMMA Written ==
  ASSUME IInv, NEW d, Put(d), UNCHANGED <<stage, stored>>, at' \in 1 .. Width[stage],
         pc \in Preparing \cup Scoring,
         IsRoot(d), Accounted(d),
         Here.prepared # {} => d.prepared # {},
         Here.evaluated \/ pc \in Scoring \/ ~d.evaluated,
         Here.result # {} \/ pc \in Scoring \/ d.result = {}
  PROVE  FilesCorrect'
  <1> USE DEF IInv, FilesCorrect
  <1>1. /\ Typed'
        /\ root'[stage][at] = d
        /\ \A s \in Stages : \A c \in 1 .. Width[s] :
             s # stage \/ c # at => root'[s][c] = root[s][c]
    BY Placed
  <1>2. AllAccounted'
    BY <1>1 DEF AllAccounted
  <1>3. ScoredAfterSealed'
    <2> SUFFICES ASSUME NEW s \in Stages, NEW c \in 1 .. Width[s],
                        (root[s][c].evaluated \/ root[s][c].result # {})'
                 PROVE  /\ \A o \in 1 .. Width[s] : root'[s][o].prepared # {}
                        /\ \A t \in 1 .. s - 1 : stored[t] # {}
      BY DEF ScoredAfterSealed
    <2>1. /\ \A o \in 1 .. Width[s] : root[s][o].prepared # {}
          /\ \A t \in 1 .. s - 1 : stored[t] # {}
      <3>1. CASE s = stage /\ c = at /\ pc \in Scoring
        <4>1. \A t \in 1 .. s - 1 : t \in Stages /\ t < stage
          BY <3>1, Sizes DEF Typed
        <4> QED
          BY <3>1, <4>1 DEF AtStage
      <3>2. CASE s = stage /\ c = at /\ pc \notin Scoring
        BY <3>2, <1>1 DEF ScoredAfterSealed, Here
      <3>3. CASE s # stage \/ c # at
        BY <3>3, <1>1 DEF ScoredAfterSealed
      <3> QED
        BY <3>1, <3>2, <3>3
    <2> QED
      BY <2>1, <1>1 DEF Here
  <1>4. StoredEmpty'
    BY <1>1 DEF StoredEmpty, AtStage
  <1> QED
    BY <1>1, <1>2, <1>3, <1>4

(* A step that leaves the files of candidates and stages alone.             *)
LEMMA Unwritten ==
  ASSUME IInv, UNCHANGED <<root, stored>>, stage' \in Stages, at' \in 1 .. Width[stage']
  PROVE  FilesCorrect'
  BY DEF IInv, FilesCorrect, Typed, AllAccounted, ScoredAfterSealed, StoredEmpty

(* What is known of the candidate the process is at.                        *)
LEMMA Known ==
  ASSUME IInv
  PROVE  /\ stage \in Stages /\ at \in 1 .. Width[stage]
         /\ IsRoot(Here) /\ Accounted(Here)
         /\ Here.result # {} => Here.prepared # {}
         /\ pc \in (Preparing \cup Scoring) \ {"prepare"} => Here # EmptyRoot
  <1> USE DEF IInv, FilesCorrect, Here
  <1>1. /\ stage \in Stages /\ at \in 1 .. Width[stage]
        /\ IsRoot(Here) /\ Accounted(Here)
    BY DEF Typed, AllAccounted
  <1>2. Here.result # {} => Here.prepared # {}
    BY <1>1 DEF ScoredAfterSealed
  <1>3. pc \in Replaying \cup Compacting => Here # EmptyRoot
    <2>1. EmptyRoot.dirs = {} /\ EmptyRoot.manifest = {} /\ "predictions" \in Dirs
      BY DEF EmptyRoot, Dirs
    <2> QED
      BY <2>1 DEF AtCandidate
  <1>4. pc \in Scoring => Here # EmptyRoot
    BY <1>1 DEF AtStage, EmptyRoot
  <1> QED
    BY <1>1, <1>2, <1>3, <1>4 DEF Preparing

(* The same candidate goes on being prepared, or being scored.              *)
LEMMA StaysPreparing ==
  ASSUME IInv, UNCHANGED <<stage, at, stored>>, pc \in Preparing, pc' \in Preparing,
         \A c \in 1 .. Width[stage] : c # at => root'[stage][c] = root[stage][c]
  PROVE  AtStage'
  <1>1. pc' \notin Scoring /\ pc' # "choose" /\ pc' # "store"
    BY DEF Preparing, Scoring, Replaying, Compacting
  <1>2. \A c \in 1 .. at - 1 : c \in 1 .. Width[stage] /\ c # at
    BY Known, Sizes
  <1> QED
    BY <1>1, <1>2 DEF IInv, AtStage

LEMMA StaysScoring ==
  ASSUME IInv, UNCHANGED <<stage, at, stored>>, pc \in Scoring, pc' \in Scoring \ {"store"},
         root'[stage][at].prepared # {},
         \A c \in 1 .. Width[stage] : c # at => root'[stage][c] = root[stage][c]
  PROVE  AtStage'
  <1>1. pc' \notin Preparing /\ pc' # "choose" /\ pc' # "store"
    BY DEF Preparing, Scoring, Replaying, Compacting
  <1>2. \A c \in 1 .. at - 1 : c \in 1 .. Width[stage] /\ c # at
    BY Known, Sizes
  <1> QED
    BY <1>1, <1>2 DEF IInv, AtStage

(* The candidate is prepared; the last one ends the preparation.            *)
LEMMA Prepared ==
  ASSUME IInv, AfterPrepare(at), UNCHANGED stored, pc \in Preparing,
         root'[stage][at].prepared # {},
         \A c \in 1 .. Width[stage] : c # at => root'[stage][c] = root[stage][c]
  PROVE  /\ AtStage' /\ AtCandidate'
         /\ stage' = stage /\ at' \in 1 .. Width[stage]
  <1>1. /\ at \in 1 .. Width[stage] /\ Width[stage] \in Nat \ {0}
        /\ \A c \in 1 .. at - 1 : root[stage][c].prepared # {}
        /\ stored[stage] = {} /\ \A t \in Stages : t < stage => stored[t] # {}
    BY Known, Sizes DEF IInv, AtStage
  <1>2. \A c \in 1 .. at : c \in 1 .. Width[stage] /\ root'[stage][c].prepared # {}
    BY <1>1
  <1>3. CASE at = Width[stage]
    <2>1. pc' = "score" /\ at' = 1 /\ stage' = stage
      BY <1>3 DEF AfterPrepare
    <2>2. /\ pc' \notin Preparing /\ pc' # "choose" /\ pc' # "store"
          /\ pc' \notin Replaying \cup Compacting /\ pc' # "prune predictions"
      BY <2>1 DEF Preparing, Scoring, Replaying, Compacting
    <2>3. \A c \in 1 .. Width[stage] : root'[stage][c].prepared # {}
      BY <1>1, <1>2, <1>3, <2>1
    <2>4. AtStage'
      BY <1>1, <1>3, <2>1, <2>2, <2>3 DEF AtStage
    <2>5. AtCandidate'
      BY <2>2 DEF AtCandidate, Compacting
    <2>6. at' \in 1 .. Width[stage]
      BY <1>1, <1>3, <2>1
    <2> QED
      BY <2>1, <2>4, <2>5, <2>6
  <1>4. CASE at # Width[stage]
    <2>1. pc' = "prepare" /\ at' = at + 1 /\ stage' = stage
      BY <1>4 DEF AfterPrepare
    <2>2. /\ pc' \notin Scoring /\ pc' # "choose" /\ pc' # "store"
          /\ pc' \notin Replaying \cup Compacting /\ pc' # "prune predictions"
      BY <2>1 DEF Preparing, Scoring, Replaying, Compacting
    <2>3. \A c \in 1 .. at' - 1 : root'[stage][c].prepared # {}
      BY <1>1, <1>2, <1>4, <2>1
    <2>4. AtStage'
      BY <1>1, <1>4, <2>1, <2>2, <2>3 DEF AtStage
    <2>5. AtCandidate'
      BY <2>2 DEF AtCandidate, Compacting
    <2>6. at' \in 1 .. Width[stage]
      BY <1>1, <1>4, <2>1
    <2> QED
      BY <2>1, <2>4, <2>5, <2>6
  <1> QED
    BY <1>3, <1>4

(* A step that writes the candidate in the middle of its preparation.       *)
Knows(place, d) ==
  /\ place \in Replaying => Dirs \subseteq d.dirs
  /\ place \in Compacting => d.manifest # {}
  /\ place \in Compacting \ {"compact"} => d.receipt
  /\ place \in {"prune exposures", "receipt"} => "checkpoints" \notin d.dirs
  /\ place = "receipt" => "exposures" \notin d.dirs

LEMMA PreparesOn ==
  ASSUME IInv, NEW d, Put(d), UNCHANGED <<stage, at, stored>>,
         pc \in Preparing, pc' \in Preparing,
         IsRoot(d), Accounted(d),
         d.prepared = Here.prepared, d.evaluated = Here.evaluated, d.result = Here.result,
         Knows(pc', d)
  PROVE  IInv'
  <1>1. at' \in 1 .. Width[stage] /\ Typed
    BY Known DEF IInv, FilesCorrect
  <1>2. /\ root'[stage][at] = d
        /\ \A c \in 1 .. Width[stage] : c # at => root'[stage][c] = root[stage][c]
    BY <1>1, Placed, Known
  <1>3. FilesCorrect'
    BY <1>1, Written
  <1>4. AtStage'
    BY <1>2, StaysPreparing
  <1>5. AtCandidate'
    <2>1. pc' # "prune predictions" /\ Here' = d
      BY <1>2 DEF Preparing, Replaying, Compacting, Here
    <2> QED
      BY <2>1 DEF AtCandidate, Knows
  <1> QED
    BY <1>3, <1>4, <1>5 DEF IInv

LEMMA OpenFreshStep ==
  ASSUME IInv, OpenFresh, UNCHANGED stored
  PROVE  IInv'
  <1> DEFINE d == [Here EXCEPT !.dirs = TrainingDirs \cup {"predictions"}]
  <1>a. Put(d)
    BY DEF OpenFresh
  <1>1. UNCHANGED <<stage, at>> /\ pc \in Preparing /\ pc' \in Preparing
    BY DEF OpenFresh, Replays, Preparing, Scoring, Replaying, Compacting
  <1>2. IsRoot(Here) /\ Accounted(Here) /\ (Here.result # {} => Here.prepared # {})
    BY Known
  <1>3. /\ IsRoot(d)
        /\ d.dirs = Dirs
        /\ d.manifest = Here.manifest /\ d.receipt = Here.receipt /\ d.prepared = Here.prepared
        /\ d.evaluated = Here.evaluated /\ d.result = Here.result
    BY <1>2 DEF IsRoot, Dirs, TrainingDirs
  <1> HIDE DEF d
  <1>4. Accounted(d)
    BY <1>2, <1>3 DEF OpenFresh, Replays, Accounted, Dirs, TrainingDirs
  <1>5. Knows(pc', d)
    BY <1>3 DEF Knows, OpenFresh, Replays, IInv, AtCandidate, Replaying, Compacting, Dirs
  <1> QED
    BY <1>a, <1>1, <1>3, <1>4, <1>5, PreparesOn

LEMMA TrainStep ==
  ASSUME IInv, Train, UNCHANGED stored
  PROVE  IInv'
  <1> DEFINE d == [Here EXCEPT !.exposures = Max({@, step})]
  <1>a. Put(d)
    BY DEF Train
  <1>1. UNCHANGED <<stage, at>> /\ pc \in Preparing /\ pc' \in Preparing
    BY DEF Train, Preparing, Scoring, Replaying, Compacting
  <1>2. IsRoot(Here) /\ Accounted(Here) /\ (Here.result # {} => Here.prepared # {})
    BY Known
  <1>3. /\ IsRoot(d)
        /\ d.dirs = Here.dirs /\ d.manifest = Here.manifest /\ d.receipt = Here.receipt
        /\ d.prepared = Here.prepared /\ d.evaluated = Here.evaluated /\ d.result = Here.result
    BY <1>2 DEF IsRoot, Dirs, TrainingDirs
  <1> HIDE DEF d
  <1>4. Accounted(d)
    BY <1>1, <1>2, <1>3, Known DEF Train, Accounted, Preparing, Scoring, Replaying, Compacting
  <1>5. Knows(pc', d)
    BY <1>3 DEF Knows, Train, IInv, AtCandidate, Replaying, Compacting, Dirs
  <1> QED
    BY <1>a, <1>1, <1>3, <1>4, <1>5, PreparesOn

LEMMA SaveStep ==
  ASSUME IInv, Save, UNCHANGED stored
  PROVE  IInv'
  <1> DEFINE d == [Here EXCEPT !.saved = {Saved}]
  <1>a. Put(d)
    BY DEF Save
  <1>1. UNCHANGED <<stage, at>> /\ pc \in Preparing /\ pc' \in Preparing
    BY DEF Save, Go, proc, Preparing, Scoring, Replaying, Compacting
  <1>2. IsRoot(Here) /\ Accounted(Here) /\ (Here.result # {} => Here.prepared # {})
    BY Known
  <1>3. /\ IsRoot(d)
        /\ d.dirs = Here.dirs /\ d.manifest = Here.manifest /\ d.receipt = Here.receipt
        /\ d.prepared = Here.prepared /\ d.evaluated = Here.evaluated /\ d.result = Here.result
    BY <1>2 DEF IsRoot, Dirs, TrainingDirs
  <1> HIDE DEF d
  <1>4. Accounted(d)
    BY <1>1, <1>2, <1>3, Known DEF Save, Accounted, Preparing, Scoring, Replaying, Compacting
  <1>5. Knows(pc', d)
    BY <1>3 DEF Knows, Save, Go, IInv, AtCandidate, Replaying, Compacting, Dirs
  <1> QED
    BY <1>a, <1>1, <1>3, <1>4, <1>5, PreparesOn

LEMMA SealPredictionsStep ==
  ASSUME IInv, SealPredictions, UNCHANGED stored
  PROVE  IInv'
  <1> DEFINE d == [Here EXCEPT !.sealed = @ \cup {"predictions"}]
  <1>a. Put(d)
    BY DEF SealPredictions
  <1>1. UNCHANGED <<stage, at>> /\ pc \in Preparing /\ pc' \in Preparing
    BY DEF SealPredictions, Go, proc, Preparing, Scoring, Replaying, Compacting
  <1>2. IsRoot(Here) /\ Accounted(Here) /\ (Here.result # {} => Here.prepared # {})
    BY Known
  <1>3. /\ IsRoot(d)
        /\ d.dirs = Here.dirs /\ d.manifest = Here.manifest /\ d.receipt = Here.receipt
        /\ d.prepared = Here.prepared /\ d.evaluated = Here.evaluated /\ d.result = Here.result
    BY <1>2 DEF IsRoot, Dirs, TrainingDirs
  <1> HIDE DEF d
  <1>4. Accounted(d)
    BY <1>1, <1>2, <1>3, Known DEF SealPredictions, Accounted, Preparing, Scoring, Replaying, Compacting
  <1>5. Knows(pc', d)
    BY <1>3 DEF Knows, SealPredictions, Go, IInv, AtCandidate, Replaying, Compacting, Dirs
  <1> QED
    BY <1>a, <1>1, <1>3, <1>4, <1>5, PreparesOn

LEMMA SealExposuresStep ==
  ASSUME IInv, SealExposures, UNCHANGED stored
  PROVE  IInv'
  <1> DEFINE d == [Here EXCEPT !.sealed = @ \cup {"exposures"}]
  <1>a. Put(d)
    BY DEF SealExposures
  <1>1. UNCHANGED <<stage, at>> /\ pc \in Preparing /\ pc' \in Preparing
    BY DEF SealExposures, Go, proc, Preparing, Scoring, Replaying, Compacting
  <1>2. IsRoot(Here) /\ Accounted(Here) /\ (Here.result # {} => Here.prepared # {})
    BY Known
  <1>3. /\ IsRoot(d)
        /\ d.dirs = Here.dirs /\ d.manifest = Here.manifest /\ d.receipt = Here.receipt
        /\ d.prepared = Here.prepared /\ d.evaluated = Here.evaluated /\ d.result = Here.result
    BY <1>2 DEF IsRoot, Dirs, TrainingDirs
  <1> HIDE DEF d
  <1>4. Accounted(d)
    BY <1>1, <1>2, <1>3, Known DEF SealExposures, Accounted, Preparing, Scoring, Replaying, Compacting
  <1>5. Knows(pc', d)
    BY <1>3 DEF Knows, SealExposures, Go, IInv, AtCandidate, Replaying, Compacting, Dirs
  <1> QED
    BY <1>a, <1>1, <1>3, <1>4, <1>5, PreparesOn

LEMMA SaveSealedStep ==
  ASSUME IInv, SaveSealed, UNCHANGED stored
  PROVE  IInv'
  <1> DEFINE d == [Here EXCEPT !.saved = {Saved}]
  <1>a. Put(d)
    BY DEF SaveSealed
  <1>1. UNCHANGED <<stage, at>> /\ pc \in Preparing /\ pc' \in Preparing
    BY DEF SaveSealed, Go, proc, Preparing, Scoring, Replaying, Compacting
  <1>2. IsRoot(Here) /\ Accounted(Here) /\ (Here.result # {} => Here.prepared # {})
    BY Known
  <1>3. /\ IsRoot(d)
        /\ d.dirs = Here.dirs /\ d.manifest = Here.manifest /\ d.receipt = Here.receipt
        /\ d.prepared = Here.prepared /\ d.evaluated = Here.evaluated /\ d.result = Here.result
    BY <1>2 DEF IsRoot, Dirs, TrainingDirs
  <1> HIDE DEF d
  <1>4. Accounted(d)
    BY <1>1, <1>2, <1>3, Known DEF SaveSealed, Accounted, Preparing, Scoring, Replaying, Compacting
  <1>5. Knows(pc', d)
    BY <1>3 DEF Knows, SaveSealed, Go, IInv, AtCandidate, Replaying, Compacting, Dirs
  <1> QED
    BY <1>a, <1>1, <1>3, <1>4, <1>5, PreparesOn

LEMMA WriteManifestStep ==
  ASSUME IInv, WriteManifest, UNCHANGED stored
  PROVE  IInv'
  <1>0. PICK cost \in Costs :
          Put([Here EXCEPT !.manifest = {[cost |-> cost, host |-> host]}])
    BY DEF WriteManifest
  <1> DEFINE m == {[cost |-> cost, host |-> host]}
  <1> DEFINE d == [Here EXCEPT !.manifest = m]
  <1>a. m # {} /\ Put(d)
    BY <1>0
  <1> HIDE DEF m
  <1>1. UNCHANGED <<stage, at>> /\ pc \in Preparing /\ pc' \in Preparing
    BY DEF WriteManifest, Go, proc, Preparing, Scoring, Replaying, Compacting
  <1>2. IsRoot(Here) /\ Accounted(Here) /\ (Here.result # {} => Here.prepared # {})
    BY Known
  <1>3. /\ IsRoot(d)
        /\ d.manifest # {}
        /\ d.dirs = Here.dirs /\ d.receipt = Here.receipt /\ d.prepared = Here.prepared
        /\ d.evaluated = Here.evaluated /\ d.result = Here.result
    BY <1>2, <1>a DEF IsRoot, Dirs, TrainingDirs
  <1> HIDE DEF d
  <1>4. Accounted(d)
    BY <1>1, <1>2, <1>3, Known DEF WriteManifest, Accounted, Preparing, Scoring, Replaying, Compacting
  <1>5. Knows(pc', d)
    BY <1>3 DEF Knows, WriteManifest, Go, IInv, AtCandidate, Replaying, Compacting, Dirs
  <1> QED
    BY <1>a, <1>1, <1>3, <1>4, <1>5, PreparesOn

LEMMA WriteReceiptStep ==
  ASSUME IInv, WriteReceipt, UNCHANGED stored
  PROVE  IInv'
  <1> DEFINE d == [Here EXCEPT !.receipt = TRUE]
  <1>a. Put(d)
    BY DEF WriteReceipt
  <1>1. UNCHANGED <<stage, at>> /\ pc \in Preparing /\ pc' \in Preparing
    BY DEF WriteReceipt, Go, proc, Preparing, Scoring, Replaying, Compacting
  <1>2. IsRoot(Here) /\ Accounted(Here) /\ (Here.result # {} => Here.prepared # {})
    BY Known
  <1>3. /\ IsRoot(d)
        /\ d.receipt 
        /\ d.dirs = Here.dirs /\ d.manifest = Here.manifest /\ d.prepared = Here.prepared
        /\ d.evaluated = Here.evaluated /\ d.result = Here.result
    <2> DEFINE yes == TRUE
    <2>1. d = [Here EXCEPT !.receipt = yes]
      OBVIOUS
    <2> HIDE DEF yes, d
    <2>2. /\ IsRoot(d)
          /\ d.receipt = yes
          /\ d.dirs = Here.dirs /\ d.manifest = Here.manifest /\ d.prepared = Here.prepared
          /\ d.evaluated = Here.evaluated /\ d.result = Here.result
      BY <1>2, <2>1 DEF IsRoot
    <2> QED
      BY <2>2 DEF yes
  <1> HIDE DEF d
  <1>4. Accounted(d)
    BY <1>1, <1>2, <1>3, Known DEF WriteReceipt, Accounted, Preparing, Scoring, Replaying, Compacting
  <1>5. Knows(pc', d)
    BY <1>3 DEF Knows, WriteReceipt, Go, IInv, AtCandidate, Replaying, Compacting, Dirs
  <1> QED
    BY <1>a, <1>1, <1>3, <1>4, <1>5, PreparesOn

LEMMA PruneCheckpointsStep ==
  ASSUME IInv, PruneCheckpoints, UNCHANGED stored
  PROVE  IInv'
  <1> DEFINE d == [Here EXCEPT !.dirs = @ \ {"checkpoints"}, !.saved = {}]
  <1>a. Put(d)
    BY DEF PruneCheckpoints
  <1>1. UNCHANGED <<stage, at>> /\ pc \in Preparing /\ pc' \in Preparing
    BY DEF PruneCheckpoints, Go, proc, Preparing, Scoring, Replaying, Compacting
  <1>2. IsRoot(Here) /\ Accounted(Here) /\ (Here.result # {} => Here.prepared # {})
    BY Known
  <1>3. /\ IsRoot(d)
        /\ d.dirs = Here.dirs \ {"checkpoints"}
        /\ d.manifest = Here.manifest /\ d.receipt = Here.receipt /\ d.prepared = Here.prepared
        /\ d.evaluated = Here.evaluated /\ d.result = Here.result
    <2> DEFINE rest == Here.dirs \ {"checkpoints"}
    <2>1. rest \subseteq Dirs
      BY <1>2 DEF IsRoot
    <2>2. d = [Here EXCEPT !.dirs = rest, !.saved = {}]
      OBVIOUS
    <2> HIDE DEF rest, d
    <2>3. /\ IsRoot(d)
          /\ d.dirs = rest
          /\ d.manifest = Here.manifest /\ d.receipt = Here.receipt /\ d.prepared = Here.prepared
          /\ d.evaluated = Here.evaluated /\ d.result = Here.result
      BY <1>2, <2>1, <2>2 DEF IsRoot
    <2> QED
      BY <2>3 DEF rest
  <1> HIDE DEF d
  <1>4. Accounted(d)
    BY <1>2, <1>3, Known DEF PruneCheckpoints, Accounted, Preparing, Compacting, IInv, AtCandidate
  <1>5. Knows(pc', d)
    BY <1>3 DEF Knows, PruneCheckpoints, Go, IInv, AtCandidate, Replaying, Compacting, Dirs
  <1> QED
    BY <1>a, <1>1, <1>3, <1>4, <1>5, PreparesOn

LEMMA PruneExposuresStep ==
  ASSUME IInv, PruneExposures, UNCHANGED stored
  PROVE  IInv'
  <1> DEFINE d == [Here EXCEPT !.dirs = @ \ {"exposures"}, !.exposures = 0,
                              !.sealed = @ \ {"exposures"}]
  <1>a. Put(d)
    BY DEF PruneExposures
  <1>1. UNCHANGED <<stage, at>> /\ pc \in Preparing /\ pc' \in Preparing
    BY DEF PruneExposures, Go, proc, Preparing, Scoring, Replaying, Compacting
  <1>2. IsRoot(Here) /\ Accounted(Here) /\ (Here.result # {} => Here.prepared # {})
    BY Known
  <1>3. /\ IsRoot(d)
        /\ d.dirs = Here.dirs \ {"exposures"}
        /\ d.manifest = Here.manifest /\ d.receipt = Here.receipt /\ d.prepared = Here.prepared
        /\ d.evaluated = Here.evaluated /\ d.result = Here.result
    <2> DEFINE rest == Here.dirs \ {"exposures"}
    <2>1. rest \subseteq Dirs
      BY <1>2 DEF IsRoot
    <2>2. d = [Here EXCEPT !.dirs = rest, !.exposures = 0, !.sealed = @ \ {"exposures"}]
      OBVIOUS
    <2> HIDE DEF rest, d
    <2>3. /\ IsRoot(d)
          /\ d.dirs = rest
          /\ d.manifest = Here.manifest /\ d.receipt = Here.receipt /\ d.prepared = Here.prepared
          /\ d.evaluated = Here.evaluated /\ d.result = Here.result
      BY <1>2, <2>1, <2>2 DEF IsRoot
    <2> QED
      BY <2>3 DEF rest
  <1> HIDE DEF d
  <1>4. Accounted(d)
    BY <1>2, <1>3, Known DEF PruneExposures, Accounted, Preparing, Compacting, IInv, AtCandidate
  <1>5. Knows(pc', d)
    BY <1>3 DEF Knows, PruneExposures, Go, IInv, AtCandidate, Replaying, Compacting, Dirs
  <1> QED
    BY <1>a, <1>1, <1>3, <1>4, <1>5, PreparesOn

LEMMA PrepareInvalidStep ==
  ASSUME IInv, PrepareInvalid, UNCHANGED stored
  PROVE  IInv'
  <1> DEFINE d == [Here EXCEPT !.prepared = {"protocol_invalid"}]
  <1>a. Put(d)
    BY DEF PrepareInvalid
  <1>1. AfterPrepare(at) /\ pc \in Preparing
    BY DEF PrepareInvalid, Preparing, Replaying, Compacting
  <1>2. IsRoot(Here) /\ Accounted(Here) /\ (Here.result # {} => Here.prepared # {})
    BY Known
  <1>3. /\ IsRoot(d)
        /\ d.prepared = {"protocol_invalid"}
        /\ d.dirs = Here.dirs /\ d.manifest = Here.manifest /\ d.receipt = Here.receipt
        /\ d.evaluated = Here.evaluated /\ d.result = Here.result
    BY <1>2 DEF IsRoot, Dirs, TrainingDirs
  <1> HIDE DEF d
  <1>4. Accounted(d)
    BY <1>2, <1>3, Known DEF PrepareInvalid, Accounted, Preparing, Replaying
  <1>5. at \in 1 .. Width[stage] /\ Typed /\ IInv
    BY Known DEF IInv, FilesCorrect
  <1>6. stage' = stage /\ at' \in 1 .. Width[stage]
    BY <1>1, <1>5, Sizes, Known DEF AfterPrepare
  <1>7. /\ root'[stage][at] = d
        /\ \A c \in 1 .. Width[stage] : c # at => root'[stage][c] = root[stage][c]
    BY <1>a, <1>3, <1>5, <1>6, Placed, Known
  <1>8. FilesCorrect'
    BY <1>a, <1>1, <1>3, <1>4, <1>6, Written
  <1>9. AtStage' /\ AtCandidate'
    BY <1>1, <1>3, <1>7, Prepared
  <1> QED
    BY <1>8, <1>9 DEF IInv

LEMMA WritePreparedStep ==
  ASSUME IInv, WritePrepared, UNCHANGED stored
  PROVE  IInv'
  <1> DEFINE d == [Here EXCEPT !.prepared = {"complete"}]
  <1>a. Put(d)
    BY DEF WritePrepared
  <1>1. AfterPrepare(at) /\ pc \in Preparing
    BY DEF WritePrepared, Preparing, Replaying, Compacting
  <1>2. IsRoot(Here) /\ Accounted(Here) /\ (Here.result # {} => Here.prepared # {})
    BY Known
  <1>3. /\ IsRoot(d)
        /\ d.prepared = {"complete"}
        /\ d.dirs = Here.dirs /\ d.manifest = Here.manifest /\ d.receipt = Here.receipt
        /\ d.evaluated = Here.evaluated /\ d.result = Here.result
    BY <1>2 DEF IsRoot, Dirs, TrainingDirs
  <1> HIDE DEF d
  <1>4. Accounted(d)
    BY <1>2, <1>3, Known DEF WritePrepared, Accounted, Preparing, Compacting, IInv, AtCandidate, TrainingDirs
  <1>5. at \in 1 .. Width[stage] /\ Typed /\ IInv
    BY Known DEF IInv, FilesCorrect
  <1>6. stage' = stage /\ at' \in 1 .. Width[stage]
    BY <1>1, <1>5, Sizes, Known DEF AfterPrepare
  <1>7. /\ root'[stage][at] = d
        /\ \A c \in 1 .. Width[stage] : c # at => root'[stage][c] = root[stage][c]
    BY <1>a, <1>3, <1>5, <1>6, Placed, Known
  <1>8. FilesCorrect'
    BY <1>a, <1>1, <1>3, <1>4, <1>6, Written
  <1>9. AtStage' /\ AtCandidate'
    BY <1>1, <1>3, <1>7, Prepared
  <1> QED
    BY <1>8, <1>9 DEF IInv

LEMMA EvaluateStep ==
  ASSUME IInv, Evaluate, UNCHANGED stored
  PROVE  IInv'
  <1> DEFINE d == [Here EXCEPT !.evaluated = TRUE]
  <1>a. Put(d)
    BY DEF Evaluate
  <1>1. UNCHANGED <<stage, at>> /\ pc \in Scoring /\ pc' \in Scoring \ {"store"}
    BY DEF Evaluate, Go, proc, Preparing, Scoring, Replaying, Compacting
  <1>2. IsRoot(Here) /\ Accounted(Here) /\ (Here.result # {} => Here.prepared # {})
    BY Known
  <1>3. /\ IsRoot(d)
        /\ d.evaluated 
        /\ d.dirs = Here.dirs /\ d.manifest = Here.manifest /\ d.receipt = Here.receipt
        /\ d.prepared = Here.prepared /\ d.result = Here.result
    <2> DEFINE yes == TRUE
    <2>1. d = [Here EXCEPT !.evaluated = yes]
      OBVIOUS
    <2> HIDE DEF yes, d
    <2>2. /\ IsRoot(d)
          /\ d.evaluated = yes
          /\ d.dirs = Here.dirs /\ d.manifest = Here.manifest /\ d.receipt = Here.receipt
          /\ d.prepared = Here.prepared /\ d.result = Here.result
      BY <1>2, <2>1 DEF IsRoot
    <2> QED
      BY <2>2 DEF yes
  <1> HIDE DEF d
  <1>4. Accounted(d)
    BY <1>1, <1>2, <1>3, Known DEF Evaluate, Accounted, Preparing, Scoring, Replaying, Compacting
  <1>5. at' \in 1 .. Width[stage] /\ Typed
    BY <1>1, Known DEF IInv, FilesCorrect
  <1>6. /\ root'[stage][at] = d
        /\ \A c \in 1 .. Width[stage] : c # at => root'[stage][c] = root[stage][c]
    BY <1>a, <1>1, <1>3, <1>5, Placed, Known
  <1>7. FilesCorrect'
    BY <1>a, <1>1, <1>2, <1>3, <1>4, <1>5, Written
  <1>8. AtStage'
    BY <1>1, <1>3, <1>6, Known, StaysScoring DEF IInv, AtStage, Here
  <1>9. AtCandidate'
    BY <1>1, <1>3, <1>6 DEF Evaluate, Go, IInv, AtCandidate, Here, Replaying, Compacting, Dirs
  <1> QED
    BY <1>7, <1>8, <1>9 DEF IInv

(* The score is kept, whatever it is; then the predictions go.              *)
LEMMA WriteResultStep ==
  ASSUME IInv, WriteResult, UNCHANGED stored
  PROVE  IInv'
  <1>0. PICK r : Put([Here EXCEPT !.result = {r}])
    BY DEF WriteResult
  <1> DEFINE m == {r}
  <1> DEFINE d == [Here EXCEPT !.result = m]
  <1>a. m # {} /\ Put(d)
    BY <1>0
  <1> HIDE DEF m
  <1>1. UNCHANGED <<stage, at>> /\ pc \in Scoring /\ pc' \in Scoring \ {"store"}
    BY DEF WriteResult, Go, proc, Scoring
  <1>2. IsRoot(Here) /\ Accounted(Here)
    BY Known
  <1>3. /\ IsRoot(d)
        /\ d.result # {}
        /\ d.dirs = Here.dirs /\ d.manifest = Here.manifest /\ d.receipt = Here.receipt
        /\ d.prepared = Here.prepared
    BY <1>2, <1>a DEF IsRoot, Dirs, TrainingDirs
  <1> HIDE DEF d
  <1>4. Accounted(d)
    BY <1>1, <1>2, <1>3, Known DEF Accounted, Preparing, Scoring, Replaying, Compacting
  <1>5. at' \in 1 .. Width[stage] /\ Typed
    BY <1>1, Known DEF IInv, FilesCorrect
  <1>6. /\ root'[stage][at] = d
        /\ \A c \in 1 .. Width[stage] : c # at => root'[stage][c] = root[stage][c]
    BY <1>a, <1>1, <1>3, <1>5, Placed, Known
  <1>7. FilesCorrect'
    BY <1>a, <1>1, <1>3, <1>4, <1>5, Written
  <1>8. AtStage'
    BY <1>1, <1>3, <1>6, Known, StaysScoring DEF IInv, AtStage, Here
  <1>9. AtCandidate'
    BY <1>1, <1>3, <1>6 DEF AtCandidate, Here, WriteResult, Go, Replaying, Compacting
  <1> QED
    BY <1>7, <1>8, <1>9 DEF IInv

LEMMA PrunePredictionsStep ==
  ASSUME IInv, PrunePredictions, UNCHANGED stored
  PROVE  IInv'
  <1> DEFINE rest == Here.dirs \ {"predictions"}
  <1> DEFINE d == [Here EXCEPT !.dirs = rest, !.sealed = @ \ {"predictions"}]
  <1>a. Put(d)
    BY DEF PrunePredictions
  <1>1. pc = "prune predictions" /\ pc \in Scoring /\ stage' = stage
    BY DEF PrunePredictions, Scoring
  <1>2. /\ IsRoot(Here) /\ Accounted(Here) /\ Here.result # {} /\ Here.prepared # {}
        /\ Here # EmptyRoot
        /\ at \in 1 .. Width[stage] /\ Width[stage] \in Nat \ {0}
    BY <1>1, Known, Sizes DEF IInv, AtCandidate
  <1>b. rest \subseteq Dirs
    BY <1>2 DEF IsRoot
  <1>c. Here.prepared = {"complete"} => rest = {}
    BY <1>2 DEF IsRoot, Accounted, Dirs
  <1>d. TrainingDirs \subseteq Here.dirs => TrainingDirs \subseteq rest
    BY DEF TrainingDirs
  <1> HIDE DEF rest
  <1>3. /\ IsRoot(d)
        /\ d.dirs = rest
        /\ d.manifest = Here.manifest /\ d.receipt = Here.receipt
        /\ d.prepared = Here.prepared /\ d.result = Here.result
    <2> DEFINE open == Here.sealed \ {"predictions"}
    <2>1. IsRoot(Here)
      BY <1>2
    <2>2. d = [Here EXCEPT !.dirs = rest, !.sealed = open]
      OBVIOUS
    <2> HIDE DEF open, d
    <2> QED
      BY <1>b, <2>1, <2>2 DEF IsRoot
  <1> HIDE DEF d
  <1>4. Accounted(d)
    <2>1. ~(TrainingDirs \subseteq d.dirs) => d.receipt /\ d.manifest # {}
      <3>1. ~(TrainingDirs \subseteq Here.dirs) => Here.receipt /\ Here.manifest # {}
        BY <1>2 DEF Accounted
      <3> QED
        BY <3>1, <1>3, <1>d
    <2>2. d.result # {}
      BY <1>2, <1>3
    <2>3. d.prepared = {"complete"} => TrainingDirs \cap d.dirs = {}
      BY <1>3, <1>c
    <2> QED
      BY <2>1, <2>2, <2>3 DEF Accounted
  <1>5. at' \in 1 .. Width[stage] /\ Typed
    <2>1. Typed
      BY DEF IInv, FilesCorrect
    <2>2. \/ at = Width[stage] /\ at' = at
          \/ at # Width[stage] /\ at' = at + 1
      BY DEF PrunePredictions
    <2> QED
      BY <1>2, <2>1, <2>2
  <1>6. /\ root'[stage][at] = d
        /\ \A c \in 1 .. Width[stage] : c # at => root'[stage][c] = root[stage][c]
    BY <1>a, <1>1, <1>3, <1>5, Placed, Known
  <1>7. FilesCorrect'
    BY <1>a, <1>1, <1>2, <1>3, <1>4, <1>5, Written
  <1>8. /\ stored[stage] = {} /\ \A t \in Stages : t < stage => stored[t] # {}
        /\ \A c \in 1 .. Width[stage] : root'[stage][c].prepared # {}
        /\ \A c \in 1 .. at : root'[stage][c].prepared = {"complete"} => root'[stage][c].dirs = {}
    <2>1. /\ stored[stage] = {} /\ \A t \in Stages : t < stage => stored[t] # {}
          /\ \A c \in 1 .. Width[stage] : root[stage][c].prepared # {}
          /\ \A c \in 1 .. at - 1 : root[stage][c].prepared = {"complete"} => root[stage][c].dirs = {}
      BY <1>1 DEF IInv, AtStage
    <2>2. \A c \in 1 .. at : c \in 1 .. Width[stage] /\ (c = at \/ c \in 1 .. at - 1)
      BY <1>2
    <2> QED
      BY <1>2, <1>3, <1>6, <1>c, <2>1, <2>2
  <1>9. CASE at = Width[stage]
    <2>1. pc' = "store" /\ at' = at
      BY <1>9 DEF PrunePredictions
    <2>2. pc' \notin Preparing /\ pc' \notin Compacting /\ pc' \notin Replaying
      BY <2>1 DEF Preparing, Replaying, Compacting
    <2>7. at \in 1 .. at
      BY <1>2
    <2>3. (Here.prepared = {"complete"} => Here.dirs = {})'
      BY <1>1, <1>8, <2>1, <2>7 DEF Here
    <2>4. \A c \in 1 .. at' - 1 : c \in 1 .. at
      BY <1>2, <2>1
    <2>5. AtStage'
      BY <1>1, <1>8, <1>9, <2>1, <2>2, <2>3, <2>4 DEF AtStage
    <2>6. AtCandidate'
      BY <2>1, <2>2 DEF AtCandidate, Compacting
    <2> QED
      BY <1>7, <2>5, <2>6 DEF IInv
  <1>10. CASE at # Width[stage]
    <2>1. pc' = "score" /\ at' = at + 1
      BY <1>10 DEF PrunePredictions
    <2>2. pc' \notin Preparing /\ pc' \notin Compacting /\ pc' \notin Replaying
      BY <2>1 DEF Preparing, Replaying, Compacting
    <2>3. \A c \in 1 .. at' - 1 : c \in 1 .. at
      BY <1>2, <2>1
    <2>4. AtStage'
      BY <1>1, <1>8, <2>1, <2>2, <2>3 DEF AtStage
    <2>5. AtCandidate'
      BY <2>1, <2>2 DEF AtCandidate, Compacting
    <2> QED
      BY <1>7, <2>4, <2>5 DEF IInv
  <1> QED
    BY <1>9, <1>10

(* Steps that write neither a candidate nor the results of a stage.         *)
Elsewhere == {"off", "refused", "open", "plan", "results", "publish", "publish manifest"}

LEMMA Outside ==
  ASSUME IInv, UNCHANGED <<root, stored>>, pc' \in Elsewhere,
         stage' \in Stages, at' \in 1 .. Width[stage'],
         \A t \in Stages : t < stage' => stored[t] # {}
  PROVE  IInv'
  <1>1. /\ pc' \notin Preparing \cup Scoring \cup Replaying \cup Compacting
        /\ pc' \notin {"choose", "store", "prune predictions", "prune exposures", "receipt"}
    BY DEF Elsewhere, Preparing, Scoring, Replaying, Compacting
  <1>2. AtCandidate' /\ AtStage'
    BY <1>1 DEF AtCandidate, AtStage
  <1> QED
    BY <1>2, Unwritten DEF IInv

LEMMA FirstCandidate ==
  1 \in Stages /\ 1 \in 1 .. Width[1] /\ \A t \in Stages : ~(t < 1)
  <1>1. 1 \in Stages /\ \A t \in Stages : ~(t < 1)
    BY Sizes
  <1>2. Width[1] \in Nat \ {0}
    BY <1>1, Sizes
  <1> QED
    BY <1>1, <1>2

(* The process stops, or has not come to a stage yet.                       *)
LEMMA StageKept ==
  ASSUME IInv, UNCHANGED <<root, stored, stage, at>>, pc' \in Elsewhere
  PROVE  IInv'
  BY Outside, Known DEF IInv, AtStage

LEMMA StartsOver ==
  ASSUME IInv, UNCHANGED <<root, stored>>, pc' \in Elsewhere, stage' = 1, at' = 1
  PROVE  IInv'
  BY Outside, FirstCandidate

LEMMA CandidateStepKeeps ==
  ASSUME IInv, CandidateStep, UNCHANGED stored
  PROVE  IInv'
  <1>1. CASE ReusePrepared
    <2>1. /\ UNCHANGED root /\ pc \in Preparing /\ AfterPrepare(at) /\ Here.prepared # {}
      BY <1>1 DEF ReusePrepared, Preparing
    <2>2. /\ AtStage' /\ AtCandidate' /\ stage' = stage /\ at' \in 1 .. Width[stage]
      BY <2>1, Prepared DEF Here
    <2> QED
      BY <2>1, <2>2, Known, Unwritten DEF IInv
  <1>2. CASE ReuseManifest
    <2>1. /\ UNCHANGED <<root, stage, at>> /\ pc \in Preparing /\ pc' = "compact"
          /\ Here.manifest # {}
      BY <1>2 DEF ReuseManifest, Go, proc, Preparing
    <2>2. AtStage'
      BY <2>1, StaysPreparing DEF Preparing, Compacting
    <2>3. AtCandidate'
      BY <2>1 DEF AtCandidate, Here, Replaying, Compacting
    <2> QED
      BY <2>1, <2>2, <2>3, Known, Unwritten DEF IInv
  <1>3. CASE RefuseRoot \/ RefuseHost \/ RefuseStray
    BY <1>3, StageKept DEF RefuseRoot, RefuseHost, RefuseStray, Refuse, Elsewhere
  <1>4. CASE Resume
    <2>1. /\ UNCHANGED <<root, stage, at>> /\ pc \in Preparing
          /\ pc' \in {"seal", "train"}
          /\ Here.prepared = {} /\ Here.manifest = {} /\ Here.saved # {}
      BY <1>4 DEF Resume, Replays, Preparing
    <2>2. AtStage'
      BY <2>1, StaysPreparing DEF Preparing, Replaying
    <2>3. Here # EmptyRoot
      BY <2>1 DEF EmptyRoot
    <2>4. Dirs \subseteq Here.dirs
      BY <2>1, <2>3, Known DEF Accounted, Dirs
    <2>5. AtCandidate'
      BY <2>1, <2>4 DEF AtCandidate, Here, Replaying, Compacting
    <2> QED
      BY <2>1, <2>2, <2>5, Known, Unwritten DEF IInv
  <1>5. CASE ReuseReceipt
    <2>1. /\ UNCHANGED <<root, stage, at>> /\ pc = "compact" /\ pc' = "prune checkpoints"
          /\ Here.receipt
      BY <1>5 DEF ReuseReceipt, Go, proc
    <2>2. AtStage'
      BY <2>1, StaysPreparing DEF Preparing, Compacting
    <2>3. AtCandidate'
      BY <2>1 DEF IInv, AtCandidate, Here, Replaying, Compacting
    <2> QED
      BY <2>1, <2>2, <2>3, Known, Unwritten DEF IInv
  <1>6. CASE LoadResult
    <2>1. /\ UNCHANGED <<root, stage, at>> /\ pc = "score" /\ pc' = "prune predictions"
          /\ Here.result # {}
      BY <1>6 DEF LoadResult, Scored, Go, proc
    <2>2. AtStage'
      BY <2>1, Known, StaysScoring DEF Scoring, Here
    <2>3. AtCandidate'
      BY <2>1 DEF AtCandidate, Here, Replaying, Compacting
    <2> QED
      BY <2>1, <2>2, <2>3, Known, Unwritten DEF IInv
  <1> QED
    BY <1>1, <1>2, <1>3, <1>4, <1>5, <1>6,
       OpenFreshStep, TrainStep, SaveStep, SealPredictionsStep, SealExposuresStep,
       SaveSealedStep, WriteManifestStep, WriteReceiptStep, PruneCheckpointsStep,
       PruneExposuresStep, PrepareInvalidStep, WritePreparedStep, EvaluateStep,
       WriteResultStep, PrunePredictionsStep
    DEF CandidateStep

(* The results of a stage are stored once all of its candidates are.        *)
LEMMA StoreResultsStep ==
  ASSUME IInv, StoreResults
  PROVE  IInv'
  <1> DEFINE rs == {Candidates}
  <1>1. /\ pc = "store" /\ pc \in Scoring /\ pc' = "choose"
        /\ UNCHANGED <<root, stage, at>>
        /\ stored' = [stored EXCEPT ![stage] = rs] /\ rs # {}
    BY DEF StoreResults, Go, proc, Scoring
  <1> HIDE DEF rs
  <1>2. stage \in Stages /\ stored = [s \in Stages |-> stored[s]]
    BY DEF IInv, FilesCorrect, Typed
  <1>3. /\ stored' = [s \in Stages |-> stored'[s]]
        /\ stored'[stage] # {}
        /\ \A s \in Stages : s # stage => stored'[s] = stored[s]
    BY <1>1, <1>2
  <1>4. \A s \in Stages : stored[s] # {} => stored'[s] # {}
    BY <1>3
  <1>5. \A c \in 1 .. Width[stage] :
          root[stage][c].prepared = {"complete"} => root[stage][c].dirs = {}
    <2>1. /\ at = Width[stage]
          /\ Here.prepared = {"complete"} => Here.dirs = {}
          /\ \A c \in 1 .. at - 1 :
               root[stage][c].prepared = {"complete"} => root[stage][c].dirs = {}
      BY <1>1 DEF IInv, AtStage
    <2>2. Width[stage] \in Nat \ {0}
      BY <1>2, Sizes
    <2>3. \A c \in 1 .. Width[stage] : c = at \/ c \in 1 .. at - 1
      BY <2>1, <2>2
    <2> QED
      BY <2>1, <2>3 DEF Here
  <1>6. Typed'
    BY <1>1, <1>3 DEF IInv, FilesCorrect, Typed
  <1>7. AllAccounted'
    BY <1>1 DEF IInv, FilesCorrect, AllAccounted
  <1>8. ScoredAfterSealed'
    <2>1. \A s \in Stages : \A t \in 1 .. s - 1 : t \in Stages
      BY Sizes
    <2> QED
      BY <1>1, <1>4, <2>1 DEF IInv, FilesCorrect, ScoredAfterSealed
  <1>9. StoredEmpty'
    BY <1>1, <1>3, <1>5 DEF IInv, FilesCorrect, StoredEmpty
  <1>10. AtStage' /\ AtCandidate'
    <2>1. pc' \notin Preparing \cup Scoring \cup Replaying \cup Compacting
      BY <1>1 DEF Preparing, Scoring, Replaying, Compacting
    <2> QED
      BY <1>1, <1>3, <1>4, <2>1 DEF IInv, AtStage, AtCandidate, Compacting
  <1> QED
    BY <1>6, <1>7, <1>8, <1>9, <1>10 DEF IInv, FilesCorrect

LEMMA ChooseStep ==
  ASSUME IInv, Choose
  PROVE  IInv'
  <1>1. /\ UNCHANGED <<root, stored>> /\ pc = "choose" /\ at' = 1
        /\ \/ stage = Len(Width) /\ pc' = "publish" /\ stage' = stage
           \/ stage # Len(Width) /\ pc' = "plan" /\ stage' = stage + 1
    BY DEF Choose, graphVars
  <1>2. /\ stage \in Stages /\ stored[stage] # {}
        /\ \A t \in Stages : t < stage => stored[t] # {}
    BY <1>1, Known DEF IInv, AtStage
  <1>3. stage' \in Stages /\ \A t \in Stages : t < stage' => t < stage \/ t = stage
    BY <1>1, <1>2, Sizes
  <1>4. Width[stage'] \in Nat \ {0}
    BY <1>3, Sizes
  <1>5. at' \in 1 .. Width[stage']
    BY <1>1, <1>4
  <1> QED
    BY <1>1, <1>2, <1>3, <1>5, Outside DEF Elsewhere

LEMMA PrepareStageStep ==
  ASSUME IInv, PrepareStage
  PROVE  IInv'
  <1>1. /\ UNCHANGED <<root, stored, stage>> /\ pc' = "prepare" /\ at' = 1
        /\ stored[stage] = {}
    BY DEF PrepareStage, graphVars
  <1>2. stage \in Stages /\ 1 \in 1 .. Width[stage]
    <2>1. stage \in Stages
      BY Known
    <2>2. Width[stage] \in Nat \ {0}
      BY <2>1, Sizes
    <2> QED
      BY <2>1, <2>2
  <1>3. /\ pc' \notin Scoring \cup Replaying \cup Compacting
        /\ pc' \notin {"choose", "store", "prune predictions", "prune exposures", "receipt"}
    BY <1>1 DEF Scoring, Replaying, Compacting
  <1>4. /\ AtStage
        /\ \A c \in 1 .. at' - 1 : FALSE
    BY <1>1 DEF IInv
  <1>5. AtStage'
    BY <1>1, <1>3, <1>4 DEF AtStage
  <1>6. AtCandidate'
    BY <1>3 DEF AtCandidate, Compacting
  <1> QED
    BY <1>1, <1>2, <1>5, <1>6, Unwritten DEF IInv

LEMMA GraphStepKeeps ==
  ASSUME IInv, GraphStep
  PROVE  IInv'
  <1>1. CASE CandidateStep /\ UNCHANGED <<graphVars, lockVars>>
    BY <1>1, CandidateStepKeeps DEF graphVars
  <1>2. CASE ReusePublished \/ RefusePair \/ Start
    BY <1>2, StageKept
    DEF ReusePublished, RefusePair, Start, Go, Refuse, proc, graphVars, Elsewhere
  <1>3. CASE FreezePlan \/ RefusePlan
    BY <1>3, StageKept DEF FreezePlan, RefusePlan, Go, Refuse, proc, graphVars, Elsewhere
  <1>4. CASE ReuseResults
    <2>1. /\ UNCHANGED <<root, stored, stage, at>> /\ pc' = "choose" /\ stored[stage] # {}
      BY <1>4 DEF ReuseResults, Go, proc, graphVars
    <2>2. pc' \notin Preparing \cup Scoring \cup Replaying \cup Compacting
      BY <2>1 DEF Preparing, Scoring, Replaying, Compacting
    <2>3. AtStage' /\ AtCandidate'
      BY <2>1, <2>2 DEF IInv, AtStage, AtCandidate, Compacting
    <2> QED
      BY <2>1, <2>3, Known, Unwritten DEF IInv
  <1>5. CASE RefuseStage
    BY <1>5, StageKept DEF RefuseStage, Refuse, graphVars, Elsewhere
  <1>6. CASE PublishResults \/ PublishManifest
    BY <1>6, StageKept DEF PublishResults, PublishManifest, Go, proc, Elsewhere
  <1> QED
    BY <1>1, <1>2, <1>3, <1>4, <1>5, <1>6, PrepareStageStep, StoreResultsStep, ChooseStep
    DEF GraphStep

LEMMA InvariantKept == IInv /\ [Next]_vars => IInv'
  <1> SUFFICES ASSUME IInv, [Next]_vars PROVE IInv'
    OBVIOUS
  <1>1. CASE GraphStep
    BY <1>1, GraphStepKeeps
  <1>2. CASE Launch
    BY <1>2, StartsOver DEF Launch, graphVars, Elsewhere
  <1>3. CASE Crash
    BY <1>3, StartsOver DEF Crash, graphVars, Elsewhere
  <1>4. ASSUME UNCHANGED <<root, stored, stage, at, pc>>
        PROVE  IInv'
    BY <1>4 DEF IInv, FilesCorrect, Typed, AllAccounted, ScoredAfterSealed, StoredEmpty,
                AtCandidate, AtStage, Here
  <1>5. CASE MoveHost
    BY <1>4, <1>5 DEF MoveHost, proc, graphVars
  <1>6. CASE Measure \/ Bind \/ Lock \/ Accept
    BY <1>4, <1>6 DEF Measure, Bind, Lock, Accept, candidateVars, proc, graphVars
  <1>7. CASE UNCHANGED vars
    BY <1>4, <1>7 DEF vars, candidateVars, proc, graphVars
  <1> QED
    BY <1>1, <1>2, <1>3, <1>5, <1>6, <1>7 DEF Next

(* No held-out outcome of a candidate is read before its whole stage is     *)
(* prepared and every earlier stage stored, for every graph, every number   *)
(* of crashes and every change of the machine (selection_coordinator.py).   *)
THEOREM ScoredCorrect == Spec => []ScoredAfterSealed
  <1>1. IInv => ScoredAfterSealed
    BY DEF IInv, FilesCorrect
  <1> QED
    BY Initially, InvariantKept, <1>1, PTL DEF Spec

(* Evidence goes only under its receipt or its result, and a stored stage   *)
(* holds nothing of its completed candidates (selection_executor.py).       *)
THEOREM RetentionCorrect == Spec => []RetainedUntilSettled
  <1>1. IInv => RetainedUntilSettled
    <2> SUFFICES ASSUME IInv PROVE RetainedUntilSettled
      OBVIOUS
    <2>1. \A d \in Begun : \E s \in Stages : \E c \in 1 .. Width[s] :
            d = root[s][c] /\ d # EmptyRoot
      <3>1. TAKE d \in Begun
      <3>2. d # EmptyRoot /\ \E s \in Stages : d \in {root[s][c] : c \in 1 .. Width[s]}
        BY DEF Begun
      <3> QED
        BY <3>2
    <2>2. \A d \in Begun :
            /\ ~(TrainingDirs \subseteq d.dirs) => d.receipt /\ d.manifest # {}
            /\ "predictions" \notin d.dirs => d.result # {}
            /\ d.prepared = {"complete"} => TrainingDirs \cap d.dirs = {}
      BY <2>1 DEF IInv, FilesCorrect, AllAccounted, Accounted
    <2>3. StoredEmpty
      BY DEF IInv, FilesCorrect
    <2> QED
      BY <2>2, <2>3 DEF RetainedUntilSettled, StoredEmpty
  <1> QED
    BY Initially, InvariantKept, <1>1, PTL DEF Spec
-----------------------------------------------------------------------------
(* The lock: what each candidate, stage and decision says of its fate.       *)
(* A candidate the data refuses never passes the step that fails; one that  *)
(* completes has the loss and the compute seconds a decision needs.         *)
Fated(d, f) ==
  /\ d.result \subseteq Outcomes
  /\ \A m \in d.manifest : m.cost \in Nat
  /\ d.manifest # {} => f.valid
  /\ d.prepared = {"complete"} => d.manifest # {}
  /\ \A s \in d.saved : s.step \in Nat /\ (~f.valid => s.step <= f.fails)

AllFated ==
  /\ fate \in Fates
  /\ \A s \in Stages : \A c \in 1 .. Width[s] : Fated(root[s][c], fate[s][c])

AtFate ==
  /\ pc \in Replaying => step \in Nat
  /\ pc \in {"train", "save"} => (~Fate.valid => step <= Fate.fails)
  /\ pc \in Replaying \ {"train", "save"} => Fate.valid
  /\ pc = "result" => Here.prepared = {"complete"}
  /\ pc \in Scoring => \A c \in 1 .. at - 1 : root[stage][c].result # {}
  /\ pc = "store" => Here.result # {}

(* Whatever is stored of a stage is one outcome for each of its candidates. *)
StoredTrue ==
  \A s \in Stages : stored[s] # {} =>
    \E rs \in [1 .. Width[s] -> Outcomes] : stored[s] = {rs}

(* The first n stages of what is stored have a winner each.                 *)
ResultsIn(st, k) == CHOOSE rs \in st[k] : TRUE
Won(st, n) == \A k \in 1 .. n : st[k] # {} /\ HasWinner(ResultsIn(st, k))
WinnersOf(st, n) == [k \in 1 .. n |-> Winner(ResultsIn(st, k))]

(* A stage is planned on the winners of the stages before it, and planned   *)
(* before its results are stored.                                           *)
PlansTrue ==
  /\ planned = [s \in Stages |-> planned[s]]
  /\ \A s \in Stages : planned[s] # {} =>
       /\ Won(stored, s - 1)
       /\ \E b : planned[s] = {[base |-> WinnersOf(stored, s - 1), budget |-> b]}
  /\ \A s \in Stages : stored[s] # {} => planned[s] # {}

InStage == {"results", "choose"} \cup Preparing \cup Scoring

(* What a launch has computed again is what is stored.                      *)
AtGraph ==
  /\ pc = "open" => stage = 1
  /\ pc \in {"open", "plan"} \cup InStage =>
       Won(stored, stage - 1) /\ winners = WinnersOf(stored, stage - 1)
  /\ pc \in InStage => planned[stage] # {}
  /\ pc = "publish" => Won(stored, Len(Width))

(* What is published, locked and accepted is of all the stages.             *)
DecidedTrue ==
  /\ \A m \in results :
       Won(stored, Len(Width)) /\ m = [s \in Stages |-> ResultsIn(stored, s)]
  /\ \A l \in lock \cup accepted :
       Won(stored, Len(Width)) /\ l.decisions = WinnersOf(stored, Len(Width))
  /\ \A l \in accepted : \A s \in Stages :
       planned[s] = {[base |-> SubSeq(l.decisions, 1, s - 1), budget |-> l.budget]}

FatesCorrect == AllFated /\ AtFate
DecisionsCorrect == StoredTrue /\ PlansTrue /\ AtGraph /\ DecidedTrue
LockInv == IInv /\ FatesCorrect /\ DecisionsCorrect

LEMMA LeastNatural ==
  ASSUME NEW S \in SUBSET Nat, S # {}
  PROVE  \E x \in S : \A y \in S : x <= y
  <1> DEFINE R == {ss \in Nat \X Nat : ss[1] < ss[2]}
  <1>1. IsWellFoundedOn(R, Nat)
    BY NatLessThanWellFounded DEF OpToRel
  <1>2. S \subseteq Nat /\ S # {}
    OBVIOUS
  <1> HIDE DEF R
  <1>3. PICK x \in S : \A y \in S : ~(<<y, x>> \in R)
    BY <1>1, <1>2, WFMin
  <1>4. \A y \in S : ~(y < x)
    BY <1>3 DEF R
  <1> QED
    BY <1>4

(* select_candidate: what it chooses among outcomes of which one completed  *)
(* is one of them and the best the protocol can ask for.                    *)
LEMMA WinnerIsBest ==
  ASSUME NEW n \in Nat, NEW rs \in [1 .. n -> Outcomes], HasWinner(rs)
  PROVE  IsBest(rs, Winner(rs))
  <1> DEFINE Complete == {c \in DOMAIN rs : rs[c].status = "complete"}
             Tied == {c \in Complete : \A o \in Complete : rs[c].loss <= rs[o].loss + Tolerance}
             First(c) == \A o \in Tied : \/ rs[c].cost < rs[o].cost
                                         \/ rs[c].cost = rs[o].cost /\ c <= o
  <1>1. /\ DOMAIN rs = 1 .. n /\ Complete \subseteq 1 .. n /\ Complete # {}
        /\ \A c \in 1 .. n : rs[c].loss \in Nat /\ rs[c].cost \in Nat
        /\ Tolerance \in Nat
    BY ToleranceConstant DEF HasWinner, Outcomes
  <1>2. Winner(rs) = CHOOSE c \in Tied : First(c)
    BY DEF Winner
  <1>3. Tied \subseteq Complete
    OBVIOUS
  <1>a. \A c \in Complete : c \in Tied <=> \A o \in Complete : rs[c].loss <= rs[o].loss + Tolerance
    OBVIOUS
  <1> HIDE DEF Complete
  <1>4. Tied # {}
    <2> DEFINE Losses == {rs[c].loss : c \in Complete}
    <2>1. Losses \in SUBSET Nat /\ Losses # {}
      BY <1>1
    <2>2. PICK x \in Losses : \A y \in Losses : x <= y
      BY <2>1, LeastNatural
    <2>3. PICK c \in Complete : x = rs[c].loss
      OBVIOUS
    <2>4. ASSUME NEW o \in Complete PROVE rs[c].loss <= rs[o].loss + Tolerance
      <3>1. rs[o].loss \in Losses
        OBVIOUS
      <3>2. rs[c].loss <= rs[o].loss
        BY <2>2, <2>3, <3>1
      <3> QED
        BY <1>1, <3>2
    <2> QED
      BY <2>4
  <1> HIDE DEF Tied
  <1>5. \E c \in Tied : First(c)
    <2> DEFINE Prices == {rs[c].cost : c \in Tied}
    <2>1. Prices \in SUBSET Nat /\ Prices # {}
      BY <1>1, <1>3, <1>4
    <2>2. PICK x \in Prices : \A y \in Prices : x <= y
      BY <2>1, LeastNatural
    <2> DEFINE Cheapest == {c \in Tied : rs[c].cost = x}
    <2>3. Cheapest \in SUBSET Nat /\ Cheapest # {}
      <3>1. \E c \in Tied : x = rs[c].cost
        OBVIOUS
      <3>2. Tied \subseteq Nat
        BY <1>1, <1>3
      <3> QED
        BY <3>1, <3>2
    <2>4. PICK c \in Cheapest : \A o \in Cheapest : c <= o
      BY <2>3, LeastNatural
    <2>5. ASSUME NEW o \in Tied
          PROVE  rs[c].cost < rs[o].cost \/ (rs[c].cost = rs[o].cost /\ c <= o)
      <3>1. rs[c].cost = x /\ x <= rs[o].cost /\ x \in Nat /\ rs[o].cost \in Nat
        BY <1>1, <1>3, <2>1, <2>2
      <3>2. rs[o].cost = x => c <= o
        BY <2>4
      <3> QED
        BY <3>1, <3>2
    <2> QED
      BY <2>4, <2>5
  <1> DEFINE w == Winner(rs)
  <1>6. w \in Tied /\ First(w)
    BY <1>2, <1>5
  <1> HIDE DEF w
  <1>7. w \in Complete /\ \A o \in Complete : rs[w].loss <= rs[o].loss + Tolerance
    BY <1>3, <1>6, <1>a
  <1>8. w \in DOMAIN rs /\ rs[w].status = "complete"
    BY <1>7 DEF Complete
  <1>9. \A o \in DOMAIN rs : ~(rs[o].status = "complete" /\ rs[o].loss + Tolerance < rs[w].loss)
    BY <1>1, <1>7, <1>8 DEF Complete
  <1>10. ASSUME NEW o \in DOMAIN rs, rs[o].status = "complete",
                ~\E q \in DOMAIN rs : rs[q].status = "complete" /\ rs[q].loss + Tolerance < rs[o].loss
         PROVE  rs[w].cost <= rs[o].cost
    <2>1. o \in Complete /\ \A q \in Complete : rs[o].loss <= rs[q].loss + Tolerance
      BY <1>1, <1>10 DEF Complete
    <2>2. o \in Tied
      BY <1>a, <2>1
    <2>3. rs[w].cost < rs[o].cost \/ rs[w].cost = rs[o].cost
      BY <1>6, <2>2
    <2> QED
      BY <1>1, <1>8, <1>10, <2>3
  <1> QED
    BY <1>8, <1>9, <1>10 DEF IsBest, w

(* The candidates before the one the process is at are others of its stage. *)
LEMMA Position ==
  ASSUME IInv
  PROVE  /\ at \in Nat /\ at \in 1 .. at
         /\ \A c \in 1 .. at - 1 : c \in 1 .. Width[stage] /\ c # at
         /\ \A c \in 1 .. at : c = at \/ c \in 1 .. at - 1
         /\ \A c \in 1 .. at + 1 - 1 : c \in 1 .. at
         /\ at = Width[stage] => \A c \in 1 .. Width[stage] : c = at \/ c \in 1 .. at - 1
  <1>1. at \in 1 .. Width[stage] /\ Width[stage] \in Nat \ {0}
    <2>1. stage \in Stages /\ at \in 1 .. Width[stage]
      BY Known
    <2> QED
      BY <2>1, Sizes
  <1> QED
    BY <1>1

(* What a candidate's step writes, and where.                               *)
LEMMA FatedKept ==
  ASSUME IInv, AllFated, NEW d, Put(d), UNCHANGED fate, Fated(d, Fate)
  PROVE  /\ AllFated' /\ root'[stage][at] = d
         /\ \A c \in 1 .. Width[stage] : c # at => root'[stage][c] = root[stage][c]
  <1> DEFINE new == [root[stage] EXCEPT ![at] = d]
  <1>1. /\ stage \in Stages /\ at \in 1 .. Width[stage]
        /\ root' = [root EXCEPT ![stage] = new]
        /\ root = [s \in Stages |-> [c \in 1 .. Width[s] |-> root[s][c]]]
    BY DEF IInv, FilesCorrect, Typed, Put
  <1>2. root[stage] = [c \in 1 .. Width[stage] |-> root[stage][c]]
    BY <1>1
  <1>3. /\ new[at] = d
        /\ \A c \in 1 .. Width[stage] : c # at => new[c] = root[stage][c]
    BY <1>1, <1>2
  <1> HIDE DEF new
  <1>4. /\ root'[stage] = new
        /\ \A s \in Stages : s # stage => root'[s] = root[s]
    BY <1>1
  <1>5. AllFated'
    BY <1>3, <1>4 DEF AllFated, Fate
  <1> QED
    BY <1>3, <1>4, <1>5

LEMMA FateKnown ==
  ASSUME IInv, FatesCorrect
  PROVE  /\ Fated(Here, Fate) /\ Fate.valid \in BOOLEAN
         /\ IF Fate.valid THEN Fate.loss \in Nat ELSE Fate.fails \in 0 .. Credits
         /\ Credits \in Nat \ {0} /\ Costs \subseteq Nat
  BY Known, FateConstants, SelectionConstants DEF FatesCorrect, AllFated, Here, Fate

(* The places of a candidate that is still being prepared.                  *)
PreparesTo(place, d, n, f) ==
  /\ place \in Preparing /\ Fated(d, f)
  /\ place \in Replaying => n \in Nat
  /\ place \in {"train", "save"} => (~f.valid => n <= f.fails)
  /\ place \in Replaying \ {"train", "save"} => f.valid

LEMMA PreparesFated ==
  ASSUME IInv, FatesCorrect, NEW d, Put(d), UNCHANGED <<stage, at, fate>>,
         PreparesTo(pc', d, step', Fate)
  PROVE  FatesCorrect'
  <1>1. AllFated'
    BY FatedKept DEF FatesCorrect, PreparesTo
  <1>2. pc' \notin Scoring
    BY DEF PreparesTo, Preparing, Scoring, Replaying, Compacting
  <1>3. AtFate'
    BY <1>2 DEF PreparesTo, AtFate, Fate, Scoring
  <1> QED
    BY <1>1, <1>3 DEF FatesCorrect

(* The steps of the preparation that leave what decides a fate alone.       *)
LEMMA WritesElsewhere ==
  ASSUME IInv, \/ OpenFresh \/ Train \/ SealPredictions \/ SealExposures
               \/ WriteReceipt \/ PruneExposures
  PROVE  \E d : /\ Put(d) /\ d.result = Here.result /\ d.manifest = Here.manifest
                /\ d.prepared = Here.prepared /\ d.saved = Here.saved
  <1>1. IsRoot(Here)
    BY Known
  <1>2. CASE OpenFresh
    <2> DEFINE e == TrainingDirs \cup {"predictions"}
    <2>1. Put([Here EXCEPT !.dirs = e])
      BY <1>2 DEF OpenFresh
    <2> HIDE DEF e
    <2> QED
      BY <1>1, <2>1 DEF IsRoot
  <1>3. CASE Train
    <2> DEFINE e == Max({Here.exposures, step})
    <2>1. Put([Here EXCEPT !.exposures = e])
      BY <1>3 DEF Train
    <2> HIDE DEF e
    <2> QED
      BY <1>1, <2>1 DEF IsRoot
  <1>4. CASE SealPredictions \/ SealExposures
    <2>1. \E e : Put([Here EXCEPT !.sealed = e])
      BY <1>4 DEF SealPredictions, SealExposures
    <2> QED
      BY <1>1, <2>1 DEF IsRoot
  <1>5. CASE WriteReceipt
    <2> DEFINE e == TRUE
    <2>1. Put([Here EXCEPT !.receipt = e])
      BY <1>5 DEF WriteReceipt
    <2> HIDE DEF e
    <2> QED
      BY <1>1, <2>1 DEF IsRoot
  <1>6. CASE PruneExposures
    <2> DEFINE e == Here.dirs \ {"exposures"}
               g == Here.sealed \ {"exposures"}
               n == 0
               a == [Here EXCEPT !.dirs = e]
               b == [a EXCEPT !.exposures = n]
               d == [b EXCEPT !.sealed = g]
    <2>1. Put(d)
      BY <1>6 DEF PruneExposures
    <2> HIDE DEF e, g, n
    <2>2. a = [dirs |-> e, saved |-> Here.saved, exposures |-> Here.exposures,
               sealed |-> Here.sealed, manifest |-> Here.manifest, receipt |-> Here.receipt,
               prepared |-> Here.prepared, evaluated |-> Here.evaluated, result |-> Here.result]
      BY <1>1 DEF IsRoot
    <2> HIDE DEF a
    <2>3. b = [dirs |-> e, saved |-> Here.saved, exposures |-> n,
               sealed |-> Here.sealed, manifest |-> Here.manifest, receipt |-> Here.receipt,
               prepared |-> Here.prepared, evaluated |-> Here.evaluated, result |-> Here.result]
      BY <2>2
    <2> HIDE DEF b
    <2>4. /\ d.result = Here.result /\ d.manifest = Here.manifest
          /\ d.prepared = Here.prepared /\ d.saved = Here.saved
      BY <2>3
    <2> HIDE DEF d
    <2> QED
      BY <2>1, <2>4
  <1> QED
    BY <1>2, <1>3, <1>4, <1>5, <1>6

LEMMA WritesElsewhereFated ==
  ASSUME IInv, FatesCorrect,
         \/ OpenFresh \/ Train \/ SealPredictions \/ SealExposures
         \/ WriteReceipt \/ PruneExposures
  PROVE  FatesCorrect'
  <1>1. PICK d : /\ Put(d) /\ d.result = Here.result /\ d.manifest = Here.manifest
                 /\ d.prepared = Here.prepared /\ d.saved = Here.saved
    BY WritesElsewhere
  <1>2. Fated(d, Fate)
    BY <1>1, FateKnown DEF Fated
  <1>3. UNCHANGED <<stage, at, fate>> /\ pc' \in Preparing
    BY DEF OpenFresh, Train, SealPredictions, SealExposures, WriteReceipt, PruneExposures, Go, proc,
           Preparing, Replaying, Compacting
  <1>4. PreparesTo(pc', d, step', Fate)
    <2>1. CASE OpenFresh
      <3>1. pc' = "train" /\ step' = 0 /\ "train" \notin Replaying \ {"train", "save"}
        BY <2>1 DEF OpenFresh
      <3> QED
        BY <1>2, <1>3, <3>1, FateKnown DEF PreparesTo
    <2>2. CASE Train
      <3>1. /\ pc = "train" /\ pc' = "save" /\ step' = step + 1 /\ ~PoolTooSmall
            /\ "save" \notin Replaying \ {"train", "save"}
        BY <2>2 DEF Train
      <3>2. step \in Nat /\ (~Fate.valid => step <= Fate.fails /\ Fate.fails # step)
        BY <3>1 DEF FatesCorrect, AtFate, PoolTooSmall, Replaying
      <3>3. step' \in Nat /\ (~Fate.valid => step' <= Fate.fails)
        BY <3>1, <3>2, FateKnown
      <3> QED
        BY <1>2, <1>3, <3>1, <3>3 DEF PreparesTo
    <2>3. CASE SealPredictions \/ SealExposures
      <3>1. /\ pc \in Replaying \ {"train", "save"} /\ pc' \notin {"train", "save"}
            /\ step' = step
        BY <2>3 DEF SealPredictions, SealExposures, Go, proc, Replaying
      <3> QED
        BY <1>2, <1>3, <3>1 DEF PreparesTo, FatesCorrect, AtFate
    <2>4. CASE WriteReceipt \/ PruneExposures
      <3>1. pc' \notin Replaying \cup {"train", "save"}
        BY <2>4 DEF WriteReceipt, PruneExposures, Go, Replaying
      <3> QED
        BY <1>2, <1>3, <3>1 DEF PreparesTo
    <2> QED
      BY <2>1, <2>2, <2>3, <2>4
  <1> QED
    BY <1>1, <1>3, <1>4, PreparesFated

(* A checkpoint is of a step the candidate got past.                        *)
LEMMA SavesFated ==
  ASSUME IInv, FatesCorrect, Save \/ SaveSealed \/ PruneCheckpoints
  PROVE  FatesCorrect'
  <1>1. IsRoot(Here)
    BY Known
  <1>2. UNCHANGED <<stage, at, fate>> /\ pc' \in Preparing
    BY DEF Save, SaveSealed, PruneCheckpoints, Go, proc, Preparing, Replaying, Compacting
  <1>3. CASE Save
    <2> DEFINE e == {Saved}
               d == [Here EXCEPT !.saved = e]
    <2>1. /\ Put(d) /\ pc = "save" /\ step' = step
          /\ pc' = IF step = Credits + 1 THEN "seal" ELSE "train"
      BY <1>3 DEF Save, Go, proc
    <2>2. \A s \in e : s.step = step
      BY DEF Saved
    <2> HIDE DEF e
    <2>3. /\ d.saved = e /\ d.result = Here.result /\ d.manifest = Here.manifest
          /\ d.prepared = Here.prepared
      BY <1>1 DEF IsRoot
    <2> HIDE DEF d
    <2>4. step \in Nat /\ (~Fate.valid => step <= Fate.fails)
      BY <2>1 DEF FatesCorrect, AtFate, Replaying
    <2>5. Fated(d, Fate)
      BY <2>2, <2>3, <2>4, FateKnown DEF Fated
    <2>6. step = Credits + 1 => Fate.valid
      BY <2>4, FateKnown
    <2>7. PreparesTo(pc', d, step', Fate)
      BY <1>2, <2>1, <2>4, <2>5, <2>6 DEF PreparesTo, Replaying
    <2> QED
      BY <1>2, <2>1, <2>7, PreparesFated
  <1>4. CASE SaveSealed
    <2> DEFINE e == {Saved}
               d == [Here EXCEPT !.saved = e]
    <2>1. Put(d) /\ pc = "save sealed" /\ step' = step /\ pc' = "manifest"
      BY <1>4 DEF SaveSealed, Go, proc
    <2>2. \A s \in e : s.step = step
      BY DEF Saved
    <2> HIDE DEF e
    <2>3. /\ d.saved = e /\ d.result = Here.result /\ d.manifest = Here.manifest
          /\ d.prepared = Here.prepared
      BY <1>1 DEF IsRoot
    <2> HIDE DEF d
    <2>4. Fate.valid /\ step \in Nat
      BY <2>1 DEF FatesCorrect, AtFate, Replaying
    <2>a. Fated(d, Fate)
      BY <2>2, <2>3, <2>4, FateKnown DEF Fated
    <2>5. PreparesTo(pc', d, step', Fate)
      BY <1>2, <2>1, <2>4, <2>a DEF PreparesTo, Replaying
    <2> QED
      BY <1>2, <2>1, <2>5, PreparesFated
  <1>5. CASE PruneCheckpoints
    <2> DEFINE e == Here.dirs \ {"checkpoints"}
               none == {}
               d == [Here EXCEPT !.dirs = e, !.saved = none]
    <2>1. Put(d) /\ pc' = "prune exposures"
      BY <1>5 DEF PruneCheckpoints, Go
    <2> HIDE DEF e, none
    <2>2. /\ d.saved = none /\ d.result = Here.result /\ d.manifest = Here.manifest
          /\ d.prepared = Here.prepared
      BY <1>1 DEF IsRoot
    <2> HIDE DEF d
    <2>3. Fated(d, Fate)
      BY <2>2, FateKnown DEF Fated, none
    <2>4. PreparesTo(pc', d, step', Fate)
      BY <1>2, <2>1, <2>3 DEF PreparesTo, Replaying
    <2> QED
      BY <1>2, <2>1, <2>4, PreparesFated
  <1> QED
    BY <1>3, <1>4, <1>5

LEMMA WriteManifestFated ==
  ASSUME IInv, FatesCorrect, WriteManifest
  PROVE  FatesCorrect'
  <1>1. IsRoot(Here)
    BY Known
  <1>2. PICK cost \in Costs : Put([Here EXCEPT !.manifest = {[cost |-> cost, host |-> host]}])
    BY DEF WriteManifest
  <1> DEFINE e == {[cost |-> cost, host |-> host]}
             d == [Here EXCEPT !.manifest = e]
  <1>3. /\ Put(d) /\ pc = "manifest" /\ pc' = "compact" /\ UNCHANGED <<stage, at, step, fate>>
        /\ \A m \in e : m.cost \in Nat
    BY <1>2, SelectionConstants DEF WriteManifest, Go, proc
  <1> HIDE DEF e
  <1>4. /\ d.manifest = e /\ d.result = Here.result /\ d.saved = Here.saved
        /\ d.prepared = Here.prepared
    BY <1>1 DEF IsRoot
  <1> HIDE DEF d
  <1>5. Fate.valid /\ e # {}
    BY <1>3 DEF FatesCorrect, AtFate, Replaying, e
  <1>6. Fated(d, Fate)
    BY <1>3, <1>4, <1>5, FateKnown DEF Fated
  <1>7. PreparesTo(pc', d, step', Fate)
    BY <1>3, <1>6 DEF PreparesTo, Preparing, Replaying, Compacting
  <1> QED
    BY <1>3, <1>7, PreparesFated

(* The next candidate is prepared, or the first one scored.                 *)
LEMMA PreparedFated ==
  ASSUME AfterPrepare(at), AllFated', AtFate
  PROVE  FatesCorrect'
  <1>1. /\ pc' \in {"score", "prepare"} /\ pc' \notin Replaying \cup {"train", "save", "result", "store"}
        /\ pc' = "score" => at' = 1
        /\ "prepare" \notin Scoring
    BY DEF AfterPrepare, Replaying, Scoring
  <1>2. \A c \in 1 .. 1 - 1 : FALSE
    OBVIOUS
  <1>3. AtFate'
    BY <1>1, <1>2 DEF AtFate
  <1> QED
    BY <1>3 DEF FatesCorrect

LEMMA PreparesFully ==
  ASSUME IInv, FatesCorrect, PrepareInvalid \/ WritePrepared
  PROVE  FatesCorrect'
  <1>1. IsRoot(Here)
    BY Known
  <1>2. PICK e \in {"protocol_invalid", "complete"} :
          /\ Put([Here EXCEPT !.prepared = {e}])
          /\ e = "complete" => Here.manifest # {}
    BY DEF PrepareInvalid, WritePrepared, IInv, AtCandidate, Compacting
  <1> DEFINE p == {e}
             d == [Here EXCEPT !.prepared = p]
  <1>3. Put(d) /\ (p = {"complete"} => Here.manifest # {})
    BY <1>2
  <1> HIDE DEF p
  <1>4. /\ d.prepared = p /\ d.result = Here.result /\ d.saved = Here.saved
        /\ d.manifest = Here.manifest
    BY <1>1 DEF IsRoot
  <1> HIDE DEF d
  <1>5. Fated(d, Fate)
    BY <1>3, <1>4, FateKnown DEF Fated
  <1>6. AllFated' /\ AfterPrepare(at)
    BY <1>3, <1>5, FatedKept DEF FatesCorrect, PrepareInvalid, WritePrepared
  <1> QED
    BY <1>6, PreparedFated DEF FatesCorrect

(* Scoring: what is known of the candidates before this one.                *)
LEMMA ScoresFated ==
  ASSUME IInv, FatesCorrect, NEW d, Put(d), UNCHANGED <<stage, at, fate>>,
         Fated(d, Fate), pc \in Scoring, pc' \in {"result", "prune predictions"},
         pc' = "result" => d.prepared = {"complete"}
  PROVE  FatesCorrect'
  <1>1. /\ AllFated' /\ root'[stage][at] = d
        /\ \A c \in 1 .. Width[stage] : c # at => root'[stage][c] = root[stage][c]
    BY FatedKept DEF FatesCorrect
  <1>2. \A c \in 1 .. at - 1 : c \in 1 .. Width[stage] /\ c # at
    BY Position
  <1>3. \A c \in 1 .. at' - 1 : root'[stage][c].result # {}
    BY <1>1, <1>2 DEF FatesCorrect, AtFate
  <1>4. pc' \notin Replaying \cup {"train", "save", "store"}
    BY DEF Replaying
  <1>5. AtFate'
    BY <1>1, <1>3, <1>4 DEF AtFate, Here
  <1> QED
    BY <1>1, <1>5 DEF FatesCorrect

LEMMA EvaluateFated ==
  ASSUME IInv, FatesCorrect, Evaluate
  PROVE  FatesCorrect'
  <1>1. IsRoot(Here)
    BY Known
  <1> DEFINE e == TRUE
             d == [Here EXCEPT !.evaluated = e]
  <1>2. /\ Put(d) /\ pc = "score" /\ pc' = "result" /\ UNCHANGED <<stage, at, fate>>
        /\ Here.prepared = {"complete"}
    BY DEF Evaluate, Go, proc
  <1> HIDE DEF e
  <1>3. /\ d.prepared = Here.prepared /\ d.result = Here.result /\ d.saved = Here.saved
        /\ d.manifest = Here.manifest
    BY <1>1 DEF IsRoot
  <1> HIDE DEF d
  <1>4. Fated(d, Fate)
    BY <1>3, FateKnown DEF Fated
  <1>5. pc \in Scoring
    BY <1>2 DEF Scoring
  <1> QED
    BY <1>2, <1>3, <1>4, <1>5, ScoresFated

(* What is written as a result is an outcome.                               *)
LEMMA WritesOutcome ==
  ASSUME IInv, FatesCorrect, WriteResult
  PROVE  \E r \in Outcomes : Put([Here EXCEPT !.result = {r}])
  <1>1. CASE pc = "result" /\ Put([Here EXCEPT !.result = {Completed}])
    <2> DEFINE m == CHOOSE m \in Here.manifest : TRUE
    <2>1. Here.manifest # {} /\ Fate.valid /\ Fate.loss \in Nat
      BY <1>1, FateKnown DEF FatesCorrect, AtFate, Fated
    <2>2. m \in Here.manifest
      BY <2>1
    <2>3. m.cost \in Nat
      BY <2>2, FateKnown DEF Fated
    <2>4. Completed = [status |-> "complete", loss |-> Fate.loss, cost |-> m.cost]
      BY DEF Completed
    <2> HIDE DEF m
    <2>5. Completed \in Outcomes
      BY <2>1, <2>3, <2>4 DEF Outcomes
    <2> QED
      BY <1>1, <2>5
  <1>2. CASE Put([Here EXCEPT !.result = {Failed}])
    BY <1>2 DEF Failed, Outcomes
  <1> QED
    BY <1>1, <1>2 DEF WriteResult

LEMMA WriteResultFated ==
  ASSUME IInv, FatesCorrect, WriteResult
  PROVE  FatesCorrect'
  <1>1. IsRoot(Here)
    BY Known
  <1>2. PICK r \in Outcomes : Put([Here EXCEPT !.result = {r}])
    BY WritesOutcome
  <1> DEFINE e == {r}
             d == [Here EXCEPT !.result = e]
  <1>3. /\ Put(d) /\ pc \in Scoring /\ pc' = "prune predictions" /\ UNCHANGED <<stage, at, fate>>
        /\ e \subseteq Outcomes
    BY <1>2 DEF WriteResult, Go, proc, Scoring
  <1> HIDE DEF e
  <1>4. /\ d.prepared = Here.prepared /\ d.result = e /\ d.saved = Here.saved
        /\ d.manifest = Here.manifest
    BY <1>1 DEF IsRoot
  <1> HIDE DEF d
  <1>5. Fated(d, Fate)
    BY <1>3, <1>4, FateKnown DEF Fated
  <1> QED
    BY <1>3, <1>5, ScoresFated

LEMMA PrunePredictionsFated ==
  ASSUME IInv, FatesCorrect, PrunePredictions
  PROVE  FatesCorrect'
  <1>1. IsRoot(Here)
    BY Known
  <1> DEFINE e == Here.dirs \ {"predictions"}
             g == Here.sealed \ {"predictions"}
             a == [Here EXCEPT !.dirs = e]
             d == [a EXCEPT !.sealed = g]
  <1>2. /\ Put(d) /\ pc = "prune predictions" /\ UNCHANGED <<stage, fate>>
        /\ \/ at = Width[stage] /\ pc' = "store" /\ at' = at
           \/ pc' = "score" /\ at' = at + 1
    BY DEF PrunePredictions
  <1> HIDE DEF e, g
  <1>3. a = [dirs |-> e, saved |-> Here.saved, exposures |-> Here.exposures,
             sealed |-> Here.sealed, manifest |-> Here.manifest, receipt |-> Here.receipt,
             prepared |-> Here.prepared, evaluated |-> Here.evaluated, result |-> Here.result]
    BY <1>1 DEF IsRoot
  <1> HIDE DEF a
  <1>4. /\ d.prepared = Here.prepared /\ d.result = Here.result /\ d.saved = Here.saved
        /\ d.manifest = Here.manifest
    BY <1>3
  <1> HIDE DEF d
  <1>5. Fated(d, Fate)
    BY <1>4, FateKnown DEF Fated
  <1>6. /\ AllFated' /\ root'[stage][at] = d
        /\ \A c \in 1 .. Width[stage] : c # at => root'[stage][c] = root[stage][c]
    BY <1>2, <1>5, FatedKept DEF FatesCorrect
  <1>7. Here.result # {} /\ \A c \in 1 .. at - 1 : root[stage][c].result # {}
    BY <1>2 DEF FatesCorrect, AtFate, IInv, AtCandidate, Scoring
  <1>8. /\ \A c \in 1 .. at : c = at \/ (c \in 1 .. at - 1 /\ c \in 1 .. Width[stage] /\ c # at)
        /\ \A c \in 1 .. at - 1 : c \in 1 .. at
        /\ \A c \in 1 .. at + 1 - 1 : c \in 1 .. at
    BY Position
  <1>9. \A c \in 1 .. at : root'[stage][c].result # {}
    BY <1>4, <1>6, <1>7, <1>8
  <1>10. pc' \notin Replaying \cup {"train", "save", "result"} /\ at \in 1 .. at
    BY <1>2, Position DEF Replaying
  <1>11. \A c \in 1 .. at' - 1 : root'[stage'][c].result # {}
    <2>1. at' = at \/ at' = at + 1
      BY <1>2
    <2>a. ASSUME at' = at PROVE \A c \in 1 .. at' - 1 : c \in 1 .. at
      BY <2>a, <1>8
    <2>b. ASSUME at' = at + 1 PROVE \A c \in 1 .. at' - 1 : c \in 1 .. at
      <3>1. at' - 1 = at
        BY <2>b, Position
      <3> QED
        BY <3>1
    <2>2. \A c \in 1 .. at' - 1 : c \in 1 .. at
      BY <2>1, <2>a, <2>b
    <2> QED
      BY <1>2, <1>9, <2>2
  <1>12. pc' = "store" => Here'.result # {}
    BY <1>2, <1>9, <1>10 DEF Here
  <1>13. AtFate'
    BY <1>10, <1>11, <1>12 DEF AtFate
  <1> QED
    BY <1>6, <1>13 DEF FatesCorrect

(* Steps that write no candidate.                                           *)
LEMMA WritesNoCandidate ==
  ASSUME IInv, FatesCorrect, UNCHANGED <<root, fate>>, pc' \in Elsewhere \cup {"choose", "prepare"} \cup Compacting
  PROVE  FatesCorrect'
  <1>1. pc' \notin Replaying \cup Scoring \cup {"train", "save", "result", "store"}
    BY DEF Elsewhere, Replaying, Scoring, Compacting
  <1>2. AtFate'
    BY <1>1 DEF AtFate
  <1>3. AllFated'
    BY DEF FatesCorrect, AllFated
  <1> QED
    BY <1>2, <1>3 DEF FatesCorrect

LEMMA CandidateStepFated ==
  ASSUME IInv, FatesCorrect, CandidateStep
  PROVE  FatesCorrect'
  <1>1. CASE ReusePrepared
    <2>1. AfterPrepare(at) /\ AllFated'
      BY <1>1 DEF ReusePrepared, FatesCorrect, AllFated
    <2> QED
      BY <2>1, PreparedFated DEF FatesCorrect
  <1>2. CASE ReuseManifest \/ RefuseRoot \/ RefuseHost \/ RefuseStray \/ ReuseReceipt
    <2>1. UNCHANGED <<root, fate>> /\ pc' \in {"compact", "refused", "prune checkpoints"}
      BY <1>2 DEF ReuseManifest, RefuseRoot, RefuseHost, RefuseStray, ReuseReceipt, Go, Refuse
    <2>2. pc' \in Elsewhere \cup {"choose", "prepare"} \cup Compacting
      BY <2>1 DEF Elsewhere, Compacting
    <2> QED
      BY <2>1, <2>2, WritesNoCandidate
  <1>3. CASE Resume
    <2>1. PICK s \in Here.saved : /\ step' = s.step
                                  /\ pc' = IF s.step = Credits + 1 THEN "seal" ELSE "train"
      BY <1>3 DEF Resume
    <2>2. UNCHANGED <<root, fate, stage, at>>
      BY <1>3 DEF Resume
    <2>3. s.step \in Nat /\ (~Fate.valid => s.step <= Fate.fails)
      BY <2>1, FateKnown DEF Fated
    <2>4. s.step = Credits + 1 => Fate.valid
      BY <2>3, FateKnown
    <2>5. pc' \notin Scoring \cup {"result", "store"}
      BY <2>1 DEF Scoring
    <2>6. AtFate'
      BY <2>1, <2>2, <2>3, <2>4, <2>5 DEF AtFate, Fate, Replaying
    <2>7. AllFated'
      BY <2>2 DEF FatesCorrect, AllFated
    <2> QED
      BY <2>6, <2>7 DEF FatesCorrect
  <1>4. CASE LoadResult
    <2>1. UNCHANGED <<root, fate, stage, at>> /\ pc = "score" /\ pc' = "prune predictions"
      BY <1>4 DEF LoadResult, Go, proc
    <2>2. /\ pc' \notin Replaying \cup {"train", "save", "result", "store"} /\ pc \in Scoring
      BY <2>1 DEF Replaying, Scoring
    <2>3. AtFate'
      BY <2>1, <2>2 DEF AtFate, FatesCorrect
    <2>4. AllFated'
      BY <2>1 DEF FatesCorrect, AllFated
    <2> QED
      BY <2>3, <2>4 DEF FatesCorrect
  <1> QED
    BY <1>1, <1>2, <1>3, <1>4, WritesElsewhereFated, SavesFated, WriteManifestFated, PreparesFully,
       EvaluateFated, WriteResultFated, PrunePredictionsFated
    DEF CandidateStep

(* The other steps of a launch write no candidate; the results are stored   *)
(* and the stage prepared at places that ask nothing of one.                *)
LEMMA FatesKept == IInv /\ FatesCorrect /\ [Next]_vars => FatesCorrect'
  <1> SUFFICES ASSUME IInv, FatesCorrect, [Next]_vars PROVE FatesCorrect'
    OBVIOUS
  <1>1. CASE GraphStep
    <2>1. CASE CandidateStep
      BY <2>1, CandidateStepFated
    <2>2. CASE ~CandidateStep
      <3>1. UNCHANGED <<root, fate>> /\ pc' \in Elsewhere \cup {"choose", "prepare"}
        <4>1. CASE ReusePublished \/ RefusePair \/ Start \/ FreezePlan \/ RefusePlan \/ RefuseStage
          BY <4>1 DEF ReusePublished, RefusePair, Start, FreezePlan, RefusePlan, RefuseStage,
                      Go, Refuse, Elsewhere
        <4>2. CASE ReuseResults \/ PrepareStage \/ StoreResults
          BY <4>2 DEF ReuseResults, PrepareStage, StoreResults, Go
        <4>3. CASE Choose \/ PublishResults \/ PublishManifest
          BY <4>3 DEF Choose, PublishResults, PublishManifest, Go, Elsewhere
        <4> QED
          BY <1>1, <2>2, <4>1, <4>2, <4>3 DEF GraphStep
      <3> QED
        BY <3>1, WritesNoCandidate
    <2> QED
      BY <2>1, <2>2
  <1>2. CASE Launch \/ Crash
    BY <1>2, WritesNoCandidate DEF Launch, Crash, Elsewhere
  <1>3. ASSUME UNCHANGED <<root, fate, pc, proc>>
        PROVE  FatesCorrect'
    BY <1>3 DEF proc, FatesCorrect, AllFated, AtFate, Fate, Here
  <1>4. CASE MoveHost
    BY <1>3, <1>4 DEF MoveHost
  <1>5. CASE Measure \/ Bind \/ Lock \/ Accept
    BY <1>3, <1>5 DEF Measure, Bind, Lock, Accept, candidateVars
  <1>6. CASE UNCHANGED vars
    BY <1>3, <1>6 DEF vars, candidateVars
  <1> QED
    BY <1>1, <1>2, <1>4, <1>5, <1>6 DEF Next

LEMMA FatesInitially == Init => FatesCorrect
  <1> SUFFICES ASSUME Init PROVE FatesCorrect
    OBVIOUS
  <1>1. /\ fate \in Fates /\ pc = "off"
        /\ root = [s \in Stages |-> [c \in 1 .. Width[s] |-> EmptyRoot]]
    BY DEF Init, CandidateInit
  <1>2. \A f : Fated(EmptyRoot, f)
    BY DEF Fated, EmptyRoot
  <1>3. AllFated
    BY <1>1, <1>2 DEF AllFated
  <1>4. AtFate
    BY <1>1 DEF AtFate, Replaying, Scoring
  <1> QED
    BY <1>3, <1>4 DEF FatesCorrect

(* The winners of stored stages stay, whatever is stored after them.        *)
LEMMA WonStays ==
  ASSUME NEW st, NEW tt, NEW n \in 0 .. Len(Width),
         \A s \in Stages : st[s] # {} => tt[s] = st[s], Won(st, n)
  PROVE  Won(tt, n) /\ WinnersOf(tt, n) = WinnersOf(st, n)
  <1>1. \A k \in 1 .. n : k \in Stages
    BY Sizes
  <1>2. \A k \in 1 .. n : st[k] # {} /\ tt[k] = st[k] /\ HasWinner(ResultsIn(st, k))
    BY <1>1 DEF Won
  <1>3. \A k \in 1 .. n : ResultsIn(tt, k) = ResultsIn(st, k)
    BY <1>2 DEF ResultsIn
  <1> QED
    BY <1>2, <1>3 DEF Won, WinnersOf

LEMMA WonNothing ==
  ASSUME NEW st
  PROVE  Won(st, 0) /\ WinnersOf(st, 0) = <<>> /\ Won(st, 1 - 1) /\ WinnersOf(st, 1 - 1) = <<>>
  <1>1. 1 .. 0 = {} /\ 1 - 1 = 0
    OBVIOUS
  <1>2. Won(st, 0)
    BY <1>1 DEF Won
  <1>3. WinnersOf(st, 0) = <<>>
    BY <1>1 DEF WinnersOf
  <1> QED
    BY <1>1, <1>2, <1>3

LEMMA WonMore ==
  ASSUME NEW st, NEW n \in Stages, Won(st, n - 1), st[n] # {}, HasWinner(ResultsIn(st, n))
  PROVE  /\ Won(st, n)
         /\ Append(WinnersOf(st, n - 1), Winner(ResultsIn(st, n))) = WinnersOf(st, n)
  <1>1. n \in Nat /\ n - 1 \in Nat /\ (n - 1) + 1 = n
    BY Sizes
  <1>2. Won(st, n)
    <2>1. \A k \in 1 .. n : k = n \/ k \in 1 .. n - 1
      BY <1>1
    <2> QED
      BY <2>1 DEF Won
  <1> DEFINE W(k) == Winner(ResultsIn(st, k))
             T == {W(k) : k \in 1 .. n}
             w == WinnersOf(st, n - 1)
  <1>3. w = [k \in 1 .. n - 1 |-> W(k)]
    BY DEF WinnersOf
  <1>4. WinnersOf(st, n) = [k \in 1 .. n |-> W(k)]
    BY DEF WinnersOf
  <1>5. W(n) \in T /\ \A k \in 1 .. n - 1 : W(k) \in T
    BY <1>1
  <1> HIDE DEF W, T, w
  <1>6. w \in Seq(T) /\ Len(w) = n - 1
    BY <1>1, <1>3, <1>5
  <1>7. Append(w, W(n)) = [k \in 1 .. n |-> W(k)]
    <2>1. /\ Append(w, W(n)) \in Seq(T) /\ Len(Append(w, W(n))) = n
      BY <1>1, <1>5, <1>6
    <2>2. \A k \in 1 .. n : Append(w, W(n))[k] = W(k)
      <3>1. TAKE k \in 1 .. n
      <3>2. CASE k = n
        BY <1>1, <1>5, <1>6, <3>2
      <3>3. CASE k # n
        <4>1. k \in 1 .. n - 1
          BY <1>1, <3>3
        <4>2. Append(w, W(n))[k] = w[k]
          BY <1>5, <1>6, <4>1
        <4> QED
          BY <1>3, <4>1, <4>2
      <3> QED
        BY <3>2, <3>3
    <2> DEFINE v == Append(w, W(n))
    <2>3. v \in Seq(T) /\ Len(v) = n /\ \A k \in 1 .. n : v[k] = W(k)
      BY <2>1, <2>2
    <2> HIDE DEF v
    <2>4. v = [k \in 1 .. n |-> v[k]]
      BY <1>1, <2>3
    <2> QED
      BY <2>3, <2>4 DEF v
  <1> QED
    BY <1>2, <1>4, <1>7 DEF W, w

(* What is stored and planned of a stage is never replaced.                 *)
Kept ==
  \A s \in Stages : /\ stored[s] # {} => stored'[s] = stored[s]
                    /\ planned[s] # {} => planned'[s] = planned[s]

LEMMA NothingLost ==
  ASSUME IInv, PlansTrue, [Next]_vars
  PROVE  Kept
  <1>1. CASE StoreResults
    <2>1. pc \in Scoring /\ stored' = [stored EXCEPT ![stage] = {Candidates}] /\ UNCHANGED planned
      BY <1>1 DEF StoreResults, Scoring
    <2> DEFINE e == {Candidates}
    <2>2. stored' = [stored EXCEPT ![stage] = e]
      BY <2>1
    <2> HIDE DEF e
    <2>3. stored[stage] = {} /\ stored = [s \in Stages |-> stored[s]]
      BY <2>1 DEF IInv, AtStage, FilesCorrect, Typed
    <2>4. \A s \in Stages : s # stage => stored'[s] = stored[s]
      BY <2>2, <2>3
    <2> QED
      BY <2>1, <2>3, <2>4 DEF Kept
  <1>2. CASE FreezePlan
    <2> DEFINE e == {StagePlan}
    <2>1. planned[stage] \subseteq e /\ planned' = [planned EXCEPT ![stage] = e] /\ UNCHANGED stored
      BY <1>2 DEF FreezePlan
    <2>2. planned[stage] # {} => planned[stage] = e
      BY <2>1
    <2> HIDE DEF e
    <2>3. planned = [s \in Stages |-> planned[s]]
      BY DEF PlansTrue
    <2>4. \A s \in Stages : planned'[s] = IF s = stage THEN e ELSE planned[s]
      BY <2>1, <2>3
    <2> QED
      BY <2>1, <2>2, <2>4 DEF Kept
  <1>3. CASE UNCHANGED <<planned, stored>>
    BY <1>3 DEF Kept
  <1>4. CASE GraphStep
    BY <1>1, <1>2, <1>3, <1>4
    DEF GraphStep, ReusePublished, RefusePair, Start, RefusePlan, ReuseResults, PrepareStage, Choose,
        RefuseStage, PublishResults, PublishManifest, graphVars
  <1>5. CASE Launch \/ Crash \/ MoveHost \/ Measure \/ Bind \/ Lock \/ Accept
    BY <1>3, <1>5 DEF Launch, Crash, MoveHost, Measure, Bind, Lock, Accept, graphVars
  <1>6. CASE UNCHANGED vars
    BY <1>3, <1>6 DEF vars, graphVars
  <1> QED
    BY <1>4, <1>5, <1>6 DEF Next

(* So the winners of the stages a value was computed from are still theirs. *)
LEMMA WinnersKept ==
  ASSUME Kept, NEW n \in 0 .. Len(Width), Won(stored, n)
  PROVE  Won(stored', n) /\ WinnersOf(stored', n) = WinnersOf(stored, n)
  <1>1. \A s \in Stages : stored[s] # {} => stored'[s] = stored[s]
    BY DEF Kept
  <1> QED
    BY <1>1, WonStays

LEMMA Earlier == \A s \in Stages : s - 1 \in 0 .. Len(Width) /\ Len(Width) \in 0 .. Len(Width)
  BY Sizes

LEMMA CandidatePlaces ==
  ASSUME CandidateStep
  PROVE  /\ pc \in Preparing \cup Scoring /\ pc' \in Preparing \cup Scoring \cup {"refused"}
         /\ UNCHANGED <<stage, winners>>
  <1> USE DEF Preparing, Scoring, Replaying, Compacting, Go, Refuse, proc
  <1>1. CASE ReusePrepared \/ PrepareInvalid \/ WritePrepared
    BY <1>1 DEF ReusePrepared, PrepareInvalid, WritePrepared, AfterPrepare
  <1>2. CASE ReuseManifest \/ OpenFresh \/ RefuseRoot \/ RefuseHost \/ RefuseStray \/ Resume
    BY <1>2 DEF ReuseManifest, OpenFresh, RefuseRoot, RefuseHost, RefuseStray, Resume, Replays
  <1>3. CASE Train \/ Save \/ SealPredictions \/ SealExposures \/ SaveSealed \/ WriteManifest
    BY <1>3 DEF Train, Save, SealPredictions, SealExposures, SaveSealed, WriteManifest
  <1>4. CASE WriteReceipt \/ ReuseReceipt \/ PruneCheckpoints \/ PruneExposures
    BY <1>4 DEF WriteReceipt, ReuseReceipt, PruneCheckpoints, PruneExposures
  <1>5. CASE LoadResult \/ Evaluate \/ WriteResult \/ PrunePredictions
    BY <1>5 DEF LoadResult, Evaluate, WriteResult, PrunePredictions
  <1> QED
    BY <1>1, <1>2, <1>3, <1>4, <1>5 DEF CandidateStep

(* A launch goes on in its stage, on the winners it has.                    *)
LEMMA GoesOn ==
  ASSUME IInv, AtGraph, Kept, UNCHANGED <<stage, winners>>,
         pc \in {"open", "plan"} \cup InStage, pc' \in {"plan"} \cup InStage,
         pc' \in InStage => planned'[stage] # {}
  PROVE  AtGraph'
  <1> DEFINE n == stage - 1
  <1>1. Won(stored, n) /\ winners = WinnersOf(stored, n)
    BY DEF AtGraph
  <1>2. n \in 0 .. Len(Width)
    BY Known, Earlier
  <1> HIDE DEF n
  <1>3. Won(stored', n) /\ winners = WinnersOf(stored', n)
    BY <1>1, <1>2, WinnersKept
  <1>4. pc' # "open" /\ pc' # "publish"
    BY DEF InStage, Preparing, Scoring, Replaying, Compacting
  <1> QED
    BY <1>3, <1>4 DEF AtGraph, n

LEMMA Leaves ==
  ASSUME pc' \in {"off", "refused", "publish manifest"}
  PROVE  AtGraph'
  BY DEF AtGraph, InStage, Preparing, Scoring, Replaying, Compacting

LEMMA ChoosesWinner ==
  ASSUME IInv, AtGraph, Choose
  PROVE  AtGraph'
  <1>1. /\ UNCHANGED stored /\ pc = "choose" /\ stage \in Stages /\ stored[stage] # {}
        /\ HasWinner(ResultsIn(stored, stage))
        /\ winners' = Append(winners, Winner(ResultsIn(stored, stage)))
    BY Known DEF Choose, graphVars, IInv, AtStage, StageResults, ResultsIn
  <1>2. Won(stored, stage - 1) /\ winners = WinnersOf(stored, stage - 1)
    BY <1>1 DEF AtGraph, InStage
  <1>3. Won(stored, stage) /\ winners' = WinnersOf(stored, stage)
    BY <1>1, <1>2, WonMore
  <1>4. CASE stage = Len(Width)
    <2>1. pc' = "publish" /\ pc' \notin InStage
      BY <1>4 DEF Choose, InStage, Preparing, Scoring, Replaying, Compacting
    <2> QED
      BY <1>1, <1>3, <1>4, <2>1 DEF AtGraph
  <1>5. CASE stage # Len(Width)
    <2>1. /\ pc' = "plan" /\ pc' \notin InStage /\ stage' = stage + 1
      BY <1>5 DEF Choose, InStage, Preparing, Scoring, Replaying, Compacting
    <2>2. stage' - 1 = stage
      BY <1>1, <2>1, Sizes
    <2> QED
      BY <1>1, <1>3, <2>1, <2>2 DEF AtGraph
  <1> QED
    BY <1>4, <1>5

LEMMA AtGraphKept ==
  ASSUME IInv, PlansTrue, AtGraph, [Next]_vars
  PROVE  AtGraph'
  <1>1. Kept
    BY NothingLost
  <1>2. CASE CandidateStep /\ UNCHANGED <<graphVars, lockVars>>
    <2>1. /\ pc \in Preparing \cup Scoring /\ pc' \in Preparing \cup Scoring \cup {"refused"}
          /\ UNCHANGED <<stage, winners, planned>>
      BY <1>2, CandidatePlaces DEF graphVars
    <2>2. planned[stage] # {} /\ pc \in InStage /\ pc' \in InStage \cup {"refused"}
      BY <2>1 DEF AtGraph, InStage
    <2> QED
      BY <1>1, <2>1, <2>2, GoesOn, Leaves
  <1>3. CASE ReusePublished \/ RefusePair \/ RefusePlan \/ RefuseStage \/ PublishResults
             \/ PublishManifest \/ Crash
    BY <1>3, Leaves DEF ReusePublished, RefusePair, RefusePlan, RefuseStage, PublishResults,
                        PublishManifest, Crash, Go, Refuse
  <1>4. CASE Start
    <2>1. pc = "open" /\ pc' = "plan" /\ UNCHANGED <<stage, winners>> /\ "plan" \notin InStage
      BY <1>4 DEF Start, Go, proc, InStage, Preparing, Scoring, Replaying, Compacting
    <2> QED
      BY <1>1, <2>1, GoesOn
  <1>5. CASE FreezePlan
    <2> DEFINE e == {StagePlan}
    <2>1. /\ pc = "plan" /\ pc' = "results" /\ UNCHANGED <<stage, winners>>
          /\ planned' = [planned EXCEPT ![stage] = e] /\ e # {}
      BY <1>5 DEF FreezePlan, Go, proc
    <2> HIDE DEF e
    <2>2. planned = [s \in Stages |-> planned[s]] /\ stage \in Stages
      BY Known DEF PlansTrue
    <2>3. planned'[stage] # {}
      BY <2>1, <2>2
    <2> QED
      BY <1>1, <2>1, <2>3, GoesOn DEF InStage
  <1>6. CASE ReuseResults \/ PrepareStage \/ StoreResults
    <2>1. /\ UNCHANGED <<stage, winners, planned>>
          /\ pc \in InStage /\ pc' \in InStage
      BY <1>6 DEF ReuseResults, PrepareStage, StoreResults, Go, proc, graphVars, InStage, Preparing,
                  Scoring
    <2>2. planned[stage] # {}
      BY <2>1 DEF AtGraph
    <2> QED
      BY <1>1, <2>1, <2>2, GoesOn
  <1>7. CASE Choose
    BY <1>7, ChoosesWinner
  <1>8. CASE Launch
    <2>1. pc' = "open" /\ stage' = 1 /\ winners' = <<>> /\ UNCHANGED stored
      BY <1>8 DEF Launch, graphVars
    <2>2. pc' \notin InStage
      BY <2>1 DEF InStage, Preparing, Scoring, Replaying, Compacting
    <2> QED
      BY <2>1, <2>2, WonNothing DEF AtGraph
  <1>9. ASSUME UNCHANGED <<pc, stage, winners, planned, stored>>
        PROVE  AtGraph'
    BY <1>9 DEF AtGraph
  <1>10. CASE MoveHost \/ Measure \/ Bind \/ Lock \/ Accept \/ UNCHANGED vars
    BY <1>9, <1>10
    DEF MoveHost, Measure, Bind, Lock, Accept, vars, candidateVars, proc, graphVars
  <1> QED
    BY <1>2, <1>3, <1>4, <1>5, <1>6, <1>7, <1>8, <1>10 DEF Next, GraphStep

(* A stage is stored with one outcome for each of its candidates: at        *)
(* "store" every one of them has settled.                                   *)
LEMMA StoredTrueKept ==
  ASSUME IInv, FatesCorrect, StoredTrue, PlansTrue, [Next]_vars
  PROVE  StoredTrue'
  <1>1. CASE StoreResults
    <2> DEFINE rs == Candidates
               e == {rs}
    <2>1. pc = "store" /\ stored' = [stored EXCEPT ![stage] = e]
      BY <1>1 DEF StoreResults
    <2>2. at = Width[stage] /\ stage \in Stages /\ stored = [s \in Stages |-> stored[s]]
      BY <2>1 DEF IInv, AtStage, FilesCorrect, Typed
    <2>3. \A c \in 1 .. at - 1 : root[stage][c].result # {}
      BY <2>1 DEF FatesCorrect, AtFate, Scoring
    <2>4. root[stage][at].result # {}
      BY <2>1 DEF FatesCorrect, AtFate, Here
    <2>5. \A c \in 1 .. Width[stage] : root[stage][c].result # {}
      BY <2>2, <2>3, <2>4, Position
    <2>6. \A c \in 1 .. Width[stage] : root[stage][c].result \subseteq Outcomes
      BY <2>2 DEF FatesCorrect, AllFated, Fated
    <2>7. \A c \in 1 .. Width[stage] : ResultOf(stage, c) \in Outcomes
      BY <2>5, <2>6 DEF ResultOf
    <2>8. rs \in [1 .. Width[stage] -> Outcomes]
      BY <2>7 DEF Candidates
    <2> HIDE DEF rs
    <2>9. \E q \in [1 .. Width[stage] -> Outcomes] : e = {q}
      BY <2>8
    <2> HIDE DEF e
    <2>10. stored'[stage] = e /\ \A s \in Stages : s # stage => stored'[s] = stored[s]
      BY <2>1, <2>2
    <2>11. ASSUME NEW s \in Stages, stored'[s] # {}
           PROVE  \E q \in [1 .. Width[s] -> Outcomes] : stored'[s] = {q}
      BY <2>9, <2>10, <2>11 DEF StoredTrue
    <2> QED
      BY <2>11 DEF StoredTrue
  <1>2. CASE UNCHANGED stored
    BY <1>2 DEF StoredTrue
  <1>3. CASE GraphStep
    BY <1>1, <1>2, <1>3
    DEF GraphStep, ReusePublished, RefusePair, Start, FreezePlan, RefusePlan, ReuseResults,
        PrepareStage, Choose, RefuseStage, PublishResults, PublishManifest, graphVars
  <1>4. CASE Launch \/ Crash \/ MoveHost \/ Measure \/ Bind \/ Lock \/ Accept
    BY <1>2, <1>4 DEF Launch, Crash, MoveHost, Measure, Bind, Lock, Accept, graphVars
  <1>5. CASE UNCHANGED vars
    BY <1>2, <1>5 DEF vars, graphVars
  <1> QED
    BY <1>3, <1>4, <1>5 DEF Next

(* Where a step writes what is planned, and where what is stored.           *)
LEMMA WritesGraph ==
  ASSUME [Next]_vars
  PROVE  /\ FreezePlan \/ UNCHANGED planned
         /\ StoreResults \/ UNCHANGED stored
         /\ PublishResults \/ UNCHANGED results
         /\ Lock \/ UNCHANGED lock
         /\ Accept \/ UNCHANGED accepted
  <1>1. CASE GraphStep
    <2>1. CASE CandidateStep /\ UNCHANGED <<graphVars, lockVars>>
      BY <2>1 DEF graphVars, lockVars
    <2> QED
      BY <1>1, <2>1
      DEF GraphStep, ReusePublished, RefusePair, Start, FreezePlan, RefusePlan, ReuseResults,
          PrepareStage, StoreResults, Choose, RefuseStage, PublishResults, PublishManifest,
          graphVars, lockVars
  <1>2. CASE Launch \/ Crash \/ MoveHost
    BY <1>2 DEF Launch, Crash, MoveHost, graphVars, lockVars
  <1>3. CASE Measure \/ Bind \/ Lock \/ Accept
    BY <1>3 DEF Measure, Bind, Lock, Accept, graphVars
  <1>4. CASE UNCHANGED vars
    BY <1>4 DEF vars, graphVars, lockVars
  <1> QED
    BY <1>1, <1>2, <1>3, <1>4 DEF Next

(* A plan is frozen on what the launch computed, results only of a stage    *)
(* that is planned.                                                         *)
LEMMA PlansTrueKept ==
  ASSUME IInv, PlansTrue, AtGraph, [Next]_vars
  PROVE  PlansTrue'
  <1>1. Kept
    BY NothingLost
  <1>2. stage \in Stages /\ planned = [s \in Stages |-> planned[s]]
        /\ stored = [s \in Stages |-> stored[s]]
    BY DEF IInv, FilesCorrect, Typed, PlansTrue
  <1>3. ASSUME NEW s \in Stages, planned[s] # {}
        PROVE  /\ Won(stored', s - 1) /\ planned'[s] # {}
               /\ \E b : planned'[s] = {[base |-> WinnersOf(stored', s - 1), budget |-> b]}
    <2>1. /\ Won(stored, s - 1) /\ planned'[s] = planned[s]
          /\ \E b : planned[s] = {[base |-> WinnersOf(stored, s - 1), budget |-> b]}
      BY <1>1, <1>3 DEF PlansTrue, Kept
    <2>2. Won(stored', s - 1) /\ WinnersOf(stored', s - 1) = WinnersOf(stored, s - 1)
      BY <1>1, <2>1, Earlier, WinnersKept
    <2> QED
      BY <1>3, <2>1, <2>2
  <1>4. CASE FreezePlan
    <2> DEFINE e == {StagePlan}
               w == WinnersOf(stored, stage - 1)
    <2>1. /\ pc = "plan" /\ UNCHANGED stored
          /\ planned' = [planned EXCEPT ![stage] = e]
      BY <1>4 DEF FreezePlan
    <2>2. Won(stored, stage - 1) /\ winners = w
      BY <2>1 DEF AtGraph
    <2>3. e = {[base |-> w, budget |-> budget]}
      BY <2>2 DEF StagePlan
    <2> HIDE DEF e
    <2>4. /\ planned' = [s \in Stages |-> planned'[s]] /\ planned'[stage] = e
          /\ \A s \in Stages : s # stage => planned'[s] = planned[s]
      BY <1>2, <2>1
    <2>5. ASSUME NEW s \in Stages, planned'[s] # {}
          PROVE  /\ Won(stored', s - 1)
                 /\ \E b : planned'[s] = {[base |-> WinnersOf(stored', s - 1), budget |-> b]}
      <3>1. CASE s = stage
        BY <2>1, <2>2, <2>3, <2>4, <3>1
      <3>2. CASE s # stage
        BY <1>3, <2>4, <2>5, <3>2
      <3> QED
        BY <3>1, <3>2
    <2>6. \A s \in Stages : stored'[s] # {} => planned'[s] # {}
      BY <1>3, <2>1 DEF PlansTrue
    <2> QED
      BY <2>4, <2>5, <2>6 DEF PlansTrue
  <1>5. CASE UNCHANGED planned
    <2>1. \A s \in Stages : stored'[s] # {} => planned'[s] # {}
      <3>1. CASE StoreResults
        <4> DEFINE e == {Candidates}
        <4>1. pc = "store" /\ pc \in InStage /\ stored' = [stored EXCEPT ![stage] = e]
          BY <3>1 DEF StoreResults, InStage, Scoring
        <4> HIDE DEF e
        <4>2. planned[stage] # {}
          BY <4>1 DEF AtGraph
        <4>3. \A s \in Stages : s # stage => stored'[s] = stored[s]
          BY <1>2, <4>1
        <4> QED
          BY <1>5, <4>2, <4>3 DEF PlansTrue
      <3>2. CASE UNCHANGED stored
        BY <1>5, <3>2 DEF PlansTrue
      <3> QED
        BY <3>1, <3>2, WritesGraph
    <2> QED
      BY <1>2, <1>3, <1>5, <2>1 DEF PlansTrue
  <1> QED
    BY <1>4, <1>5, WritesGraph

(* The winners of the published results are those of the stored ones.       *)
LEMMA DecisionsOf ==
  ASSUME NEW st
  PROVE  Decisions([s \in Stages |-> ResultsIn(st, s)]) = WinnersOf(st, Len(Width))
  BY Sizes DEF Decisions, WinnersOf

(* A lock that leads to the digests of the selection leads to its plans.    *)
LEMMA AcceptsPlans ==
  ASSUME PlansTrue, NEW l, SameDecisions(l), NEW s \in Stages, planned[s] # {}
  PROVE  planned[s] = {[base |-> SubSeq(l.decisions, 1, s - 1), budget |-> l.budget]}
  <1> DEFINE w == WinnersOf(stored, s - 1)
             sub == SubSeq(l.decisions, 1, s - 1)
  <1>1. PICK b : planned[s] = {[base |-> w, budget |-> b]}
    BY DEF PlansTrue
  <1> DEFINE p == CHOOSE p \in planned[s] : TRUE
  <1>2. p = [base |-> w, budget |-> b]
    BY <1>1
  <1>3. Digest(l, s) = SelectedDigest(l, s)
    BY DEF SameDecisions
  <1>4. /\ Digest(l, s).base = sub /\ Digest(l, s).budget = l.budget
        /\ SelectedDigest(l, s).base = p.base /\ SelectedDigest(l, s).budget = p.budget
    BY DEF Digest, SelectedDigest
  <1> HIDE DEF w, sub, p
  <1>5. w = sub /\ b = l.budget
    BY <1>2, <1>3, <1>4
  <1> QED
    BY <1>1, <1>5 DEF sub

LEMMA DecidedTrueKept ==
  ASSUME IInv, PlansTrue, AtGraph, DecidedTrue, [Next]_vars
  PROVE  DecidedTrue'
  <1> DEFINE n == Len(Width)
  <1>1. Kept
    BY NothingLost
  <1>2. Won(stored, n) => /\ Won(stored', n) /\ WinnersOf(stored', n) = WinnersOf(stored, n)
                          /\ \A s \in Stages : stored[s] # {} /\ planned[s] # {}
                                               /\ stored'[s] = stored[s] /\ planned'[s] = planned[s]
    <2>1. ASSUME Won(stored, n)
          PROVE  \A s \in Stages : stored[s] # {}
      BY <2>1, Sizes DEF Won
    <2>2. n \in 0 .. Len(Width)
      BY Sizes
    <2>3. Won(stored, n) => Won(stored', n) /\ WinnersOf(stored', n) = WinnersOf(stored, n)
      BY <1>1, <2>2, WinnersKept
    <2> QED
      BY <1>1, <2>1, <2>3 DEF Kept, PlansTrue
  <1>3. Won(stored, n) => [s \in Stages |-> ResultsIn(stored', s)] = [s \in Stages |-> ResultsIn(stored, s)]
    BY <1>2 DEF ResultsIn
  <1>4. ASSUME NEW m \in results'
        PROVE  Won(stored, n) /\ m = [s \in Stages |-> ResultsIn(stored, s)]
    <2>1. CASE PublishResults
      BY <1>4, <2>1 DEF PublishResults, AtGraph, StageResults, ResultsIn
    <2>2. CASE UNCHANGED results
      BY <1>4, <2>2 DEF DecidedTrue
    <2> QED
      BY <2>1, <2>2, WritesGraph
  <1>5. ASSUME NEW l \in lock'
        PROVE  Won(stored, n) /\ l.decisions = WinnersOf(stored, n)
    <2>1. CASE Lock
      <3>1. PICK m \in results : l.decisions = Decisions(m)
        BY <1>5, <2>1 DEF Lock
      <3>2. Won(stored, n) /\ m = [s \in Stages |-> ResultsIn(stored, s)]
        BY DEF DecidedTrue
      <3> QED
        BY <3>1, <3>2, DecisionsOf
    <2>2. CASE UNCHANGED lock
      BY <1>5, <2>2 DEF DecidedTrue
    <2> QED
      BY <2>1, <2>2, WritesGraph
  <1>6. ASSUME NEW l \in accepted'
        PROVE  /\ Won(stored, n) /\ l.decisions = WinnersOf(stored, n)
               /\ \A s \in Stages :
                    planned[s] = {[base |-> SubSeq(l.decisions, 1, s - 1), budget |-> l.budget]}
    <2>1. CASE Accept
      <3>1. l \in lock /\ SameDecisions(l)
        BY <1>6, <2>1 DEF Accept
      <3>2. Won(stored, n) /\ l.decisions = WinnersOf(stored, n)
        BY <3>1 DEF DecidedTrue
      <3> QED
        BY <1>2, <3>1, <3>2, AcceptsPlans
    <2>2. CASE UNCHANGED accepted
      BY <1>6, <2>2 DEF DecidedTrue
    <2> QED
      BY <2>1, <2>2, WritesGraph
  <1>7. \A m \in results' :
          Won(stored', n) /\ m = [s \in Stages |-> ResultsIn(stored', s)]
    BY <1>2, <1>3, <1>4
  <1>8. \A l \in lock' \cup accepted' :
          Won(stored', n) /\ l.decisions = WinnersOf(stored', n)
    BY <1>2, <1>5, <1>6
  <1>9. \A l \in accepted' : \A s \in Stages :
          planned'[s] = {[base |-> SubSeq(l.decisions, 1, s - 1), budget |-> l.budget]}
    BY <1>2, <1>6
  <1> QED
    BY <1>7, <1>8, <1>9 DEF DecidedTrue

LEMMA LockInvKept == LockInv /\ [Next]_vars => LockInv'
  BY InvariantKept, FatesKept, StoredTrueKept, PlansTrueKept, AtGraphKept, DecidedTrueKept
  DEF LockInv, FatesCorrect, DecisionsCorrect

LEMMA LockInvInitially == Init => LockInv
  <1> SUFFICES ASSUME Init PROVE LockInv
    OBVIOUS
  <1>1. /\ planned = [s \in Stages |-> {}] /\ stored = [s \in Stages |-> {}]
        /\ results = {} /\ lock = {} /\ accepted = {} /\ pc = "off"
    BY DEF Init, CandidateInit
  <1>2. \A s \in Stages : planned[s] = {} /\ stored[s] = {}
    BY <1>1
  <1>3. StoredTrue /\ PlansTrue
    BY <1>1, <1>2 DEF StoredTrue, PlansTrue
  <1>4. AtGraph
    BY <1>1 DEF AtGraph, InStage, Preparing, Scoring, Replaying, Compacting
  <1>5. DecidedTrue
    BY <1>1 DEF DecidedTrue
  <1> QED
    BY <1>3, <1>4, <1>5, Initially, FatesInitially DEF LockInv, DecisionsCorrect

(* A stored stage with a winner has a best one.                             *)
LEMMA StoredWinnerIsBest ==
  ASSUME StoredTrue, NEW n, Won(stored, n), NEW k \in 1 .. n, k \in Stages
  PROVE  /\ stored[k] # {} /\ IsBest(StageResults(k), WinnersOf(stored, n)[k])
  <1>1. stored[k] # {} /\ HasWinner(ResultsIn(stored, k))
    BY DEF Won
  <1>2. ResultsIn(stored, k) \in [1 .. Width[k] -> Outcomes]
    BY <1>1 DEF StoredTrue, ResultsIn
  <1>3. Width[k] \in Nat
    BY Sizes
  <1>4. IsBest(ResultsIn(stored, k), Winner(ResultsIn(stored, k)))
    BY <1>1, <1>2, <1>3, WinnerIsBest
  <1> QED
    BY <1>1, <1>4 DEF WinnersOf, StageResults, ResultsIn

(* Every plan rests on the best candidates of the stages before it, and the *)
(* final stage accepts only decisions that are the best candidate of every  *)
(* stage, reached under the one budget their plans froze: for every graph,  *)
(* every fate and cost of its candidates, and every order of crashes,       *)
(* moves, measurements, bindings and locks (select_candidate,               *)
(* freeze_or_verify, FinalPlanInputs.locked_decisions).                     *)
THEOREM LockCorrect == Spec => []LockIsOfSelection
  <1>1. LockInv => LockIsOfSelection
    <2> SUFFICES ASSUME LockInv PROVE LockIsOfSelection
      OBVIOUS
    <2> USE DEF LockInv, DecisionsCorrect
    <2>1. ASSUME NEW s \in Stages, NEW p \in planned[s], NEW k \in DOMAIN p.base
          PROVE  stored[k] # {} /\ IsBest(StageResults(k), p.base[k])
      <3>1. Won(stored, s - 1) /\ p.base = WinnersOf(stored, s - 1)
        BY DEF PlansTrue
      <3>2. k \in 1 .. s - 1
        BY <2>1, <3>1 DEF WinnersOf
      <3>3. k \in Stages
        BY <3>2, Sizes
      <3> QED
        BY <3>1, <3>2, <3>3, StoredWinnerIsBest
    <2>2. ASSUME NEW l \in accepted, NEW s \in Stages
          PROVE  /\ stored[s] # {} /\ IsBest(StageResults(s), l.decisions[s])
                 /\ planned[s] = {[base |-> SubSeq(l.decisions, 1, s - 1), budget |-> l.budget]}
      <3>1. /\ Won(stored, Len(Width)) /\ l.decisions = WinnersOf(stored, Len(Width))
            /\ planned[s] = {[base |-> SubSeq(l.decisions, 1, s - 1), budget |-> l.budget]}
        BY DEF DecidedTrue
      <3>2. s \in 1 .. Len(Width)
        BY Sizes
      <3> QED
        BY <3>1, <3>2, StoredWinnerIsBest
    <2> QED
      BY <2>1, <2>2 DEF LockIsOfSelection
  <1> QED
    BY LockInvInitially, LockInvKept, <1>1, PTL DEF Spec

-----------------------------------------------------------------------------
(* The frozen order.  FlattenSeq is a recursive function: that it exists,   *)
(* and what it holds at each place, is by the least stage for which it      *)
(* would not be so.                                                         *)

IsFlattening(f, seqs, n) ==
  f = [i \in 1 .. n |-> IF i = 1 THEN seqs[i] ELSE f[i - 1] \o seqs[i]]

LEMMA FlatteningExists ==
  ASSUME NEW seqs, NEW n \in Nat
  PROVE  \E f : IsFlattening(f, seqs, n)
  <1> DEFINE Bad == {k \in Nat : ~\E f : IsFlattening(f, seqs, k)}
  <1>1. Bad = {}
    <2> SUFFICES ASSUME Bad # {} PROVE FALSE
      OBVIOUS
    <2>1. PICK k \in Bad : \A y \in Bad : k <= y
      BY LeastNatural
    <2>2. k \in Nat /\ ~\E f : IsFlattening(f, seqs, k)
      OBVIOUS
    <2>3. k # 0
      <3>1. IsFlattening([i \in 1 .. 0 |-> 0], seqs, 0)
        BY DEF IsFlattening
      <3> QED
        BY <2>2, <3>1
    <2>4. k - 1 \in Nat /\ k - 1 \notin Bad
      BY <2>1, <2>2, <2>3
    <2>5. PICK f : IsFlattening(f, seqs, k - 1)
      BY <2>4
    <2> DEFINE g == [i \in 1 .. k |-> IF i = k THEN IF i = 1 THEN seqs[i] ELSE f[i - 1] \o seqs[i]
                                              ELSE f[i]]
    <2>6. \A i \in 1 .. k : g[i] = IF i = 1 THEN seqs[i] ELSE g[i - 1] \o seqs[i]
      <3> SUFFICES ASSUME NEW i \in 1 .. k
                   PROVE  g[i] = IF i = 1 THEN seqs[i] ELSE g[i - 1] \o seqs[i]
        OBVIOUS
      <3>1. i # 1 => g[i - 1] = f[i - 1]
        BY <2>2
      <3>2. CASE i = k
        BY <3>1, <3>2
      <3>3. CASE i # k
        <4>1. i \in 1 .. k - 1
          BY <2>2, <3>3
        <4>2. f[i] = IF i = 1 THEN seqs[i] ELSE f[i - 1] \o seqs[i]
          BY <2>5, <4>1 DEF IsFlattening
        <4> QED
          BY <3>1, <3>3, <4>2
      <3> QED
        BY <3>2, <3>3
    <2>7. g = [i \in 1 .. k |-> g[i]]
      OBVIOUS
    <2> HIDE DEF g
    <2>8. IsFlattening(g, seqs, k)
      BY <2>6, <2>7 DEF IsFlattening
    <2> QED
      BY <2>2, <2>8
  <1> QED
    BY <1>1

LEMMA FlattenSeqIs ==
  ASSUME NEW seqs, Len(seqs) \in Nat \ {0}
  PROVE  \E f : IsFlattening(f, seqs, Len(seqs)) /\ FlattenSeq(seqs) = f[Len(seqs)]
  <1> DEFINE f == CHOOSE f : IsFlattening(f, seqs, Len(seqs))
  <1>1. IsFlattening(f, seqs, Len(seqs))
    BY FlatteningExists
  <1>2. FlattenSeq(seqs) = f[Len(seqs)]
    BY DEF FlattenSeq, IsFlattening
  <1> QED
    BY <1>1, <1>2

(* Where the elements of z = x \o y come from.                              *)
Joins(S, x, y, z) ==
  /\ z \in Seq(S)
  /\ Len(x) \in Nat /\ Len(y) \in Nat /\ Len(z) = Len(x) + Len(y)
  /\ \A i \in 1 .. Len(x) : i \in 1 .. Len(z) /\ z[i] = x[i]
  /\ \A i \in 1 .. Len(y) : Len(x) + i \in 1 .. Len(z) /\ z[Len(x) + i] = y[i]
  /\ \A i \in 1 .. Len(z) :
       i \in 1 .. Len(x) \/ \E j \in 1 .. Len(y) : i = Len(x) + j

LEMMA Joined ==
  ASSUME NEW S, NEW x \in Seq(S), NEW y \in Seq(S)
  PROVE  Joins(S, x, y, x \o y)
  <1>1. Len(x) \in Nat /\ Len(y) \in Nat /\ x \o y \in Seq(S) /\ Len(x \o y) = Len(x) + Len(y)
    OBVIOUS
  <1>2. \A i \in 1 .. Len(x) + Len(y) :
          (x \o y)[i] = IF i <= Len(x) THEN x[i] ELSE y[i - Len(x)]
    OBVIOUS
  <1>3. \A i \in 1 .. Len(x) + Len(y) : i \in 1 .. Len(x) \/ i - Len(x) \in 1 .. Len(y)
    BY <1>1
  <1>4. \A i \in 1 .. Len(y) : Len(x) + i \in 1 .. Len(x) + Len(y) /\ ~(Len(x) + i <= Len(x))
                               /\ (Len(x) + i) - Len(x) = i
    BY <1>1
  <1>5. \A i \in 1 .. Len(x) + Len(y) : i = Len(x) + (i - Len(x))
    BY <1>1
  <1>6. \A i \in 1 .. Len(x) : i \in 1 .. Len(x) + Len(y) /\ i <= Len(x)
    BY <1>1
  <1>7. \A i \in 1 .. Len(x \o y) :
          i \in 1 .. Len(x) \/ \E j \in 1 .. Len(y) : i = Len(x) + j
    BY <1>1, <1>3, <1>5
  <1>8. \A i \in 1 .. Len(y) :
          Len(x) + i \in 1 .. Len(x \o y) /\ (x \o y)[Len(x) + i] = y[i]
    BY <1>1, <1>2, <1>4
  <1>9. \A i \in 1 .. Len(x) : i \in 1 .. Len(x \o y) /\ (x \o y)[i] = x[i]
    BY <1>1, <1>2, <1>6
  <1> QED
    BY <1>1, <1>7, <1>8, <1>9 DEF Joins

(* What is flattened holds, at each place, an element of one of its parts,  *)
(* and two sequences of parts of the same lengths hold it of the same one.  *)
Alike(S, T, a, b, n, u, v) ==
  /\ u \in Seq(S) /\ v \in Seq(T) /\ Len(u) = Len(v)
  /\ \A i \in 1 .. Len(u) : \E s \in 1 .. n : \E c \in 1 .. Len(a[s]) :
       u[i] = a[s][c] /\ v[i] = b[s][c]

LEMMA AlikeJoins ==
  ASSUME NEW S, NEW T, NEW n, NEW a, NEW b, NEW u, NEW v, Alike(S, T, a, b, n, u, v),
         NEW m \in 1 .. n, a[m] \in Seq(S), b[m] \in Seq(T), Len(a[m]) = Len(b[m])
  PROVE  Alike(S, T, a, b, n, u \o a[m], v \o b[m])
  <1>1. u \in Seq(S) /\ v \in Seq(T) /\ Len(u) = Len(v)
    BY DEF Alike
  <1>2. /\ u \o a[m] \in Seq(S) /\ Len(u \o a[m]) = Len(u) + Len(a[m])
        /\ \A i \in 1 .. Len(u) : (u \o a[m])[i] = u[i]
        /\ \A i \in 1 .. Len(a[m]) : (u \o a[m])[Len(u) + i] = a[m][i]
        /\ \A i \in 1 .. Len(u \o a[m]) :
             i \in 1 .. Len(u) \/ \E j \in 1 .. Len(a[m]) : i = Len(u) + j
    <2>1. Joins(S, u, a[m], u \o a[m])
      BY <1>1, Joined
    <2> QED
      BY <2>1 DEF Joins
  <1>3. /\ v \o b[m] \in Seq(T) /\ Len(v \o b[m]) = Len(u) + Len(a[m])
        /\ \A i \in 1 .. Len(u) : (v \o b[m])[i] = v[i]
        /\ \A i \in 1 .. Len(a[m]) : (v \o b[m])[Len(u) + i] = b[m][i]
    <2>1. Joins(T, v, b[m], v \o b[m])
      BY <1>1, Joined
    <2> QED
      BY <1>1, <2>1 DEF Joins
  <1>4. ASSUME NEW i \in 1 .. Len(u \o a[m])
        PROVE  \E s \in 1 .. n : \E c \in 1 .. Len(a[s]) :
                 (u \o a[m])[i] = a[s][c] /\ (v \o b[m])[i] = b[s][c]
    <2>1. CASE i \in 1 .. Len(u)
      <3>1. (u \o a[m])[i] = u[i] /\ (v \o b[m])[i] = v[i]
        BY <1>2, <1>3, <2>1
      <3>2. \E s \in 1 .. n : \E c \in 1 .. Len(a[s]) : u[i] = a[s][c] /\ v[i] = b[s][c]
        BY <2>1 DEF Alike
      <3> QED
        BY <3>1, <3>2
    <2>2. ASSUME NEW j \in 1 .. Len(a[m]), i = Len(u) + j
          PROVE  \E s \in 1 .. n : \E c \in 1 .. Len(a[s]) :
                   (u \o a[m])[i] = a[s][c] /\ (v \o b[m])[i] = b[s][c]
      <3>1. (u \o a[m])[i] = a[m][j] /\ (v \o b[m])[i] = b[m][j]
        BY <1>2, <1>3, <2>2
      <3> QED
        BY <3>1
    <2> QED
      BY <1>2, <2>1, <2>2
  <1> QED
    BY <1>2, <1>3, <1>4 DEF Alike

LEMMA FlattenShape ==
  ASSUME NEW S, NEW T, NEW n \in Nat, NEW a, NEW b,
         \A s \in 1 .. n : a[s] \in Seq(S) /\ b[s] \in Seq(T) /\ Len(a[s]) = Len(b[s]),
         NEW f, IsFlattening(f, a, n), NEW g, IsFlattening(g, b, n),
         NEW k \in 1 .. n
  PROVE  Alike(S, T, a, b, n, f[k], g[k])
  <1> DEFINE Bad == {m \in 1 .. n : ~Alike(S, T, a, b, n, f[m], g[m])}
  <1>1. ASSUME NEW m \in 1 .. n
        PROVE  /\ f[m] = IF m = 1 THEN a[m] ELSE f[m - 1] \o a[m]
               /\ g[m] = IF m = 1 THEN b[m] ELSE g[m - 1] \o b[m]
    BY DEF IsFlattening
  <1>2. Bad = {}
    <2> SUFFICES ASSUME Bad # {} PROVE FALSE
      OBVIOUS
    <2>1. Bad \in SUBSET Nat
      OBVIOUS
    <2>2. PICK m \in Bad : \A y \in Bad : m <= y
      BY <2>1, LeastNatural
    <2>3. m \in 1 .. n /\ ~Alike(S, T, a, b, n, f[m], g[m])
      OBVIOUS
    <2>4. a[m] \in Seq(S) /\ b[m] \in Seq(T) /\ Len(a[m]) = Len(b[m])
      BY <2>3
    <2>5. CASE m = 1
      <3>1. f[m] = a[m] /\ g[m] = b[m]
        BY <1>1, <2>3, <2>5
      <3> QED
        BY <2>3, <2>4, <3>1 DEF Alike
    <2>6. CASE m # 1
      <3>1. m - 1 \in 1 .. n /\ m - 1 \notin Bad
        BY <2>2, <2>3, <2>6
      <3>2. Alike(S, T, a, b, n, f[m - 1], g[m - 1])
        BY <3>1
      <3>3. f[m] = f[m - 1] \o a[m] /\ g[m] = g[m - 1] \o b[m]
        BY <1>1, <2>3, <2>6
      <3>4. Alike(S, T, a, b, n, f[m - 1] \o a[m], g[m - 1] \o b[m])
        BY <2>3, <2>4, <3>2, AlikeJoins
      <3> QED
        BY <2>3, <3>3, <3>4
    <2> QED
      BY <2>5, <2>6
  <1> QED
    BY <1>2

Row(s) == [c \in 1 .. Width[s] |-> <<s, c>>]
Places == [s \in Stages |-> Row(s)]
Before(p, q) == p[1] < q[1] \/ (p[1] = q[1] /\ p[2] < q[2])

(* The places of the first m stages, stage by stage and in order.           *)
Listed(m, u) ==
  /\ u \in Seq(Nat \X Nat)
  /\ \A i \in 1 .. Len(u) : \E s \in 1 .. m : \E c \in 1 .. Width[s] : u[i] = <<s, c>>
  /\ \A s \in 1 .. m : \A c \in 1 .. Width[s] : \E i \in 1 .. Len(u) : u[i] = <<s, c>>
  /\ \A i, j \in 1 .. Len(u) : i < j => Before(u[i], u[j])

LEMMA Rows ==
  ASSUME NEW m \in Stages
  PROVE  /\ Row(m) \in Seq(Nat \X Nat) /\ Len(Row(m)) = Width[m] /\ Width[m] \in Nat
         /\ \A c \in 1 .. Width[m] : Row(m)[c] = <<m, c>>
  <1>1. m \in Nat /\ Width[m] \in Nat
    BY Sizes
  <1> QED
    BY <1>1 DEF Row

LEMMA ListedJoins ==
  ASSUME NEW m \in Stages, m - 1 \in Stages, NEW u, Listed(m - 1, u)
  PROVE  Listed(m, u \o Row(m))
  <1> DEFINE v == u \o Row(m)
             L == Len(u)
  <1>1. m \in Nat /\ m >= 1
    BY Sizes
  <1>2. /\ Row(m) \in Seq(Nat \X Nat) /\ Len(Row(m)) = Width[m] /\ Width[m] \in Nat
        /\ \A c \in 1 .. Width[m] : Row(m)[c] = <<m, c>>
    BY Rows
  <1>3. /\ u \in Seq(Nat \X Nat) /\ L \in Nat
        /\ \A i \in 1 .. L : \E s \in 1 .. m - 1 : \E c \in 1 .. Width[s] : u[i] = <<s, c>>
        /\ \A s \in 1 .. m - 1 : \A c \in 1 .. Width[s] : \E i \in 1 .. L : u[i] = <<s, c>>
        /\ \A i, j \in 1 .. L : i < j => Before(u[i], u[j])
    <2>1. u \in Seq(Nat \X Nat)
      BY DEF Listed
    <2>2. Len(u) \in Nat
      BY <2>1
    <2> QED
      BY <2>1, <2>2 DEF Listed
  <1>4. /\ v \in Seq(Nat \X Nat) /\ Len(v) = L + Width[m]
        /\ \A i \in 1 .. L : i \in 1 .. Len(v) /\ v[i] = u[i]
        /\ \A i \in 1 .. Width[m] : L + i \in 1 .. Len(v) /\ v[L + i] = Row(m)[i]
        /\ \A i \in 1 .. Len(v) : i \in 1 .. L \/ \E j \in 1 .. Width[m] : i = L + j
    <2>1. Joins(Nat \X Nat, u, Row(m), v)
      BY <1>2, <1>3, Joined
    <2> QED
      BY <1>2, <2>1 DEF Joins
  <1> HIDE DEF v, L
  <1>5. \A i \in 1 .. Width[m] : v[L + i] = <<m, i>>
    BY <1>2, <1>4
  <1>6. \A i \in 1 .. Len(v) : \E s \in 1 .. m : \E c \in 1 .. Width[s] : v[i] = <<s, c>>
    <2> SUFFICES ASSUME NEW i \in 1 .. Len(v)
                 PROVE  \E s \in 1 .. m : \E c \in 1 .. Width[s] : v[i] = <<s, c>>
      OBVIOUS
    <2>1. CASE i \in 1 .. L
      <3>1. PICK s \in 1 .. m - 1 : \E c \in 1 .. Width[s] : u[i] = <<s, c>>
        BY <1>3, <2>1
      <3>2. s \in 1 .. m
        BY <1>1
      <3> QED
        BY <1>4, <2>1, <3>1, <3>2
    <2>2. ASSUME NEW j \in 1 .. Width[m], i = L + j
          PROVE  \E s \in 1 .. m : \E c \in 1 .. Width[s] : v[i] = <<s, c>>
      <3>1. v[i] = <<m, j>> /\ m \in 1 .. m
        BY <1>1, <1>5, <2>2
      <3> QED
        BY <3>1
    <2> QED
      BY <1>4, <2>1, <2>2
  <1>7. \A s \in 1 .. m : \A c \in 1 .. Width[s] : \E i \in 1 .. Len(v) : v[i] = <<s, c>>
    <2> SUFFICES ASSUME NEW s \in 1 .. m, NEW c \in 1 .. Width[s]
                 PROVE  \E i \in 1 .. Len(v) : v[i] = <<s, c>>
      OBVIOUS
    <2>1. CASE s = m
      <3>1. L + c \in 1 .. Len(v) /\ v[L + c] = <<s, c>>
        BY <1>4, <1>5, <2>1
      <3> QED
        BY <3>1
    <2>2. CASE s # m
      <3>1. s \in 1 .. m - 1
        BY <1>1, <2>2
      <3>2. PICK i \in 1 .. L : u[i] = <<s, c>>
        BY <1>3, <3>1
      <3> QED
        BY <1>4, <3>2
    <2> QED
      BY <2>1, <2>2
  <1>8. \A i, j \in 1 .. Len(v) : i < j => Before(v[i], v[j])
    <2> SUFFICES ASSUME NEW i \in 1 .. Len(v), NEW j \in 1 .. Len(v), i < j
                 PROVE  Before(v[i], v[j])
      OBVIOUS
    <2>0. i \in Nat /\ j \in Nat /\ L \in Nat
      BY <1>3
    <2>1. CASE j \in 1 .. L
      <3>1. i \in 1 .. L
        BY <2>0, <2>1
      <3>2. Before(u[i], u[j])
        BY <1>3, <2>1, <3>1
      <3> QED
        BY <1>4, <2>1, <3>1, <3>2
    <2>2. ASSUME NEW y \in 1 .. Width[m], j = L + y, i \in 1 .. L
          PROVE  Before(v[i], v[j])
      <3>1. PICK s \in 1 .. m - 1 : \E c \in 1 .. Width[s] : u[i] = <<s, c>>
        BY <1>3, <2>2
      <3>2. PICK c \in 1 .. Width[s] : v[i] = <<s, c>>
        BY <1>4, <2>2, <3>1
      <3>4. s < m
        BY <1>1
      <3>3. v[j][1] = m
        BY <1>5, <2>2
      <3> QED
        BY <3>2, <3>3, <3>4 DEF Before
    <2>3. ASSUME NEW x \in 1 .. Width[m], i = L + x, NEW y \in 1 .. Width[m], j = L + y
          PROVE  Before(v[i], v[j])
      <3>1. v[i] = <<m, x>> /\ v[j] = <<m, y>>
        BY <1>5, <2>3
      <3>2. x < y
        BY <2>0, <2>3
      <3> QED
        BY <3>1, <3>2 DEF Before
    <2> QED
      BY <1>4, <2>1, <2>2, <2>3
  <1>9. Listed(m, v)
    BY <1>4, <1>6, <1>7, <1>8 DEF Listed
  <1> QED
    BY <1>9 DEF v

LEMMA FlattenPlaces ==
  ASSUME NEW f, IsFlattening(f, Places, Len(Width)), NEW k \in Stages
  PROVE  Listed(k, f[k])
  <1> DEFINE Bad == {m \in Stages : ~Listed(m, f[m])}
  <1>0. Stages = 1 .. Len(Width) /\ Len(Width) \in Nat
    BY Sizes
  <1>1. ASSUME NEW m \in Stages
        PROVE  f[m] = IF m = 1 THEN Row(m) ELSE f[m - 1] \o Row(m)
    <2>1. f[m] = IF m = 1 THEN Places[m] ELSE f[m - 1] \o Places[m]
      BY <1>0 DEF IsFlattening
    <2> QED
      BY <2>1 DEF Places
  <1>2. Bad = {}
    <2> SUFFICES ASSUME Bad # {} PROVE FALSE
      OBVIOUS
    <2>1. Bad \in SUBSET Nat
      BY <1>0
    <2>2. PICK m \in Bad : \A y \in Bad : m <= y
      BY <2>1, LeastNatural
    <2>3. m \in Stages /\ ~Listed(m, f[m])
      OBVIOUS
    <2>4. CASE m = 1
      <3>1. f[m] = Row(m)
        BY <1>1, <2>3, <2>4
      <3>2. /\ Row(m) \in Seq(Nat \X Nat) /\ Len(Row(m)) = Width[m] /\ Width[m] \in Nat
            /\ \A c \in 1 .. Width[m] : Row(m)[c] = <<m, c>>
        BY <2>3, Rows
      <3>3. \A s \in 1 .. m : s = m
        BY <2>4
      <3>4. m \in 1 .. m
        BY <2>4
      <3>5. ASSUME NEW i \in 1 .. Len(Row(m)), NEW j \in 1 .. Len(Row(m)), i < j
            PROVE  Before(Row(m)[i], Row(m)[j])
        <4>1. Row(m)[i] = <<m, i>> /\ Row(m)[j] = <<m, j>>
          BY <3>2
        <4> QED
          BY <3>5, <4>1 DEF Before
      <3>6. Listed(m, Row(m))
        BY <3>2, <3>3, <3>4, <3>5 DEF Listed
      <3> QED
        BY <2>3, <3>1, <3>6
    <2>5. CASE m # 1
      <3>1. m - 1 \in Stages /\ m - 1 \notin Bad
        BY <1>0, <2>2, <2>3, <2>5
      <3>2. Listed(m - 1, f[m - 1])
        BY <3>1
      <3>3. f[m] = f[m - 1] \o Row(m)
        BY <1>1, <2>3, <2>5
      <3> QED
        BY <2>3, <3>1, <3>2, <3>3, ListedJoins
    <2> QED
      BY <2>4, <2>5
  <1> QED
    BY <1>2

LEMMA PlacesShape ==
  /\ Len(Places) = Len(Width) /\ Len(Width) \in Nat \ {0} /\ Len(Width) \in Stages
  /\ Stages = 1 .. Len(Width) /\ Order = FlattenSeq(Places)
  <1>1. Stages = 1 .. Len(Width) /\ Len(Width) \in Nat \ {0}
    BY Sizes
  <1>2. Places = [s \in 1 .. Len(Width) |-> Row(s)]
    BY <1>1 DEF Places
  <1>3. Len(Places) = Len(Width)
    BY <1>1, <1>2
  <1>4. Order = FlattenSeq(Places)
    BY DEF Order, Places, Row
  <1> QED
    BY <1>1, <1>3, <1>4

LEMMA OrderIs == Listed(Len(Width), Order)
  <1>1. PICK f : IsFlattening(f, Places, Len(Width)) /\ Order = f[Len(Width)]
    BY PlacesShape, FlattenSeqIs
  <1> QED
    BY <1>1, PlacesShape, FlattenPlaces

(* The places of the graph, each once and in order.                         *)
LEMMA Ordered ==
  /\ Total \in Nat
  /\ \A i \in 1 .. Total : \E s \in Stages : \E c \in 1 .. Width[s] : Order[i] = <<s, c>>
  /\ \A s \in Stages : \A c \in 1 .. Width[s] : \E i \in 1 .. Total : Order[i] = <<s, c>>
  /\ \A i, j \in 1 .. Total : i < j => Before(Order[i], Order[j])
  <1>1. Order \in Seq(Nat \X Nat)
    BY OrderIs DEF Listed
  <1>2. Len(Order) \in Nat
    BY <1>1
  <1> QED
    BY <1>2, OrderIs, PlacesShape DEF Total, Listed

(* What is flattened of one value for each place holds it at that place.    *)
OnePerPlace(S, m) ==
  /\ m = [s \in Stages |-> m[s]]
  /\ \A s \in Stages : m[s] \in Seq(S) /\ Len(m[s]) = Width[s]

LEMMA FlattenedIs ==
  ASSUME NEW S, NEW m, OnePerPlace(S, m)
  PROVE  /\ FlattenSeq(m) \in Seq(S) /\ Len(FlattenSeq(m)) = Total
         /\ \A i \in 1 .. Total : FlattenSeq(m)[i] = m[Order[i][1]][Order[i][2]]
  <1> DEFINE n == Len(Width)
  <1>1. Len(m) = n /\ n \in Nat \ {0} /\ n \in Nat /\ Stages = 1 .. n /\ n \in 1 .. n
    <2>1. m = [s \in 1 .. n |-> m[s]]
      BY PlacesShape DEF OnePerPlace
    <2>2. Len(m) = n
      BY <2>1, PlacesShape
    <2> QED
      BY <2>2, PlacesShape
  <1>2. PICK f : IsFlattening(f, Places, n) /\ Order = f[n]
    BY PlacesShape, FlattenSeqIs
  <1>3. PICK g : IsFlattening(g, m, n) /\ FlattenSeq(m) = g[n]
    BY <1>1, FlattenSeqIs
  <1>4. \A s \in 1 .. n : /\ Places[s] \in Seq(Nat \X Nat) /\ m[s] \in Seq(S)
                          /\ Len(Places[s]) = Len(m[s])
    BY <1>1, Rows DEF Places, OnePerPlace
  <1>5. Alike(Nat \X Nat, S, Places, m, n, Order, FlattenSeq(m))
    <2> HIDE DEF n
    <2>1. Alike(Nat \X Nat, S, Places, m, n, f[n], g[n])
      BY <1>1, <1>2, <1>3, <1>4, FlattenShape
    <2> QED
      BY <1>2, <1>3, <2>1
  <1>6. ASSUME NEW i \in 1 .. Total
        PROVE  FlattenSeq(m)[i] = m[Order[i][1]][Order[i][2]]
    <2>1. PICK s \in 1 .. n : \E c \in 1 .. Len(Places[s]) :
            Order[i] = Places[s][c] /\ FlattenSeq(m)[i] = m[s][c]
      BY <1>5 DEF Alike, Total
    <2>2. PICK c \in 1 .. Len(Places[s]) : Order[i] = Places[s][c] /\ FlattenSeq(m)[i] = m[s][c]
      BY <2>1
    <2>3. Order[i] = <<s, c>>
      BY <1>1, <2>2, Rows DEF Places
    <2> QED
      BY <2>2, <2>3
  <1> QED
    BY <1>5, <1>6 DEF Alike, Total

(* What has settled in the files r, if the first k places have.             *)
ResultAt(r, i) == r[Order[i][1]][Order[i][2]].result
Counted(r, k) ==
  /\ k \in 0 .. Total /\ (\A i \in 1 .. k : ResultAt(r, i) # {})
  /\ k # Total => ResultAt(r, k + 1) = {}
UpTo(r, k) == [i \in 1 .. k |-> CHOOSE x \in ResultAt(r, i) : TRUE]
OpenIn(r) == {i \in 1 .. Total : ResultAt(r, i) = {}} \cup {Total + 1}
SettledIn(r) == [i \in 1 .. Min(OpenIn(r)) - 1 |-> CHOOSE x \in ResultAt(r, i) : TRUE]

LEMMA SettledUpTo ==
  ASSUME NEW r, NEW k, Counted(r, k)
  PROVE  SettledIn(r) = UpTo(r, k)
  <1>1. Total \in Nat /\ k \in Nat /\ k \in 0 .. Total
    BY Ordered DEF Counted
  <1> DEFINE Open == OpenIn(r)
  <1>2. k + 1 \in Open
    <2>1. k # Total => k + 1 \in 1 .. Total
      BY <1>1
    <2> QED
      BY <1>1, <2>1 DEF Counted, OpenIn
  <1>3. \A i \in Open : i \in Nat /\ i >= k + 1
    <2>1. ASSUME NEW i \in 1 .. Total, ResultAt(r, i) = {} PROVE i >= k + 1
      BY <1>1, <2>1 DEF Counted
    <2> QED
      BY <1>1, <2>1 DEF OpenIn
  <1> HIDE DEF Open
  <1>4. \A x \in Open : (\A y \in Open : x <= y) => x = k + 1
    BY <1>1, <1>2, <1>3
  <1>5. \A y \in Open : k + 1 <= y
    BY <1>1, <1>3
  <1>6. Min(Open) = k + 1
    BY <1>2, <1>4, <1>5 DEF Min
  <1>7. Min(Open) - 1 = k
    BY <1>1, <1>6
  <1> QED
    BY <1>7 DEF SettledIn, UpTo, Open

(* Of the files q, place p has settled on o, and of r every place before it *)
(* but none from it on.                                                     *)
SettlesAt(r, q, p, o) ==
  /\ p \in 1 .. Total
  /\ \A i \in 1 .. Total : i < p => ResultAt(r, i) # {}
  /\ \A i \in 1 .. Total : p <= i => ResultAt(r, i) = {}
  /\ ResultAt(q, p) = {o}
  /\ \A i \in 1 .. Total : i # p => ResultAt(q, i) = ResultAt(r, i)

LEMMA SettlesNext ==
  ASSUME NEW r, NEW q, NEW p, NEW o, SettlesAt(r, q, p, o)
  PROVE  /\ Len(SettledIn(r)) < Total /\ Len(SettledIn(q)) = Len(SettledIn(r)) + 1
         /\ SubSeq(SettledIn(q), 1, Len(SettledIn(r))) = SettledIn(r)
         /\ SettledIn(q)[Len(SettledIn(r)) + 1] = o
  <1> DEFINE k == p - 1
  <1>1. /\ Total \in Nat /\ k \in Nat /\ k + 1 = p /\ k < Total /\ k \in 0 .. Total
        /\ p \in 0 .. Total /\ p \in 1 .. Total
    BY Ordered DEF SettlesAt
  <1>2. \A i \in 1 .. k : i \in 1 .. Total /\ i < p /\ i # p /\ i \in 1 .. p
    BY <1>1
  <1>3. Counted(r, k)
    BY <1>1, <1>2 DEF Counted, SettlesAt
  <1>4. Counted(q, p)
    <2>1. \A i \in 1 .. p : i = p \/ i \in 1 .. k
      BY <1>1
    <2>2. p # Total => p + 1 \in 1 .. Total /\ p <= p + 1 /\ p + 1 # p
      BY <1>1
    <2> QED
      BY <1>1, <1>2, <2>1, <2>2 DEF Counted, SettlesAt
  <1> DEFINE x == UpTo(r, k)
             y == UpTo(q, p)
  <1>5. SettledIn(r) = x /\ SettledIn(q) = y
    BY <1>3, <1>4, SettledUpTo
  <1>6. /\ x = [i \in 1 .. k |-> x[i]] /\ y = [i \in 1 .. k + 1 |-> y[i]]
        /\ (\A i \in 1 .. k : y[i] = x[i]) /\ y[p] = o
    <2>1. y[p] = CHOOSE z \in {o} : TRUE
      BY <1>1 DEF UpTo, SettlesAt
    <2>2. y[p] = o
      BY <2>1
    <2>3. \A i \in 1 .. k : y[i] = x[i]
      BY <1>1, <1>2 DEF UpTo, SettlesAt
    <2>4. x = [i \in 1 .. k |-> x[i]] /\ y = [i \in 1 .. p |-> y[i]]
      BY DEF UpTo
    <2>5. 1 .. k + 1 = 1 .. p
      BY <1>1
    <2> HIDE DEF x, y, k
    <2>6. y = [i \in 1 .. k + 1 |-> y[i]]
      BY <2>4, <2>5
    <2> QED
      BY <2>2, <2>3, <2>4, <2>6
  <1> HIDE DEF x, y, k
  <1>7. /\ x \in Seq({x[i] : i \in 1 .. k}) /\ Len(x) = k
        /\ y \in Seq({y[i] : i \in 1 .. k + 1}) /\ Len(y) = k + 1
    BY <1>1, <1>6
  <1>8. SubSeq(y, 1, k) = [i \in 1 .. k |-> y[i]]
    BY <1>1, <1>7
  <1>9. SubSeq(y, 1, k) = x
    BY <1>6, <1>8
  <1> QED
    BY <1>1, <1>5, <1>6, <1>7, <1>9

(* All the places have settled, on what is then flattened.                  *)
LEMMA SettledAll ==
  ASSUME NEW r, \A i \in 1 .. Total : ResultAt(r, i) # {},
         NEW S, NEW m, OnePerPlace(S, m),
         \A s \in Stages : \A c \in 1 .. Width[s] :
           m[s][c] = CHOOSE x \in r[s][c].result : TRUE
  PROVE  Len(SettledIn(r)) = Total /\ SettledIn(r) = FlattenSeq(m)
  <1>1. Total \in Nat
    BY Ordered
  <1>2. Counted(r, Total)
    BY <1>1 DEF Counted
  <1>3. SettledIn(r) = UpTo(r, Total)
    BY <1>2, SettledUpTo
  <1>4. /\ FlattenSeq(m) \in Seq(S) /\ Len(FlattenSeq(m)) = Total
        /\ \A i \in 1 .. Total : FlattenSeq(m)[i] = m[Order[i][1]][Order[i][2]]
    BY FlattenedIs
  <1>5. ASSUME NEW i \in 1 .. Total
        PROVE  m[Order[i][1]][Order[i][2]] = CHOOSE x \in ResultAt(r, i) : TRUE
    <2>1. PICK s \in Stages : \E c \in 1 .. Width[s] : Order[i] = <<s, c>>
      BY Ordered
    <2>2. PICK c \in 1 .. Width[s] : Order[i] = <<s, c>>
      BY <2>1
    <2> QED
      BY <2>2 DEF ResultAt
  <1>6. FlattenSeq(m) = [i \in 1 .. Total |-> FlattenSeq(m)[i]]
    BY <1>4
  <1>7. FlattenSeq(m) = UpTo(r, Total)
    BY <1>4, <1>5, <1>6 DEF UpTo
  <1> QED
    BY <1>3, <1>4, <1>7

(* The same results are the same settled candidates.                        *)
LEMMA SettledSame ==
  ASSUME NEW r, NEW q, \A i \in 1 .. Total : ResultAt(q, i) = ResultAt(r, i),
         NEW k, Counted(r, k)
  PROVE  SettledIn(q) = SettledIn(r)
  <1>1. Total \in Nat /\ k \in 0 .. Total
    BY Ordered DEF Counted
  <1>2. (\A i \in 1 .. k : i \in 1 .. Total) /\ (k # Total => k + 1 \in 1 .. Total)
    BY <1>1
  <1>3. Counted(q, k)
    BY <1>1, <1>2 DEF Counted
  <1>4. UpTo(q, k) = UpTo(r, k)
    BY <1>2 DEF UpTo
  <1> QED
    BY <1>3, <1>4, SettledUpTo

-----------------------------------------------------------------------------
(* The matrix of runs: a candidate settles after every one before it, a     *)
(* stored stage holds what its candidates settled on, and a launch that got *)
(* past its opening found nothing published.                                *)
SettlesInOrder ==
  \A s, t \in Stages : \A c \in 1 .. Width[s] : \A d \in 1 .. Width[t] :
    Before(<<s, c>>, <<t, d>>) /\ root[t][d].result # {} => root[s][c].result # {}

StoredSettled ==
  \A s \in Stages : stored[s] # {} =>
    /\ \A c \in 1 .. Width[s] : root[s][c].result # {}
    /\ stored[s] = {[c \in 1 .. Width[s] |-> ResultOf(s, c)]}

AtMatrix ==
  /\ pc = "result" => Here.result = {}
  /\ pc \in {"plan", "publish"} \cup InStage => results = {}

MatrixInv == LockInv /\ SettlesInOrder /\ StoredSettled /\ AtMatrix

Unsettled == \A s \in Stages : \A c \in 1 .. Width[s] : root'[s][c].result = root[s][c].result

(* A write that leaves the result of its candidate.                         *)
LEMMA WritesBeside ==
  ASSUME IInv, NEW d, Put(d), d.result = Here.result
  PROVE  Unsettled
  <1> DEFINE new == [root[stage] EXCEPT ![at] = d]
  <1>1. /\ stage \in Stages /\ at \in 1 .. Width[stage]
        /\ root' = [root EXCEPT ![stage] = new]
        /\ root = [s \in Stages |-> [c \in 1 .. Width[s] |-> root[s][c]]]
    BY DEF IInv, FilesCorrect, Typed, Put
  <1>2. root[stage] = [c \in 1 .. Width[stage] |-> root[stage][c]]
    BY <1>1
  <1>3. \A c \in 1 .. Width[stage] : new[c].result = root[stage][c].result
    BY <1>1, <1>2 DEF Here
  <1> HIDE DEF new
  <1>4. /\ root'[stage] = new
        /\ \A s \in Stages : s # stage => root'[s] = root[s]
    BY <1>1
  <1> QED
    BY <1>3, <1>4 DEF Unsettled

(* Every write of a candidate but the one of its result is such a write.    *)
LEMMA PreparesBeside ==
  ASSUME IInv, \/ Save \/ SaveSealed \/ WriteManifest \/ PrepareInvalid \/ WritePrepared
               \/ Evaluate
  PROVE  Unsettled
  <1>1. IsRoot(Here)
    BY Known
  <1>2. CASE Save \/ SaveSealed
    <2> DEFINE e == {Saved}
    <2>1. Put([Here EXCEPT !.saved = e])
      BY <1>2 DEF Save, SaveSealed
    <2> HIDE DEF e
    <2>2. [Here EXCEPT !.saved = e].result = Here.result
      BY <1>1 DEF IsRoot
    <2> QED
      BY <2>1, <2>2, WritesBeside
  <1>3. CASE WriteManifest
    <2>1. PICK cost \in Costs : Put([Here EXCEPT !.manifest = {[cost |-> cost, host |-> host]}])
      BY <1>3 DEF WriteManifest
    <2> DEFINE e == {[cost |-> cost, host |-> host]}
    <2>2. Put([Here EXCEPT !.manifest = e])
      BY <2>1
    <2> HIDE DEF e
    <2>3. [Here EXCEPT !.manifest = e].result = Here.result
      BY <1>1 DEF IsRoot
    <2> QED
      BY <2>2, <2>3, WritesBeside
  <1>4. CASE PrepareInvalid \/ WritePrepared
    <2>1. \E e : Put([Here EXCEPT !.prepared = e])
      BY <1>4 DEF PrepareInvalid, WritePrepared
    <2>2. PICK e : Put([Here EXCEPT !.prepared = e])
      BY <2>1
    <2>3. [Here EXCEPT !.prepared = e].result = Here.result
      BY <1>1 DEF IsRoot
    <2> QED
      BY <2>2, <2>3, WritesBeside
  <1>5. CASE Evaluate
    <2> DEFINE e == TRUE
    <2>1. Put([Here EXCEPT !.evaluated = e])
      BY <1>5 DEF Evaluate
    <2> HIDE DEF e
    <2>2. [Here EXCEPT !.evaluated = e].result = Here.result
      BY <1>1 DEF IsRoot
    <2> QED
      BY <2>1, <2>2, WritesBeside
  <1> QED
    BY <1>2, <1>3, <1>4, <1>5

LEMMA PrunesBeside ==
  ASSUME IInv, PruneCheckpoints \/ PrunePredictions
  PROVE  Unsettled
  <1>1. IsRoot(Here)
    BY Known
  <1>2. ASSUME NEW e
        PROVE  [Here EXCEPT !.dirs = e] =
                 [dirs |-> e, saved |-> Here.saved, exposures |-> Here.exposures,
                  sealed |-> Here.sealed, manifest |-> Here.manifest, receipt |-> Here.receipt,
                  prepared |-> Here.prepared, evaluated |-> Here.evaluated, result |-> Here.result]
    BY <1>1 DEF IsRoot
  <1>3. CASE PruneCheckpoints
    <2> DEFINE e == Here.dirs \ {"checkpoints"}
               g == {}
               a == [Here EXCEPT !.dirs = e]
               d == [a EXCEPT !.saved = g]
    <2>1. Put(d)
      BY <1>3 DEF PruneCheckpoints
    <2> HIDE DEF e, g
    <2>2. a = [dirs |-> e, saved |-> Here.saved, exposures |-> Here.exposures,
               sealed |-> Here.sealed, manifest |-> Here.manifest, receipt |-> Here.receipt,
               prepared |-> Here.prepared, evaluated |-> Here.evaluated, result |-> Here.result]
      BY <1>2
    <2> HIDE DEF a
    <2>3. d.result = Here.result
      BY <2>2
    <2> HIDE DEF d
    <2> QED
      BY <2>1, <2>3, WritesBeside
  <1>4. CASE PrunePredictions
    <2> DEFINE e == Here.dirs \ {"predictions"}
               g == Here.sealed \ {"predictions"}
               a == [Here EXCEPT !.dirs = e]
               d == [a EXCEPT !.sealed = g]
    <2>1. Put(d)
      BY <1>4 DEF PrunePredictions
    <2> HIDE DEF e, g
    <2>2. a = [dirs |-> e, saved |-> Here.saved, exposures |-> Here.exposures,
               sealed |-> Here.sealed, manifest |-> Here.manifest, receipt |-> Here.receipt,
               prepared |-> Here.prepared, evaluated |-> Here.evaluated, result |-> Here.result]
      BY <1>2
    <2> HIDE DEF a
    <2>3. d.result = Here.result
      BY <2>2
    <2> HIDE DEF d
    <2> QED
      BY <2>1, <2>3, WritesBeside
  <1> QED
    BY <1>3, <1>4

LEMMA OnlyResultsSettle ==
  ASSUME IInv, [Next]_vars
  PROVE  WriteResult \/ Unsettled
  <1>1. CASE UNCHANGED root
    BY <1>1 DEF Unsettled
  <1>2. CASE CandidateStep
    <2>1. CASE OpenFresh \/ Train \/ SealPredictions \/ SealExposures \/ WriteReceipt
               \/ PruneExposures
      <3>1. PICK d : Put(d) /\ d.result = Here.result
        BY <2>1, WritesElsewhere
      <3> QED
        BY <3>1, WritesBeside
    <2>2. CASE ReusePrepared \/ ReuseManifest \/ RefuseRoot \/ RefuseHost \/ RefuseStray \/ Resume
               \/ ReuseReceipt \/ LoadResult
      BY <1>1, <2>2 DEF ReusePrepared, ReuseManifest, RefuseRoot, RefuseHost, RefuseStray, Resume,
                        ReuseReceipt, LoadResult
    <2> QED
      BY <1>2, <2>1, <2>2, PreparesBeside, PrunesBeside DEF CandidateStep
  <1>3. CASE GraphStep /\ ~CandidateStep
    BY <1>1, <1>3
    DEF GraphStep, ReusePublished, RefusePair, Start, FreezePlan, RefusePlan, ReuseResults,
        PrepareStage, StoreResults, Choose, RefuseStage, PublishResults, PublishManifest
  <1>4. CASE Launch \/ Crash \/ MoveHost \/ Measure \/ Bind \/ Lock \/ Accept
    BY <1>1, <1>4 DEF Launch, Crash, MoveHost, Measure, Bind, Lock, Accept, candidateVars
  <1>5. CASE UNCHANGED vars
    BY <1>1, <1>5 DEF vars, candidateVars
  <1> QED
    BY <1>2, <1>3, <1>4, <1>5 DEF Next

(* What the write of a result finds: every candidate before it settled,     *)
(* itself not.                                                              *)
Settles(s, c, r) ==
  /\ s \in Stages /\ c \in 1 .. Width[s] /\ r \in Outcomes
  /\ root[s][c].result = {} /\ root'[s][c].result = {r}
  /\ \A t \in Stages : \A d \in 1 .. Width[t] :
       /\ (t # s \/ d # c) => root'[t][d].result = root[t][d].result
       /\ Before(<<t, d>>, <<s, c>>) => root[t][d].result # {}
  /\ stored[s] = {} /\ UNCHANGED <<stored, results>>

LEMMA WriteResultSettles ==
  ASSUME MatrixInv, WriteResult, [Next]_vars
  PROVE  \E r : Settles(stage, at, r)
  <1>0. /\ IInv /\ FatesCorrect /\ IsRoot(Here)
        /\ stage \in Stages /\ at \in 1 .. Width[stage] /\ Width[stage] \in Nat
    <2>1. IInv /\ FatesCorrect
      BY DEF MatrixInv, LockInv
    <2> QED
      BY <2>1, Known, Sizes
  <1>1. pc \in Scoring /\ pc # "store" /\ pc # "publish"
    BY DEF WriteResult, Scoring
  <1>2. PICK r \in Outcomes : Put([Here EXCEPT !.result = {r}])
    BY <1>0, WritesOutcome
  <1> DEFINE e == {r}
             d == [Here EXCEPT !.result = e]
  <1>3. Put(d)
    BY <1>2
  <1> HIDE DEF e
  <1>4. d.result = e /\ IsRoot(d)
    BY <1>0 DEF IsRoot
  <1> HIDE DEF d
  <1>5. UNCHANGED <<stage, at>> /\ UNCHANGED <<stored, results>>
    <2>1. ~StoreResults /\ ~PublishResults
      BY <1>1 DEF StoreResults, PublishResults, Scoring
    <2> QED
      BY <2>1, WritesGraph DEF WriteResult, Go, proc
  <1>6. /\ root'[stage][at] = d
        /\ \A s \in Stages : \A c \in 1 .. Width[s] :
             s # stage \/ c # at => root'[s][c] = root[s][c]
    BY <1>0, <1>3, <1>4, <1>5, Placed DEF IInv, FilesCorrect
  <1>7. Here.result = {}
    BY DEF WriteResult, MatrixInv, AtMatrix, Scored
  <1>8. ASSUME NEW t \in Stages, NEW c \in 1 .. Width[t], Before(<<t, c>>, <<stage, at>>)
        PROVE  root[t][c].result # {}
    <2>1. CASE t < stage
      <3>1. stored[t] # {}
        BY <1>0, <2>1 DEF IInv, AtStage
      <3> QED
        BY <3>1 DEF MatrixInv, StoredSettled
    <2>2. CASE t = stage /\ c < at
      <3>1. c \in 1 .. at - 1
        BY <1>0, <2>2
      <3> QED
        BY <1>0, <1>1, <2>2, <3>1 DEF FatesCorrect, AtFate
    <2> QED
      BY <1>8, <2>1, <2>2 DEF Before
  <1>9. stored[stage] = {}
    BY <1>0, <1>1 DEF IInv, AtStage
  <1>10. /\ root[stage][at].result = {} /\ root'[stage][at].result = {r}
    BY <1>4, <1>6, <1>7 DEF Here, e
  <1>11. Settles(stage, at, r)
    BY <1>0, <1>2, <1>5, <1>6, <1>8, <1>9, <1>10 DEF Settles
  <1> QED
    BY <1>11

LEMMA SettlesInOrderKept ==
  ASSUME MatrixInv, [Next]_vars
  PROVE  SettlesInOrder'
  <1>1. CASE Unsettled
    BY <1>1 DEF MatrixInv, SettlesInOrder, Unsettled
  <1>2. ASSUME NEW p, NEW q, NEW r, Settles(p, q, r)
        PROVE  SettlesInOrder'
    <2> SUFFICES ASSUME NEW s \in Stages, NEW t \in Stages, NEW c \in 1 .. Width[s],
                        NEW d \in 1 .. Width[t], Before(<<s, c>>, <<t, d>>),
                        root'[t][d].result # {}
                 PROVE  root'[s][c].result # {}
      BY DEF SettlesInOrder
    <2>1. root[s][c].result # {}
      <3>1. CASE t = p /\ d = q
        BY <1>2, <3>1 DEF Settles
      <3>2. CASE t # p \/ d # q
        <4>1. root[t][d].result # {}
          BY <1>2, <3>2 DEF Settles
        <4> QED
          BY <4>1 DEF MatrixInv, SettlesInOrder
      <3> QED
        BY <3>1, <3>2
    <2>2. CASE s = p /\ c = q
      BY <1>2, <2>2 DEF Settles
    <2>3. CASE s # p \/ c # q
      BY <1>2, <2>1, <2>3 DEF Settles
    <2> QED
      BY <2>2, <2>3
  <1>3. WriteResult \/ Unsettled
    BY OnlyResultsSettle DEF MatrixInv, LockInv
  <1> QED
    BY <1>1, <1>2, <1>3, WriteResultSettles

LEMMA StoredSettledKept ==
  ASSUME MatrixInv, [Next]_vars
  PROVE  StoredSettled'
  <1>1. IInv /\ FatesCorrect /\ StoredSettled
    BY DEF MatrixInv, LockInv
  <1>2. ASSUME NEW s \in Stages, \A c \in 1 .. Width[s] : root'[s][c].result = root[s][c].result,
               stored'[s] = stored[s], stored'[s] # {}
        PROVE  /\ \A c \in 1 .. Width[s] : root'[s][c].result # {}
               /\ stored'[s] = {[c \in 1 .. Width[s] |-> ResultOf(s, c)']}
    <2>1. /\ \A c \in 1 .. Width[s] : root[s][c].result # {}
          /\ stored[s] = {[c \in 1 .. Width[s] |-> ResultOf(s, c)]}
      BY <1>1, <1>2 DEF StoredSettled
    <2>2. \A c \in 1 .. Width[s] : ResultOf(s, c)' = ResultOf(s, c)
      BY <1>2 DEF ResultOf
    <2>3. [c \in 1 .. Width[s] |-> ResultOf(s, c)'] = [c \in 1 .. Width[s] |-> ResultOf(s, c)]
      BY <2>2
    <2> QED
      BY <1>2, <2>1, <2>3
  <1>3. ASSUME NEW p, NEW q, NEW r, Settles(p, q, r)
        PROVE  StoredSettled'
    <2> SUFFICES ASSUME NEW s \in Stages, stored'[s] # {}
                 PROVE  /\ \A c \in 1 .. Width[s] : root'[s][c].result # {}
                        /\ stored'[s] = {[c \in 1 .. Width[s] |-> ResultOf(s, c)']}
      BY DEF StoredSettled
    <2>1. s # p /\ stored'[s] = stored[s]
      BY <1>3 DEF Settles
    <2>2. \A c \in 1 .. Width[s] : root'[s][c].result = root[s][c].result
      BY <1>3, <2>1 DEF Settles
    <2> QED
      BY <1>2, <2>1, <2>2
  <1>4. CASE Unsettled /\ UNCHANGED stored
    <2> SUFFICES ASSUME NEW s \in Stages, stored'[s] # {}
                 PROVE  /\ \A c \in 1 .. Width[s] : root'[s][c].result # {}
                        /\ stored'[s] = {[c \in 1 .. Width[s] |-> ResultOf(s, c)']}
      BY DEF StoredSettled
    <2> QED
      BY <1>2, <1>4 DEF Unsettled
  <1>5. CASE StoreResults
    <2> DEFINE e == {Candidates}
    <2>1. /\ pc = "store" /\ stored' = [stored EXCEPT ![stage] = e] /\ UNCHANGED root
          /\ UNCHANGED stage
      BY <1>5 DEF StoreResults, Go, proc
    <2>2. at = Width[stage] /\ stage \in Stages /\ stored = [s \in Stages |-> stored[s]]
      BY <1>1, <2>1 DEF IInv, AtStage, FilesCorrect, Typed
    <2>3. \A c \in 1 .. at - 1 : root[stage][c].result # {}
      BY <1>1, <2>1 DEF FatesCorrect, AtFate, Scoring
    <2>4. root[stage][at].result # {}
      BY <1>1, <2>1 DEF FatesCorrect, AtFate, Here
    <2>5. \A c \in 1 .. Width[stage] : root'[stage][c].result # {}
      BY <1>1, <2>1, <2>2, <2>3, <2>4, Position
    <2>a. PICK p \in Stages : p = stage
      BY <2>2
    <2>6. e = {[c \in 1 .. Width[p] |-> ResultOf(p, c)']}
      BY <2>1, <2>a DEF Candidates, ResultOf
    <2> HIDE DEF e
    <2>7. stored'[stage] = e /\ \A s \in Stages : s # stage => stored'[s] = stored[s]
      BY <2>1, <2>2
    <2>8. ASSUME NEW s \in Stages, stored'[s] # {}
          PROVE  /\ \A c \in 1 .. Width[s] : root'[s][c].result # {}
                 /\ stored'[s] = {[c \in 1 .. Width[s] |-> ResultOf(s, c)']}
      <3>1. CASE s = stage
        <4>1. s = p
          BY <2>a, <3>1
        <4> QED
          BY <2>5, <2>6, <2>7, <3>1, <4>1
      <3>2. CASE s # stage
        BY <1>2, <2>1, <2>7, <2>8, <3>2
      <3> QED
        BY <3>1, <3>2
    <2> QED
      BY <2>8 DEF StoredSettled
  <1>6. /\ WriteResult \/ Unsettled
        /\ StoreResults \/ UNCHANGED stored
    BY <1>1, OnlyResultsSettle, WritesGraph
  <1> QED
    BY <1>3, <1>4, <1>5, <1>6, WriteResultSettles

LEMMA AtMatrixKept ==
  ASSUME MatrixInv, [Next]_vars
  PROVE  AtMatrix'
  <1> DEFINE Launched == {"plan", "publish"} \cup InStage
  <1>0. /\ IInv /\ Launched = {"plan", "publish", "results", "choose"} \cup Preparing \cup Scoring
        /\ {"off", "refused", "open", "publish manifest"} \cap Launched = {}
        /\ "result" \notin {"plan", "publish", "results", "choose", "prepare"}
    BY DEF MatrixInv, LockInv, InStage, Preparing, Scoring, Replaying, Compacting
  <1>1. pc \in Launched => results = {}
    BY DEF MatrixInv, AtMatrix
  <1>2. ASSUME UNCHANGED <<pc, stage, at, root, results>>
        PROVE  AtMatrix'
    BY <1>2 DEF MatrixInv, AtMatrix, Here
  <1>3. CASE CandidateStep /\ UNCHANGED <<graphVars, lockVars>>
    <2>1. /\ pc \in Launched /\ UNCHANGED results
      BY <1>0, <1>3, CandidatePlaces DEF graphVars
    <2>2. CASE Evaluate
      <3>1. Here.result = {} /\ UNCHANGED <<stage, at>> /\ pc' = "result"
        BY <2>2 DEF Evaluate, Scored, Go, proc
      <3>2. Here'.result = {}
        BY <1>0, <2>2, <3>1, Known, PreparesBeside DEF Unsettled, Here
      <3> QED
        BY <1>1, <2>1, <3>2 DEF AtMatrix
    <2>3. CASE ~Evaluate
      <3>1. pc' # "result"
        BY <1>3, <2>3
        DEF CandidateStep, ReusePrepared, ReuseManifest, OpenFresh, RefuseRoot, RefuseHost,
            RefuseStray, Resume, Train, PrepareInvalid, Save, SealPredictions, SealExposures,
            SaveSealed, WriteManifest, WriteReceipt, ReuseReceipt, PruneCheckpoints, PruneExposures,
            WritePrepared, LoadResult, WriteResult, PrunePredictions, AfterPrepare, Go, Refuse
      <3> QED
        BY <1>1, <2>1, <3>1 DEF AtMatrix
    <2> QED
      BY <2>2, <2>3
  <1>4. CASE ReusePublished \/ RefusePair \/ RefusePlan \/ RefuseStage \/ PublishResults
             \/ PublishManifest \/ Crash \/ Launch
    <2>1. pc' \in {"off", "refused", "open", "publish manifest"}
      BY <1>4 DEF ReusePublished, RefusePair, RefusePlan, RefuseStage, PublishResults,
                  PublishManifest, Crash, Launch, Go, Refuse
    <2> QED
      BY <1>0, <2>1 DEF AtMatrix
  <1>5. CASE Start
    <2>1. results' = {} /\ pc' = "plan"
      BY <1>5 DEF Start, Go, graphVars
    <2> QED
      BY <2>1 DEF AtMatrix
  <1>6. CASE FreezePlan \/ ReuseResults \/ PrepareStage \/ StoreResults \/ Choose
    <2>1. UNCHANGED results /\ pc' # "result"
      BY <1>6 DEF FreezePlan, ReuseResults, PrepareStage, StoreResults, Choose, Go, graphVars
    <2>2. pc \in {"plan", "results", "store", "choose"}
      BY <1>6 DEF FreezePlan, ReuseResults, PrepareStage, StoreResults, Choose
    <2>3. pc \in Launched
      BY <1>0, <2>2 DEF Scoring
    <2> QED
      BY <1>1, <2>1, <2>3 DEF AtMatrix
  <1>7. CASE MoveHost \/ Measure \/ Bind \/ Lock \/ Accept \/ UNCHANGED vars
    BY <1>2, <1>7
    DEF MoveHost, Measure, Bind, Lock, Accept, vars, candidateVars, proc, graphVars
  <1> QED
    BY <1>3, <1>4, <1>5, <1>6, <1>7 DEF Next, GraphStep

LEMMA MatrixInvKept == MatrixInv /\ [Next]_vars => MatrixInv'
  BY LockInvKept, SettlesInOrderKept, StoredSettledKept, AtMatrixKept DEF MatrixInv

LEMMA MatrixInvInitially == Init => MatrixInv
  <1> SUFFICES ASSUME Init PROVE MatrixInv
    OBVIOUS
  <1>1. /\ stored = [s \in Stages |-> {}] /\ pc = "off"
        /\ root = [s \in Stages |-> [c \in 1 .. Width[s] |-> EmptyRoot]]
    BY DEF Init, CandidateInit
  <1>2. SettlesInOrder
    BY <1>1 DEF SettlesInOrder, EmptyRoot
  <1>3. StoredSettled
    BY <1>1 DEF StoredSettled
  <1>4. AtMatrix
    BY <1>1 DEF AtMatrix, InStage, Preparing, Scoring, Replaying, Compacting
  <1> QED
    BY <1>2, <1>3, <1>4, LockInvInitially DEF MatrixInv

(* What an abstract step sees of the files.                                 *)
LEMMA SettledOfRoot == SettledCandidates = SettledIn(root)
  BY DEF SettledCandidates, SettledIn, OpenIn, ResultAt

LEMMA AtPlace ==
  ASSUME NEW i \in 1 .. Total
  PROVE  \E s \in Stages : \E c \in 1 .. Width[s] :
           Order[i] = <<s, c>> /\ \A r : ResultAt(r, i) = r[s][c].result
  <1>1. PICK s \in Stages : \E c \in 1 .. Width[s] : Order[i] = <<s, c>>
    BY Ordered
  <1> QED
    BY <1>1 DEF ResultAt

(* As many candidates have settled as stand before the first that has not.  *)
LEMMA SomeCount ==
  ASSUME SettlesInOrder
  PROVE  \E k : Counted(root, k)
  <1> DEFINE Open == {i \in 1 .. Total : ResultAt(root, i) = {}}
  <1>1. Total \in Nat
    BY Ordered
  <1>2. CASE Open = {}
    <2>1. Counted(root, Total)
      BY <1>1, <1>2 DEF Counted
    <2> QED
      BY <2>1
  <1>3. CASE Open # {}
    <2>1. Open \in SUBSET Nat
      BY <1>1
    <2>2. PICK i \in Open : \A y \in Open : i <= y
      BY <1>3, <2>1, LeastNatural
    <2>3. i \in 1 .. Total /\ ResultAt(root, i) = {}
      OBVIOUS
    <2>4. ASSUME NEW j \in 1 .. i - 1 PROVE ResultAt(root, j) # {}
      <3>1. j \in 1 .. Total /\ ~(i <= j)
        BY <1>1, <2>3
      <3> QED
        BY <2>2, <3>1
    <2>5. i - 1 \in 0 .. Total /\ (i - 1) + 1 = i
      BY <1>1, <2>3
    <2>6. Counted(root, i - 1)
      BY <2>3, <2>4, <2>5 DEF Counted
    <2> QED
      BY <2>6
  <1> QED
    BY <1>2, <1>3

LEMMA SettledKept ==
  ASSUME MatrixInv, Unsettled
  PROVE  SettledIn(root') = SettledIn(root)
  <1>1. PICK k : Counted(root, k)
    BY SomeCount DEF MatrixInv
  <1>2. ASSUME NEW i \in 1 .. Total PROVE ResultAt(root', i) = ResultAt(root, i)
    <2>1. PICK s \in Stages : \E c \in 1 .. Width[s] : \A r : ResultAt(r, i) = r[s][c].result
      BY AtPlace
    <2>2. PICK c \in 1 .. Width[s] : \A r : ResultAt(r, i) = r[s][c].result
      BY <2>1
    <2> QED
      BY <2>2 DEF Unsettled
  <1> QED
    BY <1>1, <1>2, SettledSame

LEMMA SettlesMatrix ==
  ASSUME MatrixInv, NEW s, NEW c, NEW r, Settles(s, c, r)
  PROVE  Matrix!Settle
  <1>1. /\ s \in Stages /\ c \in 1 .. Width[s] /\ r \in Outcomes
        /\ root[s][c].result = {} /\ root'[s][c].result = {r}
        /\ \A t \in Stages : \A d \in 1 .. Width[t] :
             /\ (t # s \/ d # c) => root'[t][d].result = root[t][d].result
             /\ Before(<<t, d>>, <<s, c>>) => root[t][d].result # {}
        /\ UNCHANGED results
    BY DEF Settles
  <1>2. PICK p \in 1 .. Total : Order[p] = <<s, c>>
    BY <1>1, Ordered
  <1>3. Total \in Nat
    BY Ordered
  <1>4. ASSUME NEW i \in 1 .. Total
        PROVE  /\ i < p => ResultAt(root, i) # {}
               /\ p <= i => ResultAt(root, i) = {}
               /\ i # p => ResultAt(root', i) = ResultAt(root, i)
    <2>1. PICK t \in Stages : \E d \in 1 .. Width[t] :
            Order[i] = <<t, d>> /\ \A q : ResultAt(q, i) = q[t][d].result
      BY AtPlace
    <2>2. PICK d \in 1 .. Width[t] :
            Order[i] = <<t, d>> /\ \A q : ResultAt(q, i) = q[t][d].result
      BY <2>1
    <2>3. i < p => Before(<<t, d>>, <<s, c>>)
      BY <1>2, <2>2, Ordered
    <2>4. p < i => Before(<<s, c>>, <<t, d>>)
      BY <1>2, <2>2, Ordered
    <2>5. p < i => root[t][d].result = {}
      BY <1>1, <2>4 DEF MatrixInv, SettlesInOrder
    <2>6. i = p => t = s /\ d = c
      BY <1>2, <2>2
    <2>7. t \in Nat /\ d \in Nat /\ s \in Nat /\ c \in Nat
      BY <1>1, Sizes
    <2>8. (i < p \/ p < i) => (t # s \/ d # c)
      BY <2>3, <2>4, <2>7 DEF Before
    <2>9. i < p \/ p < i \/ i = p
      BY <1>3
    <2>10. i < p => ResultAt(root, i) # {}
      BY <1>1, <2>2, <2>3
    <2>11. p <= i => ResultAt(root, i) = {}
      BY <1>1, <1>3, <2>2, <2>5, <2>6
    <2>12. i # p => ResultAt(root', i) = ResultAt(root, i)
      BY <1>1, <2>2, <2>8, <2>9
    <2> QED
      BY <2>10, <2>11, <2>12
  <1>5. ResultAt(root', p) = {r}
    BY <1>1, <1>2 DEF ResultAt
  <1>6. SettlesAt(root, root', p, r)
    BY <1>4, <1>5 DEF SettlesAt
  <1>7. /\ Len(SettledIn(root)) < Total /\ Len(SettledIn(root')) = Len(SettledIn(root)) + 1
        /\ SubSeq(SettledIn(root'), 1, Len(SettledIn(root))) = SettledIn(root)
        /\ SettledIn(root')[Len(SettledIn(root)) + 1] = r
    BY <1>6, SettlesNext
  <1>8. SettledCandidates = SettledIn(root) /\ SettledCandidates' = SettledIn(root')
    BY SettledOfRoot DEF SettledCandidates, SettledIn, OpenIn, ResultAt
  <1> QED
    BY <1>1, <1>7, <1>8 DEF Matrix!Settle

LEMMA PublishesMatrix ==
  ASSUME MatrixInv, PublishResults
  PROVE  Matrix!Publish
  <1> DEFINE m == [s \in Stages |-> StageResults(s)]
  <1>1. /\ pc = "publish" /\ results' = {m} /\ root' = root
    BY DEF PublishResults
  <1>2. results = {} /\ Won(stored, Len(Width))
    BY <1>1 DEF MatrixInv, AtMatrix, LockInv, DecisionsCorrect, AtGraph
  <1>3. ASSUME NEW s \in Stages
        PROVE  /\ \A c \in 1 .. Width[s] : root[s][c].result # {}
               /\ StageResults(s) = [c \in 1 .. Width[s] |-> ResultOf(s, c)]
    <2>1. stored[s] # {}
      BY <1>2, Sizes DEF Won
    <2>2. /\ \A c \in 1 .. Width[s] : root[s][c].result # {}
          /\ stored[s] = {[c \in 1 .. Width[s] |-> ResultOf(s, c)]}
      BY <2>1 DEF MatrixInv, StoredSettled
    <2> DEFINE e == [c \in 1 .. Width[s] |-> ResultOf(s, c)]
    <2>3. stored[s] = {e}
      BY <2>2
    <2> HIDE DEF e
    <2>4. StageResults(s) = e
      BY <2>3 DEF StageResults
    <2> QED
      BY <2>2, <2>4 DEF e
  <1>4. ASSUME NEW s \in Stages, NEW c \in 1 .. Width[s]
        PROVE  ResultOf(s, c) \in Outcomes
    <2>1. root[s][c].result # {} /\ root[s][c].result \subseteq Outcomes
      BY <1>3 DEF MatrixInv, LockInv, FatesCorrect, AllFated, Fated
    <2> QED
      BY <2>1 DEF ResultOf
  <1>5. ASSUME NEW s \in Stages
        PROVE  m[s] \in Seq(Outcomes) /\ Len(m[s]) = Width[s]
    <2>1. m[s] = [c \in 1 .. Width[s] |-> ResultOf(s, c)] /\ Width[s] \in Nat
      BY <1>3, Sizes
    <2> QED
      BY <1>4, <2>1
  <1>6. OnePerPlace(Outcomes, m)
    <2>1. m = [s \in Stages |-> m[s]]
      OBVIOUS
    <2> HIDE DEF m
    <2> QED
      BY <1>5, <2>1 DEF OnePerPlace
  <1>7. \A s \in Stages : \A c \in 1 .. Width[s] :
          m[s][c] = CHOOSE x \in root[s][c].result : TRUE
    BY <1>3 DEF ResultOf
  <1> HIDE DEF m
  <1>8. \A i \in 1 .. Total : ResultAt(root, i) # {}
    <2> TAKE i \in 1 .. Total
    <2>1. PICK s \in Stages : \E c \in 1 .. Width[s] : \A r : ResultAt(r, i) = r[s][c].result
      BY AtPlace
    <2> QED
      BY <1>3, <2>1
  <1>9. Len(SettledIn(root)) = Total /\ SettledIn(root) = FlattenSeq(m)
    <2>1. PICK r, q : r = root /\ q = m
      OBVIOUS
    <2>2. /\ \A i \in 1 .. Total : ResultAt(r, i) # {}
          /\ OnePerPlace(Outcomes, q)
          /\ \A s \in Stages : \A c \in 1 .. Width[s] : q[s][c] = CHOOSE x \in r[s][c].result : TRUE
      BY <1>6, <1>7, <1>8, <2>1
    <2>3. Len(SettledIn(r)) = Total /\ SettledIn(r) = FlattenSeq(q)
      BY <2>2, SettledAll
    <2> QED
      BY <2>1, <2>3
  <1>10. SettledCandidates = SettledIn(root) /\ SettledCandidates' = SettledIn(root')
    BY SettledOfRoot DEF SettledCandidates, SettledIn, OpenIn, ResultAt
  <1>11. {FlattenSeq(x) : x \in results} = {} /\ {FlattenSeq(x) : x \in results'} = {FlattenSeq(m)}
    BY <1>1, <1>2
  <1>12. SettledCandidates' = SettledCandidates
    BY <1>1, <1>10
  <1> QED
    BY <1>9, <1>10, <1>11, <1>12 DEF Matrix!Publish

(* The graph of stages implements the matrix of runs: for every graph,      *)
(* every fate and cost of its candidates and every crash, each candidate    *)
(* settles once, in the order they are frozen in, on what no restart        *)
(* changes, and what is published is every outcome, the failed ones too     *)
(* (selection_dag.py, selection_coordinator.py).                            *)
THEOREM GraphImplementsMatrix == Spec => ImplementsMatrix
  <1>1. Init => Matrix!Init
    <2> SUFFICES ASSUME Init PROVE Matrix!Init
      OBVIOUS
    <2>1. root = [s \in Stages |-> [c \in 1 .. Width[s] |-> EmptyRoot]] /\ results = {}
      BY DEF Init, CandidateInit
    <2>2. \A i \in 1 .. Total : ResultAt(root, i) = {}
      <3> TAKE i \in 1 .. Total
      <3>1. PICK s \in Stages : \E c \in 1 .. Width[s] : \A r : ResultAt(r, i) = r[s][c].result
        BY AtPlace
      <3>2. PICK c \in 1 .. Width[s] : \A r : ResultAt(r, i) = r[s][c].result
        BY <3>1
      <3>3. root[s][c] = EmptyRoot
        BY <2>1, <3>2
      <3> QED
        BY <3>2, <3>3 DEF EmptyRoot
    <2>3. Counted(root, 0)
      BY <2>2, Ordered DEF Counted
    <2>4. SettledIn(root) = UpTo(root, 0)
      BY <2>3, SettledUpTo
    <2>5. UpTo(root, 0) = <<>>
      BY DEF UpTo
    <2>6. {FlattenSeq(m) : m \in results} = {}
      BY <2>1
    <2> QED
      BY <2>4, <2>5, <2>6, SettledOfRoot DEF Matrix!Init
  <1>2. MatrixInv /\ [Next]_vars => [Matrix!Next]_<<SettledCandidates, {FlattenSeq(m) : m \in results}>>
    <2> SUFFICES ASSUME MatrixInv, [Next]_vars
                 PROVE  [Matrix!Next]_<<SettledCandidates, {FlattenSeq(m) : m \in results}>>
      OBVIOUS
    <2>1. CASE WriteResult
      <3>1. PICK r : Settles(stage, at, r)
        BY <2>1, WriteResultSettles
      <3>2. PICK s, c : s = stage /\ c = at
        OBVIOUS
      <3>3. Settles(s, c, r)
        BY <3>1, <3>2 DEF Settles
      <3>4. Matrix!Settle
        BY <3>3, SettlesMatrix
      <3> QED
        BY <3>4 DEF Matrix!Next
    <2>2. CASE PublishResults
      BY <2>2, PublishesMatrix DEF Matrix!Next
    <2>3. CASE Unsettled /\ UNCHANGED results
      <3>1. SettledIn(root') = SettledIn(root)
        BY <2>3, SettledKept
      <3>2. SettledCandidates = SettledIn(root) /\ SettledCandidates' = SettledIn(root')
        BY SettledOfRoot DEF SettledCandidates, SettledIn, OpenIn, ResultAt
      <3>3. SettledCandidates' = SettledCandidates
        BY <3>1, <3>2
      <3>4. {FlattenSeq(m) : m \in results'} = {FlattenSeq(m) : m \in results}
        BY <2>3
      <3> QED
        BY <3>3, <3>4
    <2>4. (WriteResult \/ Unsettled) /\ (PublishResults \/ UNCHANGED results)
      BY OnlyResultsSettle, WritesGraph DEF MatrixInv, LockInv
    <2> QED
      BY <2>1, <2>2, <2>3, <2>4
  <1> QED
    BY <1>1, <1>2, MatrixInvInitially, MatrixInvKept, PTL
    DEF Spec, ImplementsMatrix, Matrix!Spec, Matrix!matrixVars
-----------------------------------------------------------------------------
(* A launch goes on: what the guards of its steps ask of a root is there,    *)
(* and it is refused for one of the reasons of Blocked only.                 *)
Sealing == {"seal", "seal exposures", "save sealed", "manifest"}

(* A checkpoint is never ahead of the ledger while the replay may resume    *)
(* from it, and what a manifest, a receipt and a preparation announce is in *)
(* place.                                                                   *)
Able(d) ==
  /\ d.exposures \in 0 .. Credits
  /\ d.sealed \subseteq {"predictions", "exposures"}
  /\ d.prepared \in {{}, {"complete"}, {"protocol_invalid"}}
  /\ \A s \in d.saved : s.step \in 0 .. Credits + 1
  /\ d.manifest = {} => /\ ~d.receipt
                        /\ \A s \in d.saved : s.step <= d.exposures + 1
  /\ d.manifest # {} =>
       d.receipt \/ (d.saved # {} /\ d.sealed = {"predictions", "exposures"})
  /\ d.prepared = {"complete"} => d.manifest # {} /\ d.receipt
  /\ d.prepared = {"protocol_invalid"} => d.manifest = {}
  /\ d.receipt /\ d.result = {} => "predictions" \in d.sealed

AllAble == \A s \in Stages : \A c \in 1 .. Width[s] : Able(root[s][c])

(* What a place in the launch, come to credit n, knows of its candidate.    *)
Fits(place, d, n) ==
  /\ place \in Replaying \cup Compacting => d.prepared = {} /\ d.result = {}
  /\ place \in Replaying => d.manifest = {}
  /\ place = "train" => n \in 0 .. Credits /\ n <= d.exposures + 1
  /\ place = "save" => n \in 0 .. Credits + 1 /\ n <= d.exposures + 1
  /\ place \in Sealing => n = Credits + 1 /\ d.exposures = Credits
  /\ place \in Sealing \ {"seal"} => "predictions" \in d.sealed
  /\ place \in {"save sealed", "manifest"} => "exposures" \in d.sealed
  /\ place = "manifest" => d.saved # {}
  /\ place = "result" => d.prepared = {"complete"}

AtAble == Fits(pc, Here, step)
RootsAble == AllAble /\ AtAble

(* A manifest is of the published results, and a launch runs under the      *)
(* budget that is bound.                                                    *)
Announced == manifest \in {{}, {Decisions(m) : m \in results}}
AtBudget == ~Down => \E f \in bound : f.budget = budget

GoesInv == MatrixInv /\ RootsAble /\ Announced /\ AtBudget

Passing == Elsewhere \cup {"prepare", "score", "store", "choose", "prune predictions"}

LEMMA FitsPassing ==
  ASSUME NEW place \in Passing, NEW d, NEW n
  PROVE  Fits(place, d, n)
  BY DEF Fits, Passing, Elsewhere, Replaying, Compacting, Sealing

LEMMA CreditsFit ==
  /\ 0 \in 0 .. Credits /\ Credits \in 0 .. Credits
  /\ Credits + 1 \in 0 .. Credits + 1 /\ Credits + 1 <= Credits + 1
  BY SelectionConstants

LEMMA HereAble ==
  ASSUME IInv, AllAble
  PROVE  IsRoot(Here) /\ Able(Here) /\ Credits \in Nat \ {0}
  BY Known, SelectionConstants DEF AllAble, Here

LEMMA PutsAble ==
  ASSUME IInv, AllAble, NEW d, Put(d), Able(d), stage' = stage,
         (at' = at /\ Fits(pc', d, step')) \/ pc' \in Passing
  PROVE  RootsAble'
  <1> DEFINE new == [root[stage] EXCEPT ![at] = d]
  <1>1. /\ stage \in Stages /\ at \in 1 .. Width[stage]
        /\ root' = [root EXCEPT ![stage] = new]
        /\ root = [s \in Stages |-> [c \in 1 .. Width[s] |-> root[s][c]]]
    BY DEF IInv, FilesCorrect, Typed, Put
  <1>2. root[stage] = [c \in 1 .. Width[stage] |-> root[stage][c]]
    BY <1>1
  <1>3. /\ new[at] = d
        /\ \A c \in 1 .. Width[stage] : c # at => new[c] = root[stage][c]
    BY <1>1, <1>2
  <1> HIDE DEF new
  <1>4. root'[stage] = new /\ \A s \in Stages : s # stage => root'[s] = root[s]
    BY <1>1
  <1>5. AllAble'
    <2> SUFFICES ASSUME NEW s \in Stages, NEW c \in 1 .. Width[s]
                 PROVE  Able(root'[s][c])
      BY DEF AllAble
    <2>1. root'[s][c] = d \/ root'[s][c] = root[s][c]
      BY <1>3, <1>4
    <2>2. Able(root[s][c])
      BY DEF AllAble
    <2> QED
      BY <2>1, <2>2
  <1>6. at' = at => Here' = d
    BY <1>3, <1>4 DEF Here
  <1>7. AtAble'
    BY <1>6, FitsPassing DEF AtAble
  <1> QED
    BY <1>5, <1>7 DEF RootsAble

LEMMA StaysAble ==
  ASSUME IInv, AllAble, UNCHANGED root,
         (UNCHANGED <<stage, at>> /\ Fits(pc', Here, step')) \/ pc' \in Passing
  PROVE  RootsAble'
  <1>1. AllAble'
    BY DEF AllAble
  <1>2. UNCHANGED <<stage, at>> => Here' = Here
    BY DEF Here
  <1>3. AtAble'
    BY <1>2, FitsPassing DEF AtAble
  <1> QED
    BY <1>1, <1>3 DEF RootsAble

LEMMA EmptyAble == Able(EmptyRoot)
  BY SelectionConstants DEF Able, EmptyRoot

LEMMA AbleInitially == Init => RootsAble
  <1> SUFFICES ASSUME Init PROVE RootsAble
    OBVIOUS
  <1>1. /\ pc = "off"
        /\ root = [s \in Stages |-> [c \in 1 .. Width[s] |-> EmptyRoot]]
    BY DEF Init, CandidateInit
  <1>2. AllAble
    BY <1>1, EmptyAble DEF AllAble
  <1>3. AtAble
    BY <1>1, FitsPassing DEF AtAble, Passing, Elsewhere
  <1> QED
    BY <1>2, <1>3 DEF RootsAble

LEMMA MaxOfTwo ==
  ASSUME NEW a \in Nat, NEW b \in Nat
  PROVE  Max({a, b}) \in {a, b} /\ Max({a, b}) >= a /\ Max({a, b}) >= b
  <1>1. \E x \in {a, b} : \A y \in {a, b} : x >= y
    <2>1. CASE a >= b
      BY <2>1
    <2>2. CASE b >= a
      BY <2>2
    <2> QED
      BY <2>1, <2>2
  <1> QED
    BY <1>1 DEF Max

LEMMA OpenFreshAble ==
  ASSUME IInv, RootsAble, OpenFresh
  PROVE  RootsAble'
  <1> DEFINE d == [Here EXCEPT !.dirs = TrainingDirs \cup {"predictions"}]
  <1>0. Put(d) /\ UNCHANGED <<stage, at>> /\ pc' = "train" /\ step' = 0
        /\ Here.prepared = {} /\ Here.manifest = {}
    BY DEF OpenFresh, Replays
  <1>1. IsRoot(Here) /\ Able(Here) /\ Credits \in Nat \ {0}
        /\ (Here.result # {} => Here.prepared # {})
    BY HereAble, Known DEF RootsAble
  <1>2. /\ d.saved = Here.saved /\ d.exposures = Here.exposures /\ d.sealed = Here.sealed
        /\ d.manifest = Here.manifest /\ d.receipt = Here.receipt
        /\ d.prepared = Here.prepared /\ d.result = Here.result
    BY <1>1 DEF IsRoot
  <1> HIDE DEF d
  <1>3. Able(d)
    BY <1>1, <1>2 DEF Able
  <1>4. Fits("train", d, 0)
    BY <1>0, <1>1, <1>2 DEF Fits, Able, Replaying, Compacting, Sealing
  <1> QED
    BY <1>0, <1>3, <1>4, PutsAble DEF RootsAble

LEMMA ResumeAble ==
  ASSUME IInv, RootsAble, Resume
  PROVE  RootsAble'
  <1>0. UNCHANGED <<root, stage, at>> /\ Here.prepared = {} /\ Here.manifest = {}
    BY DEF Resume, Replays
  <1>1. Able(Here) /\ Credits \in Nat \ {0} /\ Here.result = {}
    BY <1>0, HereAble, Known DEF RootsAble
  <1>2. PICK s \in Here.saved :
          /\ s.step <= Here.exposures + 1 /\ step' = s.step
          /\ pc' = IF s.step = Credits + 1 THEN "seal" ELSE "train"
    BY DEF Resume
  <1>3. s.step \in 0 .. Credits + 1 /\ Here.exposures \in 0 .. Credits
    BY <1>1 DEF Able
  <1>4. Fits(pc', Here, step')
    <2>1. CASE s.step = Credits + 1
      <3>1. Here.exposures = Credits
        BY <1>1, <1>2, <1>3, <2>1
      <3> QED
        BY <1>0, <1>1, <1>2, <2>1, <3>1 DEF Fits, Replaying, Compacting, Sealing
    <2>2. CASE s.step # Credits + 1
      <3>1. s.step \in 0 .. Credits
        BY <1>1, <1>3, <2>2
      <3> QED
        BY <1>0, <1>1, <1>2, <2>2, <3>1 DEF Fits, Replaying, Compacting, Sealing
    <2> QED
      BY <2>1, <2>2
  <1> QED
    BY <1>0, <1>4, StaysAble DEF RootsAble

LEMMA TrainAble ==
  ASSUME IInv, RootsAble, Train
  PROVE  RootsAble'
  <1> DEFINE d == [Here EXCEPT !.exposures = Max({@, step})]
             most == Max({Here.exposures, step})
  <1>0. Put(d) /\ UNCHANGED <<stage, at>> /\ pc = "train" /\ pc' = "save" /\ step' = step + 1
    BY DEF Train
  <1>1. IsRoot(Here) /\ Able(Here) /\ Credits \in Nat \ {0} /\ Fits("train", Here, step)
    BY <1>0, HereAble DEF RootsAble, AtAble
  <1>2. /\ d.saved = Here.saved /\ d.exposures = most /\ d.sealed = Here.sealed
        /\ d.manifest = Here.manifest /\ d.receipt = Here.receipt
        /\ d.prepared = Here.prepared /\ d.result = Here.result
    BY <1>1 DEF IsRoot
  <1> HIDE DEF d
  <1>3. /\ Here.exposures \in 0 .. Credits /\ step \in 0 .. Credits
        /\ Here.prepared = {} /\ Here.result = {} /\ Here.manifest = {}
    BY <1>1 DEF Able, Fits, Replaying, Compacting
  <1>4. most \in 0 .. Credits /\ most >= Here.exposures /\ most >= step
    BY <1>1, <1>3, MaxOfTwo
  <1> HIDE DEF most
  <1>5. Able(d)
    <2>1. \A s \in d.saved : s.step \in 0 .. Credits + 1 /\ s.step <= d.exposures + 1
      BY <1>1, <1>2, <1>3, <1>4 DEF Able
    <2> QED
      BY <1>1, <1>2, <1>3, <1>4, <2>1 DEF Able
  <1>6. Fits("save", d, step + 1)
    <2>1. step + 1 \in 0 .. Credits + 1 /\ step + 1 <= d.exposures + 1
      BY <1>1, <1>2, <1>3, <1>4
    <2> QED
      BY <1>2, <1>3, <2>1 DEF Fits, Replaying, Compacting, Sealing
  <1> QED
    BY <1>0, <1>5, <1>6, PutsAble DEF RootsAble

LEMMA SaveAble ==
  ASSUME IInv, RootsAble, Save
  PROVE  RootsAble'
  <1> DEFINE d == [Here EXCEPT !.saved = {Saved}]
  <1>0. /\ Put(d) /\ UNCHANGED <<stage, at, step>> /\ pc = "save"
        /\ pc' = IF step = Credits + 1 THEN "seal" ELSE "train"
    BY DEF Save, Go, proc
  <1>1. IsRoot(Here) /\ Able(Here) /\ Credits \in Nat \ {0} /\ Fits("save", Here, step)
    BY <1>0, HereAble DEF RootsAble, AtAble
  <1>2. /\ d.saved = {Saved} /\ d.exposures = Here.exposures /\ d.sealed = Here.sealed
        /\ d.manifest = Here.manifest /\ d.receipt = Here.receipt
        /\ d.prepared = Here.prepared /\ d.result = Here.result
    BY <1>1 DEF IsRoot
  <1> HIDE DEF d
  <1>3. /\ Here.exposures \in 0 .. Credits /\ step \in 0 .. Credits + 1
        /\ step <= Here.exposures + 1
        /\ Here.prepared = {} /\ Here.result = {} /\ Here.manifest = {}
    BY <1>1 DEF Able, Fits, Replaying, Compacting
  <1>4. \A s \in d.saved : s.step = step
    BY <1>2 DEF Saved
  <1>5. Able(d)
    BY <1>1, <1>2, <1>3, <1>4 DEF Able
  <1>6. Fits(pc', d, step)
    <2>1. CASE step = Credits + 1
      <3>1. Here.exposures = Credits
        BY <1>1, <1>3, <2>1
      <3> QED
        BY <1>0, <1>2, <1>3, <2>1, <3>1 DEF Fits, Replaying, Compacting, Sealing
    <2>2. CASE step # Credits + 1
      <3>1. step \in 0 .. Credits
        BY <1>1, <1>3, <2>2
      <3> QED
        BY <1>0, <1>2, <1>3, <2>2, <3>1 DEF Fits, Replaying, Compacting, Sealing
    <2> QED
      BY <2>1, <2>2
  <1> QED
    BY <1>0, <1>5, <1>6, PutsAble DEF RootsAble
LEMMA SealPredictionsAble ==
  ASSUME IInv, RootsAble, SealPredictions
  PROVE  RootsAble'
  <1> DEFINE d == [Here EXCEPT !.sealed = @ \cup {"predictions"}]
  <1>0. /\ Put(d) /\ UNCHANGED <<stage, at, step>> /\ pc = "seal" /\ pc' = "seal exposures"
    BY DEF SealPredictions, Go, proc
  <1>1. IsRoot(Here) /\ Able(Here) /\ Credits \in Nat \ {0} /\ Fits("seal", Here, step)
    BY <1>0, HereAble DEF RootsAble, AtAble
  <1>2. /\ d.saved = Here.saved /\ d.exposures = Here.exposures /\ d.sealed = Here.sealed \cup {"predictions"}
        /\ d.manifest = Here.manifest /\ d.receipt = Here.receipt
        /\ d.prepared = Here.prepared /\ d.result = Here.result
    BY <1>1 DEF IsRoot
  <1> HIDE DEF d
  <1>3. /\ step = Credits + 1 /\ Here.exposures = Credits
        /\ Here.prepared = {} /\ Here.result = {} /\ Here.manifest = {}
    BY <1>1 DEF Fits, Replaying, Compacting, Sealing
  <1>4. Able(d)
    BY <1>1, <1>2, <1>3 DEF Able
  <1>5. Fits(pc', d, step)
    BY <1>0, <1>1, <1>2, <1>3 DEF Fits, Replaying, Compacting, Sealing
  <1> QED
    BY <1>0, <1>4, <1>5, PutsAble DEF RootsAble

LEMMA SealExposuresAble ==
  ASSUME IInv, RootsAble, SealExposures
  PROVE  RootsAble'
  <1> DEFINE d == [Here EXCEPT !.sealed = @ \cup {"exposures"}]
  <1>0. /\ Put(d) /\ UNCHANGED <<stage, at, step>> /\ pc = "seal exposures" /\ pc' = "save sealed"
    BY DEF SealExposures, Go, proc
  <1>1. IsRoot(Here) /\ Able(Here) /\ Credits \in Nat \ {0} /\ Fits("seal exposures", Here, step)
    BY <1>0, HereAble DEF RootsAble, AtAble
  <1>2. /\ d.saved = Here.saved /\ d.exposures = Here.exposures /\ d.sealed = Here.sealed \cup {"exposures"}
        /\ d.manifest = Here.manifest /\ d.receipt = Here.receipt
        /\ d.prepared = Here.prepared /\ d.result = Here.result
    BY <1>1 DEF IsRoot
  <1> HIDE DEF d
  <1>3. /\ step = Credits + 1 /\ Here.exposures = Credits
        /\ Here.prepared = {} /\ Here.result = {} /\ Here.manifest = {}
    BY <1>1 DEF Fits, Replaying, Compacting, Sealing
  <1>4. Able(d)
    BY <1>1, <1>2, <1>3 DEF Able
  <1>5. Fits(pc', d, step)
    BY <1>0, <1>1, <1>2, <1>3 DEF Fits, Replaying, Compacting, Sealing
  <1> QED
    BY <1>0, <1>4, <1>5, PutsAble DEF RootsAble

LEMMA SaveSealedAble ==
  ASSUME IInv, RootsAble, SaveSealed
  PROVE  RootsAble'
  <1> DEFINE d == [Here EXCEPT !.saved = {Saved}]
  <1>0. /\ Put(d) /\ UNCHANGED <<stage, at, step>> /\ pc = "save sealed" /\ pc' = "manifest"
    BY DEF SaveSealed, Go, proc
  <1>1. IsRoot(Here) /\ Able(Here) /\ Credits \in Nat \ {0} /\ Fits("save sealed", Here, step)
    BY <1>0, HereAble DEF RootsAble, AtAble
  <1>2. /\ d.saved = {Saved} /\ d.exposures = Here.exposures /\ d.sealed = Here.sealed
        /\ d.manifest = Here.manifest /\ d.receipt = Here.receipt
        /\ d.prepared = Here.prepared /\ d.result = Here.result
    BY <1>1 DEF IsRoot
  <1> HIDE DEF d
  <1>3. /\ step = Credits + 1 /\ Here.exposures = Credits
        /\ Here.prepared = {} /\ Here.result = {} /\ Here.manifest = {}
    BY <1>1 DEF Fits, Replaying, Compacting, Sealing
  <1>4. Able(d)
    <2>1. \A s \in d.saved : s.step = step
      BY <1>2 DEF Saved
    <2>2. step \in 0 .. Credits + 1 /\ step <= d.exposures + 1 /\ d.exposures \in 0 .. Credits
      BY <1>2, <1>3, CreditsFit
    <2>3. \A s \in d.saved : s.step \in 0 .. Credits + 1 /\ s.step <= d.exposures + 1
      BY <2>1, <2>2
    <2> QED
      BY <1>1, <1>2, <1>3, <2>2, <2>3 DEF Able
  <1>5. Fits(pc', d, step)
    BY <1>0, <1>1, <1>2, <1>3 DEF Fits, Replaying, Compacting, Sealing
  <1> QED
    BY <1>0, <1>4, <1>5, PutsAble DEF RootsAble

LEMMA WriteManifestAble ==
  ASSUME IInv, RootsAble, WriteManifest
  PROVE  RootsAble'
  <1>1. IsRoot(Here) /\ Able(Here) /\ Credits \in Nat \ {0} /\ Fits("manifest", Here, step)
    BY HereAble DEF RootsAble, AtAble, WriteManifest
  <1>2. PICK cost \in Costs : Put([Here EXCEPT !.manifest = {[cost |-> cost, host |-> host]}])
    BY DEF WriteManifest
  <1> DEFINE m == {[cost |-> cost, host |-> host]}
             d == [Here EXCEPT !.manifest = m]
  <1>3. Put(d) /\ m # {}
    BY <1>2
  <1> HIDE DEF m
  <1>4. /\ d.saved = Here.saved /\ d.exposures = Here.exposures /\ d.sealed = Here.sealed
        /\ d.manifest = m /\ d.receipt = Here.receipt
        /\ d.prepared = Here.prepared /\ d.result = Here.result
    BY <1>1 DEF IsRoot
  <1> HIDE DEF d
  <1>5. UNCHANGED <<stage, at, step>> /\ pc' = "compact"
    BY DEF WriteManifest, Go, proc
  <1>6. Here.saved # {} /\ Here.prepared = {} /\ Here.result = {} /\ Here.manifest = {}
        /\ Here.sealed = {"predictions", "exposures"}
    BY <1>1 DEF Fits, Able, Replaying, Compacting, Sealing
  <1>7. Able(d)
    BY <1>1, <1>3, <1>4, <1>6 DEF Able
  <1>8. Fits("compact", d, step)
    BY <1>4, <1>6 DEF Fits, Replaying, Compacting, Sealing
  <1> QED
    BY <1>3, <1>5, <1>7, <1>8, PutsAble DEF RootsAble

LEMMA WriteReceiptAble ==
  ASSUME IInv, RootsAble, WriteReceipt
  PROVE  RootsAble'
  <1> DEFINE yes == TRUE
             d == [Here EXCEPT !.receipt = yes]
  <1>0. Put(d) /\ UNCHANGED <<stage, at, step>> /\ pc = "compact" /\ pc' = "prune checkpoints"
    BY DEF WriteReceipt, Go, proc
  <1>1. IsRoot(Here) /\ Able(Here) /\ Credits \in Nat \ {0} /\ Fits("compact", Here, step)
    BY <1>0, HereAble DEF RootsAble, AtAble
  <1>2. Here.manifest # {} /\ Here.prepared = {} /\ Here.result = {} /\ "predictions" \in Here.sealed
    BY <1>0, <1>1 DEF IInv, AtCandidate, Fits, Replaying, Compacting, WriteReceipt
  <1> HIDE DEF yes
  <1>a. /\ d.saved = Here.saved /\ d.exposures = Here.exposures /\ d.sealed = Here.sealed
        /\ d.manifest = Here.manifest /\ d.receipt = yes
        /\ d.prepared = Here.prepared /\ d.result = Here.result
    BY <1>1 DEF IsRoot
  <1> HIDE DEF d
  <1>3. /\ d.saved = Here.saved /\ d.exposures = Here.exposures /\ d.sealed = Here.sealed
        /\ d.manifest = Here.manifest /\ d.receipt
        /\ d.prepared = Here.prepared /\ d.result = Here.result
    BY <1>a DEF yes
  <1>4. Able(d)
    BY <1>1, <1>2, <1>3 DEF Able
  <1>5. Fits("prune checkpoints", d, step)
    BY <1>2, <1>3 DEF Fits, Replaying, Compacting, Sealing
  <1> QED
    BY <1>0, <1>4, <1>5, PutsAble DEF RootsAble

LEMMA PruneCheckpointsAble ==
  ASSUME IInv, RootsAble, PruneCheckpoints
  PROVE  RootsAble'
  <1> DEFINE d == [Here EXCEPT !.dirs = @ \ {"checkpoints"}, !.saved = {}]
  <1>0. Put(d) /\ UNCHANGED <<stage, at, step>> /\ pc = "prune checkpoints" /\ pc' = "prune exposures"
    BY DEF PruneCheckpoints, Go, proc
  <1>1. IsRoot(Here) /\ Able(Here) /\ Credits \in Nat \ {0} /\ Fits("prune checkpoints", Here, step)
    BY <1>0, HereAble DEF RootsAble, AtAble
  <1>2. Here.manifest # {} /\ Here.prepared = {} /\ Here.result = {} /\ Here.receipt
    BY <1>0, <1>1 DEF IInv, AtCandidate, Fits, Replaying, Compacting
  <1>3. /\ d.saved = {} /\ d.exposures = Here.exposures /\ d.sealed = Here.sealed
        /\ d.manifest = Here.manifest /\ d.receipt = Here.receipt
        /\ d.prepared = Here.prepared /\ d.result = Here.result
    BY <1>1 DEF IsRoot
  <1> HIDE DEF d
  <1>4. Able(d)
    BY <1>1, <1>2, <1>3 DEF Able
  <1>5. Fits("prune exposures", d, step)
    BY <1>2, <1>3 DEF Fits, Replaying, Compacting, Sealing
  <1> QED
    BY <1>0, <1>4, <1>5, PutsAble DEF RootsAble

LEMMA PruneExposuresAble ==
  ASSUME IInv, RootsAble, PruneExposures
  PROVE  RootsAble'
  <1> DEFINE d == [Here EXCEPT !.dirs = @ \ {"exposures"}, !.exposures = 0,
                                !.sealed = @ \ {"exposures"}]
  <1>0. Put(d) /\ UNCHANGED <<stage, at, step>> /\ pc = "prune exposures" /\ pc' = "receipt"
    BY DEF PruneExposures, Go, proc
  <1>1. IsRoot(Here) /\ Able(Here) /\ Credits \in Nat \ {0} /\ Fits("prune exposures", Here, step)
    BY <1>0, HereAble DEF RootsAble, AtAble
  <1>2. Here.manifest # {} /\ Here.prepared = {} /\ Here.result = {} /\ Here.receipt
    BY <1>0, <1>1 DEF IInv, AtCandidate, Fits, Replaying, Compacting
  <1>3. /\ d.saved = Here.saved /\ d.exposures = 0 /\ d.sealed = Here.sealed \ {"exposures"}
        /\ d.manifest = Here.manifest /\ d.receipt = Here.receipt
        /\ d.prepared = Here.prepared /\ d.result = Here.result
    BY <1>1 DEF IsRoot
  <1> HIDE DEF d
  <1>4. Able(d)
    <2>0. 0 \in 0 .. Credits
      BY CreditsFit
    <2>1. d.exposures \in 0 .. Credits
      BY <1>3, <2>0
    <2>2. d.sealed \subseteq {"predictions", "exposures"} /\ "predictions" \in d.sealed
      BY <1>1, <1>2, <1>3 DEF Able
    <2> QED
      BY <1>1, <1>2, <1>3, <2>1, <2>2 DEF Able
  <1>5. Fits("receipt", d, step)
    BY <1>2, <1>3 DEF Fits, Replaying, Compacting, Sealing
  <1> QED
    BY <1>0, <1>4, <1>5, PutsAble DEF RootsAble
LEMMA AfterPreparing ==
  ASSUME AfterPrepare(at)
  PROVE  stage' = stage /\ step' = step /\ pc' \in Passing
  BY DEF AfterPrepare, Passing

LEMMA PrepareInvalidAble ==
  ASSUME IInv, RootsAble, PrepareInvalid
  PROVE  RootsAble'
  <1> DEFINE d == [Here EXCEPT !.prepared = {"protocol_invalid"}]
  <1>0. Put(d) /\ stage' = stage /\ pc' \in Passing
    BY AfterPreparing DEF PrepareInvalid
  <1>1. IsRoot(Here) /\ Able(Here) /\ Here.manifest = {}
    BY HereAble DEF RootsAble, AtAble, Fits, PrepareInvalid, Replaying
  <1>2. /\ d.saved = Here.saved /\ d.exposures = Here.exposures /\ d.sealed = Here.sealed
        /\ d.manifest = Here.manifest /\ d.receipt = Here.receipt
        /\ d.prepared = {"protocol_invalid"} /\ d.result = Here.result
    BY <1>1 DEF IsRoot
  <1> HIDE DEF d
  <1>3. Able(d)
    BY <1>1, <1>2 DEF Able
  <1> QED
    BY <1>0, <1>3, PutsAble DEF RootsAble

LEMMA WritePreparedAble ==
  ASSUME IInv, RootsAble, WritePrepared
  PROVE  RootsAble'
  <1> DEFINE d == [Here EXCEPT !.prepared = {"complete"}]
  <1>0. Put(d) /\ stage' = stage /\ pc' \in Passing
    BY AfterPreparing DEF WritePrepared
  <1>1. IsRoot(Here) /\ Able(Here) /\ Here.manifest # {} /\ Here.receipt
    BY HereAble DEF RootsAble, WritePrepared, IInv, AtCandidate, Compacting
  <1>2. /\ d.saved = Here.saved /\ d.exposures = Here.exposures /\ d.sealed = Here.sealed
        /\ d.manifest = Here.manifest /\ d.receipt = Here.receipt
        /\ d.prepared = {"complete"} /\ d.result = Here.result
    BY <1>1 DEF IsRoot
  <1> HIDE DEF d
  <1>3. Able(d)
    BY <1>1, <1>2 DEF Able
  <1> QED
    BY <1>0, <1>3, PutsAble DEF RootsAble

LEMMA EvaluateAble ==
  ASSUME IInv, RootsAble, Evaluate
  PROVE  RootsAble'
  <1> DEFINE d == [Here EXCEPT !.evaluated = TRUE]
  <1>0. /\ Put(d) /\ UNCHANGED <<stage, at, step>> /\ pc' = "result"
        /\ Here.prepared = {"complete"}
    BY DEF Evaluate, Go, proc
  <1>1. IsRoot(Here) /\ Able(Here)
    BY HereAble DEF RootsAble
  <1>2. /\ d.saved = Here.saved /\ d.exposures = Here.exposures /\ d.sealed = Here.sealed
        /\ d.manifest = Here.manifest /\ d.receipt = Here.receipt
        /\ d.prepared = Here.prepared /\ d.result = Here.result
    BY <1>1 DEF IsRoot
  <1> HIDE DEF d
  <1>3. Able(d)
    BY <1>1, <1>2 DEF Able
  <1>4. Fits("result", d, step)
    BY <1>0, <1>2 DEF Fits, Replaying, Compacting, Sealing
  <1> QED
    BY <1>0, <1>3, <1>4, PutsAble DEF RootsAble

LEMMA WriteResultAble ==
  ASSUME IInv, RootsAble, WriteResult
  PROVE  RootsAble'
  <1>0. stage' = stage /\ pc' \in Passing
    BY DEF WriteResult, Go, proc, Passing
  <1>1. PICK r \in {Completed, Failed} : Put([Here EXCEPT !.result = {r}])
    BY DEF WriteResult
  <1> DEFINE d == [Here EXCEPT !.result = {r}]
  <1>2. IsRoot(Here) /\ Able(Here) /\ Put(d)
    BY <1>1, HereAble DEF RootsAble
  <1>3. /\ d.saved = Here.saved /\ d.exposures = Here.exposures /\ d.sealed = Here.sealed
        /\ d.manifest = Here.manifest /\ d.receipt = Here.receipt
        /\ d.prepared = Here.prepared /\ d.result = {r}
    BY <1>2 DEF IsRoot
  <1> HIDE DEF d
  <1>4. Able(d)
    BY <1>2, <1>3 DEF Able
  <1> QED
    BY <1>0, <1>2, <1>4, PutsAble DEF RootsAble

LEMMA PrunePredictionsAble ==
  ASSUME IInv, RootsAble, PrunePredictions
  PROVE  RootsAble'
  <1> DEFINE d == [Here EXCEPT !.dirs = @ \ {"predictions"}, !.sealed = @ \ {"predictions"}]
  <1>0. Put(d) /\ stage' = stage /\ pc' \in Passing
    BY DEF PrunePredictions, Passing
  <1>1. IsRoot(Here) /\ Able(Here) /\ Here.result # {} /\ Here.prepared # {}
    BY HereAble, Known DEF RootsAble, PrunePredictions, IInv, AtCandidate
  <1>2. Here.manifest # {} => Here.receipt
    BY <1>1 DEF Able
  <1>3. /\ d.saved = Here.saved /\ d.exposures = Here.exposures
        /\ d.sealed = Here.sealed \ {"predictions"}
        /\ d.manifest = Here.manifest /\ d.receipt = Here.receipt
        /\ d.prepared = Here.prepared /\ d.result = Here.result
    BY <1>1 DEF IsRoot
  <1> HIDE DEF d
  <1>4. Able(d)
    BY <1>1, <1>2, <1>3 DEF Able
  <1> QED
    BY <1>0, <1>4, PutsAble DEF RootsAble
LEMMA CandidateStepAble ==
  ASSUME IInv, RootsAble, CandidateStep
  PROVE  RootsAble'
  <1>1. CASE ReusePrepared
    BY <1>1, AfterPreparing, StaysAble DEF ReusePrepared, RootsAble
  <1>2. CASE RefuseRoot \/ RefuseHost \/ RefuseStray \/ LoadResult
    <2>1. UNCHANGED root /\ pc' \in Passing
      BY <1>2 DEF RefuseRoot, RefuseHost, RefuseStray, LoadResult, Refuse, Go, Passing, Elsewhere
    <2> QED
      BY <2>1, StaysAble DEF RootsAble
  <1>3. CASE ReuseManifest
    <2>1. /\ UNCHANGED <<root, stage, at, step>> /\ pc' = "compact"
          /\ Here.prepared = {} /\ Here.result = {}
      BY <1>3, Known DEF ReuseManifest, Go, proc
    <2>2. Fits("compact", Here, step)
      BY <2>1 DEF Fits, Replaying, Compacting, Sealing
    <2> QED
      BY <2>1, <2>2, StaysAble DEF RootsAble
  <1>4. CASE ReuseReceipt
    <2>1. /\ UNCHANGED <<root, stage, at, step>> /\ pc = "compact" /\ pc' = "prune checkpoints"
      BY <1>4 DEF ReuseReceipt, Go, proc
    <2>2. Fits("prune checkpoints", Here, step)
      BY <2>1 DEF RootsAble, AtAble, Fits, Replaying, Compacting, Sealing
    <2> QED
      BY <2>1, <2>2, StaysAble DEF RootsAble
  <1> QED
    BY <1>1, <1>2, <1>3, <1>4, OpenFreshAble, ResumeAble, TrainAble, SaveAble, SealPredictionsAble,
       SealExposuresAble, SaveSealedAble, WriteManifestAble, WriteReceiptAble,
       PruneCheckpointsAble, PruneExposuresAble, PrepareInvalidAble, WritePreparedAble,
       EvaluateAble, WriteResultAble, PrunePredictionsAble
    DEF CandidateStep

(* The other steps write no candidate and go to places that ask nothing of  *)
(* one.                                                                     *)
LEMMA RootsAbleKept ==
  ASSUME IInv, RootsAble, [Next]_vars
  PROVE  RootsAble'
  <1>1. CASE CandidateStep
    BY <1>1, CandidateStepAble
  <1>2. CASE ReusePublished \/ RefusePair \/ Start \/ FreezePlan \/ RefusePlan \/ RefuseStage
             \/ PublishResults \/ PublishManifest
    <2>1. UNCHANGED root /\ pc' \in Passing
      BY <1>2 DEF ReusePublished, RefusePair, Start, FreezePlan, RefusePlan, RefuseStage,
                  PublishResults, PublishManifest, Go, Refuse, Passing, Elsewhere
    <2> QED
      BY <2>1, StaysAble DEF RootsAble
  <1>3. CASE ReuseResults \/ PrepareStage \/ StoreResults \/ Choose \/ Launch \/ Crash
    <2>1. UNCHANGED root /\ pc' \in Passing
      BY <1>3 DEF ReuseResults, PrepareStage, StoreResults, Choose, Launch, Crash, Go, Passing,
                  Elsewhere
    <2> QED
      BY <2>1, StaysAble DEF RootsAble
  <1>4. CASE MoveHost \/ Measure \/ Bind \/ Lock \/ Accept \/ UNCHANGED vars
    <2>1. UNCHANGED <<root, pc, stage, at, step>>
      BY <1>4 DEF MoveHost, Measure, Bind, Lock, Accept, vars, candidateVars, proc
    <2>2. Fits(pc', Here, step')
      BY <2>1 DEF RootsAble, AtAble
    <2> QED
      BY <2>1, <2>2, StaysAble DEF RootsAble
  <1> QED
    BY <1>1, <1>2, <1>3, <1>4 DEF Next, GraphStep

LEMMA AnnouncedKept ==
  ASSUME MatrixInv, Announced, [Next]_vars
  PROVE  Announced'
  <1>1. CASE PublishResults
    <2>1. results = {} /\ manifest' = manifest
      BY <1>1 DEF PublishResults, MatrixInv, AtMatrix
    <2>2. {Decisions(m) : m \in results} = {}
      BY <2>1
    <2> QED
      BY <2>1, <2>2 DEF Announced
  <1>2. CASE PublishManifest
    <2>1. manifest' = {Decisions(m) : m \in results} /\ results' = results
      BY <1>2 DEF PublishManifest
    <2> QED
      BY <2>1 DEF Announced, Decisions
  <1>3. CASE ~PublishResults /\ ~PublishManifest
    <2>1. UNCHANGED <<results, manifest>>
      <3>1. CASE CandidateStep /\ UNCHANGED <<graphVars, lockVars>>
        BY <3>1 DEF graphVars
      <3>2. CASE ReusePublished \/ RefusePair \/ Start \/ FreezePlan \/ RefusePlan \/ RefuseStage
                 \/ ReuseResults \/ PrepareStage \/ StoreResults \/ Choose
        BY <3>2 DEF ReusePublished, RefusePair, Start, FreezePlan, RefusePlan, RefuseStage,
                    ReuseResults, PrepareStage, StoreResults, Choose, graphVars
      <3>3. CASE Launch \/ Crash \/ MoveHost \/ Measure \/ Bind \/ Lock \/ Accept \/ UNCHANGED vars
        BY <3>3 DEF Launch, Crash, MoveHost, Measure, Bind, Lock, Accept, graphVars, vars
      <3> QED
        BY <1>3, <3>1, <3>2, <3>3 DEF Next, GraphStep
    <2> QED
      BY <2>1 DEF Announced, Decisions
  <1> QED
    BY <1>1, <1>2, <1>3

LEMMA AtBudgetKept ==
  ASSUME AtBudget, [Next]_vars
  PROVE  AtBudget'
  <1>1. CASE GraphStep
    <2>1. ~Down
      BY <1>1 DEF GraphStep, CandidateStep, ReusePublished, RefusePair, Start, FreezePlan,
                  RefusePlan, ReuseResults, PrepareStage, StoreResults, Choose, RefuseStage,
                  PublishResults, PublishManifest, ReusePrepared, ReuseManifest, OpenFresh,
                  RefuseRoot, RefuseHost, RefuseStray, Resume, Train, PrepareInvalid, Save,
                  SealPredictions, SealExposures, SaveSealed, WriteManifest, WriteReceipt,
                  ReuseReceipt, PruneCheckpoints, PruneExposures, WritePrepared, LoadResult,
                  Evaluate, WriteResult, PrunePredictions, Replays, Down
    <2>2. UNCHANGED <<budget, bound>>
      <3>1. CASE CandidateStep /\ UNCHANGED <<graphVars, lockVars>>
        BY <3>1 DEF CandidateStep, ReusePrepared, ReuseManifest, OpenFresh, RefuseRoot, RefuseHost,
                    RefuseStray, Resume, Train, PrepareInvalid, Save, SealPredictions,
                    SealExposures, SaveSealed, WriteManifest, WriteReceipt, ReuseReceipt,
                    PruneCheckpoints, PruneExposures, WritePrepared, LoadResult, Evaluate,
                    WriteResult, PrunePredictions, AfterPrepare, Go, Refuse, proc, lockVars
      <3>2. CASE ReusePublished \/ RefusePair \/ Start \/ FreezePlan \/ RefusePlan \/ RefuseStage
                 \/ ReuseResults \/ PrepareStage \/ StoreResults \/ Choose \/ PublishResults
                 \/ PublishManifest
        BY <3>2 DEF ReusePublished, RefusePair, Start, FreezePlan, RefusePlan, RefuseStage,
                    ReuseResults, PrepareStage, StoreResults, Choose, PublishResults,
                    PublishManifest, Go, Refuse, proc, lockVars
      <3> QED
        BY <1>1, <3>1, <3>2 DEF GraphStep
    <2> QED
      BY <2>1, <2>2 DEF AtBudget
  <1>2. CASE Launch
    <2>1. (\E f \in bound : budget' = f.budget) /\ bound' = bound
      BY <1>2 DEF Launch, lockVars
    <2> QED
      BY <2>1 DEF AtBudget
  <1>3. CASE Crash \/ MoveHost \/ Measure \/ Bind \/ Lock \/ Accept
    <2>1. Down'
      BY <1>3 DEF Crash, MoveHost, Measure, Bind, Lock, Accept, Down, candidateVars
    <2> QED
      BY <2>1 DEF AtBudget
  <1>4. CASE UNCHANGED vars
    BY <1>4 DEF vars, candidateVars, proc, lockVars, AtBudget, Down
  <1> QED
    BY <1>1, <1>2, <1>3, <1>4 DEF Next

LEMMA GoesInvInitially == Init => GoesInv
  <1> SUFFICES ASSUME Init PROVE GoesInv
    OBVIOUS
  <1>1. Announced
    BY DEF Init, Announced
  <1>2. AtBudget
    BY DEF Init, CandidateInit, AtBudget, Down
  <1> QED
    BY <1>1, <1>2, AbleInitially, MatrixInvInitially DEF GoesInv

LEMMA GoesInvKept == GoesInv /\ [Next]_vars => GoesInv'
  BY MatrixInvKept, RootsAbleKept, AnnouncedKept, AtBudgetKept DEF GoesInv, MatrixInv, LockInv
(* At every place of a launch the guards of one of its steps hold and what  *)
(* the step reads is there.                                                 *)
Proceeds ==
  /\ pc \in Elsewhere \cup InStage
  /\ pc = "open" => results = {} \/ manifest = {} \/ manifest = {Decisions(m) : m \in results}
  /\ pc = "choose" => stored[stage] # {}
  /\ pc = "publish" => \A s \in Stages : stored[s] # {}
  /\ pc = "prepare" =>
       \/ Here.prepared = {"complete"} /\ Here.manifest # {} /\ Here.receipt
            /\ (Here.result = {} => "predictions" \in Here.sealed)
       \/ Here.prepared = {"protocol_invalid"}
       \/ Here.prepared = {} /\ \A s \in Here.saved : Here.manifest = {} =>
                                                         s.step <= Here.exposures + 1
  /\ pc = "seal exposures" => Here.exposures = Credits
  /\ pc = "compact" =>
       \/ Here.receipt
       \/ Here.sealed = {"predictions", "exposures"} /\ Here.saved # {}
  /\ pc = "score" /\ ~Scored =>
       \/ Here.prepared = {"complete"} /\ "predictions" \in Here.sealed
       \/ Here.prepared = {"protocol_invalid"}
  /\ pc = "result" => Here.manifest # {} /\ Fate.valid
  /\ pc = "store" => \A c \in 1 .. Width[stage] : root[stage][c].result # {}

LEMMA PlacesKept ==
  ASSUME pc \in Elsewhere \cup InStage, [Next]_vars
  PROVE  pc' \in Elsewhere \cup InStage
  <1>1. Elsewhere \cup InStage = Elsewhere \cup {"results", "choose", "prepare"} \cup Replaying \cup Compacting
                   \cup Scoring
    BY DEF InStage, Preparing
  <1>2. CASE CandidateStep
    <2>1. pc' \in {"refused", "prepare", "score", "store"} \cup Replaying \cup Compacting \cup Scoring
      BY <1>2 DEF CandidateStep, ReusePrepared, ReuseManifest, OpenFresh, RefuseRoot, RefuseHost,
                  RefuseStray, Resume, Train, PrepareInvalid, Save, SealPredictions, SealExposures,
                  SaveSealed, WriteManifest, WriteReceipt, ReuseReceipt, PruneCheckpoints,
                  PruneExposures, WritePrepared, LoadResult, Evaluate, WriteResult,
                  PrunePredictions, AfterPrepare, Go, Refuse, Replaying, Compacting, Scoring
    <2> QED
      BY <1>1, <2>1 DEF Elsewhere, Scoring
  <1>3. CASE ReusePublished \/ RefusePair \/ Start \/ FreezePlan \/ RefusePlan \/ RefuseStage
             \/ ReuseResults \/ PrepareStage \/ StoreResults \/ Choose \/ PublishResults
             \/ PublishManifest \/ Launch \/ Crash
    BY <1>1, <1>3 DEF ReusePublished, RefusePair, Start, FreezePlan, RefusePlan, RefuseStage,
                ReuseResults, PrepareStage, StoreResults, Choose, PublishResults,
                PublishManifest, Launch, Crash, Go, Refuse, Elsewhere
  <1>4. CASE MoveHost \/ Measure \/ Bind \/ Lock \/ Accept \/ UNCHANGED vars
    BY <1>4 DEF MoveHost, Measure, Bind, Lock, Accept, vars, candidateVars
  <1> QED
    BY <1>2, <1>3, <1>4 DEF Next, GraphStep

LEMMA GoesInvProceeds == GoesInv /\ pc \in Elsewhere \cup InStage => Proceeds
  <1> SUFFICES ASSUME GoesInv, pc \in Elsewhere \cup InStage PROVE Proceeds
    OBVIOUS
  <1>1. /\ IInv /\ FatesCorrect /\ AtGraph /\ AllAble /\ Announced /\ Fits(pc, Here, step)
    BY DEF GoesInv, MatrixInv, LockInv, DecisionsCorrect, RootsAble, AtAble
  <1>2. Able(Here)
    BY <1>1, HereAble
  <1>3. pc = "open" => results = {} \/ manifest = {} \/ manifest = {Decisions(m) : m \in results}
    BY <1>1 DEF Announced
  <1>4. pc = "choose" => stored[stage] # {}
    BY <1>1 DEF IInv, AtStage
  <1>5. pc = "publish" => \A s \in Stages : stored[s] # {}
    BY <1>1, Sizes DEF AtGraph, Won
  <1>6. pc = "prepare" =>
          \/ Here.prepared = {"complete"} /\ Here.manifest # {} /\ Here.receipt
               /\ (Here.result = {} => "predictions" \in Here.sealed)
          \/ Here.prepared = {"protocol_invalid"}
          \/ Here.prepared = {} /\ \A s \in Here.saved : Here.manifest = {} =>
                                                           s.step <= Here.exposures + 1
    BY <1>2 DEF Able
  <1>7. pc = "seal exposures" => Here.exposures = Credits
    BY <1>1 DEF Fits, Sealing
  <1>8. pc = "compact" =>
          \/ Here.receipt
          \/ Here.sealed = {"predictions", "exposures"} /\ Here.saved # {}
    BY <1>1, <1>2 DEF IInv, AtCandidate, Able, Compacting
  <1>9. Here.prepared = {"complete"} => Here.manifest # {} /\ Here.receipt /\ Fate.valid
    BY <1>1, <1>2, FateKnown DEF Able, Fated
  <1>10. pc = "score" /\ ~Scored =>
          \/ Here.prepared = {"complete"} /\ "predictions" \in Here.sealed
          \/ Here.prepared = {"protocol_invalid"}
    <2>1. pc = "score" => Here.prepared # {}
      BY <1>1, Known DEF IInv, AtStage, Scoring, Here
    <2> QED
      BY <1>2, <1>9, <2>1 DEF Able, Scored
  <1>11. pc = "result" => Here.manifest # {} /\ Fate.valid
    BY <1>1, <1>9 DEF Fits
  <1>12. pc = "store" => \A c \in 1 .. Width[stage] : root[stage][c].result # {}
    <2>1. pc = "store" => /\ at = Width[stage] /\ Here.result # {}
                          /\ \A c \in 1 .. at - 1 : root[stage][c].result # {}
      BY <1>1 DEF IInv, AtStage, FatesCorrect, AtFate, Scoring
    <2>2. at \in 1 .. Width[stage] /\ Width[stage] \in Nat
      BY <1>1, Known, Sizes
    <2>3. \A c \in 1 .. Width[stage] : at = Width[stage] => c = at \/ c \in 1 .. at - 1
      BY <2>2
    <2> QED
      BY <2>1, <2>3 DEF Here
  <1> QED
    BY <1>3, <1>4, <1>5, <1>6, <1>7, <1>8, <1>10, <1>11, <1>12 DEF Proceeds

RefusedForReason == pc' = "refused" => pc = "refused" \/ Blocked

GoesOnInv == GoesInv /\ pc \in Elsewhere \cup InStage

LEMMA RefusesBlocked ==
  ASSUME GoesInv, Next, pc' = "refused", pc # "refused"
  PROVE  Blocked
  <1>0. /\ IInv /\ PlansTrue /\ AtGraph /\ Able(Here)
        /\ stage \in Stages /\ at \in 1 .. Width[stage]
    BY HereAble, Known DEF GoesInv, MatrixInv, LockInv, DecisionsCorrect, RootsAble
  <1>1. Here # EmptyRoot => Here \in Begun
    BY <1>0 DEF Begun, Here
  <1>2. CASE RefuseRoot
    <2>1. Here.saved = {} /\ Here.dirs # {} /\ Here.prepared = {} /\ Here.manifest = {}
      BY <1>2 DEF RefuseRoot, Replays
    <2>2. Here # EmptyRoot
      BY <2>1 DEF EmptyRoot
    <2> QED
      BY <1>1, <2>1, <2>2 DEF Blocked
  <1>3. CASE RefuseHost
    <2>1. (\E s \in Here.saved : s.host # host) /\ Here.prepared = {} /\ ~Here.receipt
      BY <1>0, <1>3
      DEF RefuseHost, Replays, Able, GoesInv, RootsAble, AtAble, Fits, Replaying, Compacting
    <2>2. Here # EmptyRoot
      BY <2>1 DEF EmptyRoot
    <2> QED
      BY <1>1, <2>1, <2>2 DEF Blocked
  <1>4. CASE RefusePair
    BY <1>4 DEF RefusePair, Blocked
  <1>5. CASE RefusePlan
    <2>1. ~(planned[stage] \subseteq {StagePlan}) /\ pc = "plan"
      BY <1>5 DEF RefusePlan
    <2>2. PICK b : planned[stage] = {[base |-> WinnersOf(stored, stage - 1), budget |-> b]}
      BY <1>0, <2>1 DEF PlansTrue
    <2>3. winners = WinnersOf(stored, stage - 1)
      BY <1>0, <2>1 DEF AtGraph
    <2>4. b # budget
      BY <2>1, <2>2, <2>3 DEF StagePlan
    <2>5. PICK f \in bound : f.budget = budget
      BY <2>1 DEF GoesInv, AtBudget, Down
    <2> DEFINE p == [base |-> winners, budget |-> b]
    <2>6. p \in planned[stage] /\ p.budget = b
      BY <2>2, <2>3
    <2> QED
      BY <1>0, <2>4, <2>5, <2>6 DEF Blocked
  <1>6. CASE RefuseStage
    <2>1. stored[stage] # {} /\ ~HasWinner(StageResults(stage))
      BY <1>0, <1>6 DEF RefuseStage, IInv, AtStage
    <2>2. StageResults(stage) \in stored[stage]
      BY <2>1 DEF StageResults
    <2> QED
      BY <1>0, <2>1, <2>2 DEF Blocked
  <1>7. ASSUME ~RefuseRoot, ~RefuseHost, ~RefuseStray, CandidateStep PROVE FALSE
    BY <1>7
    DEF CandidateStep, ReusePrepared, ReuseManifest, OpenFresh, Resume,
        Train, PrepareInvalid, Save, SealPredictions, SealExposures, SaveSealed, WriteManifest,
        WriteReceipt, ReuseReceipt, PruneCheckpoints, PruneExposures, WritePrepared, LoadResult,
        Evaluate, WriteResult, PrunePredictions, AfterPrepare, Go
  <1>8. CASE ReusePublished \/ Start \/ FreezePlan \/ ReuseResults \/ PrepareStage \/ StoreResults
             \/ Choose \/ PublishResults \/ PublishManifest \/ Launch \/ Crash
    BY <1>8 DEF ReusePublished, Start, FreezePlan, ReuseResults, PrepareStage, StoreResults,
                Choose, PublishResults, PublishManifest, Launch, Crash, Go
  <1>9. CASE MoveHost \/ Measure \/ Bind \/ Lock \/ Accept
    BY <1>9 DEF MoveHost, Measure, Bind, Lock, Accept, candidateVars
  <1>10. CASE RefuseStray
    BY <1>10 DEF RefuseStray, Strayed, Blocked
  <1> QED
    BY <1>2, <1>3, <1>4, <1>5, <1>6, <1>7, <1>8, <1>9, <1>10 DEF Next, GraphStep

(* A launch stops only where it is done or killed, and is refused for one   *)
(* of the six reasons of Blocked only (selection_executor.py,               *)
(* selection_dag.py, selection_coordinator.py): every check of a candidate, *)
(* a plan, the stored results or the published pair passes otherwise,       *)
(* however often the launches before died and wherever the operator moved   *)
(* in between.  It is the safety half of EventuallySettles.                 *)
THEOREM LaunchGoesOn == Spec => []Proceeds /\ [][RefusedForReason]_vars
<1>1. Init => GoesOnInv
  BY GoesInvInitially DEF Init, CandidateInit, Elsewhere, GoesOnInv
<1>2. GoesOnInv /\ [Next]_vars => GoesOnInv'
  BY GoesInvKept, PlacesKept DEF GoesOnInv
<1>3. GoesOnInv => Proceeds
  BY GoesInvProceeds DEF GoesOnInv
<1>4. GoesOnInv /\ [Next]_vars => [RefusedForReason]_vars
  BY RefusesBlocked DEF RefusedForReason, GoesOnInv
<1>5. Spec => []GoesOnInv
  BY <1>1, <1>2, PTL DEF Spec
<1>6. Spec => []Proceeds
  BY <1>5, <1>3, PTL
<1>7. Spec => [][RefusedForReason]_vars
  BY <1>5, <1>4, PTL DEF Spec
<1> QED
  BY <1>6, <1>7, PTL
=============================================================================
