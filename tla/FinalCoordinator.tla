-------------------------- MODULE FinalCoordinator --------------------------
(***************************************************************************)
(* The `final run` command: run_production_final                           *)
(* (production_final_runner.py) verifies the lock, runs or verifies every  *)
(* online run in frozen order (final_coordinator.py), then the offline     *)
(* references, and binds both manifests in one.                            *)
(***************************************************************************)
EXTENDS OfflineReferences

VARIABLES
  online,  \* the online coordinator's files: plan, state and manifest
  final    \* final-manifest.json: the matrix it binds

finalVars == <<online, final>>

FinalInit ==
  /\ online = [planned |-> FALSE, recorded |-> <<>>, complete |-> FALSE, matrix |-> {}]
  /\ final = {}

\* the runner compares code, environment, data and configuration with the lock
Launch ==
  /\ Down
  /\ host \in Locked
  /\ pc' = "online" /\ at' = 1 /\ why' = ""
  /\ UNCHANGED <<root, day, weights, due, env, refVars, finalVars>>

RefuseLock ==
  /\ Down
  /\ host \notin Locked
  /\ Refuse("lock")
  /\ UNCHANGED <<root, env, refVars, finalVars>>

\* the plan is written once and compared at every later launch
PlanOnline ==
  /\ pc = "online"
  /\ online' = [online EXCEPT !.planned = TRUE]
  /\ Go(IF Online = 0 THEN "matrix" ELSE "execute")
  /\ UNCHANGED <<root, env, refVars, final>>

\* evidence of a run recorded earlier must not have changed; that of a new
\* one is appended to the state file
Record(i) ==
  /\ pc = "record" /\ at = i
  /\ IF i <= Len(online.recorded)
     THEN online.recorded[i] = Evidence(i) /\ UNCHANGED online
     ELSE online' = [online EXCEPT !.recorded = Append(@, Evidence(i))]
  /\ at' = i + 1 /\ day' = 1 /\ weights' = Untrained
  /\ pc' = IF i = Online THEN "matrix" ELSE "execute"
  /\ UNCHANGED <<root, due, why, env, refVars, final>>

PublishOnline ==
  /\ pc = "matrix"
  /\ online.matrix \subseteq {online.recorded}
  /\ online' = [online EXCEPT !.matrix = {online.recorded}]
  /\ Go("close online")
  /\ UNCHANGED <<root, env, refVars, final>>

CompleteOnline ==
  /\ pc = "close online"
  /\ online' = [online EXCEPT !.complete = TRUE]
  /\ Go("offline")
  /\ UNCHANGED <<root, env, refVars, final>>

\* the combined manifest binds the two manifests, which are not read again
Combine ==
  /\ pc = "combine"
  /\ final' = {m \o n : m \in online.matrix, n \in list.matrix}
  /\ final \subseteq final'
  /\ pc' = "off" /\ at' = 1
  /\ UNCHANGED <<root, day, weights, due, why, env, refVars, online>>

FinalStep ==
  \/ PlanOnline \/ PublishOnline \/ CompleteOnline \/ Combine
  \/ \E i \in Runs : Record(i)
  \/ RunStep /\ UNCHANGED <<refVars, finalVars>>
  \/ RefStep /\ UNCHANGED finalVars
=============================================================================
