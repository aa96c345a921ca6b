------------------------- MODULE CheckpointRegister -------------------------
(***************************************************************************)
(* What a rolling checkpoint store promises to the run that uses it.       *)
(*                                                                         *)
(* The store is one durable register.  A run holds its progress in memory; *)
(* saving makes the next progress durable at one instant; a crash loses    *)
(* the memory and nothing else; recovering reads back exactly the value    *)
(* made durable last.  No directory, pointer or cleanup appears here.      *)
(***************************************************************************)
EXTENDS Naturals

VARIABLES
  durable,  \* progress a crash cannot lose; 0 when nothing was saved
  memory,   \* progress of the running process
  alive     \* is a process running?

registerVars == <<durable, memory, alive>>

Init ==
  /\ durable = 0
  /\ memory = 0
  /\ alive = TRUE

\* The run has produced the next progress and it becomes durable.
Save ==
  /\ alive
  /\ durable' = memory + 1
  /\ UNCHANGED <<memory, alive>>

\* The write returned: the run goes on from what it saved.
Return ==
  /\ alive
  /\ memory' = durable
  /\ UNCHANGED <<durable, alive>>

Crash ==
  /\ alive
  /\ alive' = FALSE
  /\ UNCHANGED <<durable, memory>>

Recover ==
  /\ ~alive
  /\ durable > 0
  /\ alive' = TRUE
  /\ memory' = durable
  /\ UNCHANGED durable

Next == Save \/ Return \/ Crash \/ Recover

Spec == Init /\ [][Next]_registerVars
=============================================================================
