------------------------------- MODULE Repair -------------------------------
(***************************************************************************)
(* What a run of the checker promises, without saying how.                 *)
(*                                                                         *)
(* Of the four conditions (1 directory pointers, 2 no unreferenced inodes, *)
(* 3 link counts, 4 block bitmap) good are the ones that hold.  A run      *)
(* establishes them in this order, and a condition established by a stage  *)
(* that has ended holds at the end of every later stage.  While a stage    *)
(* runs it may break the condition of the stage just before it for a       *)
(* moment, never more, and once the third stage runs nothing established   *)
(* is broken at all.  A run can be cut short at any time and started       *)
(* again; a partition on which all four hold is left alone.                *)
(***************************************************************************)
EXTENDS Naturals

VARIABLES
  stage,  \* stages of the run that have ended, 5 when no run is active
  good    \* the conditions that hold

repairVars == <<stage, good>>

Conditions == 1 .. 4

\* The conditions the steps of stage k + 1 must keep.
Kept(k) == IF k < 2 THEN {} ELSE 1 .. k

RepairInit == stage = 0 /\ good \in SUBSET Conditions

\* A step inside a stage.
Work ==
  /\ stage \in 0 .. 3
  /\ stage' = stage
  /\ good' \in SUBSET Conditions
  /\ good \cap Kept(stage) \subseteq good'
  /\ good = Conditions => good' = Conditions

\* The end of a stage establishes its condition besides those before it.
EndStage ==
  /\ stage \in 0 .. 3
  /\ stage' = stage + 1
  /\ good' = good
  /\ 1 .. stage + 1 \subseteq good

Stop == stage < 4 /\ stage' = 5 /\ good' = good

Again == stage \in {4, 5} /\ stage' = 0 /\ good' = good

RepairNext == Work \/ EndStage \/ Stop \/ Again

RepairSpec == RepairInit /\ [][RepairNext]_repairVars

\* A run that has begun ends, if only by being stopped.
RunEnds == stage = 0 ~> stage \in {4, 5}

=============================================================================
