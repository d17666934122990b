------------------------------- MODULE MRJob -------------------------------
(***************************************************************************)
(* What the MapReduce master promises: the reduce stage opens only after   *)
(* every map task was complete at one instant, the job is declared done    *)
(* only after every reduce task was, and neither step is ever taken back.  *)
(* Within a stage a complete task may be reopened, because a stale copy of *)
(* it may still be waiting in the task channel.                            *)
(***************************************************************************)
EXTENDS Naturals

CONSTANTS NMap,     \* number of input files, one map task for each
          NReduce   \* number of reduce tasks

VARIABLES stage,      \* "map", "reduce" or "done"
          completed   \* the tasks of the stage that are complete

jobVars == <<stage, completed>>

StageTasks(s) == IF s = "map" THEN 0 .. (NMap - 1) ELSE 0 .. (NReduce - 1)

JobInit == stage = "map" /\ completed = {}

Complete(t) == /\ stage # "done"
               /\ completed' = completed \cup {t}
               /\ UNCHANGED stage

Reopen(t) == /\ stage # "done"
             /\ completed' = completed \ {t}
             /\ UNCHANGED stage

StartReduce == /\ stage = "map"
               /\ completed = StageTasks("map")
               /\ stage' = "reduce"
               /\ completed' = {}

Finish == /\ stage = "reduce"
          /\ completed = StageTasks("reduce")
          /\ stage' = "done"
          /\ UNCHANGED completed

JobNext == \/ \E t \in StageTasks(stage) : Complete(t) \/ Reopen(t)
           \/ StartReduce
           \/ Finish

JobSpec == JobInit /\ [][JobNext]_jobVars
=============================================================================
