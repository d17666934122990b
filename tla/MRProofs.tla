------------------------------ MODULE MRProofs ------------------------------
(***************************************************************************)
(* The MapReduce job, for every number of workers, map and reduce tasks.   *)
(* Part 1 is about the master alone, with or without slow workers and I/O  *)
(* faults: types, no queued task is lost, the scan of schedule() is sound, *)
(* the master implements MRJob.  Part 2 is about the master when no worker *)
(* is slow (Prompt) and no file operation fails (~IOFaults), whatever      *)
(* crashes: a copy of a task is in one place only and of the current       *)
(* phase, so the master never panics, never reopens a finished task and    *)
(* never blocks on its channel.  Part 3 adds the workers and their files:  *)
(* they are clients that the master allows, so parts 1 and 2 hold of the   *)
(* whole program; every input of a reduce task exists; and each output     *)
(* file is computed from all of the input.                                 *)
(***************************************************************************)
EXTENDS MRWorker, FiniteSetTheorems, TLAPS

(***************************  Part 1: the master  ***************************)

-----------------------------------------------------------------------------
(* The type invariant *)

LEMMA Sizes ==
  /\ NMap \in Nat /\ NMap > 0
  /\ NReduce \in Nat /\ NReduce > 0
  /\ MaxScheds \in Nat /\ MaxScheds > 0
  /\ ChanCap \in Nat /\ ChanCap > 0
  BY SizesAssumption, BoundAssumption
  DEF SizesAssumption, BoundAssumption, ChanCap

LEMMA FreshStatsType ==
  ASSUME NEW p \in Phases
  PROVE  FreshStats(p) \in [Ids(p) -> TaskStat]
  BY DEF FreshStats, TaskStat, Status

LEMMA InitTypeOK == Init => TypeOK
<1> SUFFICES ASSUME Init PROVE TypeOK
  OBVIOUS
<1>1. taskStats \in [Ids(taskPhase) -> TaskStat] /\ taskPhase \in Phases
  BY FreshStatsType DEF Init, Phases
<1>2. taskCh \in Seq(Task) /\ Len(taskCh) <= ChanCap
  BY Sizes DEF Init
<1>3. scheds \in 0 .. MaxScheds /\ workerSeq \in Nat
  BY Sizes DEF Init
<1> QED
  BY <1>1, <1>2, <1>3 DEF Init, TypeOK

(* a report leaves taskStats alone, or marks one task Finish or Err *)
LEMMA ReportEffect ==
  ASSUME NEW w, NEW ok, NEW last, Report(w, ok, last)
  PROVE  \/ taskStats' = taskStats
         \/ \E st \in {"Finish", "Err"} :
              taskStats' = [taskStats EXCEPT ![job[w].Seq].Status = st]
<1> DEFINE st == IF ok THEN "Finish" ELSE "Err"
<1>1. st \in {"Finish", "Err"}
  OBVIOUS
<1>2. \/ taskStats' = taskStats
      \/ taskStats' = [taskStats EXCEPT ![job[w].Seq].Status = st]
  BY DEF Report
<1> HIDE DEF st
<1> QED
  BY <1>1, <1>2

LEMMA NextTypeOK == TypeOK /\ [Next]_vars => TypeOK'
<1> SUFFICES ASSUME TypeOK, [Next]_vars PROVE TypeOK'
  OBVIOUS
<1> USE Sizes
<1>1. CASE Tick
  BY <1>1 DEF TypeOK, Tick, SpawnSchedule, workerVars
<1>2. CASE SchedBegin
  <2>1. scheds' \in 0 .. MaxScheds
    BY <1>2 DEF TypeOK, SchedBegin
  <2>2. cursor' \in {None} \cup Nat
    BY <1>2 DEF TypeOK, SchedBegin
  <2>3. allFinish' \in BOOLEAN
    BY <1>2, Zenon DEF TypeOK, SchedBegin
  <2> QED
    BY <1>2, <2>1, <2>2, <2>3 DEF TypeOK, SchedBegin, workerVars
<1>3. CASE SchedSkip
  BY <1>3 DEF TypeOK, SchedSkip, Scanning, Ids, workerVars
<1>4. CASE SchedSend
  <2>1. cursor \in Ids(taskPhase) /\ cursor \in Nat
    BY <1>4 DEF SchedSend, Scanning, Ids
  <2>2. TaskOf(cursor) \in Task
    BY <2>1 DEF TypeOK, TaskOf, Task, Phases
  <2>3. taskCh' \in Seq(Task) /\ Len(taskCh') <= ChanCap
    BY <1>4, <2>2 DEF TypeOK, SchedSend
  <2>4. taskStats' \in [Ids(taskPhase) -> TaskStat]
    BY <1>4, <2>1 DEF TypeOK, SchedSend, TaskStat, Status
  <2>5. cursor' \in {None} \cup Nat
    BY <1>4, <2>1 DEF SchedSend
  <2> QED
    BY <1>4, <2>3, <2>4, <2>5 DEF TypeOK, SchedSend, workerVars
<1>5. CASE SchedEnd
  BY <1>5, FreshStatsType DEF TypeOK, SchedEnd, Phases, workerVars
<1>6. ASSUME NEW i \in Ids(taskPhase), Expire(i) PROVE TypeOK'
  BY <1>6 DEF TypeOK, Expire, TaskStat, workerVars
<1>7. CASE Serve
  BY <1>7 DEF TypeOK, Serve, workerVars
<1>8. CASE Exit
  BY <1>8 DEF TypeOK, Exit, workerVars
<1>9. ASSUME NEW w \in Workers, WorkerStep(w) PROVE TypeOK'
  <2>1. CASE Register(w)
    BY <2>1 DEF TypeOK, Register
  <2>2. CASE ReqTask(w)
    BY <2>2 DEF TypeOK, ReqTask, masterVars
  <2>3. CASE ReqTaskFail(w)
    BY <2>3 DEF TypeOK, ReqTaskFail, masterVars
  <2>4. CASE Recv(w)
    BY <2>4 DEF TypeOK, Recv
  <2>5. CASE RegTask(w)
    <3>1. mstate' \in {"starting", "serving", "exited", "panicked"}
      BY <2>5 DEF TypeOK, RegTask
    <3>2. taskStats' \in [Ids(taskPhase) -> TaskStat]
      <4>1. [Status |-> "Running", WorkerId |-> id[w], Overdue |-> FALSE] \in TaskStat
        BY DEF TypeOK, TaskStat, Status
      <4> QED
        BY <2>5, <4>1 DEF TypeOK, RegTask
    <3>3. /\ pc' \in [Workers -> {"new", "idle", "waiting", "working", "gone"}]
          /\ job' \in [Workers -> Task \cup {None}]
          /\ handler' \in [Workers -> Task \cup {None, Receiving}]
      BY <2>5 DEF TypeOK, RegTask
    <3> QED
      BY <2>5, <3>1, <3>2, <3>3 DEF TypeOK, RegTask
  <2>6. ASSUME NEW r \in Reports, Report(w, r[1], r[2]) PROVE TypeOK'
    <3>1. scheds' \in 0 .. MaxScheds
      BY <2>6 DEF TypeOK, Report, SpawnSchedule
    <3>2. taskStats' \in [Ids(taskPhase) -> TaskStat]
      <4>1. PICK st \in {"Finish", "Err"} :
               \/ taskStats' = taskStats
               \/ taskStats' = [taskStats EXCEPT ![job[w].Seq].Status = st]
        BY <2>6, ReportEffect
      <4>2. \A i \in Ids(taskPhase) : [taskStats[i] EXCEPT !.Status = st] \in TaskStat
        BY DEF TypeOK, TaskStat, Status
      <4> QED
        BY <4>1, <4>2 DEF TypeOK
    <3>3. /\ pc' \in [Workers -> {"new", "idle", "waiting", "working", "gone"}]
          /\ job' \in [Workers -> Task \cup {None}]
      BY <2>6 DEF TypeOK, Report, AfterReport
    <3> QED
      BY <2>6, <3>1, <3>2, <3>3 DEF TypeOK, Report
  <2>7. ASSUME NEW r \in Reports, ReportFail(w, r[2]) PROVE TypeOK'
    BY <2>7 DEF TypeOK, ReportFail, AfterReport, masterVars
  <2>8. CASE Crash(w)
    BY <2>8 DEF TypeOK, Crash, masterVars
  <2> QED
    BY <1>9, <2>1, <2>2, <2>3, <2>4, <2>5, <2>6, <2>7, <2>8 DEF WorkerStep
<1>10. CASE UNCHANGED vars
  BY <1>10 DEF TypeOK, vars, masterVars, workerVars
<1> QED
  BY <1>1, <1>2, <1>3, <1>4, <1>5, <1>6, <1>7, <1>8, <1>9, <1>10
  DEF Next, Schedule

(* Every variable keeps its type, the buffered tasks never exceed the        *)
(* capacity that MakeMaster gives taskCh.                                    *)
THEOREM TypeCorrect == Spec => []TypeOK
  BY InitTypeOK, NextTypeOK, PTL DEF Spec

-----------------------------------------------------------------------------
(* No queued task is lost *)

(* a handler exists only for a worker that waits, or has died waiting *)
HandlerOwned ==
  \A w \in Workers : handler[w] # None => pc[w] \in {"waiting", "gone"}

LEMMA HandlerOwnedStep ==
  ASSUME TypeOK, HandlerOwned, [Next]_vars PROVE HandlerOwned'
<1>1. CASE UNCHANGED <<pc, handler>>
  BY <1>1 DEF HandlerOwned
<1>2. ASSUME NEW w \in Workers, WorkerStep(w) PROVE HandlerOwned'
  <2> USE DEF HandlerOwned, TypeOK
  <2>1. CASE Register(w)
    BY <2>1 DEF Register
  <2>2. CASE ReqTask(w)
    BY <2>2 DEF ReqTask
  <2>3. CASE ReqTaskFail(w)
    BY <2>3 DEF ReqTaskFail
  <2>4. CASE Recv(w)
    BY <2>4, MarkersAssumption DEF Recv, MarkersAssumption
  <2>5. CASE RegTask(w)
    BY <2>5 DEF RegTask
  <2>6. ASSUME NEW r \in Reports, Report(w, r[1], r[2]) PROVE HandlerOwned'
    BY <2>6 DEF Report, AfterReport
  <2>7. ASSUME NEW r \in Reports, ReportFail(w, r[2]) PROVE HandlerOwned'
    BY <2>7 DEF ReportFail, AfterReport
  <2>8. CASE Crash(w)
    BY <2>8 DEF Crash
  <2> QED
    BY <1>2, <2>1, <2>2, <2>3, <2>4, <2>5, <2>6, <2>7, <2>8 DEF WorkerStep
<1>3. CASE Tick \/ Schedule \/ Serve \/ Exit \/ \E i \in Ids(taskPhase) : Expire(i)
  BY <1>1, <1>3 DEF Tick, Schedule, SchedBegin, SchedSkip, SchedSend, SchedEnd,
                    Serve, Exit, Expire, workerVars
<1> QED
  BY <1>1, <1>2, <1>3 DEF Next, vars, workerVars

(* a copy that stays in the channel or with its handler is still in flight *)
LEMMA StaysInFlight ==
  ASSUME taskPhase' = taskPhase, NEW i, InFlight(i),
         \/ taskCh' = taskCh
         \/ taskCh \in Seq(Task) /\ \E t \in Task : taskCh' = Append(taskCh, t),
         \A w \in Workers : handler[w] = TaskOf(i) => handler'[w] = TaskOf(i)
  PROVE  InFlight(i)'
<1>1. TaskOf(i)' = TaskOf(i)
  BY DEF TaskOf
<1>2. CASE \E k \in DOMAIN taskCh : taskCh[k] = TaskOf(i)
  <2>1. PICK k \in DOMAIN taskCh : taskCh[k] = TaskOf(i)
    BY <1>2
  <2>2. k \in DOMAIN taskCh' /\ taskCh'[k] = taskCh[k]
    OBVIOUS
  <2> QED
    BY <1>1, <2>1, <2>2 DEF InFlight
<1>3. CASE \E w \in Workers : handler[w] = TaskOf(i)
  BY <1>1, <1>3 DEF InFlight
<1> QED
  BY <1>2, <1>3 DEF InFlight

LEMMA NoTaskLostStep ==
  ASSUME TypeOK, HandlerOwned, NoTaskLost, [Next]_vars PROVE NoTaskLost'
<1>1. CASE /\ UNCHANGED <<taskPhase, taskStats, taskCh>>
           /\ \A w \in Workers : handler[w] \in Task => handler'[w] = handler[w]
  <2> SUFFICES ASSUME NEW i \in Ids(taskPhase), taskStats[i].Status = "Queue"
               PROVE  InFlight(i)'
    BY <1>1 DEF NoTaskLost
  <2>1. InFlight(i) /\ TaskOf(i) \in Task
    BY DEF NoTaskLost, TypeOK, TaskOf, Task, Phases
  <2> QED
    BY <1>1, <2>1, StaysInFlight
<1>2. CASE SchedSend
  <2> SUFFICES ASSUME NEW i \in Ids(taskPhase), taskStats'[i].Status = "Queue"
               PROVE  InFlight(i)'
    BY <1>2 DEF NoTaskLost, SchedSend
  <2>1. cursor \in Ids(taskPhase) /\ TaskOf(cursor) \in Task
    BY <1>2 DEF SchedSend, Scanning, TypeOK, TaskOf, Task, Phases
  <2>2. CASE i = cursor
    <3>1. /\ Len(taskCh) + 1 \in DOMAIN taskCh'
          /\ taskCh'[Len(taskCh) + 1] = TaskOf(cursor)
      BY <1>2, <2>1 DEF SchedSend, TypeOK
    <3> QED
      BY <1>2, <2>2, <3>1 DEF SchedSend, InFlight, TaskOf
  <2>3. CASE i # cursor
    <3>1. InFlight(i)
      BY <1>2, <2>1, <2>3 DEF SchedSend, NoTaskLost, TypeOK
    <3> QED
      BY <1>2, <2>1, <3>1, StaysInFlight DEF SchedSend, TypeOK, workerVars
  <2> QED
    BY <2>2, <2>3
<1>3. CASE SchedEnd
  <2>1. CASE taskPhase' = "reduce" /\ taskStats' = FreshStats("reduce")
    BY <2>1 DEF NoTaskLost, FreshStats
  <2>2. CASE UNCHANGED <<taskPhase, taskStats>>
    BY <1>1, <1>3, <2>2 DEF SchedEnd, workerVars
  <2> QED
    BY <1>3, <2>1, <2>2 DEF SchedEnd
<1>4. ASSUME NEW j \in Ids(taskPhase), Expire(j) PROVE NoTaskLost'
  <2> SUFFICES ASSUME NEW i \in Ids(taskPhase), taskStats'[i].Status = "Queue"
               PROVE  InFlight(i)'
    BY <1>4 DEF NoTaskLost, Expire
  <2>1. taskStats[i].Status = "Queue"
    BY <1>4 DEF Expire, TypeOK, TaskStat
  <2> QED
    BY <1>4, <2>1, StaysInFlight DEF Expire, NoTaskLost, workerVars
<1>5. ASSUME NEW w \in Workers, Recv(w) PROVE NoTaskLost'
  <2> SUFFICES ASSUME NEW i \in Ids(taskPhase), taskStats[i].Status = "Queue"
               PROVE  InFlight(i)'
    BY <1>5 DEF NoTaskLost, Recv
  <2>1. InFlight(i) /\ TaskOf(i) \in Task /\ TaskOf(i)' = TaskOf(i)
    BY <1>5 DEF NoTaskLost, TypeOK, TaskOf, Task, Phases, Recv
  <2>2. CASE \E k \in DOMAIN taskCh : taskCh[k] = TaskOf(i)
    <3>1. PICK k \in DOMAIN taskCh : taskCh[k] = TaskOf(i)
      BY <2>2
    <3>2. CASE k = 1
      BY <1>5, <2>1, <3>1, <3>2 DEF Recv, InFlight, TypeOK
    <3>3. CASE k # 1
      <4>1. k - 1 \in DOMAIN taskCh' /\ taskCh'[k - 1] = taskCh[k]
        BY <1>5, <3>1, <3>3 DEF Recv, TypeOK
      <4> QED
        BY <2>1, <3>1, <4>1 DEF InFlight
    <3> QED
      BY <3>2, <3>3
  <2>3. CASE \E v \in Workers : handler[v] = TaskOf(i)
    <3>1. PICK v \in Workers : handler[v] = TaskOf(i)
      BY <2>3
    <3>2. v # w
      BY <1>5, <2>1, <3>1, MarkersAssumption DEF Recv, MarkersAssumption
    <3> QED
      BY <1>5, <2>1, <3>1, <3>2 DEF Recv, InFlight, TypeOK
  <2> QED
    BY <2>1, <2>2, <2>3 DEF InFlight
<1>6. ASSUME NEW w \in Workers, RegTask(w) PROVE NoTaskLost'
  <2> SUFFICES ASSUME NEW i \in Ids(taskPhase), taskStats'[i].Status = "Queue"
               PROVE  InFlight(i)'
    BY <1>6 DEF NoTaskLost, RegTask
  <2>1. handler[w] # TaskOf(i)
    BY <1>6 DEF RegTask, TaskOf, TypeOK
  <2>2. taskStats[i].Status = "Queue"
    BY <1>6, <2>1 DEF RegTask, TaskOf, TypeOK, Task
  <2>3. \A v \in Workers : handler[v] = TaskOf(i) => handler'[v] = TaskOf(i)
    BY <1>6, <2>1 DEF RegTask, TypeOK
  <2> QED
    BY <1>6, <2>2, <2>3, StaysInFlight DEF RegTask, NoTaskLost
<1>7. ASSUME NEW w \in Workers, NEW r \in Reports, Report(w, r[1], r[2])
      PROVE  NoTaskLost'
  <2> SUFFICES ASSUME NEW i \in Ids(taskPhase), taskStats'[i].Status = "Queue"
               PROVE  InFlight(i)'
    BY <1>7 DEF NoTaskLost, Report
  <2>1. taskStats[i].Status = "Queue"
    BY <1>7, ReportEffect DEF TypeOK, TaskStat
  <2> QED
    BY <1>7, <2>1, StaysInFlight DEF Report, NoTaskLost
<1>8. ASSUME NEW w \in Workers, ReqTask(w) PROVE NoTaskLost'
  <2>1. handler[w] \notin Task
    BY <1>8, MarkersAssumption DEF ReqTask, HandlerOwned, MarkersAssumption
  <2> QED
    BY <1>1, <1>8, <2>1 DEF ReqTask, TypeOK, masterVars
<1>9. ASSUME NEW w \in Workers, NEW r \in Reports,
             \/ Register(w) \/ ReqTaskFail(w) \/ ReportFail(w, r[2]) \/ Crash(w)
      PROVE  NoTaskLost'
  BY <1>1, <1>9 DEF Register, ReqTaskFail, ReportFail, Crash, masterVars
<1>10. CASE Tick \/ SchedBegin \/ SchedSkip \/ Serve \/ Exit \/ UNCHANGED vars
  BY <1>1, <1>10 DEF Tick, SchedBegin, SchedSkip, Serve, Exit, vars, masterVars,
                     workerVars
<1> QED
  <2>1. ASSUME NEW w \in Workers, WorkerStep(w) PROVE NoTaskLost'
    <3>1. <<TRUE, TRUE>> \in Reports
      BY DEF Reports
    <3>2. CASE Register(w) \/ ReqTaskFail(w) \/ Crash(w)
      BY <1>9, <3>1, <3>2
    <3>3. ASSUME NEW r \in Reports, ReportFail(w, r[2]) PROVE NoTaskLost'
      BY <1>9, <3>3
    <3> QED
      BY <1>5, <1>6, <1>7, <1>8, <2>1, <3>2, <3>3 DEF WorkerStep
  <2> QED
    BY <1>2, <1>3, <1>4, <1>10, <2>1 DEF Next, Schedule

(* A task marked Queue always has a copy of its phase in the channel or with *)
(* a handler, for any number of workers, whatever times out, fails or dies.  *)
THEOREM QueuedTasksInFlight == Spec => []NoTaskLost
<1>1. Init => HandlerOwned /\ NoTaskLost
  BY DEF Init, HandlerOwned, NoTaskLost, FreshStats
<1>2. TypeOK /\ HandlerOwned /\ NoTaskLost /\ [Next]_vars
        => HandlerOwned' /\ NoTaskLost'
  BY HandlerOwnedStep, NoTaskLostStep
<1> QED
  BY <1>1, <1>2, TypeCorrect, PTL DEF Spec

-----------------------------------------------------------------------------
(* The scan of schedule() and the abstract job *)

LEMMA ScanSoundStep ==
  ASSUME TypeOK, ScanSound, [Next]_vars PROVE ScanSound'
<1> USE DEF ScanSound
<1>1. CASE UNCHANGED <<taskPhase, taskStats, cursor, allFinish>>
  BY <1>1
<1>2. CASE SchedBegin
  <2>1. CASE done
    BY <1>1, <1>2, <2>1 DEF SchedBegin
  <2>2. CASE ~done
    BY <1>2, <2>2 DEF SchedBegin, Ids
  <2> QED
    BY <2>1, <2>2
<1>3. CASE SchedSkip
  <2>1. cursor \in Nat /\ cursor' = cursor + 1 /\ cursor # None
    BY <1>3 DEF SchedSkip, Scanning, Ids
  <2> SUFFICES ASSUME allFinish', NEW i \in Ids(taskPhase), i < cursor'
               PROVE  taskStats[i].Status = "Finish"
    BY <1>3 DEF SchedSkip
  <2>2. allFinish /\ taskStats[cursor].Status = "Finish"
    BY <1>3 DEF SchedSkip
  <2>3. i \in Nat /\ (i < cursor \/ i = cursor)
    BY <2>1 DEF Ids
  <2> QED
    BY <2>1, <2>2, <2>3
<1>4. CASE SchedSend
  BY <1>4 DEF SchedSend
<1>5. CASE SchedEnd
  BY <1>5 DEF SchedEnd
<1>6. ASSUME NEW j \in Ids(taskPhase), Expire(j) PROVE ScanSound'
  <2>1. \A i \in Ids(taskPhase) : taskStats'[i].Status = taskStats[i].Status
    BY <1>6 DEF Expire, TypeOK, TaskStat
  <2> QED
    BY <1>6, <2>1 DEF Expire
<1>7. ASSUME NEW w \in Workers, WorkerStep(w) PROVE ScanSound'
  <2>1. CASE RegTask(w) \/ \E r \in Reports : Report(w, r[1], r[2])
    BY <2>1 DEF RegTask, Report, MuFree
  <2>2. CASE ~(RegTask(w) \/ \E r \in Reports : Report(w, r[1], r[2]))
    BY <1>1, <1>7, <2>2 DEF WorkerStep, Register, ReqTask, ReqTaskFail, Recv,
                            ReportFail, Crash, masterVars
  <2> QED
    BY <2>1, <2>2
<1> QED
  BY <1>1, <1>2, <1>3, <1>4, <1>5, <1>6, <1>7
  DEF Next, Schedule, Tick, Serve, Exit, vars, masterVars

(* While schedule() holds mu with allFinish still TRUE, the tasks it has     *)
(* passed are complete, although receives interleave with its sends.         *)
THEOREM ScanIsSound == Spec => []ScanSound
<1>1. Init => ScanSound
  BY DEF Init, ScanSound
<1>2. TypeOK /\ ScanSound /\ [Next]_vars => ScanSound'
  BY ScanSoundStep
<1> QED
  BY <1>1, <1>2, TypeCorrect, PTL DEF Spec

(* when the scan ends with allFinish, every task of the phase is complete *)
LEMMA ScanComplete ==
  ASSUME TypeOK, ScanSound, SchedEnd, allFinish
  PROVE  \A i \in Ids(taskPhase) : taskStats[i].Status = "Finish"
<1>1. cursor \in Nat /\ cursor \notin Ids(taskPhase) /\ cursor # None
  BY DEF SchedEnd, TypeOK
<1>2. PICK n \in Nat : Ids(taskPhase) = 0 .. (n - 1)
  BY Sizes DEF Ids
<1>3. \A i \in Ids(taskPhase) : i < cursor
  BY <1>1, <1>2
<1> QED
  BY <1>1, <1>3 DEF ScanSound

(* a step that completes or reopens at most task i of the phase *)
LEMMA OneTaskStep ==
  ASSUME TypeOK, UNCHANGED <<taskPhase, done>>, NEW i \in Ids(taskPhase),
         \A j \in Ids(taskPhase) : j # i => taskStats'[j].Status = taskStats[j].Status
  PROVE  [Job!JobNext]_(Job!jobVars)
<1> DEFINE F == {j \in Ids(taskPhase) : taskStats[j].Status = "Finish"}
           G == {j \in Ids(taskPhase) : taskStats'[j].Status = "Finish"}
<1>1. CASE done
  BY <1>1 DEF Stage, Completed, Job!jobVars
<1>2. CASE ~done
  <2>1. Stage = taskPhase /\ Stage' = Stage /\ Completed = F /\ Completed' = G
    BY <1>2 DEF Stage, Completed
  <2>2. Stage # "done" /\ i \in Job!StageTasks(Stage)
    BY <2>1 DEF TypeOK, Phases, Ids, Job!StageTasks
  <2>3. G = F \cup {i} \/ G = F \ {i}
    OBVIOUS
  <2> HIDE DEF F, G
  <2>4. Job!Complete(i) \/ Job!Reopen(i)
    BY <2>1, <2>2, <2>3 DEF Job!Complete, Job!Reopen
  <2> QED
    BY <2>2, <2>4 DEF Job!JobNext
<1> QED
  BY <1>1, <1>2

LEMMA JobStep ==
  ASSUME TypeOK, ScanSound, [Next]_vars PROVE [Job!JobNext]_(Job!jobVars)
<1>1. CASE UNCHANGED <<taskPhase, taskStats, done>>
  BY <1>1 DEF Job!jobVars, Stage, Completed
<1>2. CASE SchedSend
  <2>1. cursor \in Ids(taskPhase)
    BY <1>2 DEF SchedSend, Scanning
  <2> QED
    BY <1>2, <2>1, OneTaskStep DEF SchedSend, TypeOK
<1>3. CASE SchedEnd
  <2>1. CASE ~allFinish
    BY <1>1, <1>3, <2>1 DEF SchedEnd
  <2>2. CASE allFinish
    <3>2. \A i \in Ids(taskPhase) : taskStats[i].Status = "Finish"
      BY <1>3, <2>2, ScanComplete
    <3>3. CASE done
      BY <1>3, <3>3 DEF SchedEnd, Job!jobVars, Stage, Completed
    <3>4. CASE ~done /\ taskPhase = "map"
      <4>1. taskPhase' = "reduce" /\ done' = done /\ taskStats' = FreshStats("reduce")
        BY <1>3, <2>2, <3>4 DEF SchedEnd
      <4>2. Stage = "map" /\ Stage' = "reduce" /\ Completed = Job!StageTasks("map")
        BY <3>2, <3>4, <4>1 DEF Stage, Completed, Ids, Job!StageTasks
      <4>3. Completed' = {}
        BY <3>4, <4>1 DEF Completed, FreshStats
      <4> QED
        BY <4>2, <4>3 DEF Job!JobNext, Job!StartReduce
    <3>5. CASE ~done /\ taskPhase = "reduce"
      <4>1. done' /\ Stage = "reduce" /\ Stage' = "done"
        BY <1>3, <2>2, <3>5 DEF SchedEnd, Stage
      <4>2. Completed = Job!StageTasks("reduce") /\ Completed' = Completed
        BY <3>2, <3>5, <4>1 DEF Completed, Ids, Job!StageTasks
      <4> QED
        BY <4>1, <4>2 DEF Job!JobNext, Job!Finish
    <3> QED
      BY <3>3, <3>4, <3>5 DEF TypeOK, Phases
  <2> QED
    BY <2>1, <2>2
<1>4. ASSUME NEW i \in Ids(taskPhase), Expire(i)
      PROVE  [Job!JobNext]_(Job!jobVars)
  BY <1>4, OneTaskStep DEF Expire, TypeOK
<1>5. ASSUME NEW w \in Workers, RegTask(w) PROVE [Job!JobNext]_(Job!jobVars)
  <2>1. CASE handler[w].Phase # taskPhase
    BY <1>1, <1>5, <2>1 DEF RegTask
  <2>2. CASE handler[w].Phase = taskPhase
    <3>1. handler[w].Seq \in Ids(taskPhase)
      <4>1. PICK p \in Phases :
               \E i \in Ids(p) : handler[w] = [Seq |-> i, Phase |-> p]
        BY <1>5 DEF RegTask, Task, Phases
      <4> QED
        BY <2>2, <4>1
    <3> QED
      BY <1>5, <2>2, <3>1, OneTaskStep DEF RegTask, TypeOK
  <2> QED
    BY <2>1, <2>2
<1>6. ASSUME NEW w \in Workers, NEW r \in Reports, Report(w, r[1], r[2])
      PROVE  [Job!JobNext]_(Job!jobVars)
  <2>1. CASE job[w].Seq \notin Ids(taskPhase)
    BY <1>1, <1>6, <2>1, ReportEffect DEF Report, TypeOK
  <2>2. CASE job[w].Seq \in Ids(taskPhase)
    BY <1>6, <2>2, ReportEffect, OneTaskStep DEF Report, TypeOK
  <2> QED
    BY <2>1, <2>2
<1>7. ASSUME NEW w \in Workers, WorkerStep(w) PROVE [Job!JobNext]_(Job!jobVars)
  BY <1>1, <1>5, <1>6, <1>7 DEF WorkerStep, Register, ReqTask, ReqTaskFail, Recv,
                                ReportFail, Crash, masterVars
<1> QED
  BY <1>1, <1>2, <1>3, <1>4, <1>7
  DEF Next, Schedule, Tick, SchedBegin, SchedSkip, Serve, Exit, vars, masterVars

(* The master implements MRJob: the reduce phase opens, and the job is       *)
(* declared done, only at an instant at which every task of the phase is     *)
(* complete, and neither is taken back.                                      *)
THEOREM MasterImplementsJob == Spec => JobImplemented
<1>1. Init => Job!JobInit
  BY DEF Init, Job!JobInit, Stage, Completed, FreshStats
<1>2. TypeOK /\ ScanSound /\ [Next]_vars => [Job!JobNext]_(Job!jobVars)
  BY JobStep
<1> QED
  BY <1>1, <1>2, TypeCorrect, ScanIsSound, PTL DEF Spec, JobImplemented, Job!JobSpec

-----------------------------------------------------------------------------
(******************  Part 2: prompt workers, sound files  ******************)

(* Every copy waiting in the channel or with a handler belongs to a task of  *)
(* the phase that is marked Queue; every task being done is marked Running   *)
(* and has not overrun; no two copies are of the same task.                  *)
Waiting(t) == t.Phase = taskPhase /\ taskStats[t.Seq].Status = "Queue"

WaitingNext(t) == t.Phase = taskPhase' /\ taskStats'[t.Seq].Status = "Queue"

ChannelCopies ==
  /\ \A k \in DOMAIN taskCh : Waiting(taskCh[k])
  /\ \A k, l \in DOMAIN taskCh : taskCh[k] = taskCh[l] => k = l

HandlerCopies ==
  /\ \A w \in Workers : handler[w] \in Task => Waiting(handler[w])
  /\ \A w, v \in Workers : handler[w] \in Task /\ handler[w] = handler[v] => w = v
  /\ \A w \in Workers, k \in DOMAIN taskCh : handler[w] # taskCh[k]

JobCopies ==
  /\ \A w \in Workers : pc[w] = "working" =>
       /\ job[w] \in Task
       /\ job[w].Phase = taskPhase
       /\ taskStats[job[w].Seq].Status = "Running"
       /\ ~taskStats[job[w].Seq].Overdue
  /\ \A w, v \in Workers :
       pc[w] = "working" /\ pc[v] = "working" /\ job[w] = job[v] => w = v

OneCopy == ChannelCopies /\ HandlerCopies /\ JobCopies

(* a task of the current phase is known by its index *)
LEMMA PhaseTask ==
  ASSUME TypeOK, NEW t \in Task, t.Phase = taskPhase
  PROVE  t.Seq \in Ids(taskPhase) /\ t = TaskOf(t.Seq)
<1>1. PICK p \in Phases : \E i \in Ids(p) : t = [Seq |-> i, Phase |-> p]
  BY DEF Task, Phases
<1> QED
  BY <1>1 DEF TaskOf

LEMMA ChannelTasks ==
  ASSUME TypeOK, NEW k \in DOMAIN taskCh PROVE taskCh[k] \in Task
  BY DEF TypeOK

(* steps that leave the tasks alone and add neither copy nor work *)
LEMMA NothingNew ==
  ASSUME TypeOK, OneCopy, UNCHANGED <<taskPhase, taskStats, taskCh>>,
         \A w \in Workers : handler'[w] \in Task => handler'[w] = handler[w],
         \A w \in Workers : pc'[w] = "working" => pc[w] = "working" /\ job'[w] = job[w]
  PROVE  OneCopy'
<1>1. ChannelCopies'
  BY DEF OneCopy, ChannelCopies, Waiting
<1>2. HandlerCopies'
  BY ChannelTasks DEF OneCopy, HandlerCopies, Waiting
<1>3. JobCopies'
  BY DEF OneCopy, JobCopies
<1> QED
  BY <1>1, <1>2, <1>3 DEF OneCopy

LEMMA OneCopySend ==
  ASSUME TypeOK, OneCopy, SchedSend PROVE OneCopy'
<1> DEFINE t == TaskOf(cursor)
<1>1. cursor \in Ids(taskPhase) /\ t \in Task /\ t.Seq = cursor /\ t.Phase = taskPhase
  BY DEF SchedSend, Scanning, TypeOK, TaskOf, Task, Phases
<1>2. taskStats[cursor].Status # "Queue"
  BY DEF SchedSend, Sendable
<1>3. /\ taskStats'[cursor].Status = "Queue"
      /\ \A i \in Ids(taskPhase) : i # cursor => taskStats'[i] = taskStats[i]
  BY <1>1 DEF SchedSend, TypeOK, TaskStat
<1>4. /\ DOMAIN taskCh' = DOMAIN taskCh \cup {Len(taskCh) + 1}
      /\ Len(taskCh) + 1 \notin DOMAIN taskCh
      /\ taskCh'[Len(taskCh) + 1] = t
      /\ \A k \in DOMAIN taskCh : taskCh'[k] = taskCh[k]
  BY <1>1 DEF SchedSend, TypeOK
<1>5. \A s \in Task : Waiting(s) => s # t /\ WaitingNext(s)
  BY <1>1, <1>2, <1>3, PhaseTask DEF Waiting, WaitingNext, SchedSend
<1>6. WaitingNext(t)
  BY <1>1, <1>3 DEF WaitingNext, SchedSend
<1> HIDE DEF t
<1>7. ChannelCopies'
  <2>1. \A k \in DOMAIN taskCh : taskCh[k] # t /\ WaitingNext(taskCh[k])
    BY <1>5, ChannelTasks DEF OneCopy, ChannelCopies
  <2> QED
    BY <1>4, <1>6, <2>1 DEF OneCopy, ChannelCopies, Waiting, WaitingNext
<1>8. HandlerCopies'
  <2>1. \A w \in Workers : handler'[w] = handler[w]
    BY DEF SchedSend, workerVars
  <2>2. \A w \in Workers : handler[w] \in Task => handler[w] # t /\ WaitingNext(handler[w])
    BY <1>5 DEF OneCopy, HandlerCopies
  <2>3. \A w \in Workers : handler[w] # t
    BY <1>1, <2>2
  <2> QED
    BY <1>4, <2>1, <2>2, <2>3 DEF OneCopy, HandlerCopies, Waiting, WaitingNext
<1>9. JobCopies'
  <2>1. UNCHANGED <<taskPhase, pc, job>>
    BY DEF SchedSend, workerVars
  <2>2. ASSUME NEW w \in Workers, pc[w] = "working"
        PROVE  taskStats'[job[w].Seq] = taskStats[job[w].Seq]
    <3>1. job[w].Seq \in Ids(taskPhase) /\ job[w].Seq # cursor
      BY <2>2, PhaseTask DEF OneCopy, JobCopies, SchedSend, Sendable
    <3> QED
      BY <1>3, <3>1
  <2> QED
    BY <2>1, <2>2 DEF OneCopy, JobCopies
<1> QED
  BY <1>7, <1>8, <1>9 DEF OneCopy

(* a phase ends with nothing in flight and nobody at work *)
LEMMA OneCopyPhase ==
  ASSUME TypeOK, OneCopy,
         \A i \in Ids(taskPhase) : taskStats[i].Status = "Finish",
         UNCHANGED <<taskCh, pc, job, handler>>
  PROVE  OneCopy'
<1>1. \A s \in Task : ~Waiting(s)
  BY PhaseTask DEF Waiting
<1>2. DOMAIN taskCh = {}
  BY <1>1, ChannelTasks DEF OneCopy, ChannelCopies
<1>3. \A w \in Workers : handler[w] \notin Task
  BY <1>1 DEF OneCopy, HandlerCopies
<1>4. \A w \in Workers : pc[w] # "working"
  BY PhaseTask DEF OneCopy, JobCopies
<1> QED
  BY <1>2, <1>3, <1>4 DEF OneCopy, ChannelCopies, HandlerCopies, JobCopies

LEMMA OneCopyExpire ==
  ASSUME Prompt, TypeOK, OneCopy, NEW i \in Ids(taskPhase), Expire(i)
  PROVE  OneCopy'
<1>1. /\ \A j \in Ids(taskPhase) : taskStats'[j].Status = taskStats[j].Status
      /\ \A j \in Ids(taskPhase) : j # i => taskStats'[j] = taskStats[j]
  BY DEF Expire, TypeOK, TaskStat
<1>2. UNCHANGED <<taskPhase, taskCh, pc, job, handler>>
  BY DEF Expire, workerVars
<1>3. \A s \in Task : Waiting(s) => WaitingNext(s)
  BY <1>1, <1>2, PhaseTask DEF Waiting, WaitingNext
<1>4. ChannelCopies'
  BY <1>2, <1>3, ChannelTasks DEF OneCopy, ChannelCopies, Waiting, WaitingNext
<1>5. HandlerCopies'
  BY <1>2, <1>3 DEF OneCopy, HandlerCopies, Waiting, WaitingNext
<1>6. JobCopies'
  <2>1. ASSUME NEW w \in Workers, pc[w] = "working"
        PROVE  taskStats'[job[w].Seq] = taskStats[job[w].Seq]
    <3>1. job[w].Seq \in Ids(taskPhase) /\ job[w] = TaskOf(job[w].Seq)
      BY <2>1, PhaseTask DEF OneCopy, JobCopies
    <3>2. job[w].Seq # i
      BY <2>1, <3>1 DEF Expire, DoingTask
    <3> QED
      BY <1>1, <3>1, <3>2
  <2> QED
    BY <1>1, <1>2, <2>1 DEF OneCopy, JobCopies
<1> QED
  BY <1>4, <1>5, <1>6 DEF OneCopy

LEMMA OneCopyRecv ==
  ASSUME TypeOK, OneCopy, NEW w \in Workers, Recv(w) PROVE OneCopy'
<1>1. UNCHANGED <<taskPhase, taskStats, pc, job>>
  BY DEF Recv
<1>2. 1 \in DOMAIN taskCh /\ handler'[w] = taskCh[1]
      /\ \A v \in Workers : v # w => handler'[v] = handler[v]
  BY DEF Recv, TypeOK
<1>3. \A k \in DOMAIN taskCh' : k + 1 \in DOMAIN taskCh /\ taskCh'[k] = taskCh[k + 1]
                              /\ k + 1 # 1 /\ k \in Nat
  BY DEF Recv, TypeOK
<1>4. ChannelCopies'
  BY <1>1, <1>3 DEF OneCopy, ChannelCopies, Waiting
<1>5. HandlerCopies'
  <2>1. Waiting(taskCh[1]) /\ \A v \in Workers : handler[v] # taskCh[1]
    BY <1>2 DEF OneCopy, ChannelCopies, HandlerCopies
  <2>2. \A v \in Workers, k \in DOMAIN taskCh' : handler'[v] # taskCh'[k]
    BY <1>2, <1>3 DEF OneCopy, ChannelCopies, HandlerCopies
  <2>3. \A v \in Workers : handler'[v] \in Task => WaitingNext(handler'[v])
    BY <1>1, <1>2, <2>1 DEF OneCopy, HandlerCopies, Waiting, WaitingNext
  <2>4. \A u, v \in Workers : handler'[u] \in Task /\ handler'[u] = handler'[v] => u = v
    BY <1>2, <2>1 DEF OneCopy, HandlerCopies
  <2> QED
    BY <2>2, <2>3, <2>4 DEF HandlerCopies, Waiting, WaitingNext
<1>6. JobCopies'
  BY <1>1 DEF OneCopy, JobCopies
<1> QED
  BY <1>4, <1>5, <1>6 DEF OneCopy

LEMMA OneCopyRegister ==
  ASSUME TypeOK, OneCopy, NEW w \in Workers, RegTask(w)
  PROVE  OneCopy' /\ mstate' # "panicked"
<1> DEFINE t == handler[w]
<1>1. t \in Task /\ t.Phase = taskPhase /\ t.Seq \in Ids(taskPhase)
      /\ taskStats[t.Seq].Status = "Queue"
  BY PhaseTask DEF RegTask, OneCopy, HandlerCopies, Waiting
<1>2. /\ taskStats'[t.Seq].Status = "Running" /\ ~taskStats'[t.Seq].Overdue
      /\ \A i \in Ids(taskPhase) : i # t.Seq => taskStats'[i] = taskStats[i]
      /\ UNCHANGED <<taskPhase, taskCh, mstate>>
  BY <1>1 DEF RegTask, TypeOK
<1>3. /\ handler'[w] = None
      /\ \A v \in Workers : v # w => handler'[v] = handler[v] /\ pc'[v] = pc[v]
                                   /\ job'[v] = job[v]
      /\ pc'[w] = "working" => job'[w] = t \/ (pc[w] = "working" /\ job'[w] = job[w])
  BY <1>1 DEF RegTask, TypeOK
<1>4. None \notin Task /\ mstate' # "panicked"
  BY <1>2, MarkersAssumption DEF MarkersAssumption, RegTask, MuFree, Alive
<1>5. \A s \in Task : Waiting(s) /\ s # t => WaitingNext(s)
  BY <1>1, <1>2, PhaseTask DEF Waiting, WaitingNext
<1> HIDE DEF t
<1>6. ChannelCopies'
  <2>1. \A k \in DOMAIN taskCh : taskCh[k] # t
    BY DEF OneCopy, HandlerCopies, t
  <2> QED
    BY <1>2, <1>5, <2>1, ChannelTasks DEF OneCopy, ChannelCopies, Waiting, WaitingNext
<1>7. HandlerCopies'
  <2>1. \A v \in Workers : v # w => handler[v] # t
    BY <1>1 DEF OneCopy, HandlerCopies, t
  <2>2. \A v \in Workers : handler'[v] \in Task => v # w /\ WaitingNext(handler'[v])
    BY <1>3, <1>4, <1>5, <2>1 DEF OneCopy, HandlerCopies
  <2>3. \A v \in Workers, k \in DOMAIN taskCh' : handler'[v] # taskCh'[k]
    BY <1>2, <1>3, <1>4, ChannelTasks DEF OneCopy, HandlerCopies
  <2>4. \A u, v \in Workers : handler'[u] \in Task /\ handler'[u] = handler'[v] => u = v
    BY <1>3, <2>2 DEF OneCopy, HandlerCopies
  <2> QED
    BY <2>2, <2>3, <2>4 DEF HandlerCopies, Waiting, WaitingNext
<1>8. JobCopies'
  <2>1. ASSUME NEW v \in Workers, pc[v] = "working"
        PROVE  /\ job[v] \in Task /\ job[v].Phase = taskPhase /\ job[v] # t
               /\ taskStats'[job[v].Seq] = taskStats[job[v].Seq]
    <3>1. /\ job[v] \in Task /\ job[v].Phase = taskPhase
          /\ taskStats[job[v].Seq].Status = "Running"
      BY <2>1 DEF OneCopy, JobCopies
    <3>2. job[v].Seq \in Ids(taskPhase) /\ job[v].Seq # t.Seq
      BY <1>1, <3>1, PhaseTask
    <3> QED
      BY <1>2, <3>1, <3>2
  <2> QED
    BY <1>1, <1>2, <1>3, <2>1 DEF OneCopy, JobCopies
<1> QED
  BY <1>4, <1>6, <1>7, <1>8 DEF OneCopy

LEMMA OneCopyReport ==
  ASSUME TypeOK, OneCopy, NEW w \in Workers, NEW ok, Report(w, ok, TRUE)
  PROVE  OneCopy'
<1> DEFINE t == job[w]
<1>1. /\ t \in Task /\ t.Phase = taskPhase /\ t.Seq \in Ids(taskPhase)
      /\ pc[w] = "working" /\ taskStats[t.Seq].Status = "Running"
  BY PhaseTask DEF Report, OneCopy, JobCopies
<1>2. /\ pc'[w] # "working"
      /\ \A v \in Workers : v # w => pc'[v] = pc[v] /\ job'[v] = job[v]
      /\ UNCHANGED <<taskPhase, taskCh, handler>>
  BY DEF Report, AfterReport, TypeOK
<1>3. \A i \in Ids(taskPhase) : i # t.Seq => taskStats'[i] = taskStats[i]
  <2>1. PICK st \in {"Finish", "Err"} :
           \/ taskStats' = taskStats
           \/ taskStats' = [taskStats EXCEPT ![job[w].Seq].Status = st]
    BY ReportEffect
  <2> QED
    BY <2>1 DEF TypeOK
<1> HIDE DEF t
<1>4. \A s \in Task : Waiting(s) => WaitingNext(s)
  BY <1>1, <1>2, <1>3, PhaseTask DEF Waiting, WaitingNext
<1>5. ChannelCopies'
  BY <1>2, <1>4, ChannelTasks DEF OneCopy, ChannelCopies, Waiting, WaitingNext
<1>6. HandlerCopies'
  BY <1>2, <1>4 DEF OneCopy, HandlerCopies, Waiting, WaitingNext
<1>7. JobCopies'
  <2>1. ASSUME NEW v \in Workers, pc[v] = "working", v # w
        PROVE  taskStats'[job[v].Seq] = taskStats[job[v].Seq]
    <3>1. job[v].Seq \in Ids(taskPhase) /\ job[v] = TaskOf(job[v].Seq)
      BY <2>1, PhaseTask DEF OneCopy, JobCopies
    <3>2. t = TaskOf(t.Seq) /\ job[v] # t
      BY <1>1, <2>1, PhaseTask DEF OneCopy, JobCopies, t
    <3> QED
      BY <1>3, <3>1, <3>2
  <2> QED
    BY <1>2, <2>1 DEF OneCopy, JobCopies
<1> QED
  BY <1>5, <1>6, <1>7 DEF OneCopy

LEMMA OneCopyStep ==
  ASSUME Prompt, ~IOFaults, TypeOK, HandlerOwned, ScanSound, OneCopy, [Next]_vars
  PROVE  OneCopy'
<1>1. CASE SchedSend
  BY <1>1, OneCopySend
<1>2. CASE SchedEnd
  <2>1. CASE UNCHANGED <<taskPhase, taskStats>>
    BY <1>2, <2>1, NothingNew DEF SchedEnd, workerVars
  <2>2. CASE ~UNCHANGED <<taskPhase, taskStats>>
    <3>1. allFinish
      BY <1>2, <2>2 DEF SchedEnd
    <3>2. \A i \in Ids(taskPhase) : taskStats[i].Status = "Finish"
      BY <1>2, <3>1, ScanComplete
    <3> QED
      BY <1>2, <3>2, OneCopyPhase DEF SchedEnd, workerVars
  <2> QED
    BY <2>1, <2>2
<1>3. ASSUME NEW i \in Ids(taskPhase), Expire(i) PROVE OneCopy'
  BY <1>3, OneCopyExpire
<1>4. ASSUME NEW w \in Workers, WorkerStep(w) PROVE OneCopy'
  <2>1. CASE Recv(w)
    BY <2>1, OneCopyRecv
  <2>2. CASE RegTask(w)
    BY <2>2, OneCopyRegister
  <2>3. ASSUME NEW r \in Reports, Report(w, r[1], r[2]) PROVE OneCopy'
    <3>1. r = <<TRUE, TRUE>>
      BY DEF Reports
    <3>2. Report(w, TRUE, TRUE)
      BY <2>3, <3>1
    <3> QED
      BY <3>2, OneCopyReport
  <2>4. CASE Register(w) \/ ReqTaskFail(w) \/ Crash(w)
    BY <2>4, NothingNew DEF Register, ReqTaskFail, Crash, TypeOK, masterVars
  <2>5. CASE ReqTask(w)
    BY <2>5, NothingNew, MarkersAssumption
    DEF ReqTask, TypeOK, masterVars, MarkersAssumption
  <2>6. ASSUME NEW r \in Reports, ReportFail(w, r[2]) PROVE OneCopy'
    <3>1. pc'[w] # "working" /\ \A v \in Workers : v # w => pc'[v] = pc[v] /\ job'[v] = job[v]
      <4>1. r = <<TRUE, TRUE>>
        BY DEF Reports
      <4>2. ReportFail(w, TRUE)
        BY <2>6, <4>1
      <4> QED
        BY <4>2 DEF ReportFail, AfterReport, TypeOK
    <3> QED
      BY <2>6, <3>1, NothingNew DEF ReportFail, masterVars
  <2> QED
    BY <1>4, <2>1, <2>2, <2>3, <2>4, <2>5, <2>6 DEF WorkerStep
<1>5. CASE Tick \/ SchedBegin \/ SchedSkip \/ Serve \/ Exit \/ UNCHANGED vars
  BY <1>5, NothingNew DEF Tick, SchedBegin, SchedSkip, Serve, Exit, vars, masterVars,
                          workerVars
<1> QED
  BY <1>1, <1>2, <1>3, <1>4, <1>5 DEF Next, Schedule

LEMMA OneCopyAlways ==
  ASSUME Prompt, ~IOFaults PROVE Spec => []OneCopy
<1>1. Init => HandlerOwned /\ OneCopy
  BY MarkersAssumption
  DEF Init, HandlerOwned, OneCopy, ChannelCopies, HandlerCopies, JobCopies,
      MarkersAssumption
<1>2. TypeOK /\ HandlerOwned /\ ScanSound /\ OneCopy /\ [Next]_vars
        => HandlerOwned' /\ OneCopy'
  BY HandlerOwnedStep, OneCopyStep
<1> QED
  BY <1>1, <1>2, TypeCorrect, ScanIsSound, PTL DEF Spec

-----------------------------------------------------------------------------
(* The properties *)

(* Without slow workers and failing files, the panic of regTask is dead      *)
(* code: a copy of a map task never outlives the map phase.                  *)
THEOREM NeverPanics ==
  ASSUME Prompt, ~IOFaults PROVE Spec => []NoPhasePanic
<1>1. Init => NoPhasePanic
  BY DEF Init, NoPhasePanic
<1>2. TypeOK /\ OneCopy /\ NoPhasePanic /\ [Next]_vars => NoPhasePanic'
  <2> SUFFICES ASSUME TypeOK, OneCopy, NoPhasePanic, [Next]_vars PROVE NoPhasePanic'
    OBVIOUS
  <2>1. ASSUME NEW w \in Workers, RegTask(w) PROVE NoPhasePanic'
    BY <2>1, OneCopyRegister DEF NoPhasePanic
  <2>2. CASE UNCHANGED mstate \/ Serve \/ Exit
    BY <2>2 DEF NoPhasePanic, Serve, Exit
  <2> QED
    BY <2>1, <2>2
    DEF Next, Schedule, WorkerStep, Tick, SchedBegin, SchedSkip, SchedSend, SchedEnd,
        Expire, Register, ReqTask, ReqTaskFail, Recv, Report, ReportFail, Crash,
        vars, masterVars
<1> QED
  BY <1>1, <1>2, TypeCorrect, OneCopyAlways, PTL DEF Spec

LEMMA FinishKept ==
  ASSUME TypeOK, OneCopy, [Next]_vars, taskPhase' = taskPhase,
         NEW i \in Ids(taskPhase), taskStats[i].Status = "Finish"
  PROVE  taskStats'[i].Status = "Finish"
<1>1. CASE UNCHANGED taskStats
  BY <1>1
<1>2. CASE SchedSend
  <2>1. i # cursor
    BY <1>2 DEF SchedSend, Sendable
  <2> QED
    BY <1>2, <2>1 DEF SchedSend, TypeOK
<1>3. CASE SchedEnd
  BY <1>3 DEF SchedEnd, FreshStats, TypeOK, Phases
<1>4. ASSUME NEW j \in Ids(taskPhase), Expire(j) PROVE taskStats'[i].Status = "Finish"
  BY <1>4 DEF Expire, TypeOK, TaskStat
<1>5. ASSUME NEW w \in Workers, RegTask(w) PROVE taskStats'[i].Status = "Finish"
  BY <1>5 DEF RegTask, TypeOK, OneCopy, HandlerCopies, Waiting
<1>6. ASSUME NEW w \in Workers, NEW r \in Reports, Report(w, r[1], r[2])
      PROVE  taskStats'[i].Status = "Finish"
  <2>1. taskStats[job[w].Seq].Status = "Running"
    BY <1>6 DEF Report, OneCopy, JobCopies
  <2> QED
    BY <1>6, <2>1, ReportEffect DEF TypeOK
<1> QED
  BY <1>1, <1>2, <1>3, <1>4, <1>5, <1>6
  DEF Next, Schedule, WorkerStep, Tick, SchedBegin, SchedSkip, Serve, Exit,
      Register, ReqTask, ReqTaskFail, Recv, ReportFail, Crash, vars, masterVars

(* Under the same assumptions no stale copy makes a finished task run again. *)
THEOREM FinishedStays ==
  ASSUME Prompt, ~IOFaults PROVE Spec => FinishStable
<1> DEFINE Stable == \A i \in Ids(taskPhase) :
       taskStats[i].Status = "Finish" /\ taskPhase' = taskPhase
         => taskStats'[i].Status = "Finish"
<1>1. TypeOK /\ OneCopy /\ [Next]_vars => [Stable]_vars
  BY FinishKept
<1> QED
  BY <1>1, TypeCorrect, OneCopyAlways, PTL DEF Spec, FinishStable

(* sets with at most one element *)
LEMMA AtMostOne ==
  ASSUME NEW S, \A x, y \in S : x = y
  PROVE  /\ Cardinality(S) = 0 \/ Cardinality(S) = 1
         /\ S = {} => Cardinality(S) = 0
<1>1. CASE S = {}
  BY <1>1, FS_EmptySet
<1>2. CASE S # {}
  <2>1. PICK x : S = {x}
    BY <1>2
  <2> QED
    BY <1>2, <2>1, FS_Singleton
<1> QED
  BY <1>1, <1>2

(* Under the same assumptions a task is in at most one place: the channel,   *)
(* a handler or a live worker.                                               *)
THEOREM OneHolder ==
  ASSUME Prompt, ~IOFaults PROVE Spec => []SingleHolder
<1>1. TypeOK /\ OneCopy => SingleHolder
  <2> SUFFICES ASSUME TypeOK, OneCopy, NEW t \in Task PROVE Holders(t) <= 1
    BY DEF SingleHolder
  <2> DEFINE A == {k \in DOMAIN taskCh : taskCh[k] = t}
             B == {w \in Workers : handler[w] = t}
             C == {w \in Workers : DoingTask(w, t)}
  <2>1. \A k, l \in A : k = l
    BY DEF OneCopy, ChannelCopies
  <2>2. \A w, v \in B : w = v
    BY DEF OneCopy, HandlerCopies
  <2>3. \A w, v \in C : w = v
    BY DEF OneCopy, JobCopies, DoingTask
  <2>4. A = {} \/ B = {}
    BY DEF OneCopy, HandlerCopies
  <2>5. C = {} \/ (A = {} /\ B = {})
    BY DEF OneCopy, ChannelCopies, HandlerCopies, JobCopies, DoingTask, Waiting
  <2> HIDE DEF A, B, C
  <2>6. Cardinality(A) + Cardinality(B) + Cardinality(C) <= 1
    BY <2>1, <2>2, <2>3, <2>4, <2>5, AtMostOne
  <2> QED
    BY <2>6 DEF Holders, A, B, C
<1> QED
  BY <1>1, TypeCorrect, OneCopyAlways, PTL

(* Under the same assumptions schedule() never waits on a full channel while *)
(* it holds mu: the channel holds distinct Queue tasks of the phase, and the *)
(* task about to be sent is not one of them.                                 *)
THEOREM SendNeverWaits ==
  ASSUME Prompt, ~IOFaults PROVE Spec => []SendNeverBlocks
<1>1. TypeOK /\ OneCopy => SendNeverBlocks
  <2> SUFFICES ASSUME TypeOK, OneCopy, SendBlocked PROVE FALSE
    BY DEF SendNeverBlocks
  <2> DEFINE S == 1 .. Len(taskCh)
             T == Ids(taskPhase) \ {cursor}
             f == [k \in S |-> taskCh[k].Seq]
  <2>1. PICK n \in Nat : /\ n > 0 /\ n <= ChanCap
                         /\ Ids(taskPhase) = 0 .. (n - 1)
    BY Sizes DEF Ids, ChanCap
  <2>2. cursor \in Ids(taskPhase) /\ Len(taskCh) = ChanCap /\ S = DOMAIN taskCh
    BY DEF SendBlocked, Scanning, TypeOK
  <2>3. IsFiniteSet(S) /\ Cardinality(S) = ChanCap
    BY <2>2, Sizes, FS_Interval
  <2>4. IsFiniteSet(T) /\ Cardinality(T) < Cardinality(S)
    <3>1. IsFiniteSet(Ids(taskPhase)) /\ Cardinality(Ids(taskPhase)) = n
      BY <2>1, FS_Interval
    <3>2. IsFiniteSet(T) /\ Cardinality(T) = n - 1
      BY <2>2, <3>1, FS_RemoveElement
    <3> QED
      BY <2>1, <2>3, <3>2, Sizes
  <2>5. taskStats[cursor].Status # "Queue"
    BY DEF SendBlocked, Sendable
  <2>6. \A k \in S : /\ taskCh[k].Seq \in T
                     /\ taskCh[k] = TaskOf(taskCh[k].Seq)
    BY <2>2, <2>5, PhaseTask, ChannelTasks DEF OneCopy, ChannelCopies, Waiting
  <2>7. f \in [S -> T]
    BY <2>6
  <2> HIDE DEF S, T, f
  <2>8. PICK k, l \in S : k # l /\ f[k] = f[l]
    BY <2>3, <2>4, <2>7, FS_PigeonHole
  <2>9. taskCh[k] = taskCh[l]
    BY <2>6, <2>8 DEF f
  <2> QED
    BY <2>2, <2>8, <2>9 DEF OneCopy, ChannelCopies
<1> QED
  BY <1>1, TypeCorrect, OneCopyAlways, PTL

-----------------------------------------------------------------------------
(**********************  Part 3: workers and files  ************************)

(* Types and locals *)

LocalOK(w) ==
  /\ pc[w] # "working" => idx[w] = 0 /\ open[w] = "closed" /\ seen[w] = {}
  /\ pc[w] = "working" => job[w] \in Task
  /\ Doing(w, "map") => /\ idx[w] \in 0 .. NReduce
                        /\ open[w] # "closed" => idx[w] < NReduce
  /\ Doing(w, "reduce") => /\ taskPhase = "reduce"
                           /\ idx[w] \in 0 .. NMap + 1
                           /\ open[w] # "closed" => idx[w] = NMap

LocalsOK == \A w \in Workers : LocalOK(w)

(* the files that a map task has got to *)
ProgressOK(w) ==
  Doing(w, "map") =>
    /\ \A r \in Reduces : r < idx[w] => inter[<<job[w].Seq, r>>] # Absent
    /\ open[w] # "closed" => inter[Bucket(w)] # Absent

MapProgress == \A w \in Workers : ProgressOK(w)

FinishedMaps ==
  taskPhase = "map" =>
    \A i \in Maps : taskStats[i].Status = "Finish" =>
      \A r \in Reduces : inter[<<i, r>>] # Absent

WInv ==
  /\ FilesOK /\ ScanSound /\ LocalsOK
  /\ MapProgress /\ FinishedMaps /\ ReduceInputsExist

LEMMA WInitInv == WInit => WInv
<1> SUFFICES ASSUME WInit PROVE WInv
  OBVIOUS
<1>1. Init
  BY DEF WInit
<1>2. FilesOK
  BY <1>1, InitTypeOK DEF WInit, FilesOK, OutFile
<1>3. LocalsOK /\ MapProgress
  BY <1>1 DEF WInit, Init, LocalsOK, LocalOK, MapProgress, ProgressOK, Doing
<1>4. ScanSound /\ FinishedMaps /\ ReduceInputsExist
  BY <1>1 DEF Init, ScanSound, FinishedMaps, ReduceInputsExist, FreshStats, Maps
<1> QED
  BY <1>2, <1>3, <1>4 DEF WInv

LEMMA TaskSeq ==
  ASSUME NEW t \in Task
  PROVE  /\ t.Phase \in Phases
         /\ t.Phase = "map" => t.Seq \in Maps
         /\ t.Phase = "reduce" => t.Seq \in Reduces
BY DEF Task, Phases, Maps, Reduces

LEMMA Indices ==
  /\ \A n \in Nat : n < NReduce <=> n \in Reduces
  /\ \A n \in Nat : n < NMap <=> n \in Maps
  /\ Maps \subseteq Nat /\ Reduces \subseteq Nat
BY Sizes DEF Maps, Reduces, Ids

LEMMA OwnBucket ==
  ASSUME WInv, NEW w \in Workers, Doing(w, "map"), idx[w] < NReduce
  PROVE  Bucket(w) \in Maps \X Reduces
<1>1. job[w] \in Task /\ job[w].Phase = "map" /\ idx[w] \in Nat
  BY Sizes DEF Doing, WInv, LocalsOK, LocalOK
<1> QED
  BY <1>1, TaskSeq, Indices DEF Bucket

LEMMA OwnInput ==
  ASSUME WInv, NEW w \in Workers, Doing(w, "reduce"), idx[w] < NMap
  PROVE  Input(w) \in Maps \X Reduces /\ inter[Input(w)] # Absent
<1>1. /\ job[w] \in Task /\ job[w].Phase = "reduce" /\ idx[w] \in Nat
      /\ taskPhase = "reduce"
  BY Sizes DEF Doing, WInv, LocalsOK, LocalOK
<1>2. Input(w) \in Maps \X Reduces
  BY <1>1, TaskSeq, Indices DEF Input
<1> QED
  BY <1>1, <1>2 DEF WInv, ReduceInputsExist

-----------------------------------------------------------------------------
(* The workers are those of MRMaster *)

LEMMA FileStepReports ==
  ASSUME WInv, NEW w \in Workers, FileStep(w)
  PROVE  \/ UNCHANGED vars
         \/ \E r \in Reports : Say(w, r[1], r[2])
<1>1. CASE MapCreate(w) \/ MapClose(w) \/ ReadInput(w) \/ WriteTruncate(w) \/ WriteOutput(w)
  BY <1>1 DEF MapCreate, MapClose, ReadInput, WriteTruncate, WriteOutput
<1>2. <<TRUE, TRUE>> \in Reports
  BY DEF Reports
<1>3. IOFaults => <<FALSE, TRUE>> \in Reports /\ <<FALSE, FALSE>> \in Reports
  BY DEF Reports
<1>4. CASE MapDone(w) \/ ReduceDone(w)
  BY <1>2, <1>4 DEF MapDone, ReduceDone
<1>5. CASE MapDamaged(w) \/ ReduceDamaged(w)
  BY <1>3, <1>5 DEF MapDamaged, ReduceDamaged, ReportDamage
<1>6. CASE MapFails(w)
  BY <1>3, <1>6 DEF MapFails, GiveUp
<1>7. CASE ReduceFails(w)
  <2>1. IOFaults
    BY <1>7, OwnInput DEF ReduceFails
  <2> QED
    BY <1>3, <1>7, <2>1 DEF ReduceFails, GiveUp
<1> QED
  BY <1>1, <1>4, <1>5, <1>6, <1>7 DEF FileStep

LEMMA MasterActs ==
  ASSUME WInv, [WNext]_wVars
  PROVE  [Next]_vars
<1>1. CASE MasterStep
  BY <1>1 DEF MasterStep, Next
<1>2. ASSUME NEW w \in Workers, Talk(w) \/ Die(w) PROVE [Next]_vars
  BY <1>2 DEF Talk, Die, Next, WorkerStep
<1>3. ASSUME NEW w \in Workers, FileStep(w) PROVE [Next]_vars
  <2>1. ASSUME NEW r \in Reports, Say(w, r[1], r[2]) PROVE Next
    BY <2>1 DEF Say, Next, WorkerStep
  <2> QED
    BY <1>3, <2>1, FileStepReports
<1>4. CASE UNCHANGED wVars
  BY <1>4 DEF wVars
<1> QED
  BY <1>1, <1>2, <1>3, <1>4 DEF WNext

-----------------------------------------------------------------------------
(* What the steps do *)

LEMMA SayEffect ==
  ASSUME TypeOK, NEW w \in Workers, NEW ok \in BOOLEAN, NEW last \in BOOLEAN,
         Say(w, ok, last)
  PROVE  /\ pc[w] = "working"
         /\ last => /\ pc' = [pc EXCEPT ![w] = "idle"]
                    /\ job' = [job EXCEPT ![w] = None]
         /\ ~last => UNCHANGED <<pc, job>>
         /\ UNCHANGED <<taskPhase, done>>
         /\ \A i \in Ids(taskPhase) : taskStats'[i].Status = "Finish" =>
              \/ taskStats[i].Status = "Finish"
              \/ ok /\ taskPhase = job[w].Phase /\ i = job[w].Seq
<1>1. CASE Report(w, ok, last)
  <2>1. \A i \in Ids(taskPhase) : taskStats'[i].Status = "Finish" =>
          \/ taskStats[i].Status = "Finish"
          \/ ok /\ taskPhase = job[w].Phase /\ i = job[w].Seq
    <3> DEFINE st == IF ok THEN "Finish" ELSE "Err"
    <3>1. CASE taskStats' = taskStats
      BY <3>1
    <3>2. CASE /\ Accepted(w)
               /\ taskStats' = [taskStats EXCEPT ![job[w].Seq].Status = st]
      <4>1. st = "Finish" => ok
        OBVIOUS
      <4> HIDE DEF st
      <4> QED
        BY <3>2, <4>1 DEF Accepted, TypeOK
    <3> QED
      BY <1>1, <3>1, <3>2 DEF Report
  <2> QED
    BY <1>1, <2>1 DEF Report, AfterReport
<1>2. CASE ReportFail(w, last)
  BY <1>2 DEF ReportFail, AfterReport, masterVars
<1> QED
  BY <1>1, <1>2 DEF Say

(* the locals after a task is over *)
LEMMA ResetEffect ==
  ASSUME FilesOK, NEW w \in Workers, ResetLocals(w)
  PROVE  /\ idx'[w] = 0 /\ open'[w] = "closed" /\ seen'[w] = {}
         /\ \A v \in Workers \ {w} :
              idx'[v] = idx[v] /\ open'[v] = open[v] /\ seen'[v] = seen[v]
         /\ idx' \in [Workers -> Nat]
         /\ open' \in [Workers -> {"closed", "open", "damaged"}]
         /\ seen' \in [Workers -> SUBSET Maps]
BY DEF FilesOK, ResetLocals

LEMMA FilesTyped ==
  ASSUME WInv, [WNext]_wVars
  PROVE  FilesOK'
<1>1. TypeOK'
  BY MasterActs, NextTypeOK DEF WInv, FilesOK
<1>2. CASE UNCHANGED fileVars
  BY <1>1, <1>2 DEF WInv, FilesOK, fileVars
<1>3. ASSUME NEW w \in Workers, FileStep(w) \/ Die(w) PROVE FilesOK'
  <2>1. ASSUME ResetLocals(w), UNCHANGED <<inter, outf>> PROVE FilesOK'
    BY <1>1, <2>1, ResetEffect DEF WInv, FilesOK
  <2>2. CASE MapCreate(w)
    BY <1>1, <2>2 DEF MapCreate, WInv, FilesOK
  <2>3. CASE MapClose(w)
    <3>1. inter' \in [Maps \X Reduces -> {Absent, Full} \cup Workers]
      BY <2>3 DEF MapClose, WInv, FilesOK
    <3>2. /\ idx' \in [Workers -> Nat]
          /\ open' \in [Workers -> {"closed", "open", "damaged"}]
      BY <2>3 DEF MapClose, NextFile, WInv, FilesOK
    <3> QED
      BY <1>1, <2>3, <3>1, <3>2 DEF MapClose, WInv, FilesOK
  <2>4. CASE MapDamaged(w) \/ ReduceDamaged(w)
    BY <1>1, <2>4 DEF MapDamaged, ReduceDamaged, ReportDamage, WInv, FilesOK
  <2>5. CASE ReadInput(w)
    <3>1. idx[w] \in Maps
      BY <2>5, Indices DEF ReadInput, WInv, FilesOK
    <3> QED
      BY <1>1, <2>5, <3>1 DEF ReadInput, NextFile, WInv, FilesOK
  <2>6. CASE WriteTruncate(w)
    <3>1. [kind |-> "truncated", maps |-> {}] \in OutFile
      BY DEF OutFile
    <3> QED
      BY <1>1, <2>6, <3>1 DEF WriteTruncate, WInv, FilesOK
  <2>7. CASE WriteOutput(w)
    <3>1. Written(seen[w]) \in OutFile /\ [kind |-> "mixed", maps |-> {}] \in OutFile
      BY DEF OutFile, Written, WInv, FilesOK
    <3>2. outf' \in [Reduces -> OutFile]
      <4>1. CASE outf' = outf
        BY <4>1 DEF WInv, FilesOK
      <4>2. ASSUME NEW v \in OutFile, outf' = [outf EXCEPT ![job[w].Seq] = v]
            PROVE  outf' \in [Reduces -> OutFile]
        BY <4>2 DEF WInv, FilesOK
      <4> QED
        BY <2>7, <3>1, <4>1, <4>2 DEF WriteOutput
    <3>3. /\ idx' \in [Workers -> Nat]
          /\ open' \in [Workers -> {"closed", "open", "damaged"}]
      BY <2>7 DEF WriteOutput, NextFile, WInv, FilesOK
    <3> QED
      BY <1>1, <2>7, <3>2, <3>3 DEF WriteOutput, WInv, FilesOK
  <2> QED
    BY <1>3, <2>1, <2>2, <2>3, <2>4, <2>5, <2>6, <2>7
       DEF FileStep, Die, MapFails, MapDone, ReduceFails, ReduceDone, GiveUp
<1> QED
  BY <1>2, <1>3 DEF WNext, MasterStep, Talk, wVars

(* a file that was created stays *)
LEMMA FilesStay ==
  ASSUME WInv, [WNext]_wVars, NEW f \in Maps \X Reduces, inter[f] # Absent
  PROVE  inter'[f] # Absent
<1> USE FilesAssumption DEF FilesAssumption, WInv, FilesOK
<1>1. CASE inter' = inter
  BY <1>1
<1>2. ASSUME NEW w \in Workers, MapCreate(w) \/ MapClose(w) PROVE inter'[f] # Absent
  BY <1>2 DEF MapCreate, MapClose
<1> QED
  BY <1>1, <1>2 DEF WNext, MasterStep, Talk, Die, FileStep, MapFails, MapDamaged, MapDone,
     ReadInput, ReduceFails, WriteTruncate, WriteOutput, ReduceDamaged, ReduceDone, GiveUp,
     ReportDamage, fileVars, wVars

(* the phase moves once, when each map task is complete *)
LEMMA PhaseStep ==
  ASSUME TypeOK, ScanSound, [Next]_vars, taskPhase' # taskPhase
  PROVE  /\ taskPhase = "map" /\ taskPhase' = "reduce"
         /\ \A i \in Maps : taskStats[i].Status = "Finish"
<1>1. SchedEnd
  BY DEF Next, Schedule, Tick, SchedBegin, SchedSkip, SchedSend, Expire, Serve, Exit,
     WorkerStep, Register, ReqTask, ReqTaskFail, Recv, RegTask, Report, ReportFail, Crash,
     vars, masterVars
<1>2. allFinish /\ taskPhase = "map" /\ taskPhase' = "reduce"
  BY <1>1 DEF SchedEnd
<1> QED
  BY <1>1, <1>2, ScanComplete DEF Maps

LEMMA PhaseFresh ==
  ASSUME TypeOK, ScanSound, [Next]_vars, taskPhase' = "reduce", NEW r \in Reduces,
         taskStats'[r].Status = "Finish"
  PROVE  taskPhase = "reduce"
<1> SUFFICES ASSUME taskPhase # "reduce" PROVE FALSE
  OBVIOUS
<1>1. SchedEnd
  BY DEF Next, Schedule, Tick, SchedBegin, SchedSkip, SchedSend, Expire, Serve, Exit,
     WorkerStep, Register, ReqTask, ReqTaskFail, Recv, RegTask, Report, ReportFail, Crash,
     vars, masterVars
<1>2. taskStats' = FreshStats("reduce")
  BY <1>1 DEF SchedEnd
<1> QED
  BY <1>2 DEF FreshStats, Reduces

(* of the steps that touch no file none completes a task *)
LEMMA NoFinish ==
  ASSUME TypeOK, UNCHANGED taskPhase, NEW i \in Ids(taskPhase),
         \/ MasterStep \/ \E w \in Workers : Talk(w) \/ Die(w)
         \/ UNCHANGED vars,
         taskStats'[i].Status = "Finish"
  PROVE  taskStats[i].Status = "Finish"
<1>1. CASE taskStats' = taskStats
  BY <1>1
<1>2. CASE SchedSend
  BY <1>2 DEF SchedSend, TypeOK
<1>3. CASE SchedEnd
  BY <1>3 DEF SchedEnd, TypeOK, Phases
<1>4. ASSUME NEW j \in Ids(taskPhase), Expire(j) PROVE taskStats[i].Status = "Finish"
  BY <1>4 DEF Expire, TypeOK
<1>5. ASSUME NEW w \in Workers, RegTask(w) PROVE taskStats[i].Status = "Finish"
  <2> DEFINE r == [Status |-> "Running", WorkerId |-> id[w], Overdue |-> FALSE]
  <2>1. r.Status = "Running"
    OBVIOUS
  <2>2. taskStats' = taskStats \/ taskStats' = [taskStats EXCEPT ![handler[w].Seq] = r]
    BY <1>5 DEF RegTask
  <2> HIDE DEF r
  <2> QED
    BY <2>1, <2>2 DEF TypeOK
<1> QED
  BY <1>1, <1>2, <1>3, <1>4, <1>5 DEF MasterStep, Talk, Die, Schedule, Tick, SchedBegin,
     SchedSkip, Serve, Exit, Register, ReqTask, ReqTaskFail, Recv, Crash, vars, masterVars

(* a task is completed by a worker that is done with its files *)
LEMMA TaskFinish ==
  ASSUME WInv, [WNext]_wVars, UNCHANGED taskPhase, NEW i \in Ids(taskPhase),
         taskStats'[i].Status = "Finish", taskStats[i].Status # "Finish"
  PROVE  \E w \in Workers : /\ MapDone(w) \/ ReduceDone(w)
                            /\ job[w].Phase = taskPhase /\ job[w].Seq = i
<1>1. TypeOK
  BY DEF WInv, FilesOK
<1>2. PICK w \in Workers : FileStep(w)
  BY <1>1, NoFinish DEF WNext, wVars
<1>3. ASSUME NEW ok \in BOOLEAN, NEW last \in BOOLEAN, Say(w, ok, last)
      PROVE  ok /\ job[w].Phase = taskPhase /\ i = job[w].Seq
  BY <1>1, <1>3, SayEffect
<1>4. ~UNCHANGED taskStats
  OBVIOUS
<1>5. ~Say(w, FALSE, TRUE) /\ ~Say(w, FALSE, FALSE)
  BY <1>3
<1>6. Say(w, TRUE, TRUE) /\ (MapDone(w) \/ ReduceDone(w))
  BY <1>2, <1>4, <1>5 DEF FileStep, MapCreate, MapClose, MapFails, MapDamaged, MapDone,
     ReadInput, ReduceFails, WriteTruncate, WriteOutput, ReduceDamaged, ReduceDone, GiveUp,
     ReportDamage, vars, masterVars
<1> QED
  BY <1>3, <1>6

LEMMA MapFinish ==
  ASSUME WInv, [WNext]_wVars, taskPhase = "map", UNCHANGED taskPhase, NEW i \in Maps,
         taskStats'[i].Status = "Finish", taskStats[i].Status # "Finish"
  PROVE  \E w \in Workers : MapDone(w) /\ job[w].Seq = i
BY TaskFinish DEF ReduceDone, Doing, Maps

LEMMA OthersStay ==
  ASSUME WInv, NEW v \in Workers, NEW w \in Workers, w # v,
         Talk(v) \/ Die(v) \/ FileStep(v)
  PROVE  /\ pc'[w] = pc[w] /\ job'[w] = job[w]
         /\ idx'[w] = idx[w] /\ open'[w] = open[w] /\ seen'[w] = seen[w]
<1> USE DEF WInv, FilesOK, TypeOK
<1>1. CASE Talk(v)
  BY <1>1 DEF Talk, Register, ReqTask, ReqTaskFail, Recv, RegTask, fileVars
<1>2. CASE Die(v)
  BY <1>2 DEF Die, Crash, ResetLocals
<1>3. CASE FileStep(v)
  <2>1. pc'[w] = pc[w] /\ job'[w] = job[w]
    <3>1. ASSUME NEW r \in Reports, Say(v, r[1], r[2])
          PROVE  pc'[w] = pc[w] /\ job'[w] = job[w]
      BY <3>1 DEF Say, Report, ReportFail, AfterReport
    <3> QED
      BY <1>3, <3>1, FileStepReports DEF vars, workerVars
  <2>2. idx'[w] = idx[w] /\ open'[w] = open[w] /\ seen'[w] = seen[w]
    BY <1>3 DEF FileStep, MapCreate, MapClose, MapFails, MapDamaged, MapDone, ReadInput,
       ReduceFails, WriteTruncate, WriteOutput, ReduceDamaged, ReduceDone, GiveUp,
       ReportDamage, ResetLocals, NextFile
  <2> QED
    BY <2>1, <2>2
<1> QED
  BY <1>1, <1>2, <1>3

LEMMA MasterKeepsWorkers ==
  ASSUME MasterStep \/ UNCHANGED wVars
  PROVE  UNCHANGED <<pc, job, fileVars>>
BY DEF MasterStep, Tick, Schedule, SchedBegin, SchedSkip, SchedSend, SchedEnd, Serve, Exit,
   Expire, wVars, vars, workerVars

(* a worker that talks to the master is between two tasks or starts one *)
LEMMA TalkEffect ==
  ASSUME WInv, HandlerOwned, NEW w \in Workers, Talk(w)
  PROVE  /\ UNCHANGED <<taskPhase, fileVars>>
         /\ pc[w] = "working" => pc'[w] = "working"
         /\ pc'[w] = "working" =>
              \/ pc[w] = "working" /\ job'[w] = job[w]
              \/ /\ pc[w] # "working" /\ job'[w] = handler[w]
                 /\ handler[w] \in Task /\ handler[w].Phase = taskPhase
BY DEF WInv, FilesOK, TypeOK, Talk, Register, ReqTask, ReqTaskFail, Recv, RegTask,
   masterVars

(* a step of a task ends it, or goes on with the same task *)
LEMMA TaskStep ==
  ASSUME WInv, NEW w \in Workers, FileStep(w)
  PROVE  /\ pc[w] = "working"
         /\ UNCHANGED taskPhase
         /\ \/ pc'[w] = "idle" /\ idx'[w] = 0 /\ open'[w] = "closed" /\ seen'[w] = {}
            \/ /\ pc'[w] = "working" /\ job'[w] = job[w]
               /\ \/ MapCreate(w) \/ MapClose(w) \/ ReadInput(w)
                  \/ WriteTruncate(w) \/ WriteOutput(w)
                  \/ open[w] # "closed" /\ open'[w] = "damaged" /\ UNCHANGED <<inter, idx>>
<1>1. CASE MapCreate(w) \/ MapClose(w) \/ ReadInput(w) \/ WriteTruncate(w) \/ WriteOutput(w)
  BY <1>1 DEF MapCreate, MapClose, ReadInput, WriteTruncate, WriteOutput, Doing, vars,
     masterVars, workerVars
<1>2. ASSUME NEW ok \in BOOLEAN, Say(w, ok, TRUE), ResetLocals(w)
      PROVE  /\ pc[w] = "working" /\ UNCHANGED taskPhase
             /\ pc'[w] = "idle" /\ idx'[w] = 0 /\ open'[w] = "closed" /\ seen'[w] = {}
  <2>1. FilesOK /\ TypeOK
    BY DEF WInv, FilesOK
  <2>2. /\ pc[w] = "working" /\ UNCHANGED taskPhase
        /\ pc' = [pc EXCEPT ![w] = "idle"]
    BY <1>2, <2>1, SayEffect
  <2>3. pc'[w] = "idle"
    BY <2>1, <2>2 DEF TypeOK
  <2>4. idx'[w] = 0 /\ open'[w] = "closed" /\ seen'[w] = {}
    BY <1>2, <2>1, ResetEffect
  <2> QED
    BY <2>2, <2>3, <2>4
<1>3. CASE MapDamaged(w) \/ ReduceDamaged(w)
  <2>1. Say(w, FALSE, FALSE) /\ open[w] # "closed" /\ open'[w] = "damaged"
        /\ UNCHANGED <<inter, idx>>
    BY <1>3 DEF MapDamaged, ReduceDamaged, ReportDamage, WInv, FilesOK
  <2>2. TypeOK
    BY DEF WInv, FilesOK
  <2> QED
    BY <2>1, <2>2, SayEffect
<1>4. CASE MapFails(w) \/ MapDone(w) \/ ReduceFails(w) \/ ReduceDone(w)
  BY <1>2, <1>4 DEF MapFails, MapDone, ReduceFails, ReduceDone, GiveUp
<1> QED
  BY <1>1, <1>3, <1>4 DEF FileStep

(* the locals and files of a task that neither it nor the phase moves *)
LEMMA SameLocals ==
  ASSUME WInv, [WNext]_wVars, NEW w \in Workers,
         pc'[w] = pc[w], job'[w] = job[w], idx'[w] = idx[w], open'[w] = open[w],
         seen'[w] = seen[w], taskPhase = "reduce" => taskPhase' = "reduce"
  PROVE  LocalOK(w)' /\ ProgressOK(w)'
<1>1. LocalOK(w)'
  BY DEF WInv, LocalsOK, LocalOK, Doing
<1>2. ASSUME Doing(w, "map") PROVE ProgressOK(w)'
  <2>1. job[w].Seq \in Maps /\ idx[w] \in 0 .. NReduce
    BY <1>2, TaskSeq DEF WInv, LocalsOK, LocalOK, Doing
  <2>2. \A r \in Reduces : r < idx[w] => inter'[<<job[w].Seq, r>>] # Absent
    <3> SUFFICES ASSUME NEW r \in Reduces, r < idx[w]
                 PROVE  inter'[<<job[w].Seq, r>>] # Absent
      OBVIOUS
    <3>1. <<job[w].Seq, r>> \in Maps \X Reduces /\ inter[<<job[w].Seq, r>>] # Absent
      BY <1>2, <2>1 DEF WInv, MapProgress, ProgressOK
    <3> QED
      BY <3>1, FilesStay
  <2>3. open[w] # "closed" => inter'[Bucket(w)] # Absent
    <3> SUFFICES ASSUME open[w] # "closed" PROVE inter'[Bucket(w)] # Absent
      OBVIOUS
    <3>1. Bucket(w) \in Maps \X Reduces
      BY <1>2, OwnBucket DEF WInv, LocalsOK, LocalOK
    <3>2. inter[Bucket(w)] # Absent
      BY <1>2 DEF WInv, MapProgress, ProgressOK
    <3> QED
      BY <3>1, <3>2, FilesStay
  <2> QED
    BY <2>2, <2>3 DEF ProgressOK, Bucket
<1>3. Doing(w, "map")' => Doing(w, "map")
  BY DEF Doing
<1> QED
  BY <1>1, <1>2, <1>3 DEF ProgressOK

(* a worker that has no task, or has just begun one *)
LEMMA NoLocals ==
  ASSUME NEW w \in Workers, idx'[w] = 0, open'[w] = "closed", seen'[w] = {},
         pc'[w] = "working" => job'[w] \in Task /\ job'[w].Phase = taskPhase'
  PROVE  LocalOK(w)' /\ ProgressOK(w)'
<1>1. LocalOK(w)'
  BY Sizes DEF LocalOK, Doing
<1>2. \A r \in Reduces : ~(r < 0)
  BY Sizes DEF Reduces, Ids
<1> QED
  BY <1>1, <1>2 DEF ProgressOK


LEMMA LocalsStep ==
  ASSUME WInv, HandlerOwned, [WNext]_wVars, NEW w \in Workers
  PROVE  LocalOK(w)' /\ ProgressOK(w)'
<1>1. taskPhase = "reduce" => taskPhase' = "reduce"
  BY MasterActs, PhaseStep DEF WInv, FilesOK
<1>2. CASE MasterStep \/ UNCHANGED wVars
  BY <1>1, <1>2, MasterKeepsWorkers, SameLocals DEF fileVars
<1>3. ASSUME NEW v \in Workers, v # w, Talk(v) \/ Die(v) \/ FileStep(v)
      PROVE  LocalOK(w)' /\ ProgressOK(w)'
  BY <1>1, <1>3, OthersStay, SameLocals
<1>4. CASE Talk(w)
  <2>1. CASE pc[w] = "working"
    BY <1>1, <1>4, <2>1, TalkEffect, SameLocals DEF fileVars
  <2>2. CASE pc[w] # "working"
    <3>1. idx[w] = 0 /\ open[w] = "closed" /\ seen[w] = {}
      BY <2>2 DEF WInv, LocalsOK, LocalOK
    <3>2. idx'[w] = 0 /\ open'[w] = "closed" /\ seen'[w] = {}
      BY <1>4, <3>1, TalkEffect DEF fileVars
    <3>3. pc'[w] = "working" => job'[w] \in Task /\ job'[w].Phase = taskPhase'
      BY <1>4, <2>2, TalkEffect
    <3> QED
      BY <3>2, <3>3, NoLocals
  <2> QED
    BY <2>1, <2>2
<1>5. CASE Die(w)
  <2>1. pc'[w] = "gone" /\ idx'[w] = 0 /\ open'[w] = "closed" /\ seen'[w] = {}
    BY <1>5, ResetEffect DEF Die, Crash, WInv, FilesOK, TypeOK
  <2> QED
    BY <2>1, NoLocals
<1>6. CASE FileStep(w)
  <2>1. CASE pc'[w] = "idle" /\ idx'[w] = 0 /\ open'[w] = "closed" /\ seen'[w] = {}
    BY <2>1, NoLocals
  <2>2. CASE pc'[w] = "working" /\ job'[w] = job[w]
    <3>1. /\ pc[w] = "working" /\ pc'[w] = "working" /\ job'[w] = job[w]
          /\ UNCHANGED taskPhase
      BY <1>6, <2>2, TaskStep
    <3>2. job[w] \in Task /\ idx[w] \in Nat
      BY <3>1 DEF WInv, LocalsOK, LocalOK, FilesOK
    <3>3. CASE MapCreate(w)
      <4>1. /\ Doing(w, "map") /\ idx[w] < NReduce /\ idx' = idx
            /\ inter' = [inter EXCEPT ![Bucket(w)] = w] /\ open[w] = "closed"
        BY <3>3 DEF MapCreate
      <4>2. Bucket(w) \in Maps \X Reduces
        BY <4>1, OwnBucket
      <4>3. LocalOK(w)'
        BY <3>1, <3>2, <4>1, Sizes DEF LocalOK, Doing
      <4>4. \A r \in Reduces : r < idx[w] => inter'[<<job[w].Seq, r>>] # Absent
        BY <3>1, <3>2, <4>1, TaskSeq, FilesStay DEF WInv, MapProgress, ProgressOK, Doing
      <4>5. inter'[Bucket(w)] # Absent
        BY <4>1, <4>2, FilesAssumption DEF FilesAssumption, WInv, FilesOK
      <4> QED
        BY <3>1, <4>1, <4>3, <4>4, <4>5 DEF ProgressOK, Bucket
    <3>4. CASE MapClose(w)
      <4>1. /\ Doing(w, "map") /\ open[w] # "closed"
            /\ idx'[w] = idx[w] + 1 /\ open'[w] = "closed" /\ idx[w] < NReduce
        BY <3>4 DEF MapClose, NextFile, WInv, FilesOK, LocalsOK, LocalOK
      <4>2. LocalOK(w)'
        BY <3>1, <3>2, <4>1, Sizes DEF LocalOK, Doing
      <4>3. inter[Bucket(w)] # Absent /\ Bucket(w) \in Maps \X Reduces
        BY <4>1, OwnBucket DEF WInv, MapProgress, ProgressOK
      <4>4. inter'[<<job[w].Seq, idx[w]>>] # Absent
        BY <4>3, FilesStay DEF Bucket
      <4>5. \A r \in Reduces : r < idx[w] => inter'[<<job[w].Seq, r>>] # Absent
        BY <3>1, <3>2, <4>1, TaskSeq, FilesStay DEF WInv, MapProgress, ProgressOK, Doing
      <4>6. \A r \in Reduces : r < idx[w] + 1 => r < idx[w] \/ r = idx[w]
        BY <3>2, Indices
      <4>7. \A r \in Reduces : r < idx'[w] => inter'[<<job'[w].Seq, r>>] # Absent
        BY <3>1, <4>1, <4>4, <4>5, <4>6
      <4> QED
        BY <4>1, <4>2, <4>7 DEF ProgressOK
    <3>5. CASE ReadInput(w) \/ WriteTruncate(w) \/ WriteOutput(w)
      <4>1. Doing(w, "reduce") /\ ~Doing(w, "map")'
        BY <3>1, <3>5 DEF ReadInput, WriteTruncate, WriteOutput, Doing
      <4>2. idx'[w] \in 0 .. NMap + 1 /\ (open'[w] # "closed" => idx'[w] = NMap)
        <5>1. idx[w] \in 0 .. NMap + 1 /\ (open[w] # "closed" => idx[w] = NMap)
          BY <4>1 DEF WInv, LocalsOK, LocalOK
        <5>2. CASE ReadInput(w)
          BY <5>1, <5>2, Sizes DEF ReadInput, NextFile, WInv, FilesOK
        <5>3. CASE WriteTruncate(w)
          BY <5>1, <5>3, Sizes DEF WriteTruncate, NextFile, WInv, FilesOK
        <5>4. CASE WriteOutput(w)
          BY <5>1, <5>4, Sizes DEF WriteOutput, NextFile, WInv, FilesOK
        <5> QED
          BY <3>5, <5>2, <5>3, <5>4
      <4>3. taskPhase = "reduce"
        BY <4>1 DEF WInv, LocalsOK, LocalOK
      <4> QED
        BY <3>1, <3>2, <4>1, <4>2, <4>3 DEF LocalOK, ProgressOK, Doing
    <3>6. CASE open[w] # "closed" /\ open'[w] = "damaged" /\ UNCHANGED <<inter, idx>>
      BY <3>1, <3>6 DEF WInv, LocalsOK, LocalOK, MapProgress, ProgressOK, Doing, Bucket
    <3> QED
      BY <1>6, <3>1, <3>3, <3>4, <3>5, <3>6, TaskStep
  <2> QED
    BY <1>6, <2>1, <2>2, TaskStep
<1> QED
  BY <1>2, <1>3, <1>4, <1>5, <1>6 DEF WNext

LEMMA FilesStep ==
  ASSUME WInv, HandlerOwned, [WNext]_wVars
  PROVE  WInv' /\ HandlerOwned'
<1>1. TypeOK /\ [Next]_vars
  BY MasterActs DEF WInv, FilesOK
<1>2. FilesOK' /\ ScanSound' /\ HandlerOwned'
  BY <1>1, FilesTyped, ScanSoundStep, HandlerOwnedStep DEF WInv
<1>3. LocalsOK' /\ MapProgress'
  BY LocalsStep DEF LocalsOK, MapProgress
<1>4. FinishedMaps'
  <2> SUFFICES ASSUME taskPhase' = "map", NEW i \in Maps, taskStats'[i].Status = "Finish",
                      NEW r \in Reduces
               PROVE  inter'[<<i, r>>] # Absent
    BY DEF FinishedMaps
  <2>1. taskPhase = "map" /\ UNCHANGED taskPhase
    BY <1>1, PhaseStep DEF WInv
  <2>2. CASE taskStats[i].Status = "Finish"
    BY <2>1, <2>2, FilesStay DEF WInv, FinishedMaps
  <2>3. CASE taskStats[i].Status # "Finish"
    <3>1. PICK w \in Workers : MapDone(w) /\ job[w].Seq = i
      BY <2>1, <2>3, MapFinish
    <3>2. inter[<<i, r>>] # Absent
      BY <3>1, Indices DEF MapDone, WInv, MapProgress, ProgressOK
    <3> QED
      BY <3>2, FilesStay
  <2> QED
    BY <2>2, <2>3
<1>5. ReduceInputsExist'
  <2> SUFFICES ASSUME taskPhase' = "reduce", NEW f \in Maps \X Reduces
               PROVE  inter'[f] # Absent
    BY DEF ReduceInputsExist
  <2>1. inter[f] # Absent
    <3>1. CASE taskPhase = "reduce"
      BY <3>1 DEF WInv, ReduceInputsExist
    <3>2. CASE taskPhase # "reduce"
      BY <1>1, <3>2, PhaseStep DEF WInv, FinishedMaps
    <3> QED
      BY <3>1, <3>2
  <2> QED
    BY <2>1, FilesStay
<1> QED
  BY <1>2, <1>3, <1>4, <1>5 DEF WInv

LEMMA FilesInv == WSpec => [](WInv /\ HandlerOwned)
<1>1. WInit => WInv /\ HandlerOwned
  BY WInitInv DEF WInit, Init, HandlerOwned
<1>2. WInv /\ HandlerOwned /\ [WNext]_wVars => (WInv /\ HandlerOwned)'
  BY FilesStep
<1> QED
  BY <1>1, <1>2, PTL DEF WSpec

(* The variables of the workers and of the shared directory keep their types. *)
THEOREM FilesTypeCorrect == WSpec => []FilesOK
BY FilesInv, PTL DEF WInv

(* Once reduce tasks are handed out every intermediate file exists, so that   *)
(* os.Open of doReduceTask finds its input, whatever crashes, times out or    *)
(* fails: a finished map task has created all of its files, and no step       *)
(* removes one.                                                               *)
THEOREM InputsExist == WSpec => []ReduceInputsExist
BY FilesInv, PTL DEF WInv

(* Seen from the master, the workers with their files behave as the clients  *)
(* of MRMaster: they report what those may report, when those may report it. *)
THEOREM WorkersUseMaster == WSpec => Spec
<1>1. WInit => Init
  BY DEF WInit
<1>2. WInv /\ [WNext]_wVars => [Next]_vars
  BY MasterActs
<1> QED
  BY <1>1, <1>2, FilesInv, PTL DEF WSpec, Spec

(* What part 1 proves of the master is true of the whole program, with slow  *)
(* workers, crashes and failing files: no queued task is lost, schedule()    *)
(* concludes from what it has scanned, and phases open only on complete ones.*)
THEOREM ProgramImplementsJob ==
  WSpec => []TypeOK /\ []NoTaskLost /\ []ScanSound /\ JobImplemented
BY WorkersUseMaster, TypeCorrect, QueuedTasksInFlight, ScanIsSound, MasterImplementsJob, PTL

(* And so is what part 2 proves, when no worker is slow and no file fails:   *)
(* a task is in one place, regTask does not panic, the channel does not      *)
(* block schedule(), a finished task stays finished, whatever crashes.       *)
THEOREM ProgramNeverStuck ==
  ASSUME Prompt, ~IOFaults
  PROVE  WSpec => []SingleHolder /\ []NoPhasePanic /\ []SendNeverBlocks /\ FinishStable
BY WorkersUseMaster, OneHolder, NeverPanics, SendNeverWaits, FinishedStays, PTL

-----------------------------------------------------------------------------
(* No slow worker and no failing file *)

(* what a task has written is there, and what it is writing is its own *)
IntactTask(w) ==
  /\ Doing(w, "map") =>
       /\ \A r \in Reduces : r < idx[w] => inter[<<job[w].Seq, r>>] = Full
       /\ open[w] # "closed" => open[w] = "open" /\ inter[Bucket(w)] = w
  /\ Doing(w, "reduce") =>
       /\ seen[w] = {m \in Maps : m < idx[w]}
       /\ open[w] # "closed" => open[w] = "open" /\ outf[job[w].Seq].kind = "truncated"
       /\ idx[w] = NMap + 1 => outf[job[w].Seq] = Written(Maps)

FinishedReduces ==
  taskPhase = "reduce" =>
    \A r \in Reduces : taskStats[r].Status = "Finish" => outf[r] = Written(Maps)

DoneSound ==
  done => taskPhase = "reduce" /\ \A r \in Reduces : taskStats[r].Status = "Finish"

IntactInv ==
  /\ MapOutputsIntact /\ FinishedReduces /\ DoneSound
  /\ \A w \in Workers : IntactTask(w)

LEMMA Changers ==
  ASSUME WInv, [WNext]_wVars
  PROVE  /\ \A f \in Maps \X Reduces : inter'[f] # inter[f] =>
              \E v \in Workers : (MapCreate(v) \/ MapClose(v)) /\ f = Bucket(v)
         /\ \A r \in Reduces : outf'[r] # outf[r] =>
              \E v \in Workers : (WriteTruncate(v) \/ WriteOutput(v)) /\ r = job[v].Seq
<1> USE DEF WInv, FilesOK
<1>1. CASE UNCHANGED <<inter, outf>>
  BY <1>1
<1>2. ASSUME NEW v \in Workers, MapCreate(v) \/ MapClose(v)
      PROVE  /\ outf' = outf
             /\ \A f \in Maps \X Reduces : inter'[f] # inter[f] => f = Bucket(v)
  BY <1>2 DEF MapCreate, MapClose
<1>3. ASSUME NEW v \in Workers, WriteTruncate(v) \/ WriteOutput(v)
      PROVE  /\ inter' = inter
             /\ \A r \in Reduces : outf'[r] # outf[r] => r = job[v].Seq
  BY <1>3 DEF WriteTruncate, WriteOutput
<1>4. \/ UNCHANGED <<inter, outf>>
      \/ \E v \in Workers : MapCreate(v) \/ MapClose(v) \/ WriteTruncate(v) \/ WriteOutput(v)
  BY DEF WNext, MasterStep, Talk, Die, FileStep, MapFails, MapDamaged, MapDone, ReadInput,
     ReduceFails, ReduceDamaged, ReduceDone, GiveUp, ReportDamage, fileVars, wVars
<1> QED
  BY <1>1, <1>2, <1>3, <1>4

(* a complete file of a finished task is left alone: who writes has a running task *)
LEMMA IntactStays ==
  ASSUME WInv, OneCopy, [WNext]_wVars
  PROVE  /\ \A f \in Maps \X Reduces :
              taskPhase = "reduce" \/ taskStats[f[1]].Status = "Finish" => inter'[f] = inter[f]
         /\ \A r \in Reduces :
              taskPhase = "reduce" /\ taskStats[r].Status = "Finish" => outf'[r] = outf[r]
<1>1. ASSUME NEW f \in Maps \X Reduces, inter'[f] # inter[f]
      PROVE  taskPhase = "map" /\ taskStats[f[1]].Status = "Running"
  <2>1. PICK v \in Workers : (MapCreate(v) \/ MapClose(v)) /\ f = Bucket(v)
    BY <1>1, Changers
  <2>2. Doing(v, "map") /\ f[1] = job[v].Seq
    BY <2>1 DEF MapCreate, MapClose, Bucket
  <2> QED
    BY <2>2 DEF Doing, OneCopy, JobCopies
<1>2. ASSUME NEW r \in Reduces, outf'[r] # outf[r]
      PROVE  taskStats[r].Status = "Running"
  <2>1. PICK v \in Workers : (WriteTruncate(v) \/ WriteOutput(v)) /\ r = job[v].Seq
    BY <1>2, Changers
  <2> QED
    BY <2>1 DEF WriteTruncate, WriteOutput, Doing, OneCopy, JobCopies
<1> QED
  BY <1>1, <1>2

(* two workers never work on the same task *)
LEMMA Apart ==
  ASSUME WInv, OneCopy, NEW v \in Workers, NEW w \in Workers, v # w,
         pc[v] = "working", pc[w] = "working"
  PROVE  job[v].Seq # job[w].Seq
<1>1. job[v] \in Task /\ job[w] \in Task /\ job[v].Phase = job[w].Phase /\ job[v] # job[w]
  BY DEF OneCopy, JobCopies
<1> QED
  BY <1>1 DEF Task

(* no one else writes to the files of a task that is being done *)
LEMMA OwnFilesKept ==
  ASSUME WInv, OneCopy, NEW w \in Workers, pc[w] = "working",
         MasterStep \/ UNCHANGED wVars
           \/ \E v \in Workers \ {w} : Talk(v) \/ Die(v) \/ FileStep(v)
  PROVE  /\ \A r \in Reduces : job[w].Seq \in Maps
              => inter'[<<job[w].Seq, r>>] = inter[<<job[w].Seq, r>>]
         /\ job[w].Seq \in Reduces => outf'[job[w].Seq] = outf[job[w].Seq]
<1> USE DEF WInv, FilesOK
<1>1. CASE UNCHANGED <<inter, outf>>
  BY <1>1
<1>2. ASSUME NEW v \in Workers \ {w}, MapCreate(v) \/ MapClose(v)
      PROVE  /\ outf' = outf
             /\ \A r \in Reduces : job[w].Seq \in Maps
                  => inter'[<<job[w].Seq, r>>] = inter[<<job[w].Seq, r>>]
  <2>1. job[v].Seq # job[w].Seq
    BY <1>2, Apart DEF MapCreate, MapClose, Doing
  <2> QED
    BY <1>2, <2>1 DEF MapCreate, MapClose, Bucket
<1>3. ASSUME NEW v \in Workers \ {w}, WriteTruncate(v) \/ WriteOutput(v)
      PROVE  /\ inter' = inter
             /\ job[w].Seq \in Reduces => outf'[job[w].Seq] = outf[job[w].Seq]
  <2>1. job[v].Seq # job[w].Seq
    BY <1>3, Apart DEF WriteTruncate, WriteOutput, Doing
  <2> QED
    BY <1>3, <2>1 DEF WriteTruncate, WriteOutput
<1>4. \/ UNCHANGED <<inter, outf>>
      \/ \E v \in Workers \ {w} :
           MapCreate(v) \/ MapClose(v) \/ WriteTruncate(v) \/ WriteOutput(v)
  BY DEF MasterStep, Talk, Die, FileStep, MapFails, MapDamaged, MapDone, ReadInput,
     ReduceFails, ReduceDamaged, ReduceDone, GiveUp, ReportDamage, fileVars, wVars
<1> QED
  BY <1>1, <1>2, <1>3, <1>4

LEMMA SameIntact ==
  ASSUME WInv, OneCopy, [WNext]_wVars, NEW w \in Workers, IntactTask(w),
         pc'[w] = pc[w], job'[w] = job[w], idx'[w] = idx[w], open'[w] = open[w],
         seen'[w] = seen[w],
         MasterStep \/ UNCHANGED wVars
           \/ \E v \in Workers \ {w} : Talk(v) \/ Die(v) \/ FileStep(v)
  PROVE  IntactTask(w)'
<1>1. CASE Doing(w, "map")
  <2>1. job[w].Seq \in Maps /\ idx[w] \in Nat /\ pc[w] = "working"
    BY <1>1, TaskSeq, Sizes DEF WInv, LocalsOK, LocalOK, Doing
  <2>2. \A r \in Reduces : inter'[<<job[w].Seq, r>>] = inter[<<job[w].Seq, r>>]
    BY <2>1, OwnFilesKept
  <2>3. open[w] # "closed" => inter'[Bucket(w)] = inter[Bucket(w)]
    <3>1. open[w] # "closed" => idx[w] \in Reduces
      BY <1>1, <2>1, Indices DEF WInv, LocalsOK, LocalOK
    <3> QED
      BY <2>2, <3>1 DEF Bucket
  <2> QED
    BY <1>1, <2>2, <2>3 DEF IntactTask, Doing, Bucket
<1>2. CASE Doing(w, "reduce")
  <2>1. job[w].Seq \in Reduces /\ pc[w] = "working"
    BY <1>2, TaskSeq DEF WInv, LocalsOK, LocalOK, Doing
  <2>2. outf'[job[w].Seq] = outf[job[w].Seq]
    BY <2>1, OwnFilesKept
  <2> QED
    BY <1>2, <2>1, <2>2 DEF IntactTask, Doing
<1>3. CASE ~Doing(w, "map") /\ ~Doing(w, "reduce")
  BY <1>3 DEF IntactTask, Doing
<1> QED
  BY <1>1, <1>2, <1>3

LEMMA NoIntact ==
  ASSUME NEW w \in Workers, idx'[w] = 0, open'[w] = "closed", seen'[w] = {}
  PROVE  IntactTask(w)'
<1>1. /\ \A r \in Reduces : ~(r < 0)
      /\ \A m \in Maps : ~(m < 0)
  BY Sizes DEF Reduces, Maps, Ids
<1>2. 0 # NMap + 1
  BY Sizes
<1> QED
  BY <1>1, <1>2 DEF IntactTask

LEMMA IntactStep ==
  ASSUME Prompt, ~IOFaults, WInv, HandlerOwned, OneCopy, IntactInv, [WNext]_wVars,
         NEW w \in Workers
  PROVE  IntactTask(w)'
<1>0. IntactTask(w)
  BY DEF IntactInv
<1>1. CASE MasterStep \/ UNCHANGED wVars
  BY <1>0, <1>1, MasterKeepsWorkers, SameIntact DEF fileVars
<1>2. ASSUME NEW v \in Workers \ {w}, Talk(v) \/ Die(v) \/ FileStep(v)
      PROVE  IntactTask(w)'
  <2>1. w # v
    OBVIOUS
  <2> QED
    BY <1>0, <1>2, <2>1, OthersStay, SameIntact
<1>3. CASE Talk(w)
  <2>1. UNCHANGED fileVars
    BY <1>3, TalkEffect
  <2>2. CASE pc[w] = "working"
    BY <1>0, <1>3, <2>1, <2>2, TalkEffect DEF IntactTask, Doing, Bucket, fileVars
  <2>3. CASE pc[w] # "working"
    BY <2>1, <2>3, NoIntact DEF WInv, LocalsOK, LocalOK, fileVars
  <2> QED
    BY <2>2, <2>3
<1>4. CASE Die(w)
  BY <1>4, ResetEffect, NoIntact DEF Die, WInv
<1>5. CASE FileStep(w)
  <2>1. CASE pc'[w] = "idle" /\ idx'[w] = 0 /\ open'[w] = "closed" /\ seen'[w] = {}
    BY <2>1, NoIntact
  <2>2. CASE pc'[w] = "working" /\ job'[w] = job[w]
    <3>1. /\ pc[w] = "working" /\ pc'[w] = "working" /\ job'[w] = job[w]
          /\ job[w] \in Task /\ idx[w] \in Nat
      BY <1>5, <2>2, TaskStep DEF WInv, LocalsOK, LocalOK, FilesOK
    <3>2. CASE MapCreate(w)
      <4>1. /\ Doing(w, "map") /\ idx[w] < NReduce /\ idx' = idx
            /\ inter' = [inter EXCEPT ![Bucket(w)] = w]
            /\ open'[w] = "open"
        BY <3>2 DEF MapCreate, WInv, FilesOK
      <4>2. Bucket(w) \in Maps \X Reduces
        BY <4>1, OwnBucket
      <4>3. \A r \in Reduces : r < idx[w] => inter'[<<job[w].Seq, r>>] = Full
        <5> SUFFICES ASSUME NEW r \in Reduces, r < idx[w]
                     PROVE  inter'[<<job[w].Seq, r>>] = Full
          OBVIOUS
        <5>1. r # idx[w] /\ <<job[w].Seq, r>> \in Maps \X Reduces
          BY <3>1, <4>1, TaskSeq, Indices DEF Doing
        <5>2. inter[<<job[w].Seq, r>>] = Full
          BY <1>0, <4>1 DEF IntactTask
        <5> QED
          BY <4>1, <5>1, <5>2 DEF Bucket, WInv, FilesOK
      <4>4. inter'[Bucket(w)] = w
        BY <4>1, <4>2 DEF WInv, FilesOK
      <4>5. ~Doing(w, "reduce")'
        BY <3>1, <4>1 DEF Doing
      <4> QED
        BY <3>1, <4>1, <4>3, <4>4, <4>5 DEF IntactTask, Bucket
    <3>3. CASE MapClose(w)
      <4>1. /\ Doing(w, "map") /\ open[w] = "open" /\ inter[Bucket(w)] = w
            /\ idx[w] < NReduce
            /\ inter' = [inter EXCEPT ![Bucket(w)] = Full]
            /\ idx'[w] = idx[w] + 1 /\ open'[w] = "closed"
        BY <1>0, <3>3 DEF MapClose, NextFile, IntactTask, WInv, FilesOK, LocalsOK, LocalOK
      <4>2. Bucket(w) \in Maps \X Reduces
        BY <4>1, OwnBucket
      <4>3. \A r \in Reduces : r < idx[w] + 1 => inter'[<<job[w].Seq, r>>] = Full
        <5> SUFFICES ASSUME NEW r \in Reduces, r < idx[w] + 1
                     PROVE  inter'[<<job[w].Seq, r>>] = Full
          OBVIOUS
        <5>1. r = idx[w] \/ r < idx[w]
          BY <3>1, Indices
        <5>2. <<job[w].Seq, r>> \in Maps \X Reduces
          BY <3>1, <4>1, TaskSeq DEF Doing
        <5>3. r < idx[w] => inter[<<job[w].Seq, r>>] = Full
          BY <1>0, <4>1 DEF IntactTask
        <5> QED
          BY <4>1, <4>2, <5>1, <5>2, <5>3 DEF Bucket, WInv, FilesOK
      <4>4. ~Doing(w, "reduce")'
        BY <3>1, <4>1 DEF Doing
      <4> QED
        BY <3>1, <4>1, <4>3, <4>4 DEF IntactTask
    <3>4. ASSUME Doing(w, "reduce"), idx[w] < NMap, ReadInput(w) PROVE IntactTask(w)'
      <4>1. Input(w) \in Maps \X Reduces /\ taskPhase = "reduce"
        BY <3>4, OwnInput DEF WInv, LocalsOK, LocalOK
      <4>2. inter[Input(w)] = Full
        BY <4>1 DEF IntactInv, MapOutputsIntact
      <4>3. seen'[w] = seen[w] \cup {idx[w]} /\ idx'[w] = idx[w] + 1 /\ open'[w] = "closed"
        BY <3>4, <4>2 DEF ReadInput, NextFile, WInv, FilesOK
      <4>4. seen[w] = {m \in Maps : m < idx[w]} /\ idx[w] \in Maps
        BY <1>0, <3>1, <3>4, Indices DEF IntactTask
      <4>5. seen'[w] = {m \in Maps : m < idx[w] + 1}
        <5>1. \A m, n \in Nat : m < n + 1 <=> m < n \/ m = n
          OBVIOUS
        <5>2. \A m \in Maps : m < idx[w] + 1 <=> m < idx[w] \/ m = idx[w]
          BY <3>1, <5>1, Indices
        <5> QED
          BY <4>3, <4>4, <5>2
      <4>6. idx'[w] # NMap + 1
        BY <3>1, <3>4, <4>3, Sizes
      <4>7. ~Doing(w, "map")'
        BY <3>1, <3>4 DEF Doing
      <4> QED
        BY <3>1, <4>3, <4>5, <4>6, <4>7 DEF IntactTask
    <3>5. CASE WriteTruncate(w)
      <4>1. /\ Doing(w, "reduce") /\ idx[w] = NMap /\ idx' = idx /\ seen' = seen
            /\ outf' = [outf EXCEPT ![job[w].Seq] = [kind |-> "truncated", maps |-> {}]]
            /\ open'[w] = "open"
        BY <3>5 DEF WriteTruncate, WInv, FilesOK
      <4>2. job[w].Seq \in Reduces
        BY <3>1, <4>1, TaskSeq DEF Doing
      <4>3. outf'[job[w].Seq].kind = "truncated"
        BY <4>1, <4>2 DEF WInv, FilesOK
      <4>4. idx[w] # NMap + 1
        BY <4>1, Sizes
      <4>5. ~Doing(w, "map")'
        BY <3>1, <4>1 DEF Doing
      <4> QED
        BY <1>0, <3>1, <4>1, <4>3, <4>4, <4>5 DEF IntactTask
    <3>6. CASE WriteOutput(w)
      <4>1. /\ Doing(w, "reduce") /\ open[w] = "open" /\ idx[w] = NMap
            /\ outf[job[w].Seq].kind = "truncated"
            /\ seen[w] = {m \in Maps : m < idx[w]} /\ seen' = seen
            /\ idx'[w] = idx[w] + 1 /\ open'[w] = "closed"
        BY <1>0, <3>6 DEF WriteOutput, NextFile, IntactTask, WInv, FilesOK, LocalsOK, LocalOK
      <4>2. job[w].Seq \in Reduces
        BY <3>1, <4>1, TaskSeq DEF Doing
      <4>3. seen[w] = Maps
        <5>1. \A m \in Maps : m < idx[w]
          BY <4>1, Indices
        <5> QED
          BY <4>1, <5>1
      <4>4. outf'[job[w].Seq] = Written(Maps)
        BY <3>6, <4>1, <4>2, <4>3 DEF WriteOutput, WInv, FilesOK
      <4>5. seen[w] = {m \in Maps : m < idx[w] + 1}
        <5>1. \A m \in Maps : m < idx[w] + 1
          BY <3>1, <4>1, Indices
        <5> QED
          BY <4>3, <5>1
      <4>6. ~Doing(w, "map")'
        BY <3>1, <4>1 DEF Doing
      <4> QED
        BY <3>1, <4>1, <4>4, <4>5, <4>6 DEF IntactTask
    <3>7. ASSUME ~(MapCreate(w) \/ MapClose(w) \/ ReadInput(w) \/ WriteTruncate(w) \/ WriteOutput(w))
          PROVE  FALSE
      <4>1. TypeOK
        BY DEF WInv, FilesOK
      <4>2. Say(w, TRUE, TRUE) \/ Say(w, FALSE, TRUE)
        BY <1>5, <3>7 DEF FileStep, MapFails, MapDamaged, MapDone, ReduceFails,
           ReduceDamaged, ReduceDone, GiveUp
      <4>3. pc' = [pc EXCEPT ![w] = "idle"]
        BY <4>1, <4>2, SayEffect
      <4> QED
        BY <3>1, <4>1, <4>3 DEF TypeOK
    <3> QED
      BY <1>5, <3>2, <3>3, <3>4, <3>5, <3>6, <3>7 DEF ReadInput
  <2> QED
    BY <1>5, <2>1, <2>2, TaskStep
<1> QED
  BY <1>1, <1>2, <1>3, <1>4, <1>5 DEF WNext

LEMMA IntactKept ==
  ASSUME Prompt, ~IOFaults, WInv, HandlerOwned, OneCopy, IntactInv, [WNext]_wVars
  PROVE  IntactInv'
<1>1. TypeOK /\ [Next]_vars
  BY MasterActs DEF WInv, FilesOK
<1>2. \A w \in Workers : IntactTask(w)'
  BY IntactStep
<1>3. MapOutputsIntact'
  <2> SUFFICES ASSUME NEW f \in Maps \X Reduces,
                      taskPhase' = "reduce" \/ taskStats'[f[1]].Status = "Finish"
               PROVE  inter'[f] = Full
    BY DEF MapOutputsIntact
  <2>1. CASE taskPhase = "reduce" \/ taskStats[f[1]].Status = "Finish"
    BY <2>1, IntactStays DEF IntactInv, MapOutputsIntact
  <2>2. CASE taskPhase # "reduce" /\ taskStats[f[1]].Status # "Finish"
    <3>1. taskPhase = "map" /\ UNCHANGED taskPhase /\ taskStats'[f[1]].Status = "Finish"
      BY <1>1, <2>2, PhaseStep DEF WInv, TypeOK, Phases
    <3>2. PICK w \in Workers : MapDone(w) /\ job[w].Seq = f[1]
      BY <2>2, <3>1, MapFinish
    <3>3. Doing(w, "map") /\ idx[w] = NReduce /\ inter' = inter
      BY <3>2 DEF MapDone
    <3>4. f[2] \in Reduces /\ f[2] < NReduce /\ f = <<job[w].Seq, f[2]>>
      <4>1. f[2] \in Reduces /\ f = <<f[1], f[2]>>
        OBVIOUS
      <4>2. f[2] < NReduce
        BY <4>1, Indices
      <4> QED
        BY <3>2, <4>1, <4>2
    <3>5. inter[<<job[w].Seq, f[2]>>] = Full
      BY <3>3, <3>4 DEF IntactInv, IntactTask
    <3> QED
      BY <3>3, <3>4, <3>5
  <2> QED
    BY <2>1, <2>2
<1>4. FinishedReduces'
  <2> SUFFICES ASSUME taskPhase' = "reduce", NEW r \in Reduces, taskStats'[r].Status = "Finish"
               PROVE  outf'[r] = Written(Maps)
    BY DEF FinishedReduces
  <2>1. taskPhase = "reduce" /\ r \in Ids(taskPhase)
    BY <1>1, PhaseFresh DEF Reduces, WInv
  <2>2. CASE taskStats[r].Status = "Finish"
    BY <2>1, <2>2, IntactStays DEF IntactInv, FinishedReduces
  <2>3. CASE taskStats[r].Status # "Finish"
    <3>1. PICK w \in Workers : ReduceDone(w) /\ job[w].Seq = r
      BY <2>1, <2>3, TaskFinish DEF MapDone, Doing
    <3> QED
      BY <3>1 DEF ReduceDone, IntactInv, IntactTask
  <2> QED
    BY <2>2, <2>3
<1>5. DoneSound'
  <2> SUFFICES ASSUME done'
               PROVE  taskPhase' = "reduce"
                        /\ \A r \in Reduces : taskStats'[r].Status = "Finish"
    BY DEF DoneSound
  <2>1. CASE done
    <3>1. taskPhase = "reduce" /\ \A r \in Reduces : taskStats[r].Status = "Finish"
      BY <2>1 DEF IntactInv, DoneSound
    <3>2. taskPhase' = taskPhase
      BY <1>1, <3>1, PhaseStep DEF WInv
    <3> QED
      BY <1>1, <3>1, <3>2, FinishKept DEF Reduces
  <2>2. CASE ~done
    <3>1. SchedEnd
      BY <1>1, <2>2 DEF Next, Schedule, Tick, SchedBegin, SchedSkip, SchedSend, Expire, Serve,
         Exit, WorkerStep, Register, ReqTask, ReqTaskFail, Recv, RegTask, Report, ReportFail,
         Crash, vars, masterVars
    <3>2. allFinish /\ taskPhase = "reduce" /\ UNCHANGED <<taskPhase, taskStats>>
      BY <1>1, <2>2, <3>1 DEF SchedEnd, TypeOK, Phases
    <3> QED
      BY <1>1, <3>1, <3>2, ScanComplete DEF WInv, Reduces
  <2> QED
    BY <2>1, <2>2
<1> QED
  BY <1>2, <1>3, <1>4, <1>5 DEF IntactInv

LEMMA IntactAlways ==
  ASSUME Prompt, ~IOFaults PROVE WSpec => []IntactInv
<1>1. WInit => IntactInv
  <2> SUFFICES ASSUME WInit PROVE IntactInv
    OBVIOUS
  <2>1. Init
    BY DEF WInit
  <2>2. MapOutputsIntact /\ FinishedReduces /\ DoneSound
    BY <2>1 DEF Init, FreshStats, MapOutputsIntact, FinishedReduces, DoneSound, Maps
  <2>3. \A w \in Workers : IntactTask(w)
    BY <2>1 DEF Init, IntactTask, Doing
  <2> QED
    BY <2>2, <2>3 DEF IntactInv
<1>2. WInv /\ HandlerOwned /\ OneCopy /\ IntactInv /\ [WNext]_wVars => IntactInv'
  BY IntactKept
<1> QED
  BY <1>1, <1>2, FilesInv, WorkersUseMaster, OneCopyAlways, PTL DEF WSpec

(* With no slow worker and no failing file, what a finished map task has     *)
(* written is complete and nobody truncates it again: a task runs again only *)
(* when its worker is dead, so whoever writes has the only copy of a task    *)
(* that is still Running.                                                    *)
THEOREM MapOutputsStayIntact ==
  ASSUME Prompt, ~IOFaults PROVE WSpec => []MapOutputsIntact
BY IntactAlways, PTL DEF IntactInv

(* The promise of the program, for every number of workers and tasks and     *)
(* whatever crashes: when Done() says so, each output file is the one that   *)
(* the sequential program computes from all map outputs.                     *)
THEOREM JobOutputComplete ==
  ASSUME Prompt, ~IOFaults PROVE WSpec => []OutputsComplete
<1>1. IntactInv => OutputsComplete
  BY DEF IntactInv, OutputsComplete, FinishedReduces, DoneSound
<1> QED
  BY <1>1, IntactAlways, PTL
=============================================================================
