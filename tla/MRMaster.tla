------------------------------ MODULE MRMaster ------------------------------
(***************************************************************************)
(* The MapReduce master (mr/master.go) together with the RPC side of its   *)
(* workers (mr/worker.go).                                                 *)
(*                                                                         *)
(* The goroutines are: tickSchedule, the schedule() calls it and           *)
(* ReportTask spawn, one RPC handler per call in progress, and the main    *)
(* goroutine polling Done().  They share taskStats, taskPhase and done     *)
(* under the mutex mu, and the bounded channel taskCh outside of it:       *)
(* schedule() sends while it HOLDS mu, GetOneTask receives WITHOUT it.     *)
(* A schedule() that holds mu is therefore the only critical section that  *)
(* is split in steps: every other one touches mu-protected state alone and *)
(* is one action, enabled when mu is free.                                 *)
(***************************************************************************)
EXTENDS Naturals, Sequences, FiniteSets

CONSTANTS
  Workers,      \* the worker processes ever started
  Reliable,     \* those that never crash
  NMap,         \* len(m.files)
  NReduce,      \* m.nReduce
  Prompt,       \* TRUE: a task overruns MaxTaskRunTime only if its worker died
  IOFaults,     \* TRUE: file operations of a worker may fail
  MaxScheds,    \* bound: schedule() goroutines queued on mu at one time
  None,         \* model value: no task, no schedule() holding mu
  Receiving     \* model value: a handler blocked in task := <-m.taskCh

ASSUME SizesAssumption == NMap \in Nat \ {0} /\ NReduce \in Nat \ {0}
ASSUME ModesAssumption == Prompt \in BOOLEAN /\ IOFaults \in BOOLEAN
ASSUME BoundAssumption == MaxScheds \in Nat \ {0}
ASSUME WorkersAssumption == Reliable \subseteq Workers

VARIABLES
  taskPhase,    \* m.taskPhase
  taskStats,    \* m.taskStats; Overdue: StartTime is MaxTaskRunTime ago
  taskCh,       \* m.taskCh, the tasks it buffers
  done,         \* m.done
  workerSeq,    \* m.workerSeq
  scheds,       \* schedule() goroutines that wait for mu
  cursor,       \* the index the schedule() holding mu is at; None: mu is free
  allFinish,    \* its local variable
  mstate,       \* "starting", "serving", "exited" or "panicked"
  pc,           \* where each worker is
  id,           \* worker.id
  job,          \* the task a worker is doing
  handler       \* the master's GetOneTask goroutine of each worker

masterVars == <<taskPhase, taskStats, taskCh, done, workerSeq, scheds, cursor,
                allFinish, mstate>>
workerVars == <<pc, id, job, handler>>
vars == <<masterVars, workerVars>>

Phases == {"map", "reduce"}
Ids(phase) == 0 .. ((IF phase = "map" THEN NMap ELSE NReduce) - 1)
Status == {"Ready", "Queue", "Running", "Finish", "Err"}
TaskStat == [Status : Status, WorkerId : Nat, Overdue : BOOLEAN]
Task == {[Seq |-> i, Phase |-> "map"] : i \in Ids("map")}
          \cup {[Seq |-> i, Phase |-> "reduce"] : i \in Ids("reduce")}

ASSUME MarkersAssumption ==
  None \notin Nat \cup Task /\ Receiving \notin Task \cup {None}

(* mutated: the comparison of MakeMaster the other way round *)
ChanCapShort == (IF NReduce > NMap THEN NReduce ELSE NMap) - 1

(* make(chan Task, ...) in MakeMaster *)
ChanCap == IF NReduce > NMap THEN NReduce ELSE NMap

(* initMapTask and initReduceTask: make([]TaskStat, n) is zeroed *)
FreshStats(phase) ==
  [i \in Ids(phase) |-> [Status |-> "Ready", WorkerId |-> 0, Overdue |-> FALSE]]

(* getTask *)
TaskOf(i) == [Seq |-> i, Phase |-> taskPhase]

Alive == mstate \in {"starting", "serving"}
MuFree == Alive /\ cursor = None

TypeOK ==
  /\ taskPhase \in Phases
  /\ taskStats \in [Ids(taskPhase) -> TaskStat]
  /\ taskCh \in Seq(Task)
  /\ Len(taskCh) <= ChanCap
  /\ done \in BOOLEAN
  /\ workerSeq \in Nat
  /\ scheds \in 0 .. MaxScheds
  /\ cursor \in {None} \cup Nat
  /\ allFinish \in BOOLEAN
  /\ mstate \in {"starting", "serving", "exited", "panicked"}
  /\ pc \in [Workers -> {"new", "idle", "waiting", "working", "gone"}]
  /\ id \in [Workers -> Nat]
  /\ job \in [Workers -> Task \cup {None}]
  /\ handler \in [Workers -> Task \cup {None, Receiving}]

Init ==
  /\ taskPhase = "map"
  /\ taskStats = FreshStats("map")
  /\ taskCh = <<>>
  /\ done = FALSE
  /\ workerSeq = 0
  /\ scheds = 0
  /\ cursor = None
  /\ allFinish = FALSE
  /\ mstate = "starting"
  /\ pc = [w \in Workers |-> "new"]
  /\ id = [w \in Workers |-> 0]
  /\ job = [w \in Workers |-> None]
  /\ handler = [w \in Workers |-> None]

-----------------------------------------------------------------------------
(* Master: scheduling *)

(* go m.schedule(); goroutines beyond MaxScheds queued ones change nothing: *)
(* the queued ones still run after this point                               *)
SpawnSchedule == scheds' = IF scheds < MaxScheds THEN scheds + 1 ELSE scheds

(* one round of tickSchedule: Done() under mu, then go m.schedule() *)
Tick ==
  /\ MuFree
  /\ ~done
  /\ scheds < MaxScheds
  /\ SpawnSchedule
  /\ UNCHANGED <<taskPhase, taskStats, taskCh, done, workerSeq, cursor,
                 allFinish, mstate, workerVars>>

(* schedule() takes mu; it returns at once when the job is done *)
SchedBegin ==
  /\ MuFree
  /\ scheds > 0
  /\ scheds' = scheds - 1
  /\ IF done THEN UNCHANGED <<cursor, allFinish>>
             ELSE cursor' = 0 /\ allFinish' = TRUE
  /\ UNCHANGED <<taskPhase, taskStats, taskCh, done, workerSeq, mstate,
                 workerVars>>

(* mutated: Queue treated like Running *)
SendableQueued(i) ==
  \/ taskStats[i].Status \in {"Ready", "Err", "Queue"}
  \/ taskStats[i].Status = "Running" /\ taskStats[i].Overdue

(* mutated: Running without the comparison with MaxTaskRunTime *)
SendableRunning(i) == taskStats[i].Status \in {"Ready", "Err", "Running"}

(* mutated: no timeout at all *)
SendableNoTimeout(i) == taskStats[i].Status \in {"Ready", "Err"}

(* the statuses that make schedule() put task i in the channel *)
Sendable(i) ==
  \/ taskStats[i].Status \in {"Ready", "Err"}
  \/ taskStats[i].Status = "Running" /\ taskStats[i].Overdue

Scanning == Alive /\ cursor # None /\ cursor \in Ids(taskPhase)

(* mutated: allFinish not cleared for a Queue task *)
SchedSkipQueue ==
  /\ Scanning
  /\ ~Sendable(cursor)
  /\ allFinish' = (allFinish /\ taskStats[cursor].Status # "Running")
  /\ cursor' = cursor + 1
  /\ UNCHANGED <<taskPhase, taskStats, taskCh, done, workerSeq, scheds, mstate,
                 workerVars>>

SchedSkip ==
  /\ Scanning
  /\ ~Sendable(cursor)
  /\ allFinish' = (allFinish /\ taskStats[cursor].Status = "Finish")
  /\ cursor' = cursor + 1
  /\ UNCHANGED <<taskPhase, taskStats, taskCh, done, workerSeq, scheds, mstate,
                 workerVars>>

(* mutated: an unbounded channel *)
SchedSendUnbounded ==
  /\ Scanning
  /\ Sendable(cursor)
  /\ taskCh' = Append(taskCh, TaskOf(cursor))
  /\ taskStats' = [taskStats EXCEPT ![cursor].Status = "Queue"]
  /\ allFinish' = FALSE
  /\ cursor' = cursor + 1
  /\ UNCHANGED <<taskPhase, done, workerSeq, scheds, mstate, workerVars>>

(* mutated: the task is sent but not marked Queue *)
SchedSendUnmarked ==
  /\ Scanning
  /\ Sendable(cursor)
  /\ Len(taskCh) < ChanCap
  /\ taskCh' = Append(taskCh, TaskOf(cursor))
  /\ allFinish' = FALSE
  /\ cursor' = cursor + 1
  /\ UNCHANGED <<taskPhase, taskStats, done, workerSeq, scheds, mstate,
                 workerVars>>

(* m.taskCh <- getTask(index): waits, holding mu, while the channel is full *)
SchedSend ==
  /\ Scanning
  /\ Sendable(cursor)
  /\ Len(taskCh) < ChanCap
  /\ taskCh' = Append(taskCh, TaskOf(cursor))
  /\ taskStats' = [taskStats EXCEPT ![cursor].Status = "Queue"]
  /\ allFinish' = FALSE
  /\ cursor' = cursor + 1
  /\ UNCHANGED <<taskPhase, done, workerSeq, scheds, mstate, workerVars>>

(* mutated: the reduce phase keeps the statuses of the map phase *)
SchedEndNoReset ==
  /\ Alive
  /\ cursor # None
  /\ cursor \notin Ids(taskPhase)
  /\ cursor' = None
  /\ allFinish' = FALSE
  /\ IF allFinish
       THEN IF taskPhase = "map" THEN taskPhase' = "reduce" /\ UNCHANGED done
                                 ELSE done' = TRUE /\ UNCHANGED taskPhase
       ELSE UNCHANGED <<taskPhase, done>>
  /\ UNCHANGED <<taskStats, taskCh, workerSeq, scheds, mstate, workerVars>>

(* after the loop: next phase, end of the job, or nothing; mu is released *)
SchedEnd ==
  /\ Alive
  /\ cursor # None
  /\ cursor \notin Ids(taskPhase)
  /\ cursor' = None
  /\ allFinish' = FALSE
  /\ IF allFinish
       THEN IF taskPhase = "map"
              THEN /\ taskPhase' = "reduce"
                   /\ taskStats' = FreshStats("reduce")
                   /\ UNCHANGED done
              ELSE done' = TRUE /\ UNCHANGED <<taskPhase, taskStats>>
       ELSE UNCHANGED <<taskPhase, taskStats, done>>
  /\ UNCHANGED <<taskCh, workerSeq, scheds, mstate, workerVars>>

(* five seconds pass since regTask stored StartTime *)
DoingTask(w, t) == pc[w] = "working" /\ job[w] = t

Expire(i) ==
  /\ Alive
  /\ taskStats[i].Status = "Running"
  /\ ~taskStats[i].Overdue
  /\ Prompt => \A w \in Workers : ~DoingTask(w, TaskOf(i))
  /\ taskStats' = [taskStats EXCEPT ![i].Overdue = TRUE]
  /\ UNCHANGED <<taskPhase, taskCh, done, workerSeq, scheds, cursor, allFinish,
                 mstate, workerVars>>

(* server(): tickSchedule was started before it, so it may lose the race *)
Serve ==
  /\ mstate = "starting"
  /\ mstate' = "serving"
  /\ UNCHANGED <<taskPhase, taskStats, taskCh, done, workerSeq, scheds, cursor,
                 allFinish, workerVars>>

(* mutated: the master waits for its handlers before it exits *)
ExitDrained ==
  /\ mstate = "serving"
  /\ MuFree
  /\ done
  /\ \A w \in Workers : handler[w] = None
  /\ mstate' = "exited"
  /\ UNCHANGED <<taskPhase, taskStats, taskCh, done, workerSeq, scheds, cursor,
                 allFinish, workerVars>>

(* main() saw Done() and returned *)
Exit ==
  /\ mstate = "serving"
  /\ MuFree
  /\ done
  /\ mstate' = "exited"
  /\ UNCHANGED <<taskPhase, taskStats, taskCh, done, workerSeq, scheds, cursor,
                 allFinish, workerVars>>

-----------------------------------------------------------------------------
(* Workers and the RPC handlers that serve them *)

(* register(): a failed call is logged and leaves w.id = 0 *)
Register(w) ==
  /\ pc[w] = "new"
  /\ pc' = [pc EXCEPT ![w] = "idle"]
  /\ IF mstate = "serving"
       THEN /\ MuFree
            /\ workerSeq' = workerSeq + 1
            /\ id' = [id EXCEPT ![w] = workerSeq + 1]
       ELSE UNCHANGED <<workerSeq, id>>
  /\ UNCHANGED <<taskPhase, taskStats, taskCh, done, scheds, cursor, allFinish,
                 mstate, job, handler>>

(* reqTask(): the call reaches the master, whose handler waits on taskCh *)
ReqTask(w) ==
  /\ pc[w] = "idle"
  /\ mstate = "serving"
  /\ pc' = [pc EXCEPT ![w] = "waiting"]
  /\ handler' = [handler EXCEPT ![w] = Receiving]
  /\ UNCHANGED <<masterVars, id, job>>

(* reqTask() cannot reach the master, or loses it: os.Exit(1) *)
ReqTaskFail(w) ==
  /\ \/ pc[w] = "idle" /\ mstate # "serving"
     \/ pc[w] = "waiting" /\ ~Alive
  /\ pc' = [pc EXCEPT ![w] = "gone"]
  /\ UNCHANGED <<masterVars, id, job, handler>>

(* task := <-m.taskCh, without mu; the worker may be dead by now *)
Recv(w) ==
  /\ Alive
  /\ handler[w] = Receiving
  /\ taskCh # <<>>
  /\ handler' = [handler EXCEPT ![w] = Head(taskCh)]
  /\ taskCh' = Tail(taskCh)
  /\ UNCHANGED <<taskPhase, taskStats, done, workerSeq, scheds, cursor,
                 allFinish, mstate, pc, id, job>>

(* mutated: the handler drops the task of a worker that has died *)
RegTaskDropsDead(w) ==
  /\ MuFree
  /\ handler[w] \in Task
  /\ handler' = [handler EXCEPT ![w] = None]
  /\ IF pc[w] = "gone" THEN UNCHANGED <<taskStats, mstate, pc, job>>
     ELSE IF handler[w].Phase # taskPhase
       THEN mstate' = "panicked" /\ UNCHANGED <<taskStats, pc, job>>
       ELSE /\ taskStats' = [taskStats EXCEPT ![handler[w].Seq] =
                 [Status |-> "Running", WorkerId |-> id[w], Overdue |-> FALSE]]
            /\ pc' = [pc EXCEPT ![w] = "working"]
            /\ job' = [job EXCEPT ![w] = handler[w]]
            /\ UNCHANGED mstate
  /\ UNCHANGED <<taskPhase, taskCh, done, workerSeq, scheds, cursor, allFinish,
                 id>>

(* regTask(): a task of another phase is a panic, which ends the process; *)
(* otherwise the task is Running and the reply starts the worker on it    *)
RegTask(w) ==
  /\ MuFree
  /\ handler[w] \in Task
  /\ handler' = [handler EXCEPT ![w] = None]
  /\ IF handler[w].Phase # taskPhase
       THEN mstate' = "panicked" /\ UNCHANGED <<taskStats, pc, job>>
       ELSE /\ taskStats' = [taskStats EXCEPT ![handler[w].Seq] =
                 [Status |-> "Running", WorkerId |-> id[w], Overdue |-> FALSE]]
            /\ UNCHANGED mstate
            /\ IF pc[w] = "waiting"
                 THEN /\ pc' = [pc EXCEPT ![w] = "working"]
                      /\ job' = [job EXCEPT ![w] = handler[w]]
                 ELSE UNCHANGED <<pc, job>>
  /\ UNCHANGED <<taskPhase, taskCh, done, workerSeq, scheds, cursor, allFinish,
                 id>>

(* reportTask() as doMapTask and doReduceTask call it: an error of Encode,   *)
(* Close or WriteFile is reported and the function goes on (last = FALSE)    *)
Reports == {<<TRUE, TRUE>>}
             \cup (IF IOFaults THEN {<<FALSE, TRUE>>, <<FALSE, FALSE>>} ELSE {})

AfterReport(w, last) ==
  IF last THEN /\ pc' = [pc EXCEPT ![w] = "idle"]
               /\ job' = [job EXCEPT ![w] = None]
          ELSE UNCHANGED <<pc, job>>

Accepted(w) ==
  /\ taskPhase = job[w].Phase
  /\ id[w] = taskStats[job[w].Seq].WorkerId

Report(w, ok, last) ==
  /\ pc[w] = "working"
  /\ mstate = "serving"
  /\ MuFree
  /\ IF Accepted(w)
       THEN /\ taskStats' = [taskStats EXCEPT ![job[w].Seq].Status =
                               IF ok THEN "Finish" ELSE "Err"]
            /\ SpawnSchedule
       ELSE UNCHANGED <<taskStats, scheds>>
  /\ AfterReport(w, last)
  /\ UNCHANGED <<taskPhase, taskCh, done, workerSeq, cursor, allFinish, mstate,
                 id, handler>>

(* the master is gone: the failed call is logged, run() goes on *)
ReportFail(w, last) ==
  /\ pc[w] = "working"
  /\ ~Alive
  /\ AfterReport(w, last)
  /\ UNCHANGED <<masterVars, id, handler>>

(* the process dies (crash.go, kill): its GetOneTask goroutine lives on in *)
(* the master                                                              *)
Crash(w) ==
  /\ w \notin Reliable
  /\ pc[w] # "gone"
  /\ pc' = [pc EXCEPT ![w] = "gone"]
  /\ job' = [job EXCEPT ![w] = None]
  /\ UNCHANGED <<masterVars, id, handler>>

-----------------------------------------------------------------------------
Schedule == SchedBegin \/ SchedSkip \/ SchedSend \/ SchedEnd

WorkerStep(w) ==
  \/ Register(w)
  \/ ReqTask(w)
  \/ ReqTaskFail(w)
  \/ Recv(w)
  \/ RegTask(w)
  \/ \E r \in Reports : Report(w, r[1], r[2])
  \/ \E r \in Reports : ReportFail(w, r[2])
  \/ Crash(w)

Next ==
  \/ Tick
  \/ Schedule
  \/ \E i \in Ids(taskPhase) : Expire(i)
  \/ Serve
  \/ Exit
  \/ \E w \in Workers : WorkerStep(w)

Spec == Init /\ [][Next]_vars

(* What the Go runtime and the code owe: the schedule() holding mu goes on,  *)
(* tickSchedule keeps ticking, an overrun is noticed, and whoever waits for  *)
(* mu gets it: sync.Mutex hands itself over in FIFO order after 1 ms of      *)
(* waiting, hence strong fairness there although mu is free only at times.   *)
(* Crashes are never owed.                                                   *)
Fairness ==
  /\ WF_vars(SchedSkip \/ SchedSend \/ SchedEnd)
  /\ SF_vars(SchedBegin)
  /\ SF_vars(Tick)
  /\ SF_vars(Exit)
  /\ WF_vars(Serve)
  /\ \A i \in Ids("map") \cup Ids("reduce") :
       WF_vars(i \in Ids(taskPhase) /\ Expire(i))
  /\ \A w \in Workers :
       /\ SF_vars(Register(w))
       /\ WF_vars(ReqTask(w))
       /\ WF_vars(ReqTaskFail(w))
       /\ SF_vars(Recv(w))
       /\ SF_vars(RegTask(w))
       /\ SF_vars(Report(w, TRUE, TRUE))
       /\ WF_vars(ReportFail(w, TRUE))

FairSpec == Spec /\ Fairness

-----------------------------------------------------------------------------
(* Properties *)

(* A task marked Queue is really on its way: a copy of it, of this phase, is *)
(* in the channel or with a handler about to register it.  schedule() never  *)
(* looks at a Queue task again, so one without a copy would never run        *)
(* (master.go:93-94).  Holds whatever times out, fails or crashes.           *)
InFlight(i) ==
  \/ \E k \in DOMAIN taskCh : taskCh[k] = TaskOf(i)
  \/ \E w \in Workers : handler[w] = TaskOf(i)

NoTaskLost ==
  \A i \in Ids(taskPhase) : taskStats[i].Status = "Queue" => InFlight(i)

(* The scan of schedule() is sound although channel receives interleave with *)
(* it: while allFinish is true, every task already passed is complete.       *)
ScanSound ==
  cursor # None /\ allFinish =>
    \A i \in Ids(taskPhase) : i < cursor => taskStats[i].Status = "Finish"

(* The master keeps the promise of MRJob: phases open only on complete ones  *)
(* (schedule, master.go:110-116) and done is final.                          *)
Stage == IF done THEN "done" ELSE taskPhase
Completed ==
  IF done THEN Ids("reduce")
          ELSE {i \in Ids(taskPhase) : taskStats[i].Status = "Finish"}
Job == INSTANCE MRJob WITH stage <- Stage, completed <- Completed
JobImplemented == Job!JobSpec

(* The number of places task t is held at: channel slots, handlers, workers. *)
Holders(t) ==
  Cardinality({k \in DOMAIN taskCh : taskCh[k] = t})
    + Cardinality({w \in Workers : handler[w] = t})
    + Cardinality({w \in Workers : DoingTask(w, t)})

(* With no slow worker and no failing file, no task is ever in two places,   *)
(* however many workers crash: a timeout re-queues what nobody holds.        *)
SingleHolder == \A t \in Task : Holders(t) <= 1

(* regTask's check "req Task phase neq" (master.go:139-141) never fires.     *)
NoPhasePanic == mstate # "panicked"

(* schedule() never waits on a full channel while it holds mu: with mu held  *)
(* neither reports nor registrations proceed (master.go:91,99,105).          *)
SendBlocked == Scanning /\ Sendable(cursor) /\ Len(taskCh) = ChanCap
SendNeverBlocks == ~SendBlocked

(* A complete task stays complete to the end of its phase: no stale copy     *)
(* makes it Running again.                                                   *)
FinishStable ==
  [][\A i \in Ids(taskPhase) :
       taskStats[i].Status = "Finish" /\ taskPhase' = taskPhase
         => taskStats'[i].Status = "Finish"]_vars

(* Once the master serves, the job ends if one worker survives, whatever the *)
(* crashes of the others.                                                    *)
EventuallyDone ==
  (mstate = "serving" /\ \E w \in Reliable : pc[w] # "gone") ~> done

(* After the end of the job every worker leaves, those blocked in GetOneTask *)
(* included: not by Alive = FALSE, which the master never sends, but because *)
(* the master exits (worker.go:70-73).                                       *)
WorkersLeave == done ~> \A w \in Workers : pc[w] = "gone"
=============================================================================
