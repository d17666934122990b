------------------------------ MODULE MRWorker ------------------------------
(***************************************************************************)
(* The workers of MRMaster with the files they work on: doMapTask writes   *)
(* the intermediate files mr-X-Y, doReduceTask reads them and writes the   *)
(* output file mr-out-Y (mr/worker.go).  All processes share one           *)
(* directory; nothing but the master's bookkeeping keeps two of them from  *)
(* opening the same file at once.                                          *)
(*                                                                         *)
(* Map and Reduce are deterministic, so what a file holds is abstracted to *)
(* how much of it is there: mr-X-Y is Absent, Full, or truncated by the    *)
(* last worker that called os.Create on it and not yet rewritten by it.    *)
(* mr-out-Y is the set of map tasks whose pairs it was computed from.      *)
(***************************************************************************)
EXTENDS MRMaster

CONSTANTS Absent, Full   \* model values: no such file, complete file

ASSUME FilesAssumption ==
  Absent # Full /\ Absent \notin Workers /\ Full \notin Workers

VARIABLES
  inter,   \* the files mr-X-Y: Absent, Full, or who truncated it
  outf,    \* the files mr-out-Y
  idx,     \* the loop variable idx of doMapTask and doReduceTask
  open,    \* the file a worker is writing: "closed", "open", "damaged"
  seen     \* the map tasks whose pairs doReduceTask has read

fileVars == <<inter, outf, idx, open, seen>>
wVars == <<vars, fileVars>>

Maps == Ids("map")
Reduces == Ids("reduce")

OutFile == [kind : {"absent", "truncated", "mixed"}, maps : {{}}]
             \cup [kind : {"written"}, maps : SUBSET Maps]
Written(s) == [kind |-> "written", maps |-> s]

FilesOK ==
  /\ TypeOK
  /\ inter \in [Maps \X Reduces -> {Absent, Full} \cup Workers]
  /\ outf \in [Reduces -> OutFile]
  /\ idx \in [Workers -> Nat]
  /\ open \in [Workers -> {"closed", "open", "damaged"}]
  /\ seen \in [Workers -> SUBSET Maps]

WInit ==
  /\ Init
  /\ inter = [f \in Maps \X Reduces |-> Absent]
  /\ outf = [r \in Reduces |-> [kind |-> "absent", maps |-> {}]]
  /\ idx = [w \in Workers |-> 0]
  /\ open = [w \in Workers |-> "closed"]
  /\ seen = [w \in Workers |-> {}]

Doing(w, phase) == pc[w] = "working" /\ job[w].Phase = phase
NextFile(w) == /\ idx' = [idx EXCEPT ![w] = @ + 1]
               /\ open' = [open EXCEPT ![w] = "closed"]

(* the locals of a task that is over, or died with its process *)
ResetLocals(w) == /\ idx' = [idx EXCEPT ![w] = 0]
                  /\ open' = [open EXCEPT ![w] = "closed"]
                  /\ seen' = [seen EXCEPT ![w] = {}]

(* reportTask: a master that is gone makes no difference to the worker *)
Say(w, ok, last) == Report(w, ok, last) \/ ReportFail(w, last)

(* reportTask(t, false, err); return *)
GiveUp(w) == Say(w, FALSE, TRUE) /\ ResetLocals(w) /\ UNCHANGED <<inter, outf>>

(* reportTask(t, false, err) without a return: the rest is written anyway *)
ReportDamage(w) ==
  /\ open[w] # "closed"
  /\ Say(w, FALSE, FALSE)
  /\ open' = [open EXCEPT ![w] = "damaged"]
  /\ UNCHANGED <<inter, outf, idx, seen>>

-----------------------------------------------------------------------------
(* doMapTask *)

Bucket(w) == <<job[w].Seq, idx[w]>>

(* os.Create truncates what is there *)
MapCreate(w) ==
  /\ Doing(w, "map")
  /\ idx[w] < NReduce
  /\ open[w] = "closed"
  /\ inter' = [inter EXCEPT ![Bucket(w)] = w]
  /\ open' = [open EXCEPT ![w] = "open"]
  /\ UNCHANGED <<vars, outf, idx, seen>>

(* the pairs are encoded and the file closed: it is complete if nobody has *)
(* truncated it since                                                      *)
MapClose(w) ==
  /\ Doing(w, "map")
  /\ open[w] # "closed"
  /\ inter' = IF open[w] = "open" /\ inter[Bucket(w)] = w
                THEN [inter EXCEPT ![Bucket(w)] = Full] ELSE inter
  /\ NextFile(w)
  /\ UNCHANGED <<vars, outf, seen>>

(* mutated: a map task that could not write is reported as done *)
MapFailsAsDone(w) ==
  /\ Doing(w, "map")
  /\ IOFaults
  /\ idx[w] < NReduce
  /\ open[w] = "closed"
  /\ Say(w, TRUE, TRUE)
  /\ ResetLocals(w)
  /\ UNCHANGED <<inter, outf>>

(* ReadFile or os.Create fails *)
MapFails(w) ==
  /\ Doing(w, "map")
  /\ IOFaults
  /\ idx[w] < NReduce
  /\ open[w] = "closed"
  /\ GiveUp(w)

(* Encode or Close fails *)
MapDamaged(w) == Doing(w, "map") /\ IOFaults /\ ReportDamage(w)

MapDone(w) ==
  /\ Doing(w, "map")
  /\ idx[w] = NReduce
  /\ Say(w, TRUE, TRUE)
  /\ ResetLocals(w)
  /\ UNCHANGED <<inter, outf>>

-----------------------------------------------------------------------------
(* doReduceTask *)

Input(w) == <<idx[w], job[w].Seq>>

(* mutated: map tasks counted from 1 *)
ReadInputFromOne(w) ==
  /\ Doing(w, "reduce")
  /\ idx[w] < NMap
  /\ inter[Input(w)] # Absent
  /\ seen' = IF inter[Input(w)] = Full
               THEN [seen EXCEPT ![w] = @ \cup {idx[w] + 1}] ELSE seen
  /\ NextFile(w)
  /\ UNCHANGED <<vars, inter, outf>>

(* the decoder stops at the first error, so a truncated file adds nothing *)
ReadInput(w) ==
  /\ Doing(w, "reduce")
  /\ idx[w] < NMap
  /\ inter[Input(w)] # Absent
  /\ seen' = IF inter[Input(w)] = Full
               THEN [seen EXCEPT ![w] = @ \cup {idx[w]}] ELSE seen
  /\ NextFile(w)
  /\ UNCHANGED <<vars, inter, outf>>

(* os.Open fails *)
ReduceFails(w) ==
  /\ Doing(w, "reduce")
  /\ idx[w] < NMap
  /\ inter[Input(w)] = Absent \/ IOFaults
  /\ GiveUp(w)

(* ioutil.WriteFile truncates, then writes in one call.  A write over what *)
(* another worker has just written leaves a mixture unless both are equal  *)
WriteTruncate(w) ==
  /\ Doing(w, "reduce")
  /\ idx[w] = NMap
  /\ open[w] = "closed"
  /\ outf' = [outf EXCEPT ![job[w].Seq] = [kind |-> "truncated", maps |-> {}]]
  /\ open' = [open EXCEPT ![w] = "open"]
  /\ UNCHANGED <<vars, inter, idx, seen>>

WriteOutput(w) ==
  /\ Doing(w, "reduce")
  /\ open[w] # "closed"
  /\ outf' = IF open[w] = "damaged" THEN outf
             ELSE [outf EXCEPT ![job[w].Seq] =
               IF @.kind = "truncated" \/ @ = Written(seen[w])
                 THEN Written(seen[w])
                 ELSE [kind |-> "mixed", maps |-> {}]]
  /\ NextFile(w)
  /\ UNCHANGED <<vars, inter, seen>>

(* WriteFile fails: the failure is reported, and then the success too *)
ReduceDamaged(w) == Doing(w, "reduce") /\ IOFaults /\ ReportDamage(w)

(* mutated: reported before the output is written *)
ReduceDoneEarly(w) ==
  /\ Doing(w, "reduce")
  /\ idx[w] = NMap
  /\ Say(w, TRUE, TRUE)
  /\ ResetLocals(w)
  /\ UNCHANGED <<inter, outf>>

ReduceDone(w) ==
  /\ Doing(w, "reduce")
  /\ idx[w] = NMap + 1
  /\ Say(w, TRUE, TRUE)
  /\ ResetLocals(w)
  /\ UNCHANGED <<inter, outf>>

-----------------------------------------------------------------------------
(* the steps of MRMaster that touch no file *)
Talk(w) == /\ Register(w) \/ ReqTask(w) \/ ReqTaskFail(w) \/ Recv(w) \/ RegTask(w)
           /\ UNCHANGED fileVars

Die(w) == Crash(w) /\ ResetLocals(w) /\ UNCHANGED <<inter, outf>>

FileStep(w) ==
  \/ MapCreate(w) \/ MapClose(w) \/ MapFails(w) \/ MapDamaged(w) \/ MapDone(w)
  \/ ReadInput(w) \/ ReduceFails(w) \/ WriteTruncate(w) \/ WriteOutput(w)
  \/ ReduceDamaged(w) \/ ReduceDone(w)

MasterStep ==
  /\ Tick \/ Schedule \/ Serve \/ Exit \/ \E i \in Ids(taskPhase) : Expire(i)
  /\ UNCHANGED fileVars

WNext == MasterStep \/ \E w \in Workers : Talk(w) \/ Die(w) \/ FileStep(w)

WSpec == WInit /\ [][WNext]_wVars

-----------------------------------------------------------------------------
(* Properties *)

(* The barrier between the phases as the files see it: once reduce tasks     *)
(* are handed out every intermediate file has been created, so the os.Open   *)
(* of doReduceTask finds it (worker.go:138-144), whatever crashed, timed     *)
(* out or failed before.                                                     *)
ReduceInputsExist ==
  taskPhase = "reduce" => \A f \in Maps \X Reduces : inter[f] # Absent

(* With no slow worker and no failing file, nobody truncates a finished map  *)
(* task's files, so no reducer reads a file while it is being written.       *)
MapOutputsIntact ==
  \A f \in Maps \X Reduces :
    taskPhase = "reduce" \/ taskStats[f[1]].Status = "Finish"
      => inter[f] = Full

(* When the master declares the job done, and from then on, each output file *)
(* is computed from the output of every map task: what test-mr.sh compares   *)
(* with the sequential run.                                                  *)
OutputsComplete == done => \A r \in Reduces : outf[r] = Written(Maps)
=============================================================================
