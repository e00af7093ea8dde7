------------------------------ MODULE Execution ------------------------------
(***************************************************************************)
(* One test execution of EasyTest from the click to the last write: the    *)
(* API that triggers, cancels and deletes it (executions.service.ts), the  *)
(* BullMQ job that carries it, the worker that runs it                     *)
(* (execution.processor.ts with docker.service.ts) and the container that  *)
(* runs its tests (executor.js).                                           *)
(*                                                                         *)
(* The API, the worker and the container share the Postgres rows and       *)
(* little else; between two awaits of one of them the others take steps.   *)
(* An action here is what one of them does between two awaits that touch   *)
(* shared state; logging, artifact URLs and error texts are left out.      *)
(***************************************************************************)
EXTENDS Naturals, FiniteSets

CONSTANTS
  Executions,   \* executions that may be triggered
  Tests,        \* tests a trigger may select
  Stepless,     \* those of them without an enabled step
  Workers,      \* worker processes, each with BullMQ concurrency 1
  None,         \* "no execution", "no worker"
  Environments  \* the sets of faults to choose from, each a subset of FaultKinds

(***************************************************************************)
(* connect      publisher.connect() rejects, before the try                *)
(* publish      a publish on the events channel rejects                    *)
(* notice       a cancellation notice is lost (pub/sub does not persist)   *)
(* poll         the cancellation poll's query rejects (it is read as null) *)
(* database     any other query of the worker rejects                      *)
(* enqueue      queue.add rejects after the row was created                *)
(* create       docker refuses to create the container                     *)
(* start        docker creates the container and fails to start it         *)
(* remove       docker fails to remove a container (the error is dropped)  *)
(* wait         the docker daemon drops the wait on a container            *)
(* timeout      EXECUTION_TIMEOUT_MS elapses                               *)
(* executor     the executor process dies: Chromium, memory, a fatal error *)
(* announce     the executor's publish of result:started rejects           *)
(* rowUpdate    the executor's UPDATE of a result fails (allSettled)       *)
(* crash        the worker process dies and restarts                       *)
(* lock         BullMQ loses the job's lock while its worker is alive      *)
(* hang         a test never ends, and its container with it               *)
(* two          no fault: a second execution is triggered as well          *)
(***************************************************************************)
FaultKinds == {"connect", "publish", "notice", "poll", "database", "enqueue", "create",
               "start", "remove", "wait", "timeout", "executor", "announce", "rowUpdate",
               "crash", "lock", "hang", "two"}

ASSUME EnvironmentsAssumption == Environments \subseteq SUBSET FaultKinds
ASSUME SteplessAssumption == Stepless \subseteq Tests
ASSUME NoneAssumption == None \notin Executions \cup Workers

\* trigger() adds the job with attempts: 2; BullMQ's maxStalledCount is left at 1.
Attempts == 2
MaxStalled == 1

VARIABLES
  status,   \* Postgres: executions.status; "none" before the row, "deleted" after it
  rows,     \* Postgres: the execution_results of each execution
  req,      \* API: where the DELETE /executions/:id call on each execution stands
  job,      \* BullMQ: the job whose jobId is the execution's id
  worker,   \* the local variables of process() in each worker
  box,      \* Docker: the container named exec-<id>
  faults    \* what may go wrong in this behaviour, any number of times

vars == <<status, rows, req, job, worker, box, faults>>

-----------------------------------------------------------------------------
Active   == {"QUEUED", "PROVISIONING", "RUNNING", "COLLECTING"}
Terminal == {"COMPLETED", "FAILED", "CANCELLED"}
Status   == Active \cup Terminal \cup {"none", "deleted"}

\* An execution_results row. batch is the call of process() that inserted it: with test,
\* its primary key. ran is history: the executor put its test to the browser.
RowStatus == {"RUNNING", "COMPLETED", "FAILED", "CANCELLED"}
Batch     == Nat \ {0}
Key       == Tests \X Batch
Row       == [test : Tests, batch : Batch, st : RowStatus, ran : BOOLEAN]
KeyOf(r)  == <<r.test, r.batch>>
KeysOf(e) == {KeyOf(r) : r \in rows[e]}

\* runs counts the calls of process(); made the attempts that ended in an error; stalls
\* the times the job was found active without a lock.
JobState == {"none", "adding", "lost", "waiting", "active", "done", "failed", "removed"}
Job == [st : JobState, owner : Workers \cup {None}, made : 0..Attempts,
        stalls : 0..(MaxStalled + 1), runs : Nat]
NewJob == [st |-> "none", owner |-> None, made |-> 0, stalls |-> 0, runs |-> 0]

\* A container: id is the call of process() that created it, todo the rows its query
\* returned and that it has not run yet; "clean" and "dirty" are exit codes 0 and not 0.
Box == [id : Nat, st : {"absent", "created", "booting", "running", "clean", "dirty"},
        todo : SUBSET Key]
NoBox == [id |-> 0, st |-> "absent", todo |-> {}]

PCs == {"idle", "connect", "provisioning", "getTests", "wipe", "insert", "removeOld",
        "create", "start", "saveContainer", "running", "wait", "stopAborted",
        "cancelRows", "collecting", "readRows", "saveRows", "final", "fail",
        "closeRows", "finally", "settle"}

\* The steps at which the worker awaits a query.
QueryPCs == {"provisioning", "getTests", "wipe", "insert", "removeOld", "saveContainer",
             "running", "cancelRows", "collecting", "readRows", "saveRows", "final", "fail"}

\* held is containerId (0 for undefined), ear the subscription to execution:cancel, mode
\* tells whether an error goes to the catch, out of the catch, or already went out.
WorkerState ==
  [pc : PCs, cur : Executions \cup {None}, run : Nat, chosen : SUBSET Tests, held : Nat,
   ear : {"off", "on", "heard"},
   outcome : {"none", "clean", "dirty", "timeout", "cancelled"},
   seen : SUBSET Key, mode : {"try", "catch", "rejected"}]
IdleWorker ==
  [pc |-> "idle", cur |-> None, run |-> 0, chosen |-> {}, held |-> 0, ear |-> "off",
   outcome |-> "none", seen |-> {}, mode |-> "try"]

TypeOK ==
  /\ status \in [Executions -> Status]
  /\ rows \in [Executions -> SUBSET Row]
  /\ req \in [Executions -> {"idle", "mark", "unqueue", "notify", "delete", "purge"}]
  /\ job \in [Executions -> Job]
  /\ worker \in [Workers -> WorkerState]
  /\ box \in [Executions -> Box]
  /\ faults \subseteq FaultKinds

Init ==
  /\ status = [e \in Executions |-> "none"]
  /\ rows = [e \in Executions |-> {}]
  /\ req = [e \in Executions |-> "idle"]
  /\ job = [e \in Executions |-> NewJob]
  /\ worker = [w \in Workers |-> IdleWorker]
  /\ box = [e \in Executions |-> NoBox]
  /\ faults \in Environments

-----------------------------------------------------------------------------
(* The API: trigger, cancel and delete                                     *)

\* trigger(), first await: the row.
Trigger(e) ==
  /\ status[e] = "none"
  /\ "two" \in faults \/ \A d \in Executions : status[d] = "none"
  /\ status' = [status EXCEPT ![e] = "QUEUED"]
  /\ job' = [job EXCEPT ![e].st = "adding"]
  /\ UNCHANGED <<rows, req, worker, box, faults>>

\* trigger(), second await: the job. Nothing takes the row back when it fails.
Enqueue(e) ==
  /\ job[e].st = "adding"
  /\ \/ job' = [job EXCEPT ![e].st = "waiting"]
     \/ "enqueue" \in faults /\ job' = [job EXCEPT ![e].st = "lost"]
  /\ UNCHANGED <<status, rows, req, worker, box, faults>>

\* cancel() reads the row and decides by what it read.
ReadForCancel(e) ==
  /\ req[e] = "idle"
  /\ status[e] \in Active \cup Terminal
  /\ req' = [req EXCEPT ![e] = IF status[e] \in Active THEN "mark" ELSE "delete"]
  /\ UNCHANGED <<status, rows, job, worker, box, faults>>

\* Mutant: the update is by id alone and takes an execution back from its end.
MarkAnyway(e) ==
  /\ req[e] = "mark"
  /\ status' = IF status[e] # "deleted" THEN [status EXCEPT ![e] = "CANCELLED"] ELSE status
  /\ req' = [req EXCEPT ![e] = "unqueue"]
  /\ UNCHANGED <<rows, job, worker, box, faults>>

\* The conditional update: an execution that ended since the read keeps its status.
MarkCancelled(e) ==
  /\ req[e] = "mark"
  /\ status' = IF status[e] \in Active THEN [status EXCEPT ![e] = "CANCELLED"] ELSE status
  /\ req' = [req EXCEPT ![e] = "unqueue"]
  /\ UNCHANGED <<rows, job, worker, box, faults>>

\* The row goes with its results (onDelete: Cascade); a second delete throws P2025.
DeleteRow(e) ==
  /\ req[e] = "delete"
  /\ status' = [status EXCEPT ![e] = "deleted"]
  /\ rows' = [rows EXCEPT ![e] = {}]
  /\ req' = [req EXCEPT ![e] = IF status[e] = "deleted" THEN "idle" ELSE "purge"]
  /\ UNCHANGED <<job, worker, box, faults>>

\* BullMQ refuses to remove a job while its lock is held; the refusal is dropped.
Removable(e) ==
  \/ job[e].st \in {"waiting", "done", "failed"}
  \/ job[e].st = "active" /\ job[e].owner = None

RemoveJob(e) ==
  /\ req[e] \in {"unqueue", "purge"}
  /\ job' = IF Removable(e) THEN [job EXCEPT ![e].st = "removed"] ELSE job
  /\ req' = [req EXCEPT ![e] = IF @ = "unqueue" THEN "notify" ELSE "idle"]
  /\ UNCHANGED <<status, rows, worker, box, faults>>

\* Mutant: the subscriber does not compare the id with its own execution.
HearsAny(w, e) == worker[w].pc = "wait" /\ worker[w].ear = "on"

\* Every subscriber of execution:cancel gets the id; only its own execution's counts.
Hears(w, e) == worker[w].pc = "wait" /\ worker[w].ear = "on" /\ worker[w].cur = e

Notify(e) ==
  /\ req[e] = "notify"
  /\ req' = [req EXCEPT ![e] = "idle"]
  /\ \/ worker' = [w \in Workers |->
                     IF Hears(w, e) THEN [worker[w] EXCEPT !.ear = "heard"] ELSE worker[w]]
     \/ "notice" \in faults /\ UNCHANGED worker
  /\ UNCHANGED <<status, rows, job, box, faults>>

-----------------------------------------------------------------------------
(* The worker: process(), one action per await                             *)

At(w, l)   == worker[w].pc = l
Sets(w, r) == worker' = [worker EXCEPT ![w] = r]
Goto(w, l) == Sets(w, [worker[w] EXCEPT !.pc = l])

\* An error thrown inside the try goes to the catch, which fails the execution; one thrown
\* inside the catch rejects process(), after the finally.
Raise(w) ==
  Sets(w, IF worker[w].mode = "try"
          THEN [worker[w] EXCEPT !.pc = "fail", !.mode = "catch"]
          ELSE [worker[w] EXCEPT !.pc = "finally", !.mode = "rejected"])

\* P2025, the row is gone: the catch does nothing and process() resolves.
RaiseDeleted(w) == Sets(w, [worker[w] EXCEPT !.pc = "finally", !.mode = "catch"])

\* Mutant: the update is by id alone, as it was with check-then-update.
WritableAnyStatus(e) == status[e] \notin {"none", "deleted"}

\* WHERE id = e AND status <> CANCELLED finds a row.
Writable(e) == status[e] \notin {"none", "deleted", "CANCELLED"}

\* transition(): the conditional update, and the publish when it touched a row. The count
\* is not returned: process() goes on either way.
Transition(w, s, next) ==
  LET e == worker[w].cur IN
  /\ status' = IF Writable(e) THEN [status EXCEPT ![e] = s] ELSE status
  /\ \/ Goto(w, next)
     \/ "publish" \in faults /\ Writable(e) /\ Raise(w)
  /\ UNCHANGED <<rows, req, job, box, faults>>

\* Mutant: every result is closed, also the ones with a verdict.
ClosedAll(e, s) == {[r EXCEPT !.st = s] : r \in rows[e]}

\* updateMany(where status = RUNNING) over the results of e.
Closed(e, s) == {IF r.st = "RUNNING" THEN [r EXCEPT !.st = s] ELSE r : r \in rows[e]}

TakeJob(w, e) ==
  /\ At(w, "idle")
  /\ job[e].st = "waiting"
  /\ job' = [job EXCEPT ![e].st = "active", ![e].owner = w, ![e].runs = @ + 1]
  /\ Sets(w, [IdleWorker EXCEPT !.pc = "connect", !.cur = e, !.run = job[e].runs + 1])
  /\ UNCHANGED <<status, rows, req, box, faults>>

\* Outside the try: there is no catch and no finally behind it.
Connect(w) ==
  /\ At(w, "connect")
  /\ \/ Goto(w, "provisioning")
     \/ /\ "connect" \in faults
        /\ Sets(w, [worker[w] EXCEPT !.pc = "settle", !.mode = "rejected"])
  /\ UNCHANGED <<status, rows, req, job, box, faults>>

Provision(w) == At(w, "provisioning") /\ Transition(w, "PROVISIONING", "getTests")

\* Mutant: an empty selection goes on to the end, as it did before P5 was applied.
GetTestsGreen(w) ==
  /\ At(w, "getTests")
  /\ \E s \in SUBSET Tests :
       Sets(w, [worker[w] EXCEPT !.chosen = s, !.pc = IF s = {} THEN "final" ELSE "wipe",
                                 !.outcome = IF s = {} THEN "clean" ELSE @])
  /\ UNCHANGED <<status, rows, req, job, box, faults>>

\* The ACTIVE tests of the selection; none is a failure, never a success.
GetTests(w) ==
  /\ At(w, "getTests")
  /\ \E s \in SUBSET Tests :
       Sets(w, [worker[w] EXCEPT !.chosen = s, !.pc = IF s = {} THEN "fail" ELSE "wipe"])
  /\ UNCHANGED <<status, rows, req, job, box, faults>>

\* Mutant: the results of an earlier attempt are left in place.
WipeNothing(w) ==
  /\ At(w, "wipe")
  /\ Goto(w, "insert")
  /\ UNCHANGED <<status, rows, req, job, box, faults>>

WipeRows(w) ==
  /\ At(w, "wipe")
  /\ rows' = [rows EXCEPT ![worker[w].cur] = {}]
  /\ Goto(w, "insert")
  /\ UNCHANGED <<status, req, job, box, faults>>

\* createMany; without the execution's row the foreign key rejects it (P2003, not P2025).
InsertRows(w) ==
  LET e == worker[w].cur IN
  /\ At(w, "insert")
  /\ IF status[e] = "deleted"
     THEN Raise(w) /\ UNCHANGED rows
     ELSE /\ rows' = [rows EXCEPT ![e] = @ \cup
                       {[test |-> t, batch |-> worker[w].run, st |-> "RUNNING", ran |-> FALSE] :
                          t \in worker[w].chosen}]
          /\ Goto(w, "removeOld")
  /\ UNCHANGED <<status, req, job, box, faults>>

\* removeByName(exec-<id>), forced; docker's refusal is dropped.
RemoveOld(w) ==
  /\ At(w, "removeOld")
  /\ \/ box' = [box EXCEPT ![worker[w].cur] = NoBox]
     \/ "remove" \in faults /\ UNCHANGED box
  /\ Goto(w, "create")
  /\ UNCHANGED <<status, rows, req, job, faults>>

\* The name is taken (409) or docker refuses: an error.
CreateBox(w) ==
  LET e == worker[w].cur IN
  /\ At(w, "create")
  /\ \/ /\ box[e].st = "absent"
        /\ box' = [box EXCEPT ![e] = [id |-> worker[w].run, st |-> "created", todo |-> {}]]
        /\ Goto(w, "start")
     \/ /\ box[e].st # "absent" \/ "create" \in faults
        /\ Raise(w)
        /\ UNCHANGED box
  /\ UNCHANGED <<status, rows, req, job, faults>>

\* containerId is assigned only when start() returned.
StartBox(w) ==
  LET e == worker[w].cur
      mine == box[e].id = worker[w].run /\ box[e].st = "created" IN
  /\ At(w, "start")
  /\ \/ /\ mine
        /\ box' = [box EXCEPT ![e].st = "booting"]
        /\ Sets(w, [worker[w] EXCEPT !.held = worker[w].run, !.pc = "saveContainer"])
     \/ /\ ~mine \/ "start" \in faults
        /\ Raise(w)
        /\ UNCHANGED box
  /\ UNCHANGED <<status, rows, req, job, faults>>

\* execution.update({where: {id}}) throws P2025 on a deleted row.
SaveContainer(w) ==
  /\ At(w, "saveContainer")
  /\ IF status[worker[w].cur] = "deleted" THEN RaiseDeleted(w) ELSE Goto(w, "running")
  /\ UNCHANGED <<status, rows, req, job, box, faults>>

MarkRunning(w) == At(w, "running") /\ Transition(w, "RUNNING", "wait")

-----------------------------------------------------------------------------
(* waitForContainerOrAbort(): the race of the exit, the timeout, the poll  *)
(* and the notice. What wins is the outcome; the rest is forgotten.        *)

\* Mutant: an aborted container is forgotten before it is stopped.
ResolveForgetting(w, o) ==
  Sets(w, [worker[w] EXCEPT !.outcome = o, !.ear = "off",
                            !.held = IF o \in {"timeout", "cancelled"} THEN 0 ELSE @,
                            !.pc = IF o \in {"timeout", "cancelled"} THEN "stopAborted"
                                   ELSE "collecting"])

Resolve(w, o) ==
  Sets(w, [worker[w] EXCEPT !.outcome = o, !.ear = "off",
                            !.pc = IF o \in {"timeout", "cancelled"} THEN "stopAborted"
                                   ELSE "collecting"])

\* The subscriber connects on its own; nothing waits for it.
Subscribe(w) ==
  /\ At(w, "wait")
  /\ worker[w].ear = "off"
  /\ Sets(w, [worker[w] EXCEPT !.ear = "on"])
  /\ UNCHANGED <<status, rows, req, job, box, faults>>

HeldBox(w) == worker[w].held # 0 /\ box[worker[w].cur].id = worker[w].held

\* A container that somebody removed ends the wait with 137 or with a 404.
WaitExit(w) ==
  LET b == box[worker[w].cur] IN
  /\ At(w, "wait")
  /\ \/ HeldBox(w) /\ b.st \in {"clean", "dirty"} /\ Resolve(w, b.st)
     \/ ~HeldBox(w) /\ (Resolve(w, "dirty") \/ Raise(w))
  /\ UNCHANGED <<status, rows, req, job, box, faults>>

WaitFails(w) ==
  /\ At(w, "wait")
  /\ "wait" \in faults
  /\ Raise(w)
  /\ UNCHANGED <<status, rows, req, job, box, faults>>

WaitTimeout(w) ==
  /\ At(w, "wait")
  /\ "timeout" \in faults
  /\ Resolve(w, "timeout")
  /\ UNCHANGED <<status, rows, req, job, box, faults>>

WaitNotice(w) ==
  /\ At(w, "wait")
  /\ worker[w].ear = "heard"
  /\ Resolve(w, "cancelled")
  /\ UNCHANGED <<status, rows, req, job, box, faults>>

\* Mutant: the notice is the only way to learn of a cancellation.
NoPoll(w) ==
  /\ At(w, "wait")
  /\ status[worker[w].cur] = "deleted"
  /\ Resolve(w, "cancelled")
  /\ UNCHANGED <<status, rows, req, job, box, faults>>

\* Every CANCEL_POLL_MS: the row says CANCELLED or is gone.
WaitPoll(w) ==
  /\ At(w, "wait")
  /\ status[worker[w].cur] \in {"CANCELLED", "deleted"}
  /\ Resolve(w, "cancelled")
  /\ UNCHANGED <<status, rows, req, job, box, faults>>

\* A query that rejects is read as null, and null as a deleted execution.
PollFails(w) ==
  /\ At(w, "wait")
  /\ "poll" \in faults
  /\ Resolve(w, "cancelled")
  /\ UNCHANGED <<status, rows, req, job, box, faults>>

-----------------------------------------------------------------------------
(* The end of process()                                                    *)

\* stopAndRemove(containerId): nothing when the container is not there any more. Both the
\* stop and the remove may fail, and the errors are dropped.
StopAndRemove(w) ==
  LET e == worker[w].cur IN
  \/ box' = IF HeldBox(w) THEN [box EXCEPT ![e] = NoBox] ELSE box
  \/ "remove" \in faults /\ UNCHANGED box
  \/ /\ "remove" \in faults
     /\ HeldBox(w) /\ box[e].st \in {"booting", "running"}
     /\ box' = [box EXCEPT ![e].st = "dirty"]

StopAborted(w) ==
  /\ At(w, "stopAborted")
  /\ StopAndRemove(w)
  /\ Sets(w, [worker[w] EXCEPT !.held = 0,
                               !.pc = IF worker[w].outcome = "cancelled" THEN "cancelRows"
                                      ELSE "collecting"])
  /\ UNCHANGED <<status, rows, req, job, faults>>

\* Mutant: the cancelled branch leaves the results as they are.
CancelNoRows(w) ==
  /\ At(w, "cancelRows")
  /\ Goto(w, "finally") \/ ("publish" \in faults /\ Raise(w))
  /\ UNCHANGED <<status, rows, req, job, box, faults>>

\* The execution itself is left to the API's cancel().
CancelRows(w) ==
  LET e == worker[w].cur IN
  /\ At(w, "cancelRows")
  /\ rows' = [rows EXCEPT ![e] = Closed(e, "CANCELLED")]
  /\ Goto(w, "finally") \/ ("publish" \in faults /\ Raise(w))
  /\ UNCHANGED <<status, req, job, box, faults>>

Collect(w) == At(w, "collecting") /\ Transition(w, "COLLECTING", "readRows")

ReadRows(w) ==
  /\ At(w, "readRows")
  /\ Sets(w, [worker[w] EXCEPT !.seen = KeysOf(worker[w].cur), !.pc = "saveRows"])
  /\ UNCHANGED <<status, rows, req, job, box, faults>>

\* One update by id for each row read: P2025 as soon as one of them is gone.
SaveRows(w) ==
  LET next == IF worker[w].outcome = "timeout" THEN "fail" ELSE "final" IN
  /\ At(w, "saveRows")
  /\ IF worker[w].seen \subseteq KeysOf(worker[w].cur)
     THEN Sets(w, [worker[w] EXCEPT !.seen = {}, !.pc = next])
     ELSE Sets(w, [worker[w] EXCEPT !.seen = {}, !.pc = "finally", !.mode = "catch"])
  /\ UNCHANGED <<status, rows, req, job, box, faults>>

\* The last transition: the exit code decides, not the verdicts.
Finish(w) ==
  /\ At(w, "final")
  /\ Transition(w, IF worker[w].outcome = "clean" THEN "COMPLETED" ELSE "FAILED", "finally")

\* Mutant: the error is only logged.
FailSilently(w) ==
  /\ At(w, "fail")
  /\ Goto(w, "finally")
  /\ UNCHANGED <<status, rows, req, job, box, faults>>

\* failExecution(), the conditional update: nothing else happens when it finds no row.
FailExecution(w) ==
  LET e == worker[w].cur IN
  /\ At(w, "fail")
  /\ status' = IF Writable(e) THEN [status EXCEPT ![e] = "FAILED"] ELSE status
  /\ Goto(w, IF Writable(e) THEN "closeRows" ELSE "finally")
  /\ UNCHANGED <<rows, req, job, box, faults>>

\* failExecution(), the rest: close the results (an error is dropped) and publish.
CloseRows(w) ==
  LET e == worker[w].cur IN
  /\ At(w, "closeRows")
  /\ \/ rows' = [rows EXCEPT ![e] = Closed(e, "FAILED")]
     \/ "database" \in faults /\ UNCHANGED rows
  /\ Goto(w, "finally") \/ ("publish" \in faults /\ Raise(w))
  /\ UNCHANGED <<status, req, job, box, faults>>

\* Any awaited query may reject.
QueryFails(w) ==
  /\ "database" \in faults
  /\ worker[w].pc \in QueryPCs
  /\ Raise(w)
  /\ UNCHANGED <<status, rows, req, job, box, faults>>

\* Mutant: without the finally, only the path of an abort removes the container.
FinallyWithout(w) ==
  /\ At(w, "finally")
  /\ Sets(w, [worker[w] EXCEPT !.held = 0, !.pc = "settle"])
  /\ UNCHANGED <<status, rows, req, job, box, faults>>

Finally(w) ==
  /\ At(w, "finally")
  /\ StopAndRemove(w)
  /\ Sets(w, [worker[w] EXCEPT !.held = 0, !.pc = "settle"])
  /\ UNCHANGED <<status, rows, req, job, faults>>

\* Mutant: a rejected job is tried again without a limit.
SettleForever(w) ==
  LET e == worker[w].cur IN
  /\ At(w, "settle")
  /\ job' = IF job[e].owner # w \/ job[e].st # "active" THEN job
            ELSE IF worker[w].mode # "rejected"
            THEN [job EXCEPT ![e].st = "done", ![e].owner = None]
            ELSE [job EXCEPT ![e].st = "waiting", ![e].owner = None, ![e].made = @ + 1]
  /\ Sets(w, IdleWorker)
  /\ UNCHANGED <<status, rows, req, box, faults>>

\* BullMQ takes the result of process(); a worker that lost the lock has no say.
Settle(w) ==
  LET e == worker[w].cur
      failed == job[e].made + 1 IN
  /\ At(w, "settle")
  /\ job' = IF job[e].owner # w \/ job[e].st # "active" THEN job
            ELSE IF worker[w].mode # "rejected"
            THEN [job EXCEPT ![e].st = "done", ![e].owner = None]
            ELSE [job EXCEPT ![e].st = IF failed < Attempts THEN "waiting" ELSE "failed",
                             ![e].owner = None, ![e].made = failed]
  /\ Sets(w, IdleWorker)
  /\ UNCHANGED <<status, rows, req, box, faults>>

-----------------------------------------------------------------------------
(* Crashes and locks                                                       *)

\* The process restarts with nothing; the lock it held is left to expire.
Crash(w) ==
  LET e == worker[w].cur IN
  /\ "crash" \in faults
  /\ ~At(w, "idle")
  /\ Sets(w, IdleWorker)
  /\ job' = IF job[e].owner = w THEN [job EXCEPT ![e].owner = None] ELSE job
  /\ UNCHANGED <<status, rows, req, box, faults>>

LoseLock(e) ==
  /\ "lock" \in faults
  /\ job[e].st = "active" /\ job[e].owner # None
  /\ job' = [job EXCEPT ![e].owner = None]
  /\ UNCHANGED <<status, rows, req, worker, box, faults>>

\* BullMQ's stalled check: back to the queue once, failed for good the next time.
Stall(e) ==
  /\ job[e].st = "active" /\ job[e].owner = None
  /\ job' = [job EXCEPT ![e].stalls = @ + 1,
                        ![e].st = IF job[e].stalls < MaxStalled THEN "waiting" ELSE "failed"]
  /\ UNCHANGED <<status, rows, req, worker, box, faults>>

-----------------------------------------------------------------------------
(* The container: main() of executor.js                                    *)

\* The query of main(): the rows of the execution as they are now.
Boot(e) ==
  /\ box[e].st = "booting"
  /\ box' = [box EXCEPT ![e].st = "running", ![e].todo = KeysOf(e)]
  /\ UNCHANGED <<status, rows, req, job, worker, faults>>

\* runTest(): its steps run, then its verdict is written by id on the row, if it is there.
\* allSettled drops what escapes it: a failed UPDATE, or a publish before the first step.
RunTest(e, k) ==
  /\ box[e].st = "running"
  /\ k \in box[e].todo
  /\ box' = [box EXCEPT ![e].todo = @ \ {k}]
  /\ \/ \E s \in {"COMPLETED", "FAILED"} :
          rows' = [rows EXCEPT ![e] =
            {IF KeyOf(r) = k THEN [r EXCEPT !.st = s, !.ran = TRUE] ELSE r : r \in @}]
     \/ /\ "rowUpdate" \in faults
        /\ rows' = [rows EXCEPT ![e] =
             {IF KeyOf(r) = k THEN [r EXCEPT !.ran = TRUE] ELSE r : r \in @}]
     \/ "announce" \in faults /\ UNCHANGED rows
  /\ UNCHANGED <<status, req, job, worker, faults>>

\* process.exit(0) once every batch is settled, whatever the verdicts.
ExitClean(e) ==
  /\ box[e].st = "running"
  /\ box[e].todo = {}
  /\ box' = [box EXCEPT ![e].st = "clean"]
  /\ UNCHANGED <<status, rows, req, job, worker, faults>>

ExitDirty(e) ==
  /\ "executor" \in faults
  /\ box[e].st \in {"booting", "running"}
  /\ box' = [box EXCEPT ![e].st = "dirty"]
  /\ UNCHANGED <<status, rows, req, job, worker, faults>>

-----------------------------------------------------------------------------
Api(e) == Enqueue(e) \/ MarkCancelled(e) \/ DeleteRow(e) \/ RemoveJob(e) \/ Notify(e)

Process(w) ==
  \/ Connect(w) \/ Provision(w) \/ GetTests(w) \/ WipeRows(w) \/ InsertRows(w)
  \/ RemoveOld(w) \/ CreateBox(w) \/ StartBox(w) \/ SaveContainer(w) \/ MarkRunning(w)
  \/ WaitExit(w) \/ WaitNotice(w) \/ WaitPoll(w)
  \/ StopAborted(w) \/ CancelRows(w) \/ Collect(w) \/ ReadRows(w) \/ SaveRows(w)
  \/ Finish(w) \/ FailExecution(w) \/ CloseRows(w) \/ Finally(w) \/ Settle(w)

Container(e) == Boot(e) \/ ExitClean(e) \/ \E k \in box[e].todo : RunTest(e, k)

Next ==
  \/ \E e \in Executions : Trigger(e) \/ ReadForCancel(e) \/ Api(e)
  \/ \E w \in Workers : Process(w) \/ Subscribe(w) \/ WaitTimeout(w)
  \/ \E w \in Workers : WaitFails(w) \/ PollFails(w) \/ QueryFails(w) \/ Crash(w)
  \/ \E w \in Workers, e \in Executions : TakeJob(w, e)
  \/ \E e \in Executions : Container(e) \/ ExitDirty(e) \/ LoseLock(e) \/ Stall(e)

Spec == Init /\ [][Next]_vars

\* The API's handlers and the worker's code run, a waiting job is taken by a free worker and
\* BullMQ's stalled check runs. Every step of a test has a time limit of its own, so its
\* container comes to its end unless it hangs. Users, timers and faults owe nothing.
Fairness ==
  /\ \A e \in Executions : WF_vars(Api(e)) /\ WF_vars(Stall(e))
  /\ \A e \in Executions : WF_vars("hang" \notin faults /\ Container(e))
  /\ \A w \in Workers : WF_vars(Process(w))
  /\ \A e \in Executions : SF_vars(\E w \in Workers : TakeJob(w, e))

FairSpec == Spec /\ Fairness

-----------------------------------------------------------------------------
(* Properties. Each says the faults it does not survive; the rest it does. *)

Without(kinds) == faults \cap kinds = {}

Busy(e) == \E w \in Workers : worker[w].cur = e

\* Nothing is left that could still act on e by itself.
AtRest(e) ==
  /\ job[e].st \in {"lost", "done", "failed", "removed"}
  /\ ~Busy(e)
  /\ req[e] = "idle"

\* A cancellation by the user is never overwritten: not by a transition of the worker, not
\* by its failure path, not by a retry (the conditional updates of transition() and
\* failExecution()).
CancelIsFinal ==
  [][\A e \in Executions :
       status[e] = "CANCELLED" => status'[e] \in {"CANCELLED", "deleted"}]_vars

\* A green execution ran: COMPLETED is only ever written when a container has put every
\* test of the execution to the browser, and there is at least one (rule P5 of the project).
NoGreenWithoutRun ==
  Without({"lock", "announce"}) =>
    \A e \in Executions :
      status[e] = "COMPLETED" => rows[e] # {} /\ \A r \in rows[e] : r.ran

\* Nothing is green for having nothing to do: a test without an enabled step does not get a
\* COMPLETED result (rule P5, and the message for that case in porQueNoHayNada()).
NoGreenWithoutSteps ==
  \A e \in Executions : \A r \in rows[e] : r.st = "COMPLETED" => r.test \notin Stepless

\* When everybody is done with an execution there is no container of it, whatever the way
\* out of process() (the finally of process()).
NoOrphanContainer ==
  Without({"start", "remove", "crash"}) =>
    \A e \in Executions : AtRest(e) => box[e].st = "absent"

Open(e) == \E r \in rows[e] : r.st = "RUNNING"

\* No result says RUNNING inside an execution that ended and that nobody works on, as long
\* as only cancellations go wrong (failExecution() and the cancelled branch close them).
ResultsClosedAtRest ==
  faults \subseteq {"connect", "notice", "poll", "enqueue", "remove", "hang"} =>
    \A e \in Executions : AtRest(e) /\ status[e] \in Terminal => ~Open(e)

\* A verdict written by the executor stays: neither a cancellation nor a failure of the
\* worker rewrites a result whose test ran and was judged.
VerdictKept ==
  [][Without({"remove", "crash", "lock"}) =>
       \A e \in Executions : \A r \in rows[e] : \A q \in rows'[e] :
         KeyOf(q) = KeyOf(r) /\ r.ran /\ r.st # "RUNNING" => q.st = r.st]_vars

\* The worker takes an execution for cancelled only when its row says so or is gone: the
\* cancelled branch of process() writes no status, it trusts that cancel() did.
AbortOnlyWhenCancelled ==
  \A w \in Workers :
    worker[w].outcome = "cancelled" => status[worker[w].cur] \in {"CANCELLED", "deleted"}

\* That is so unless the poll cannot read the row or the run is repeated after its end.
NoFalseAbort == Without({"poll", "publish", "crash", "lock"}) => AbortOnlyWhenCancelled

\* The results of an execution are those of one attempt: a retry replaces them, it does not
\* add to them (deleteMany and createMany).
OneBatch ==
  Without({"lock"}) => \A e \in Executions : \A r, q \in rows[e] : r.batch = q.batch

\* Cancelling stops the container for good, even when the notice is lost or nobody hears
\* it, when the job was started after the cancellation, and when the container hangs.
CancelStopsContainer ==
  \A e \in Executions :
    status[e] = "CANCELLED" /\ Without({"start", "remove", "crash", "lock"})
      ~> [](box[e].st = "absent")

\* Whatever is triggered ends.
EveryExecutionEnds ==
  \A e \in Executions :
    (status[e] = "QUEUED" /\ Without({"connect", "publish", "poll", "database", "enqueue",
                                     "crash", "lock", "hang"}))
      ~> status[e] \in Terminal \cup {"deleted"}

\* The status goes through the lifecycle of the documentation, once and in order, unless
\* process() is run again after it wrote a status.
Lifecycle == INSTANCE ExecutionLifecycle
               WITH again <- ~Without({"publish", "database", "crash", "lock"})
FollowsLifecycle == Lifecycle!Spec

=============================================================================
