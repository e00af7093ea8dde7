--------------------------- MODULE ExecutionProofs ---------------------------
(***************************************************************************)
(* Theorems of Execution, for any sets of executions, tests and workers    *)
(* and any faults.                                                         *)
(***************************************************************************)
EXTENDS Execution, TLAPS

(***************************************************************************)
(* The inductive invariant behind the types                                *)
(***************************************************************************)

\* A worker that is not idle has an execution and is its n-th run, n > 0.
HasExecution ==
  \A w \in Workers :
    worker[w].pc # "idle" => worker[w].cur \in Executions /\ worker[w].run \in Batch

\* A job that may still run has attempts and stalls left.
JobHasTries ==
  \A e \in Executions :
    job[e].st \notin {"done", "failed", "removed"} =>
      job[e].made < Attempts /\ job[e].stalls <= MaxStalled

\* There is no job before there is a row.
NoRowNoJob == \A e \in Executions : status[e] = "none" => job[e].st = "none"

TypeInv == TypeOK /\ HasExecution /\ JobHasTries /\ NoRowNoJob

(***************************************************************************)
(* Lemmas about the operators that write a worker or its execution's rows  *)
(***************************************************************************)

\* The labels, one by one: provers do better without the set in sight.
LEMMA Labels ==
  /\ "idle" \in PCs /\ "connect" \in PCs /\ "provisioning" \in PCs /\ "getTests" \in PCs
  /\ "wipe" \in PCs /\ "insert" \in PCs /\ "removeOld" \in PCs /\ "create" \in PCs
  /\ "start" \in PCs /\ "saveContainer" \in PCs /\ "running" \in PCs /\ "wait" \in PCs
  /\ "stopAborted" \in PCs /\ "cancelRows" \in PCs /\ "collecting" \in PCs
  /\ "readRows" \in PCs /\ "saveRows" \in PCs /\ "final" \in PCs /\ "fail" \in PCs
  /\ "closeRows" \in PCs /\ "finally" \in PCs /\ "settle" \in PCs
BY DEF PCs

LEMMA JobLabels ==
  /\ "none" \in JobState /\ "adding" \in JobState /\ "lost" \in JobState
  /\ "waiting" \in JobState /\ "active" \in JobState /\ "done" \in JobState
  /\ "failed" \in JobState /\ "removed" \in JobState
BY DEF JobState

LEMMA IdleWorkerType == IdleWorker \in WorkerState
BY DEF IdleWorker, WorkerState, PCs

\* A worker keeps its type and its execution when it is replaced by a record that has them.
LEMMA SetsType ==
  ASSUME NEW w \in Workers, NEW r \in WorkerState, TypeOK, HasExecution, Sets(w, r),
         r.pc # "idle" => r.cur \in Executions /\ r.run \in Batch
  PROVE  worker' \in [Workers -> WorkerState] /\ HasExecution'
BY DEF Sets, TypeOK, HasExecution

\* Moving the program counter of a worker that is not idle.
LEMMA GotoType ==
  ASSUME NEW w \in Workers, worker[w].pc # "idle", NEW l \in PCs,
         TypeOK, HasExecution, Goto(w, l)
  PROVE  worker' \in [Workers -> WorkerState] /\ HasExecution'
<1> DEFINE r == [worker[w] EXCEPT !.pc = l]
<1>1. r \in WorkerState /\ r.cur = worker[w].cur /\ r.run = worker[w].run
  BY DEF TypeOK, WorkerState
<1> QED
  BY <1>1, SetsType DEF Goto, HasExecution

\* Throwing an error.
LEMMA RaiseType ==
  ASSUME NEW w \in Workers, worker[w].pc # "idle", TypeOK, HasExecution,
         Raise(w) \/ RaiseDeleted(w)
  PROVE  worker' \in [Workers -> WorkerState] /\ HasExecution'
<1> DEFINE f == [worker[w] EXCEPT !.pc = "fail", !.mode = "catch"]
           g == [worker[w] EXCEPT !.pc = "finally", !.mode = "rejected"]
           h == [worker[w] EXCEPT !.pc = "finally", !.mode = "catch"]
<1>1. \A r \in {f, g, h} :
        r \in WorkerState /\ r.cur = worker[w].cur /\ r.run = worker[w].run
  <2>1. f \in WorkerState /\ f.cur = worker[w].cur /\ f.run = worker[w].run
    BY Labels DEF TypeOK, WorkerState
  <2>2. g \in WorkerState /\ g.cur = worker[w].cur /\ g.run = worker[w].run
    BY Labels DEF TypeOK, WorkerState
  <2>3. h \in WorkerState /\ h.cur = worker[w].cur /\ h.run = worker[w].run
    BY Labels DEF TypeOK, WorkerState
  <2> QED
    BY <2>1, <2>2, <2>3
<1>2. \E r \in {f, g, h} : Sets(w, r)
  BY DEF Raise, RaiseDeleted
<1> QED
  BY <1>1, <1>2, SetsType DEF HasExecution

\* The end of the wait.
LEMMA ResolveType ==
  ASSUME NEW w \in Workers, worker[w].pc # "idle",
         NEW o \in {"clean", "dirty", "timeout", "cancelled"},
         TypeOK, HasExecution, Resolve(w, o)
  PROVE  worker' \in [Workers -> WorkerState] /\ HasExecution'
<1> DEFINE r == [worker[w] EXCEPT !.outcome = o, !.ear = "off",
                                  !.pc = IF o \in {"timeout", "cancelled"} THEN "stopAborted"
                                         ELSE "collecting"]
<1>1. r \in WorkerState /\ r.cur = worker[w].cur /\ r.run = worker[w].run
  <2>1. CASE o \in {"timeout", "cancelled"}
    BY <2>1, Labels DEF TypeOK, WorkerState
  <2>2. CASE o \notin {"timeout", "cancelled"}
    BY <2>2, Labels DEF TypeOK, WorkerState
  <2> QED
    BY <2>1, <2>2
<1> QED
  BY <1>1, SetsType DEF Resolve, HasExecution

\* A job keeps its type and its tries when it is replaced by a record that has them.
LEMMA JobType ==
  ASSUME NEW e \in Executions, NEW j \in Job, TypeOK, JobHasTries,
         job' = [job EXCEPT ![e] = j],
         j.st \notin {"done", "failed", "removed"} =>
           j.made < Attempts /\ j.stalls <= MaxStalled
  PROVE  job' \in [Executions -> Job] /\ JobHasTries'
BY DEF TypeOK, JobHasTries

\* A job that changes its state alone.
LEMMA JobMoves ==
  ASSUME NEW e \in Executions, TypeOK, JobHasTries,
         job[e].st \notin {"done", "failed", "removed"},
         NEW s \in {"adding", "lost", "waiting", "active"},
         job' = [job EXCEPT ![e].st = s]
  PROVE  job' \in [Executions -> Job] /\ JobHasTries'
<1> DEFINE j == [job[e] EXCEPT !.st = s]
<1>1. j \in Job /\ j.made = job[e].made /\ j.stalls = job[e].stalls
  BY JobLabels DEF TypeOK, Job
<1>2. job' = [job EXCEPT ![e] = j]
  OBVIOUS
<1> QED
  BY <1>1, <1>2, JobType DEF JobHasTries

\* Closing the results of an execution writes results.
LEMMA ClosedType ==
  ASSUME NEW e \in Executions, NEW s \in RowStatus, rows[e] \in SUBSET Row
  PROVE  Closed(e, s) \in SUBSET Row
<1> SUFFICES ASSUME NEW r \in rows[e]
             PROVE  (IF r.st = "RUNNING" THEN [r EXCEPT !.st = s] ELSE r) \in Row
  BY DEF Closed
<1> QED
  BY DEF Row

LEMMA TransitionType ==
  ASSUME TypeInv, NEW w \in Workers, worker[w].pc # "idle",
         NEW s \in Status \ {"none"}, NEW l \in PCs, Transition(w, s, l)
  PROVE  TypeInv'
<1>1. status' \in [Executions -> Status]
  BY DEF Transition, TypeInv, TypeOK, HasExecution
<1>2. worker' \in [Workers -> WorkerState] /\ HasExecution'
  BY GotoType, RaiseType DEF Transition, TypeInv
<1> QED
  BY <1>1, <1>2 DEF Transition, Writable, TypeInv, TypeOK, JobHasTries, NoRowNoJob

(***************************************************************************)
(* Every step keeps the invariant                                          *)
(***************************************************************************)

LEMMA InitTypeInv == Init => TypeInv
<1> SUFFICES ASSUME Init PROVE TypeInv
  OBVIOUS
<1>1. worker \in [Workers -> WorkerState] /\ HasExecution
  BY IdleWorkerType DEF Init, HasExecution, IdleWorker
<1>2. NewJob \in Job /\ NoBox \in Box
  BY JobLabels DEF NewJob, Job, NoBox, Box, Attempts, MaxStalled
<1>3. JobHasTries
  BY DEF Init, JobHasTries, NewJob, Attempts, MaxStalled
<1> QED
  BY <1>1, <1>2, <1>3, EnvironmentsAssumption
  DEF Init, TypeInv, TypeOK, Status, NoRowNoJob, NewJob

LEMMA ApiTypeInv ==
  ASSUME TypeInv, NEW e \in Executions, Trigger(e) \/ ReadForCancel(e) \/ Api(e)
  PROVE  TypeInv'
<1> USE DEF TypeInv
<1>1. CASE Trigger(e)
  <2>1. status' \in [Executions -> Status] /\ \A f \in Executions : f # e => status'[f] = status[f]
    BY <1>1 DEF Trigger, TypeOK, Status, Active
  <2>2. job' \in [Executions -> Job] /\ JobHasTries'
    BY <1>1, JobMoves DEF Trigger, NoRowNoJob
  <2>3. NoRowNoJob'
    BY <1>1, <2>1, <2>2 DEF Trigger, NoRowNoJob, TypeOK
  <2> QED
    BY <1>1, <2>1, <2>2, <2>3 DEF Trigger, TypeOK, HasExecution
<1>2. CASE ReadForCancel(e)
  BY <1>2 DEF ReadForCancel, TypeOK, JobHasTries, HasExecution, NoRowNoJob
<1>3. CASE Enqueue(e)
  <2>1. job' \in [Executions -> Job] /\ JobHasTries'
    BY <1>3, JobMoves DEF Enqueue
  <2>2. NoRowNoJob'
    BY <1>3 DEF Enqueue, NoRowNoJob, TypeOK
  <2> QED
    BY <1>3, <2>1, <2>2 DEF Enqueue, TypeOK, HasExecution
<1>4. CASE MarkCancelled(e)
  BY <1>4 DEF MarkCancelled, TypeOK, Status, Terminal, Active, JobHasTries, HasExecution,
              NoRowNoJob
<1>5. CASE DeleteRow(e)
  BY <1>5 DEF DeleteRow, TypeOK, Status, JobHasTries, HasExecution, NoRowNoJob
<1>6. CASE RemoveJob(e)
  <2> DEFINE j == [job[e] EXCEPT !.st = "removed"]
  <2>1. j \in Job /\ j.st = "removed"
    BY JobLabels DEF TypeOK, Job
  <2>2. job' \in [Executions -> Job] /\ JobHasTries' /\ NoRowNoJob'
    <3>1. CASE Removable(e)
      <4>1. job' = [job EXCEPT ![e] = j]
        BY <1>6, <3>1 DEF RemoveJob
      <4> QED
        BY <1>6, <2>1, <3>1, <4>1, JobType DEF RemoveJob, Removable, NoRowNoJob, TypeOK
    <3>2. CASE ~Removable(e)
      BY <1>6, <3>2 DEF RemoveJob, JobHasTries, NoRowNoJob, TypeOK
    <3> QED
      BY <3>1, <3>2
  <2>3. req' \in [Executions -> {"idle", "mark", "unqueue", "notify", "delete", "purge"}]
    BY <1>6 DEF RemoveJob, TypeOK
  <2> QED
    BY <1>6, <2>2, <2>3 DEF RemoveJob, TypeOK, HasExecution
<1>7. CASE Notify(e)
  <2>1. \A w \in Workers :
          /\ [worker[w] EXCEPT !.ear = "heard"] \in WorkerState
          /\ [worker[w] EXCEPT !.ear = "heard"].pc = worker[w].pc
          /\ [worker[w] EXCEPT !.ear = "heard"].cur = worker[w].cur
          /\ [worker[w] EXCEPT !.ear = "heard"].run = worker[w].run
    BY DEF WorkerState, TypeOK
  <2>2. worker' \in [Workers -> WorkerState] /\ HasExecution'
    BY <1>7, <2>1 DEF Notify, HasExecution, TypeOK
  <2> QED
    BY <1>7, <2>2 DEF Notify, TypeOK, JobHasTries, NoRowNoJob
<1> QED
  BY <1>1, <1>2, <1>3, <1>4, <1>5, <1>6, <1>7 DEF Api

\* A worker that is not idle becomes a record with the same execution and run.
LEMMA SetsKeeps ==
  ASSUME NEW w \in Workers, worker[w].pc # "idle", NEW r \in WorkerState, TypeInv, Sets(w, r),
         r.cur = worker[w].cur, r.run = worker[w].run
  PROVE  worker' \in [Workers -> WorkerState] /\ HasExecution'
BY SetsType DEF HasExecution, TypeInv

\* What is left to show of a step of the worker that leaves status, req and job alone.
LEMMA WorkerStep ==
  ASSUME TypeInv, worker' \in [Workers -> WorkerState], HasExecution',
         rows' \in [Executions -> SUBSET Row], box' \in [Executions -> Box],
         UNCHANGED <<status, req, job, faults>>
  PROVE  TypeInv'
BY DEF TypeInv, TypeOK, JobHasTries, NoRowNoJob

\* And of one that only writes the worker.
LEMMA WorkerOnly ==
  ASSUME TypeInv, worker' \in [Workers -> WorkerState], HasExecution',
         UNCHANGED <<status, rows, req, job, box, faults>>
  PROVE  TypeInv'
BY WorkerStep DEF TypeInv, TypeOK

\* Up to the container.
LEMMA PrepareTypeInv ==
  ASSUME TypeInv, NEW w \in Workers,
         \/ Connect(w) \/ Provision(w) \/ GetTests(w) \/ WipeRows(w) \/ InsertRows(w)
         \/ RemoveOld(w) \/ CreateBox(w) \/ StartBox(w) \/ SaveContainer(w) \/ MarkRunning(w)
  PROVE  TypeInv'
<1> DEFINE e == worker[w].cur
<1>0. worker[w].pc # "idle"
  BY DEF Connect, Provision, GetTests, WipeRows, InsertRows, RemoveOld, CreateBox, StartBox,
         SaveContainer, MarkRunning, At
<1>a. worker[w] \in WorkerState /\ e \in Executions /\ worker[w].run \in Batch
  BY <1>0 DEF TypeInv, TypeOK, HasExecution
<1>b. TypeOK /\ HasExecution
  BY DEF TypeInv
<1>1. CASE Connect(w)
  <2>1. CASE Goto(w, "provisioning")
    BY <1>0, <1>1, <1>b, <2>1, GotoType, Labels, WorkerOnly DEF Connect
  <2>2. CASE Sets(w, [worker[w] EXCEPT !.pc = "settle", !.mode = "rejected"])
    <3> DEFINE r == [worker[w] EXCEPT !.pc = "settle", !.mode = "rejected"]
    <3>1. r \in WorkerState /\ r.cur = e /\ r.run = worker[w].run
      BY <1>a, Labels DEF WorkerState
    <3> QED
      BY <1>0, <1>1, <2>2, <3>1, SetsKeeps, WorkerOnly DEF Connect
  <2> QED
    BY <1>1, <2>1, <2>2 DEF Connect
<1>2. CASE Provision(w)
  BY <1>0, <1>2, TransitionType, Labels DEF Provision, Status, Active
<1>3. CASE GetTests(w)
  <2> PICK s \in SUBSET Tests :
        Sets(w, [worker[w] EXCEPT !.chosen = s, !.pc = IF s = {} THEN "fail" ELSE "wipe"])
    BY <1>3 DEF GetTests
  <2> DEFINE r == [worker[w] EXCEPT !.chosen = s, !.pc = IF s = {} THEN "fail" ELSE "wipe"]
  <2>1. r \in WorkerState /\ r.cur = e /\ r.run = worker[w].run
    BY <1>a, Labels DEF WorkerState
  <2> QED
    BY <1>0, <1>3, <2>1, SetsKeeps, WorkerOnly DEF GetTests
<1>4. CASE WipeRows(w)
  <2>1. rows' \in [Executions -> SUBSET Row]
    BY <1>4, <1>b DEF WipeRows, TypeOK
  <2> QED
    BY <1>0, <1>4, <1>b, <2>1, GotoType, Labels, WorkerStep DEF WipeRows, TypeOK
<1>5. CASE InsertRows(w)
  <2> DEFINE new == {[test |-> t, batch |-> worker[w].run, st |-> "RUNNING", ran |-> FALSE] :
                       t \in worker[w].chosen}
  <2>1. new \in SUBSET Row
    <3>1. worker[w].chosen \in SUBSET Tests
      BY <1>a DEF WorkerState
    <3>2. \A t \in Tests :
            [test |-> t, batch |-> worker[w].run, st |-> "RUNNING", ran |-> FALSE] \in Row
      BY <1>a DEF Row, RowStatus
    <3> QED
      BY <3>1, <3>2
  <2>2. rows' \in [Executions -> SUBSET Row]
    BY <1>5, <1>b, <2>1 DEF InsertRows, TypeOK
  <2>3. worker' \in [Workers -> WorkerState] /\ HasExecution'
    BY <1>0, <1>5, <1>b, GotoType, RaiseType, Labels DEF InsertRows
  <2> QED
    BY <1>5, <1>b, <2>2, <2>3, WorkerStep DEF InsertRows, TypeOK
<1>6. CASE RemoveOld(w)
  <2>1. box' \in [Executions -> Box]
    BY <1>6, <1>b DEF RemoveOld, TypeOK, Box, NoBox
  <2> QED
    BY <1>0, <1>6, <1>b, <2>1, GotoType, Labels, WorkerStep DEF RemoveOld, TypeOK
<1>7. CASE CreateBox(w)
  <2>1. [id |-> worker[w].run, st |-> "created", todo |-> {}] \in Box
    BY <1>a DEF Box, Batch
  <2>2. box' \in [Executions -> Box]
    BY <1>7, <1>b, <2>1 DEF CreateBox, TypeOK
  <2>3. worker' \in [Workers -> WorkerState] /\ HasExecution'
    BY <1>0, <1>7, <1>b, GotoType, RaiseType, Labels DEF CreateBox
  <2> QED
    BY <1>7, <1>b, <2>2, <2>3, WorkerStep DEF CreateBox, TypeOK
<1>8. CASE StartBox(w)
  <2> DEFINE b == [box[e] EXCEPT !.st = "booting"]
             r == [worker[w] EXCEPT !.held = worker[w].run, !.pc = "saveContainer"]
  <2>1. b \in Box
    BY <1>a, <1>b DEF Box, TypeOK
  <2>2. r \in WorkerState /\ r.cur = e /\ r.run = worker[w].run
    BY <1>a, Labels DEF WorkerState
  <2>3. CASE box' = [box EXCEPT ![e] = b] /\ Sets(w, r)
    <3>1. box' \in [Executions -> Box]
      BY <1>b, <2>1, <2>3 DEF TypeOK
    <3> QED
      BY <1>0, <1>8, <1>b, <2>2, <2>3, <3>1, SetsKeeps, WorkerStep DEF StartBox, TypeOK
  <2>4. CASE Raise(w) /\ UNCHANGED box
    BY <1>0, <1>8, <1>b, <2>4, RaiseType, WorkerOnly DEF StartBox
  <2> QED
    BY <1>8, <2>3, <2>4 DEF StartBox
<1>9. CASE SaveContainer(w)
  BY <1>0, <1>9, <1>b, GotoType, RaiseType, Labels, WorkerOnly DEF SaveContainer
<1>10. CASE MarkRunning(w)
  BY <1>0, <1>10, TransitionType, Labels DEF MarkRunning, Status, Active
<1> QED
  BY <1>1, <1>2, <1>3, <1>4, <1>5, <1>6, <1>7, <1>8, <1>9, <1>10

\* While the container runs.
LEMMA WaitTypeInv ==
  ASSUME TypeInv, NEW w \in Workers,
         \/ Subscribe(w) \/ WaitExit(w) \/ WaitFails(w) \/ WaitTimeout(w) \/ WaitNotice(w)
         \/ WaitPoll(w) \/ PollFails(w)
  PROVE  TypeInv'
<1>0. /\ worker[w].pc # "idle" /\ worker[w] \in WorkerState
      /\ UNCHANGED <<status, rows, req, job, box, faults>>
  BY DEF Subscribe, WaitExit, WaitFails, WaitTimeout, WaitNotice, WaitPoll, PollFails, At,
         TypeInv, TypeOK
<1>1. CASE Subscribe(w)
  <2> DEFINE r == [worker[w] EXCEPT !.ear = "on"]
  <2>1. r \in WorkerState /\ r.cur = worker[w].cur /\ r.run = worker[w].run
    BY <1>0 DEF WorkerState
  <2> QED
    BY <1>0, <1>1, <2>1, SetsKeeps, WorkerOnly DEF Subscribe
<1>2. CASE \E o \in {"clean", "dirty", "timeout", "cancelled"} : Resolve(w, o)
  BY <1>0, <1>2, ResolveType, WorkerOnly DEF TypeInv
<1>3. CASE Raise(w)
  BY <1>0, <1>3, RaiseType, WorkerOnly DEF TypeInv
<1> QED
  BY <1>1, <1>2, <1>3 DEF WaitExit, WaitFails, WaitTimeout, WaitNotice, WaitPoll, PollFails

\* From the end of the wait to the end of process().
LEMMA EndTypeInv ==
  ASSUME TypeInv, NEW w \in Workers,
         \/ StopAborted(w) \/ CancelRows(w) \/ Collect(w) \/ ReadRows(w) \/ SaveRows(w)
         \/ Finish(w) \/ FailExecution(w) \/ CloseRows(w) \/ QueryFails(w) \/ Finally(w)
  PROVE  TypeInv'
<1> DEFINE e == worker[w].cur
<1>0. worker[w].pc # "idle"
  BY DEF StopAborted, CancelRows, Collect, ReadRows, SaveRows, Finish, FailExecution,
         CloseRows, QueryFails, QueryPCs, Finally, At
<1>a. worker[w] \in WorkerState /\ e \in Executions /\ worker[w].run \in Batch
  BY <1>0 DEF TypeInv, TypeOK, HasExecution
<1>b. TypeOK /\ HasExecution
  BY DEF TypeInv
<1>c. ASSUME StopAndRemove(w) PROVE box' \in [Executions -> Box]
  <2>1. NoBox \in Box /\ [box[e] EXCEPT !.st = "dirty"] \in Box
    BY <1>a, <1>b DEF TypeOK, Box, NoBox
  <2>2. \/ UNCHANGED box
        \/ box' = [box EXCEPT ![e] = NoBox]
        \/ box' = [box EXCEPT ![e] = [box[e] EXCEPT !.st = "dirty"]]
    BY <1>c DEF StopAndRemove
  <2> QED
    BY <1>b, <2>1, <2>2 DEF TypeOK
<1>d. ASSUME NEW s \in RowStatus, rows' = [rows EXCEPT ![e] = Closed(e, s)]
      PROVE  rows' \in [Executions -> SUBSET Row]
  BY <1>a, <1>b, <1>d, ClosedType DEF TypeOK
<1>1. CASE StopAborted(w)
  <2> DEFINE r == [worker[w] EXCEPT !.held = 0,
                                    !.pc = IF worker[w].outcome = "cancelled"
                                           THEN "cancelRows" ELSE "collecting"]
  <2>1. r \in WorkerState /\ r.cur = e /\ r.run = worker[w].run
    BY <1>a, Labels DEF WorkerState
  <2>2. Sets(w, r) /\ StopAndRemove(w) /\ UNCHANGED <<status, rows, req, job, faults>>
    BY <1>1 DEF StopAborted
  <2> QED
    BY <1>0, <1>b, <1>c, <2>1, <2>2, SetsKeeps, WorkerStep DEF TypeOK
<1>2. CASE CancelRows(w)
  <2>1. worker' \in [Workers -> WorkerState] /\ HasExecution'
    BY <1>0, <1>2, <1>b, GotoType, RaiseType, Labels DEF CancelRows
  <2>2. rows' \in [Executions -> SUBSET Row]
    BY <1>2, <1>d DEF CancelRows, RowStatus
  <2> QED
    BY <1>2, <1>b, <2>1, <2>2, WorkerStep DEF CancelRows, TypeOK
<1>3. CASE Collect(w)
  BY <1>0, <1>3, TransitionType, Labels DEF Collect, Status, Active
<1>4. CASE ReadRows(w)
  <2> DEFINE r == [worker[w] EXCEPT !.seen = KeysOf(e), !.pc = "saveRows"]
  <2>1. KeysOf(e) \in SUBSET Key
    BY <1>a, <1>b DEF KeysOf, KeyOf, Key, Row, TypeOK
  <2>2. r \in WorkerState /\ r.cur = e /\ r.run = worker[w].run
    BY <1>a, <2>1, Labels DEF WorkerState
  <2> QED
    BY <1>0, <1>4, <2>2, SetsKeeps, WorkerOnly DEF ReadRows
<1>5. CASE SaveRows(w)
  <2> DEFINE next == IF worker[w].outcome = "timeout" THEN "fail" ELSE "final"
             f == [worker[w] EXCEPT !.seen = {}, !.pc = next]
             g == [worker[w] EXCEPT !.seen = {}, !.pc = "finally", !.mode = "catch"]
  <2>1. f \in WorkerState /\ f.cur = e /\ f.run = worker[w].run
    BY <1>a, Labels DEF WorkerState
  <2>2. g \in WorkerState /\ g.cur = e /\ g.run = worker[w].run
    BY <1>a, Labels DEF WorkerState
  <2>3. Sets(w, f) \/ Sets(w, g)
    BY <1>5 DEF SaveRows
  <2> QED
    BY <1>0, <1>5, <2>1, <2>2, <2>3, SetsKeeps, WorkerOnly DEF SaveRows
<1>6. CASE Finish(w)
  BY <1>0, <1>6, TransitionType, Labels DEF Finish, Status, Terminal
<1>7. CASE FailExecution(w)
  <2>1. status' \in [Executions -> Status]
    BY <1>7, <1>a, <1>b DEF FailExecution, TypeOK, Status, Terminal
  <2>2. worker' \in [Workers -> WorkerState] /\ HasExecution'
    BY <1>0, <1>7, <1>b, GotoType, Labels DEF FailExecution
  <2>3. NoRowNoJob'
    BY <1>7, <1>a, <1>b DEF FailExecution, TypeInv, NoRowNoJob, TypeOK
  <2> QED
    BY <1>7, <2>1, <2>2, <2>3 DEF FailExecution, TypeInv, TypeOK, JobHasTries
<1>8. CASE CloseRows(w)
  <2>1. worker' \in [Workers -> WorkerState] /\ HasExecution'
    BY <1>0, <1>8, <1>b, GotoType, RaiseType, Labels DEF CloseRows
  <2>2. rows' \in [Executions -> SUBSET Row]
    BY <1>8, <1>b, <1>d DEF CloseRows, RowStatus, TypeOK
  <2> QED
    BY <1>8, <1>b, <2>1, <2>2, WorkerStep DEF CloseRows, TypeOK
<1>9. CASE QueryFails(w)
  BY <1>0, <1>9, <1>b, RaiseType, WorkerOnly DEF QueryFails
<1>10. CASE Finally(w)
  <2> DEFINE r == [worker[w] EXCEPT !.held = 0, !.pc = "settle"]
  <2>1. r \in WorkerState /\ r.cur = e /\ r.run = worker[w].run
    BY <1>a, Labels DEF WorkerState
  <2>2. Sets(w, r) /\ StopAndRemove(w) /\ UNCHANGED <<status, rows, req, job, faults>>
    BY <1>10 DEF Finally
  <2> QED
    BY <1>0, <1>b, <1>c, <2>1, <2>2, SetsKeeps, WorkerStep DEF TypeOK
<1> QED
  BY <1>1, <1>2, <1>3, <1>4, <1>5, <1>6, <1>7, <1>8, <1>9, <1>10

\* A step that changes one job, which was there already, and perhaps the worker.
LEMMA JobChange ==
  ASSUME TypeInv, NEW f \in Executions, NEW j \in Job, job' = [job EXCEPT ![f] = j],
         j.st # "none", job[f].st # "none",
         j.st \notin {"done", "failed", "removed"} =>
           j.made < Attempts /\ j.stalls <= MaxStalled,
         worker' \in [Workers -> WorkerState], HasExecution',
         UNCHANGED <<status, rows, req, box, faults>>
  PROVE  TypeInv'
<1>1. job' \in [Executions -> Job] /\ JobHasTries'
  BY JobType DEF TypeInv
<1>2. NoRowNoJob'
  BY <1>1 DEF TypeInv, NoRowNoJob, TypeOK
<1> QED
  BY <1>1, <1>2 DEF TypeInv, TypeOK

\* The job changes hands.
LEMMA QueueTypeInv ==
  ASSUME TypeInv, NEW e \in Executions, NEW w \in Workers,
         TakeJob(w, e) \/ Settle(w) \/ Crash(w)
  PROVE  TypeInv'
<1>b. TypeOK /\ HasExecution /\ JobHasTries /\ NoRowNoJob /\ \A f \in Executions : job[f] \in Job
  BY DEF TypeInv, TypeOK
<1>e. ASSUME Sets(w, IdleWorker)
      PROVE  worker' \in [Workers -> WorkerState] /\ HasExecution'
  BY <1>b, <1>e, IdleWorkerType, SetsType DEF IdleWorker
<1>1. CASE TakeJob(w, e)
  <2> DEFINE j == [job[e] EXCEPT !.st = "active", !.owner = w, !.runs = job[e].runs + 1]
             r == [IdleWorker EXCEPT !.pc = "connect", !.cur = e, !.run = job[e].runs + 1]
  <2>0. job[e] \in Job /\ job[e].runs + 1 \in Nat
    BY <1>b DEF Job
  <2>1. j \in Job /\ j.st = "active" /\ j.made = job[e].made /\ j.stalls = job[e].stalls
    BY <2>0, JobLabels DEF Job
  <2>2. r \in WorkerState /\ r.cur = e /\ r.run = job[e].runs + 1
    BY <2>0, IdleWorkerType, Labels DEF WorkerState
  <2>3. job[e].runs + 1 \in Batch
    BY <1>b DEF Job, Batch
  <2>4. job' = [job EXCEPT ![e] = j] /\ job[e].st = "waiting" /\ Sets(w, r)
        /\ UNCHANGED <<status, rows, req, box, faults>>
    BY <1>1 DEF TakeJob
  <2>5. job[e].made < Attempts /\ job[e].stalls <= MaxStalled
    BY <1>b, <2>4 DEF JobHasTries
  <2>6. worker' \in [Workers -> WorkerState] /\ HasExecution'
    BY <1>b, <2>2, <2>3, <2>4, SetsType
  <2> QED
    BY JobChange, <2>1, <2>4, <2>5, <2>6
<1>2. CASE Settle(w)
  <2> DEFINE f == worker[w].cur
             n == job[f].made + 1
             done == [job[f] EXCEPT !.st = "done", !.owner = None]
             over == [job[f] EXCEPT !.st = IF n < Attempts THEN "waiting" ELSE "failed",
                                    !.owner = None, !.made = n]
  <2>1. f \in Executions /\ Sets(w, IdleWorker) /\ UNCHANGED <<status, rows, req, box, faults>>
    BY <1>2, <1>b DEF Settle, At, HasExecution
  <2>2. CASE job' = job
    BY <1>b, <1>e, <2>1, <2>2 DEF TypeInv, TypeOK, JobHasTries, NoRowNoJob
  <2>3. CASE job[f].st = "active" /\ job' = [job EXCEPT ![f] = done]
    <3>1. done \in Job /\ done.st = "done"
      BY <1>b, <2>1, JobLabels DEF Job
    <3> QED
      BY JobChange, <1>e, <2>1, <2>3, <3>1
  <2>4. CASE job[f].st = "active" /\ job' = [job EXCEPT ![f] = over]
    <3>1. n \in 0..Attempts /\ job[f].stalls <= MaxStalled
      BY <1>b, <2>1, <2>4 DEF Job, JobHasTries, Attempts
    <3>2. over \in Job /\ over.made = n /\ over.stalls = job[f].stalls
          /\ over.st = IF n < Attempts THEN "waiting" ELSE "failed"
      BY <1>b, <2>1, <3>1, JobLabels DEF Job
    <3>3. n < Attempts => over.st = "waiting"
      BY <3>2
    <3>4. ~(n < Attempts) => over.st = "failed"
      BY <3>2
    <3> HIDE DEF over, n
    <3> QED
      BY JobChange, <1>e, <2>1, <2>4, <3>1, <3>2, <3>3, <3>4
  <2> QED
    BY <1>2, <2>2, <2>3, <2>4 DEF Settle
<1>3. CASE Crash(w)
  <2> DEFINE f == worker[w].cur
             j == [job[f] EXCEPT !.owner = None]
  <2>1. f \in Executions /\ Sets(w, IdleWorker) /\ UNCHANGED <<status, rows, req, box, faults>>
    BY <1>3, <1>b DEF Crash, At, HasExecution
  <2>2. job' = job \/ job' = [job EXCEPT ![f] = j]
    BY <1>3 DEF Crash
  <2>3. j \in Job /\ j.st = job[f].st /\ j.made = job[f].made /\ j.stalls = job[f].stalls
    BY <1>b, <2>1 DEF Job
  <2>4. job' \in [Executions -> Job] /\ JobHasTries' /\ NoRowNoJob'
    BY <1>b, <2>1, <2>2, <2>3, JobType DEF JobHasTries, NoRowNoJob, TypeOK
  <2> QED
    BY <1>b, <1>e, <2>1, <2>4 DEF TypeInv, TypeOK
<1> QED
  BY <1>1, <1>2, <1>3

\* The job is taken away from a worker.
LEMMA HandsTypeInv ==
  ASSUME TypeInv, NEW e \in Executions, LoseLock(e) \/ Stall(e)
  PROVE  TypeInv'
<1>b. TypeOK /\ HasExecution /\ JobHasTries /\ \A f \in Executions : job[f] \in Job
  BY DEF TypeInv, TypeOK
<1>1. CASE LoseLock(e)
  <2> DEFINE j == [job[e] EXCEPT !.owner = None]
  <2>1. j \in Job /\ j.st = job[e].st /\ j.made = job[e].made /\ j.stalls = job[e].stalls
    BY <1>b DEF Job
  <2>2. job' = [job EXCEPT ![e] = j] /\ job[e].st = "active"
        /\ UNCHANGED <<status, rows, req, worker, box, faults>>
    BY <1>1 DEF LoseLock
  <2>3. job[e].made < Attempts /\ job[e].stalls <= MaxStalled
    BY <1>b, <2>2 DEF JobHasTries
  <2>4. worker' \in [Workers -> WorkerState] /\ HasExecution'
    BY <1>b, <2>2 DEF TypeOK, HasExecution
  <2> QED
    BY <1>b, JobChange, <2>1, <2>2, <2>3, <2>4
<1>2. CASE Stall(e)
  <2> DEFINE j == [job[e] EXCEPT !.stalls = job[e].stalls + 1,
                                 !.st = IF job[e].stalls < MaxStalled THEN "waiting"
                                        ELSE "failed"]
  <2>1. job' = [job EXCEPT ![e] = j] /\ job[e].st = "active"
        /\ UNCHANGED <<status, rows, req, worker, box, faults>>
    BY <1>2 DEF Stall
  <2>2. job[e].made < Attempts /\ job[e].stalls + 1 \in 0..(MaxStalled + 1)
    BY <1>b, <2>1 DEF JobHasTries, Job, MaxStalled
  <2>3. j \in Job /\ j.made = job[e].made /\ j.stalls = job[e].stalls + 1
        /\ j.st = IF job[e].stalls < MaxStalled THEN "waiting" ELSE "failed"
    BY <1>b, <2>2, JobLabels DEF Job
  <2>4. worker' \in [Workers -> WorkerState] /\ HasExecution'
    BY <1>b, <2>1 DEF TypeOK, HasExecution
  <2>5. job[e].stalls < MaxStalled => job[e].stalls + 1 <= MaxStalled
    BY <1>b DEF Job, MaxStalled
  <2> HIDE DEF j
  <2> QED
    BY <1>b, JobChange, <2>1, <2>2, <2>3, <2>4, <2>5
<1> QED
  BY <1>1, <1>2

\* The container runs the tests and exits.
LEMMA ContainerTypeInv ==
  ASSUME TypeInv, NEW e \in Executions, Container(e) \/ ExitDirty(e)
  PROVE  TypeInv'
<1>b. TypeOK /\ HasExecution /\ box[e] \in Box /\ rows[e] \in SUBSET Row
  BY DEF TypeInv, TypeOK
<1>c. ASSUME NEW b \in Box, box' = [box EXCEPT ![e] = b], rows' \in [Executions -> SUBSET Row],
             UNCHANGED <<status, req, job, worker, faults>>
      PROVE  TypeInv'
  <2>1. box' \in [Executions -> Box]
    BY <1>b, <1>c DEF TypeOK
  <2> QED
    BY <1>b, <1>c, <2>1, WorkerStep DEF TypeOK, HasExecution
<1>1. CASE Boot(e)
  <2> DEFINE b == [box[e] EXCEPT !.st = "running", !.todo = KeysOf(e)]
  <2>1. KeysOf(e) \in SUBSET Key
    BY <1>b DEF KeysOf, KeyOf, Key, Row
  <2>2. b \in Box
    BY <1>b, <2>1 DEF Box
  <2>3. box' = [box EXCEPT ![e] = b] /\ UNCHANGED <<status, rows, req, job, worker, faults>>
    BY <1>1 DEF Boot
  <2> QED
    BY <1>b, <1>c, <2>2, <2>3 DEF TypeOK
<1>2. ASSUME NEW k \in box[e].todo, RunTest(e, k)
      PROVE  TypeInv'
  <2> DEFINE b == [box[e] EXCEPT !.todo = box[e].todo \ {k}]
             judged(s) == {IF KeyOf(r) = k THEN [r EXCEPT !.st = s, !.ran = TRUE] ELSE r :
                             r \in rows[e]}
             only == {IF KeyOf(r) = k THEN [r EXCEPT !.ran = TRUE] ELSE r : r \in rows[e]}
  <2>1. b \in Box
    BY <1>b DEF Box
  <2>2. \A s \in RowStatus : judged(s) \in SUBSET Row
    <3> SUFFICES ASSUME NEW s \in RowStatus, NEW r \in rows[e]
                 PROVE  (IF KeyOf(r) = k THEN [r EXCEPT !.st = s, !.ran = TRUE] ELSE r) \in Row
      OBVIOUS
    <3> QED
      BY <1>b DEF Row
  <2>3. only \in SUBSET Row
    <3> SUFFICES ASSUME NEW r \in rows[e]
                 PROVE  (IF KeyOf(r) = k THEN [r EXCEPT !.ran = TRUE] ELSE r) \in Row
      OBVIOUS
    <3> QED
      BY <1>b DEF Row
  <2>4. (\E new \in SUBSET Row : rows' = [rows EXCEPT ![e] = new]) \/ UNCHANGED rows
    <3>1. \/ \E s \in {"COMPLETED", "FAILED"} : rows' = [rows EXCEPT ![e] = judged(s)]
          \/ rows' = [rows EXCEPT ![e] = only]
          \/ UNCHANGED rows
      BY <1>2 DEF RunTest
    <3> HIDE DEF judged, only
    <3> QED
      BY <2>2, <2>3, <3>1 DEF RowStatus
  <2>5. rows' \in [Executions -> SUBSET Row]
    BY <1>b, <2>4 DEF TypeOK
  <2>6. box' = [box EXCEPT ![e] = b] /\ UNCHANGED <<status, req, job, worker, faults>>
    BY <1>2 DEF RunTest
  <2> QED
    BY <1>c, <2>1, <2>5, <2>6
<1>3. CASE ExitClean(e) \/ ExitDirty(e)
  <2> PICK s \in {"clean", "dirty"} : box' = [box EXCEPT ![e].st = s]
    BY <1>3 DEF ExitClean, ExitDirty
  <2> DEFINE b == [box[e] EXCEPT !.st = s]
  <2>1. b \in Box
    BY <1>b DEF Box
  <2>2. box' = [box EXCEPT ![e] = b] /\ UNCHANGED <<status, rows, req, job, worker, faults>>
    BY <1>3 DEF ExitClean, ExitDirty
  <2> QED
    BY <1>b, <1>c, <2>1, <2>2 DEF TypeOK
<1> QED
  BY <1>1, <1>2, <1>3 DEF Container

LEMMA NextTypeInv == TypeInv /\ [Next]_vars => TypeInv'
<1> SUFFICES ASSUME TypeInv, [Next]_vars PROVE TypeInv'
  OBVIOUS
<1>1. CASE UNCHANGED vars
  BY <1>1 DEF vars, TypeInv, TypeOK, HasExecution, JobHasTries, NoRowNoJob
<1>2. CASE Next
  <2>1. ASSUME NEW e \in Executions, Trigger(e) \/ ReadForCancel(e) \/ Api(e)
        PROVE  TypeInv'
    BY <2>1, ApiTypeInv
  <2>2. ASSUME NEW w \in Workers, Process(w) \/ Subscribe(w) \/ WaitTimeout(w)
        PROVE  TypeInv'
    <3>1. CASE Settle(w)
      <4>1. worker[w].cur \in Executions
        BY <3>1 DEF Settle, At, TypeInv, HasExecution
      <4> QED
        BY <3>1, <4>1, QueueTypeInv
    <3> QED
      BY <2>2, <3>1, PrepareTypeInv, WaitTypeInv, EndTypeInv DEF Process
  <2>3. ASSUME NEW w \in Workers, WaitFails(w) \/ PollFails(w) \/ QueryFails(w) \/ Crash(w)
        PROVE  TypeInv'
    <3>1. CASE Crash(w)
      <4>1. worker[w].cur \in Executions
        BY <3>1 DEF Crash, At, TypeInv, HasExecution
      <4> QED
        BY <3>1, <4>1, QueueTypeInv
    <3> QED
      BY <2>3, <3>1, WaitTypeInv, EndTypeInv
  <2>4. ASSUME NEW w \in Workers, NEW e \in Executions, TakeJob(w, e)
        PROVE  TypeInv'
    BY <2>4, QueueTypeInv
  <2>5. ASSUME NEW e \in Executions, Container(e) \/ ExitDirty(e) \/ LoseLock(e) \/ Stall(e)
        PROVE  TypeInv'
    BY <2>5, ContainerTypeInv, HandsTypeInv
  <2> QED
    BY <1>2, <2>1, <2>2, <2>3, <2>4, <2>5 DEF Next
<1> QED
  BY <1>1, <1>2

\* Every reachable state is well typed: no queue entry is retried or stalled beyond its
\* limits (Settle, Stall), and whoever works has an execution to work on.
THEOREM TypeCorrect == Spec => []TypeOK
<1>1. Init => TypeInv
  BY InitTypeInv
<1>2. TypeInv /\ [Next]_vars => TypeInv'
  BY NextTypeInv
<1>3. TypeInv => TypeOK
  BY DEF TypeInv
<1> QED
  BY <1>1, <1>2, <1>3, PTL DEF Spec

(***************************************************************************)
(* A cancellation is final                                                 *)
(***************************************************************************)

\* transition() and failExecution() never write on a cancelled row: their WHERE clause.
LEMMA WorkerSparesCancelled ==
  ASSUME TypeInv, NEW w \in Workers, Process(w),
         NEW e \in Executions, status[e] = "CANCELLED"
  PROVE  status'[e] = "CANCELLED"
<1>1. ASSUME NEW s \in Status, NEW l \in PCs, Transition(w, s, l)
      PROVE  status'[e] = "CANCELLED"
  BY <1>1 DEF Transition, Writable, TypeInv, TypeOK
<1>2. CASE Provision(w) \/ MarkRunning(w) \/ Collect(w) \/ Finish(w)
  BY <1>1, <1>2, Labels DEF Provision, MarkRunning, Collect, Finish, Status, Active, Terminal
<1>3. CASE FailExecution(w)
  BY <1>3 DEF FailExecution, Writable, TypeInv, TypeOK
<1>4. CASE UNCHANGED status
  BY <1>4
<1> QED
  BY <1>2, <1>3, <1>4
  DEF Process, Connect, GetTests, WipeRows, InsertRows, RemoveOld, CreateBox, StartBox,
      SaveContainer, WaitExit, WaitNotice, WaitPoll, StopAborted, CancelRows, ReadRows,
      SaveRows, CloseRows, Finally, Settle

\* Nothing but the user's own delete takes an execution out of CANCELLED, whatever fails,
\* however many workers run it and wherever the cancellation falls in process().
THEOREM CancellationFinal == Spec => CancelIsFinal
<1>1. TypeInv /\ [Next]_vars =>
        \A e \in Executions : status[e] = "CANCELLED" => status'[e] \in {"CANCELLED", "deleted"}
  <2> SUFFICES ASSUME TypeInv, [Next]_vars, NEW e \in Executions, status[e] = "CANCELLED"
               PROVE  status'[e] \in {"CANCELLED", "deleted"}
    OBVIOUS
  <2>1. CASE UNCHANGED status
    BY <2>1
  <2>2. ASSUME NEW f \in Executions, Trigger(f) \/ ReadForCancel(f) \/ Api(f)
        PROVE  status'[e] \in {"CANCELLED", "deleted"}
    BY <2>2 DEF Trigger, ReadForCancel, Api, Enqueue, MarkCancelled, DeleteRow, RemoveJob, Notify,
                Active, TypeInv, TypeOK
  <2>3. ASSUME NEW w \in Workers, Process(w)
        PROVE  status'[e] \in {"CANCELLED", "deleted"}
    BY <2>3, WorkerSparesCancelled
  <2>4. CASE /\ Next
             /\ ~\E f \in Executions : Trigger(f) \/ ReadForCancel(f) \/ Api(f)
             /\ ~\E w \in Workers : Process(w)
    <3>1. UNCHANGED status
      BY <2>4 DEF Next, Subscribe, WaitTimeout, WaitFails, PollFails, QueryFails, Crash, TakeJob,
                  Container, Boot, ExitClean, RunTest, ExitDirty, LoseLock, Stall
    <3> QED
      BY <2>1, <3>1
  <2> QED
    BY <2>1, <2>2, <2>3, <2>4 DEF vars
<1>2. Init => TypeInv
  BY InitTypeInv
<1>3. TypeInv /\ [Next]_vars => TypeInv'
  BY NextTypeInv
<1> QED
  BY <1>1, <1>2, <1>3, PTL DEF Spec, CancelIsFinal

(***************************************************************************)
(* No container is left behind                                             *)
(***************************************************************************)

\* The places of process() from which the finally is still to come.
Holding == {"saveContainer", "running", "wait", "stopAborted", "cancelRows", "collecting",
            "readRows", "saveRows", "final", "fail", "closeRows", "finally"}

\* Worker w has the container of e to remove: it is just about to start it, or holds it.
Keeper(w, e) ==
  /\ worker[w].cur = e
  /\ \/ /\ worker[w].pc = "start"
        /\ worker[w].run = box[e].id /\ box[e].st = "created"
     \/ /\ worker[w].pc \in Holding
        /\ worker[w].held # 0 /\ worker[w].held = box[e].id

\* There is a container; one that docker refused to start is nobody's any more.
Standing(e) == box[e].st # "absent" /\ ("start" \in faults => box[e].st # "created")

\* Every container has a worker that will remove it.
KeptInv ==
  Without({"remove", "crash"}) =>
    \A e \in Executions : Standing(e) => \E w \in Workers : Keeper(w, e)

\* The step is one of worker w.
OnlyWorker(w) == \A u \in Workers \ {w} : worker'[u] = worker[u]

\* Worker w goes on, or gives up, and still has what it had to remove.
GoesOnHolding(w) ==
  /\ OnlyWorker(w)
  /\ worker'[w].cur = worker[w].cur /\ worker'[w].held = worker[w].held
  /\ worker'[w].pc \in Holding

LEMMA SetsHolding ==
  ASSUME TypeOK, NEW w \in Workers, NEW r, Sets(w, r), r.pc \in Holding,
         r.cur = worker[w].cur, r.held = worker[w].held
  PROVE  GoesOnHolding(w)
BY DEF Sets, GoesOnHolding, OnlyWorker, TypeOK

LEMMA GotoHolding ==
  ASSUME TypeOK, NEW w \in Workers, NEW l \in Holding, Goto(w, l)
  PROVE  GoesOnHolding(w)
BY DEF Goto, Sets, GoesOnHolding, OnlyWorker, TypeOK, WorkerState

LEMMA RaiseHolding ==
  ASSUME TypeOK, NEW w \in Workers, Raise(w) \/ RaiseDeleted(w)
  PROVE  GoesOnHolding(w)
<1>1. PICK r \in {[worker[w] EXCEPT !.pc = "fail", !.mode = "catch"],
                  [worker[w] EXCEPT !.pc = "finally", !.mode = "rejected"],
                  [worker[w] EXCEPT !.pc = "finally", !.mode = "catch"]} : Sets(w, r)
  BY DEF Raise, RaiseDeleted
<1>2. worker[w] \in WorkerState
  BY DEF TypeOK
<1>3. r.cur = worker[w].cur /\ r.held = worker[w].held /\ r.pc \in Holding
  BY <1>2 DEF WorkerState, Holding
<1> QED
  BY <1>1, <1>3 DEF Sets, GoesOnHolding, OnlyWorker, TypeOK

LEMMA ResolveHolding ==
  ASSUME TypeOK, NEW w \in Workers, NEW o, Resolve(w, o)
  PROVE  GoesOnHolding(w)
<1>1. PICK l \in {"stopAborted", "collecting"} :
        Sets(w, [worker[w] EXCEPT !.outcome = o, !.ear = "off", !.pc = l])
  BY DEF Resolve
<1>2. worker[w] \in WorkerState
  BY DEF TypeOK
<1>3. LET r == [worker[w] EXCEPT !.outcome = o, !.ear = "off", !.pc = l]
      IN  r.cur = worker[w].cur /\ r.held = worker[w].held /\ r.pc \in Holding
  BY <1>2 DEF WorkerState, Holding
<1> QED
  BY <1>1, <1>3 DEF Sets, GoesOnHolding, OnlyWorker, TypeOK

\* A step of a worker that touches no container: one that has none, or that goes on holding.
LEMMA WorkerKeeps ==
  ASSUME KeptInv, NEW w \in Workers, OnlyWorker(w), UNCHANGED <<box, faults>>,
         \/ worker[w].pc \notin Holding \cup {"start"}
         \/ worker[w].pc \in Holding /\ GoesOnHolding(w)
  PROVE  KeptInv'
<1>1. ASSUME NEW e \in Executions, NEW u \in Workers, Keeper(u, e) PROVE Keeper(u, e)'
  <2>1. CASE u # w
    BY <1>1, <2>1 DEF OnlyWorker, Keeper
  <2>2. CASE u = w
    <3>1. worker[w].pc \in Holding \cup {"start"} /\ "start" \notin Holding
      BY <1>1, <2>2 DEF Keeper, Holding
    <3> QED
      BY <1>1, <2>2, <3>1 DEF Keeper, GoesOnHolding
  <2> QED
    BY <2>1, <2>2
<1> QED
  BY <1>1 DEF KeptInv, Without, Standing

\* The way to the container: nobody is keeper of anything there.
LEMMA PrepareKeeps ==
  ASSUME TypeInv, KeptInv, NEW w \in Workers,
         \/ Connect(w) \/ Provision(w) \/ GetTests(w) \/ WipeRows(w) \/ InsertRows(w)
  PROVE  KeptInv'
<1>1. worker[w].pc \in {"connect", "provisioning", "getTests", "wipe", "insert"}
  BY DEF Connect, Provision, GetTests, WipeRows, InsertRows, At
<1>2. UNCHANGED <<box, faults>>
  BY DEF Connect, Provision, GetTests, WipeRows, InsertRows, Transition
<1>3. OnlyWorker(w)
  BY DEF Connect, Provision, GetTests, WipeRows, InsertRows, Transition, Goto, Raise, Sets,
         OnlyWorker, TypeInv, TypeOK
<1> QED
  BY <1>1, <1>2, <1>3, WorkerKeeps DEF Holding

\* From the start of the container to the finally.
LEMMA HoldingGoesOn ==
  ASSUME TypeInv, NEW w \in Workers,
         \/ SaveContainer(w) \/ MarkRunning(w) \/ Subscribe(w)
         \/ WaitExit(w) \/ WaitNotice(w) \/ WaitPoll(w)
         \/ WaitTimeout(w) \/ WaitFails(w) \/ PollFails(w)
         \/ CancelRows(w) \/ Collect(w) \/ ReadRows(w) \/ SaveRows(w)
         \/ Finish(w) \/ FailExecution(w) \/ CloseRows(w)
  PROVE  GoesOnHolding(w)
<1>0. /\ worker[w].pc \in Holding /\ TypeOK /\ worker[w] \in WorkerState
  BY DEF SaveContainer, MarkRunning, Subscribe, WaitExit, WaitNotice, WaitPoll, WaitTimeout,
         WaitFails, PollFails, CancelRows, Collect, ReadRows, SaveRows, Finish, FailExecution,
         CloseRows, At, Transition, Holding, TypeInv, TypeOK
<1>1. CASE \E l \in Holding : Goto(w, l)
  BY <1>0, <1>1, GotoHolding
<1>2. CASE Raise(w) \/ RaiseDeleted(w)
  BY <1>0, <1>2, RaiseHolding
<1>3. CASE \E o : Resolve(w, o)
  BY <1>0, <1>3, ResolveHolding
<1>4. CASE Subscribe(w)
  <2> DEFINE r == [worker[w] EXCEPT !.ear = "on"]
  <2>1. r.cur = worker[w].cur /\ r.held = worker[w].held /\ r.pc = worker[w].pc
    BY <1>0 DEF WorkerState
  <2>2. Sets(w, r)
    BY <1>4 DEF Subscribe
  <2> QED
    BY <1>0, <2>1, <2>2, SetsHolding
<1>5. CASE ReadRows(w)
  <2> DEFINE r == [worker[w] EXCEPT !.seen = KeysOf(worker[w].cur), !.pc = "saveRows"]
  <2>1. r.cur = worker[w].cur /\ r.held = worker[w].held /\ r.pc \in Holding
    BY <1>0 DEF WorkerState, Holding
  <2>2. Sets(w, r)
    BY <1>5 DEF ReadRows
  <2> QED
    BY <1>0, <2>1, <2>2, SetsHolding
<1>6. CASE SaveRows(w)
  <2>1. PICK r \in {[worker[w] EXCEPT !.seen = {}, !.pc = "fail"],
                    [worker[w] EXCEPT !.seen = {}, !.pc = "final"],
                    [worker[w] EXCEPT !.seen = {}, !.pc = "finally", !.mode = "catch"]} : Sets(w, r)
    BY <1>6 DEF SaveRows
  <2>2. r.cur = worker[w].cur /\ r.held = worker[w].held /\ r.pc \in Holding
    BY <1>0 DEF WorkerState, Holding
  <2> QED
    BY <1>0, <2>1, <2>2, SetsHolding
<1>7. CASE \/ SaveContainer(w) \/ MarkRunning(w) \/ WaitExit(w) \/ WaitNotice(w) \/ WaitPoll(w)
           \/ WaitTimeout(w) \/ WaitFails(w) \/ PollFails(w) \/ CancelRows(w) \/ Collect(w)
           \/ Finish(w) \/ FailExecution(w) \/ CloseRows(w)
  <2>1. "running" \in Holding /\ "wait" \in Holding /\ "readRows" \in Holding
        /\ "finally" \in Holding /\ "closeRows" \in Holding
    BY DEF Holding
  <2>2. CASE SaveContainer(w)
    BY <1>1, <1>2, <2>1, <2>2 DEF SaveContainer
  <2>3. CASE \/ WaitExit(w) \/ WaitNotice(w) \/ WaitPoll(w) \/ WaitTimeout(w) \/ WaitFails(w)
             \/ PollFails(w)
    BY <1>2, <1>3, <2>3 DEF WaitExit, WaitNotice, WaitPoll, WaitTimeout, WaitFails, PollFails
  <2>4. CASE MarkRunning(w) \/ Collect(w) \/ Finish(w)
    BY <1>1, <1>2, <2>1, <2>4 DEF MarkRunning, Collect, Finish, Transition
  <2>5. CASE CancelRows(w) \/ FailExecution(w) \/ CloseRows(w)
    BY <1>1, <1>2, <2>1, <2>5 DEF CancelRows, FailExecution, CloseRows
  <2> QED
    BY <1>7, <2>2, <2>3, <2>4, <2>5
<1> QED
  BY <1>4, <1>5, <1>6, <1>7

LEMMA HoldingKeeps ==
  ASSUME TypeInv, KeptInv, NEW w \in Workers,
         \/ SaveContainer(w) \/ MarkRunning(w) \/ Subscribe(w)
         \/ WaitExit(w) \/ WaitNotice(w) \/ WaitPoll(w)
         \/ WaitTimeout(w) \/ WaitFails(w) \/ PollFails(w)
         \/ CancelRows(w) \/ Collect(w) \/ ReadRows(w) \/ SaveRows(w)
         \/ Finish(w) \/ FailExecution(w) \/ CloseRows(w)
  PROVE  KeptInv'
<1>1. worker[w].pc \in Holding /\ UNCHANGED <<box, faults>>
  BY DEF SaveContainer, MarkRunning, Subscribe, WaitExit, WaitNotice, WaitPoll, WaitTimeout,
         WaitFails, PollFails, CancelRows, Collect, ReadRows, SaveRows, Finish, FailExecution,
         CloseRows, At, Transition, Holding
<1>2. GoesOnHolding(w)
  BY HoldingGoesOn
<1> QED
  BY <1>1, <1>2, WorkerKeeps DEF GoesOnHolding

\* The steps of a worker that touch the container.
LEMMA DockerKeeps ==
  ASSUME TypeInv, KeptInv, NEW w \in Workers,
         RemoveOld(w) \/ CreateBox(w) \/ StartBox(w) \/ StopAborted(w) \/ Finally(w)
  PROVE  KeptInv'
<1> DEFINE e == worker[w].cur
<1>0. /\ TypeOK /\ worker[w] \in WorkerState /\ e \in Executions /\ worker[w].run \in Batch
      /\ UNCHANGED faults
  BY DEF RemoveOld, CreateBox, StartBox, StopAborted, Finally, At, TypeInv, TypeOK, HasExecution
<1> SUFFICES ASSUME Without({"remove", "crash"}), NEW f \in Executions, Standing(f)'
             PROVE  \E u \in Workers : Keeper(u, f)'
  BY <1>0 DEF KeptInv, Without
<1>f. {"remove", "crash"} \cap faults = {}
  BY DEF Without
<1>r. worker[w].run # 0
  BY <1>0 DEF Batch
<1>b. \A d \in Executions : box[d] \in Box
  BY <1>0 DEF TypeOK
<1>1. ASSUME OnlyWorker(w), box'[f] = box[f],
             f # e \/ worker[w].pc \notin Holding \cup {"start"}
      PROVE  \E u \in Workers : Keeper(u, f)'
  <2>1. PICK u \in Workers : Keeper(u, f)
    BY <1>0, <1>1 DEF KeptInv, Standing
  <2>2. u # w
    BY <1>1, <2>1 DEF Keeper
  <2> QED
    BY <1>1, <2>1, <2>2 DEF OnlyWorker, Keeper
<1>2. CASE RemoveOld(w)
  <2>1. /\ OnlyWorker(w) /\ worker[w].pc = "removeOld"
        /\ box' = [box EXCEPT ![e] = NoBox]
    BY <1>0, <1>2, <1>f DEF RemoveOld, At, Goto, Sets, OnlyWorker, TypeOK
  <2>2. f # e /\ box'[f] = box[f]
    BY <1>0, <2>1 DEF TypeOK, NoBox, Standing
  <2> QED
    BY <1>1, <2>1, <2>2
<1>3. CASE CreateBox(w)
  <2>0. worker[w].pc = "create" /\ OnlyWorker(w)
    BY <1>0, <1>3 DEF CreateBox, At, Goto, Raise, Sets, OnlyWorker, TypeOK
  <2>1. CASE UNCHANGED box
    BY <1>1, <2>0, <2>1 DEF Holding
  <2>2. CASE box' = [box EXCEPT ![e] = [id |-> worker[w].run, st |-> "created", todo |-> {}]]
             /\ Goto(w, "start")
    <3>1. CASE f # e
      BY <1>0, <1>1, <2>0, <2>2, <3>1 DEF TypeOK
    <3>2. CASE f = e
      <4>1. box'[e].id = worker[w].run /\ box'[e].st = "created"
        BY <1>0, <2>2 DEF TypeOK
      <4>2. worker'[w].cur = e /\ worker'[w].pc = "start" /\ worker'[w].run = worker[w].run
        BY <1>0, <2>2 DEF Goto, Sets, TypeOK, WorkerState
      <4> QED
        BY <3>2, <4>1, <4>2 DEF Keeper
    <3> QED
      BY <3>1, <3>2
  <2> QED
    BY <1>3, <2>1, <2>2 DEF CreateBox
<1>4. CASE StartBox(w)
  <2>0. worker[w].pc = "start" /\ OnlyWorker(w)
    BY <1>0, <1>4 DEF StartBox, At, Raise, Sets, OnlyWorker, TypeOK
  <2>1. CASE /\ box[e].id = worker[w].run /\ box[e].st = "created"
             /\ box' = [box EXCEPT ![e].st = "booting"]
             /\ Sets(w, [worker[w] EXCEPT !.held = worker[w].run, !.pc = "saveContainer"])
    <3> DEFINE r == [worker[w] EXCEPT !.held = worker[w].run, !.pc = "saveContainer"]
    <3>1. box' = [box EXCEPT ![e].st = "booting"] /\ Sets(w, r)
      BY <2>1
    <3>2. CASE f # e
      BY <1>0, <1>1, <2>0, <3>1, <3>2 DEF TypeOK
    <3>3. CASE f = e
      <4>1. r.cur = e /\ r.pc = "saveContainer" /\ r.held = worker[w].run
        BY <1>0 DEF WorkerState
      <4> HIDE DEF r
      <4>2. worker'[w] = r
        BY <1>0, <3>1 DEF Sets, TypeOK
      <4>3. box'[e].id = box[e].id
        BY <1>0, <1>b, <3>1 DEF Box, TypeOK
      <4> QED
        BY <1>r, <2>1, <3>3, <4>1, <4>2, <4>3 DEF Keeper, Holding
    <3> QED
      BY <3>2, <3>3
  <2>2. CASE ~(box[e].id = worker[w].run /\ box[e].st = "created")
    <3>1. UNCHANGED box
      BY <1>4, <2>2 DEF StartBox
    <3>2. PICK u \in Workers : Keeper(u, f)
      BY <1>0, <3>1 DEF KeptInv, Standing
    <3>3. u # w
      BY <2>0, <2>2, <3>2 DEF Keeper, Holding
    <3> QED
      BY <2>0, <3>1, <3>2, <3>3 DEF OnlyWorker, Keeper
  <2>3. CASE box[e].id = worker[w].run /\ box[e].st = "created" /\ "start" \in faults
             /\ UNCHANGED box
    <3>1. PICK u \in Workers : Keeper(u, f)
      BY <1>0, <2>3 DEF KeptInv, Standing
    <3>2. u # w
      BY <1>0, <2>0, <2>3, <3>1 DEF Keeper, Holding, Standing
    <3> QED
      BY <2>0, <2>3, <3>1, <3>2 DEF OnlyWorker, Keeper
  <2> QED
    BY <1>4, <2>1, <2>2, <2>3 DEF StartBox
<1>5. CASE StopAborted(w) \/ Finally(w)
  <2>0. worker[w].pc \in Holding /\ OnlyWorker(w)
    BY <1>0, <1>5 DEF StopAborted, Finally, At, Sets, OnlyWorker, TypeOK, Holding
  <2>1. box' = IF HeldBox(w) THEN [box EXCEPT ![e] = NoBox] ELSE box
    BY <1>5, <1>f DEF StopAborted, Finally, StopAndRemove
  <2>2. box'[f] = box[f]
    BY <1>0, <2>1 DEF TypeOK, NoBox, Standing
  <2>3. CASE f # e
    BY <1>1, <2>0, <2>2, <2>3
  <2>4. CASE f = e
    <3>1. ~HeldBox(w)
      BY <1>0, <2>1, <2>4 DEF TypeOK, NoBox, Standing
    <3>2. PICK u \in Workers : Keeper(u, f)
      BY <1>0, <2>2 DEF KeptInv, Standing
    <3>3. u # w
      BY <2>0, <2>4, <3>1, <3>2 DEF Keeper, HeldBox, Holding
    <3> QED
      BY <2>0, <2>2, <3>2, <3>3 DEF OnlyWorker, Keeper
  <2> QED
    BY <2>3, <2>4
<1> QED
  BY <1>2, <1>3, <1>4, <1>5

\* What the container does, or what becomes of it.
LEMMA ContainerKeeps ==
  ASSUME TypeInv, KeptInv, NEW e \in Executions, Container(e) \/ ExitDirty(e)
  PROVE  KeptInv'
<1>1. PICK b \in Box : /\ b.id = box[e].id /\ box' = [box EXCEPT ![e] = b]
                       /\ box[e].st \in {"booting", "running"} /\ UNCHANGED <<worker, faults>>
  <2>0. box[e] \in Box
    BY DEF TypeInv, TypeOK
  <2>1. CASE Boot(e)
    <3>1. [box[e] EXCEPT !.st = "running", !.todo = KeysOf(e)] \in Box
      <4>1. KeysOf(e) \subseteq Key
        BY DEF KeysOf, KeyOf, Row, Key, TypeInv, TypeOK
      <4> QED
        BY <2>0, <4>1 DEF Box
    <3> QED
      BY <2>0, <2>1, <3>1 DEF Boot, Box
  <2>2. CASE ExitClean(e)
    <3>1. [box[e] EXCEPT !.st = "clean"] \in Box
      BY <2>0 DEF Box
    <3> QED
      BY <2>0, <2>2, <3>1 DEF ExitClean, Box
  <2>3. CASE ExitDirty(e)
    <3>1. [box[e] EXCEPT !.st = "dirty"] \in Box
      BY <2>0 DEF Box
    <3> QED
      BY <2>0, <2>3, <3>1 DEF ExitDirty, Box
  <2>4. ASSUME NEW k \in box[e].todo, RunTest(e, k)
        PROVE  [box[e] EXCEPT !.todo = @ \ {k}] \in Box /\ UNCHANGED <<worker, faults>>
               /\ box' = [box EXCEPT ![e] = [box[e] EXCEPT !.todo = @ \ {k}]]
               /\ box[e].st = "running" /\ [box[e] EXCEPT !.todo = @ \ {k}].id = box[e].id
    BY <2>0, <2>4 DEF RunTest, Box
  <2> QED
    BY <2>1, <2>2, <2>3, <2>4 DEF Container
<1>2. ASSUME NEW d \in Executions, NEW u \in Workers, Keeper(u, d) PROVE Keeper(u, d)'
  BY <1>1, <1>2 DEF Keeper, TypeInv, TypeOK
<1>3. \A d \in Executions : Standing(d)' => Standing(d)
  BY <1>1 DEF TypeInv, TypeOK, Standing
<1> QED
  BY <1>1, <1>2, <1>3 DEF KeptInv, Without

LEMMA NextKeeps == TypeInv /\ KeptInv /\ [Next]_vars => KeptInv'
<1> SUFFICES ASSUME TypeInv, KeptInv, [Next]_vars PROVE KeptInv'
  OBVIOUS
<1>1. ASSUME UNCHANGED <<worker, box, faults>> PROVE KeptInv'
  BY <1>1 DEF KeptInv, Without, Keeper, Standing
<1>2. ASSUME NEW e \in Executions, Notify(e) PROVE KeptInv'
  <2>1. \A u \in Workers : /\ worker'[u].pc = worker[u].pc /\ worker'[u].cur = worker[u].cur
                           /\ worker'[u].run = worker[u].run /\ worker'[u].held = worker[u].held
    BY <1>2 DEF Notify, TypeInv, TypeOK, WorkerState
  <2>2. UNCHANGED <<box, faults>>
    BY <1>2 DEF Notify
  <2> QED
    BY <2>1, <2>2 DEF KeptInv, Without, Keeper, Standing
<1>3. ASSUME NEW e \in Executions, Trigger(e) \/ ReadForCancel(e) \/ Api(e) PROVE KeptInv'
  BY <1>1, <1>2, <1>3 DEF Trigger, ReadForCancel, Api, Enqueue, MarkCancelled, DeleteRow, RemoveJob
<1>4. ASSUME NEW e \in Executions, LoseLock(e) \/ Stall(e) PROVE KeptInv'
  BY <1>1, <1>4 DEF LoseLock, Stall
<1>5. ASSUME NEW w \in Workers, \/ Settle(w) \/ \E e \in Executions : TakeJob(w, e)
      PROVE  KeptInv'
  <2>1. worker[w].pc \in {"idle", "settle"} /\ UNCHANGED <<box, faults>> /\ OnlyWorker(w)
    BY <1>5 DEF Settle, TakeJob, At, Sets, OnlyWorker, TypeInv, TypeOK
  <2> QED
    BY <2>1, WorkerKeeps DEF Holding
<1>6. ASSUME NEW w \in Workers, QueryFails(w) PROVE KeptInv'
  <2>1. /\ Raise(w) /\ UNCHANGED <<box, faults>> /\ worker[w].pc # "start" /\ TypeOK
    BY <1>6 DEF QueryFails, QueryPCs, TypeInv
  <2>2. GoesOnHolding(w)
    BY <2>1, RaiseHolding
  <2> QED
    BY <2>1, <2>2, WorkerKeeps DEF GoesOnHolding
<1>7. ASSUME NEW w \in Workers, Crash(w) PROVE KeptInv'
  BY <1>7 DEF Crash, KeptInv, Without
<1>8. CASE UNCHANGED vars
  BY <1>1, <1>8 DEF vars
<1> QED
  BY <1>3, <1>4, <1>5, <1>6, <1>7, <1>8, PrepareKeeps, HoldingKeeps, DockerKeeps, ContainerKeeps
  DEF Next, Process

LEMMA AlwaysKept == Spec => []KeptInv
<1>1. Init => KeptInv
  BY DEF Init, KeptInv, NoBox, Standing
<1> QED
  BY <1>1, InitTypeInv, NextTypeInv, NextKeeps, PTL DEF Spec

\* When everybody is done with an execution there is no container of it, whatever the way out
\* of process() and even if its lock was lost and two workers were at it: who creates a
\* container removes it, or another one did (the finally of process(), removeByName()).
THEOREM NoContainerLeft == Spec => []NoOrphanContainer
<1>1. KeptInv => NoOrphanContainer
  BY DEF KeptInv, NoOrphanContainer, AtRest, Busy, Keeper, Standing, Without
<1> QED
  BY <1>1, AlwaysKept, PTL

(***************************************************************************)
(* The lifecycle                                                           *)
(*                                                                         *)
(* An execution follows its lifecycle, and the cancelled branch of         *)
(* process() is only taken when the row says so.                           *)
(*                                                                         *)
(* The argument: as long as locks hold and workers survive, one worker at  *)
(* most is at an execution (OwnsJob). Its place in process() then tells    *)
(* the stage its row is at, unless the row was cancelled or deleted, and   *)
(* the row of a job that may still run has not ended (Course, Record).     *)
(***************************************************************************)

\* What a run survives: nobody else takes the job, it ends at most once, it runs once.
Undisputed == Without({"crash", "lock"})
Ending     == Without({"publish", "crash", "lock"})
Once       == Without({"publish", "database", "crash", "lock"})

\* What the API does to a row under a worker's feet.
Gone == {"CANCELLED", "deleted"}

\* The places of process() at which the row is at each stage.
Queued     == {"connect", "provisioning"}
Preparing  == {"getTests", "wipe", "insert", "removeOld", "create", "start", "saveContainer",
               "running"}
Waiting    == {"wait", "stopAborted", "cancelRows", "collecting"}
Collecting == {"readRows", "saveRows", "final"}
Ways       == {"fail", "closeRows", "finally", "settle"}

\* A worker that is not idle owns its job.
OwnsJob(w) ==
  worker[w].pc # "idle" =>
    job[worker[w].cur].st = "active" /\ job[worker[w].cur].owner = w

\* Where an error has led to.
Thrown(w) ==
  /\ worker[w].mode # "try" => worker[w].pc \in Ways
  /\ worker[w].mode = "rejected" => worker[w].pc \in {"finally", "settle"}

\* The run may still write the row, or be repeated.
Working(w) ==
  /\ worker[w].pc \notin {"idle", "closeRows"}
  /\ worker[w].pc \in {"finally", "settle"} => worker[w].mode = "rejected"

Unended(w) == Working(w) => status[worker[w].cur] \in Active \cup Gone

Staged(w) ==
  /\ worker[w].pc \in Queued => status[worker[w].cur] \in {"QUEUED"} \cup Gone
  /\ worker[w].pc \in Preparing => status[worker[w].cur] \in {"PROVISIONING"} \cup Gone
  /\ worker[w].pc \in Waiting => status[worker[w].cur] \in {"RUNNING"} \cup Gone
  /\ worker[w].pc \in Collecting => status[worker[w].cur] \in {"COLLECTING"} \cup Gone
  /\ worker[w].pc = "fail" => status[worker[w].cur] \in (Active \ {"QUEUED"}) \cup Gone
  /\ worker[w].mode = "rejected" => status[worker[w].cur] \in {"QUEUED"} \cup Gone

\* What a worker was told of a cancellation is so.
ToldTrue(w) ==
  worker[w].ear = "heard" \/ worker[w].outcome = "cancelled" =>
    worker[w].pc # "idle" /\ status[worker[w].cur] \in Gone

Course(w) ==
  /\ Thrown(w)
  /\ Undisputed => OwnsJob(w)
  /\ Ending => Unended(w)
  /\ Once => Staged(w)
  /\ Ending /\ "poll" \notin faults => ToldTrue(w)

Record(e) ==
  /\ req[e] # "idle" => status[e] # "none"
  /\ Undisputed => (job[e].st = "active" => job[e].owner # None)
  /\ Ending =>
       /\ job[e].st \in {"adding", "waiting"} => status[e] \in Active \cup Gone
       /\ req[e] \in {"unqueue", "notify", "delete"} => status[e] \in Terminal \cup {"deleted"}
  /\ Once => (job[e].st \in {"adding", "waiting"} => status[e] \in {"QUEUED"} \cup Gone)

CourseInv == (\A w \in Workers : Course(w)) /\ (\A e \in Executions : Record(e))


(***************************************************************************)
(* What a step leaves alone                                                *)
(***************************************************************************)

LEMMA Environment ==
  /\ Once => Ending
  /\ Ending => Undisputed
  /\ "publish" \in faults => ~Ending
  /\ "database" \in faults => ~Once
  /\ "crash" \in faults \/ "lock" \in faults => ~Undisputed
  /\ UNCHANGED faults => Undisputed' = Undisputed /\ Ending' = Ending /\ Once' = Once
BY DEF Once, Ending, Undisputed, Without

\* The places, one by one.
LEMMA Places ==
  /\ \A l \in Queued : l \notin Preparing \cup Waiting \cup Collecting \cup Ways \cup {"idle"}
  /\ \A l \in Preparing : l \notin Queued \cup Waiting \cup Collecting \cup Ways \cup {"idle"}
  /\ \A l \in Waiting : l \notin Queued \cup Preparing \cup Collecting \cup Ways \cup {"idle"}
  /\ \A l \in Collecting : l \notin Queued \cup Preparing \cup Waiting \cup Ways \cup {"idle"}
  /\ \A l \in Ways \cup {"idle"} : l \notin Queued \cup Preparing \cup Waiting \cup Collecting
BY DEF Queued, Preparing, Waiting, Collecting, Ways

\* A worker whose local variables, row and job are as they were keeps its promises.
LEMMA SameCourse ==
  ASSUME NEW u, Course(u), worker'[u] = worker[u], UNCHANGED faults,
         worker[u].pc # "idle" => /\ status'[worker[u].cur] = status[worker[u].cur]
                                  /\ job'[worker[u].cur] = job[worker[u].cur]
  PROVE  Course(u)'
<1>1. Thrown(u)' /\ (Undisputed => OwnsJob(u)')
  BY DEF Course, Thrown, OwnsJob
<1>2. Ending => Unended(u)'
  BY DEF Course, Unended, Working
<1>3. Once => Staged(u)'
  <2>1. CASE worker[u].pc = "idle"
    <3>1. worker[u].mode # "rejected"
      BY <2>1 DEF Course, Thrown
    <3> QED
      BY <2>1, <3>1, Places DEF Staged
  <2>2. CASE worker[u].pc # "idle"
    BY <2>2 DEF Course, Staged
  <2> QED
    BY <2>1, <2>2
<1>4. Ending /\ "poll" \notin faults => ToldTrue(u)'
  BY DEF Course, ToldTrue
<1> QED
  BY <1>1, <1>2, <1>3, <1>4, Environment DEF Course

\* The record of an execution that the step does not touch.
LEMMA SameRecord ==
  ASSUME NEW e, Record(e), UNCHANGED faults, status'[e] = status[e], req'[e] = req[e],
         job'[e] = job[e]
  PROVE  Record(e)'
BY Environment DEF Record

\* Nobody else is at work on the execution of a worker that is not idle.
LEMMA NobodyElse ==
  ASSUME CourseInv, Undisputed, NEW w \in Workers, worker[w].pc # "idle", NEW u \in Workers, u # w,
         worker[u].pc # "idle"
  PROVE  worker[u].cur # worker[w].cur
BY DEF CourseInv, Course, OwnsJob

\* A step about e is left to be shown for e and for the workers it is not plain that
\* nothing changed for.
LEMMA CourseLocal ==
  ASSUME CourseInv, HasExecution, NEW e \in Executions, UNCHANGED faults,
         \A f \in Executions \ {e} :
           status'[f] = status[f] /\ req'[f] = req[f] /\ job'[f] = job[f],
         Record(e)',
         \A u \in Workers :
           \/ Course(u)'
           \/ /\ worker'[u] = worker[u]
              /\ Undisputed => worker[u].pc = "idle" \/ worker[u].cur # e
  PROVE  CourseInv'
<1>1. ASSUME NEW u \in Workers, worker'[u] = worker[u],
             Undisputed => worker[u].pc = "idle" \/ worker[u].cur # e
      PROVE  Course(u)'
  <2>1. CASE Undisputed
    <3>1. worker[u].pc # "idle" => worker[u].cur \in Executions \ {e}
      BY <1>1, <2>1 DEF HasExecution
    <3> QED
      BY <1>1, <3>1, SameCourse DEF CourseInv
  <2>2. CASE ~Undisputed
    BY <1>1, <2>2, Environment DEF CourseInv, Course, Thrown
  <2> QED
    BY <2>1, <2>2
<1>2. ASSUME NEW f \in Executions, f # e PROVE Record(f)'
  BY <1>2, SameRecord DEF CourseInv
<1> QED
  BY <1>1, <1>2 DEF CourseInv

\* A step of worker w about its own execution, the queue and the API left alone: what is
\* left to show is where w now is and that its row is at that stage.
LEMMA WorkerMoves ==
  ASSUME CourseInv, HasExecution, NEW w \in Workers, worker[w].pc # "idle",
         worker'[w].cur = worker[w].cur,
         \A u \in Workers \ {w} : worker'[u] = worker[u],
         \A f \in Executions \ {worker[w].cur} : status'[f] = status[f],
         UNCHANGED <<req, job, faults>>,
         \/ status'[worker[w].cur] = status[worker[w].cur]
         \/ Working(w) /\ Writable(worker[w].cur) /\ status'[worker[w].cur] # "none",
         Thrown(w)', Ending => Unended(w)', Once => Staged(w)',
         Ending /\ "poll" \notin faults => ToldTrue(w)'
  PROVE  CourseInv'
<1> DEFINE e == worker[w].cur
<1>0. e \in Executions /\ Course(w) /\ Record(e)
  BY DEF HasExecution, CourseInv
<1>1. Course(w)'
  <2>1. Undisputed => OwnsJob(w)'
    BY <1>0 DEF Course, OwnsJob
  <2> QED
    BY <2>1, Environment DEF Course
<1>2. ASSUME NEW u \in Workers, u # w, Undisputed
      PROVE  worker[u].pc = "idle" \/ worker[u].cur # e
  BY <1>2, NobodyElse
<1>3. Record(e)'
  <2>1. CASE status'[e] = status[e]
    BY <1>0, <2>1, SameRecord
  <2>2. CASE Working(w) /\ Writable(e) /\ status'[e] # "none"
    <3>1. Undisputed => job[e].st = "active"
      BY <1>0 DEF Course, OwnsJob
    <3>2. Ending => status[e] \in Active
      BY <1>0, <2>2 DEF Course, Unended, Gone, Writable
    <3>3. Ending => req[e] \notin {"unqueue", "notify", "delete"}
      BY <1>0, <3>2 DEF Record, Active, Terminal
    <3> QED
      BY <1>0, <2>2, <3>1, <3>3, Environment DEF Record
  <2> QED
    BY <2>1, <2>2
<1> QED
  BY <1>0, <1>1, <1>2, <1>3, CourseLocal

(***************************************************************************)
(* Moves of a worker                                                       *)
(***************************************************************************)

\* Worker w keeps what the invariant reads but its place.
HoldsOn(w) ==
  /\ worker'[w].cur = worker[w].cur
  /\ worker'[w].ear = worker[w].ear /\ worker'[w].outcome = worker[w].outcome

LEMMA GotoGoes ==
  ASSUME TypeOK, NEW w \in Workers, NEW l, Goto(w, l)
  PROVE  /\ worker'[w].pc = l /\ worker'[w].mode = worker[w].mode /\ HoldsOn(w)
         /\ \A u \in Workers \ {w} : worker'[u] = worker[u]
BY DEF Goto, Sets, HoldsOn, TypeOK, WorkerState

LEMMA RaiseStrays ==
  ASSUME TypeOK, NEW w \in Workers, Raise(w)
  PROVE  /\ HoldsOn(w)
         /\ \A u \in Workers \ {w} : worker'[u] = worker[u]
         /\ worker[w].mode = "try" => worker'[w].pc = "fail" /\ worker'[w].mode = "catch"
         /\ worker[w].mode # "try" =>
              worker'[w].pc = "finally" /\ worker'[w].mode = "rejected"
<1>1. CASE worker[w].mode = "try"
  BY <1>1 DEF Raise, Sets, HoldsOn, TypeOK, WorkerState
<1>2. CASE worker[w].mode # "try"
  BY <1>2 DEF Raise, Sets, HoldsOn, TypeOK, WorkerState
<1> QED
  BY <1>1, <1>2

LEMMA RaiseDeletedEffect ==
  ASSUME TypeOK, NEW w \in Workers, RaiseDeleted(w)
  PROVE  /\ worker'[w].pc = "finally" /\ worker'[w].mode = "catch" /\ HoldsOn(w)
         /\ \A u \in Workers \ {w} : worker'[u] = worker[u]
BY DEF RaiseDeleted, Sets, HoldsOn, TypeOK, WorkerState

LEMMA ResolveEffect ==
  ASSUME TypeOK, NEW w \in Workers, NEW o \in {"clean", "dirty", "timeout", "cancelled"},
         Resolve(w, o)
  PROVE  /\ worker'[w].pc \in {"stopAborted", "collecting"}
         /\ worker'[w].mode = worker[w].mode /\ worker'[w].cur = worker[w].cur
         /\ worker'[w].ear = "off" /\ worker'[w].outcome = o
         /\ \A u \in Workers \ {w} : worker'[u] = worker[u]
BY DEF Resolve, Sets, TypeOK, WorkerState

\* A worker that was told stays told while its row stays as it is, or is not writable.
LEMMA StillTold ==
  ASSUME NEW w, Course(w), HoldsOn(w), worker'[w].pc # "idle",
         status'[worker[w].cur] = status[worker[w].cur] \/ Writable(worker[w].cur),
         Ending, "poll" \notin faults
  PROVE  ToldTrue(w)'
BY DEF Course, ToldTrue, HoldsOn, Gone, Writable

\* A worker that goes on within a stretch of process().
LEMMA CourseGoesOn ==
  ASSUME CourseInv, HasExecution, NEW w \in Workers, worker[w].pc # "idle",
         worker[w].pc \notin Ways, HoldsOn(w), worker'[w].mode = worker[w].mode,
         \A u \in Workers \ {w} : worker'[u] = worker[u],
         UNCHANGED <<status, req, job, faults>>,
         \/ worker[w].pc \in Queued /\ worker'[w].pc \in Queued
         \/ worker[w].pc \in Preparing /\ worker'[w].pc \in Preparing
         \/ worker[w].pc \in Waiting /\ worker'[w].pc \in Waiting
         \/ worker[w].pc \in Collecting /\ worker'[w].pc \in Collecting
         \/ worker[w].pc \in Preparing \cup Collecting /\ worker'[w].pc = "fail"
         \/ worker'[w].pc = "finally"
  PROVE  CourseInv'
<1>0. Course(w) /\ worker[w].mode = "try"
  <2>1. Course(w)
    BY DEF CourseInv
  <2> QED
    BY <2>1 DEF Course, Thrown
<1>1. Thrown(w)'
  BY <1>0 DEF Thrown
<1>2. Working(w) /\ worker'[w].pc # "idle"
  BY Places DEF Working, Ways
<1>3. Ending => Unended(w)'
  BY <1>0, <1>2 DEF Course, Unended, HoldsOn
<1>4. Once => Staged(w)'
  <2>1. \A l : l \in {"fail", "finally"} => l \in Ways
    BY DEF Ways
  <2> QED
    BY <1>0, <2>1, Places DEF Course, Staged, HoldsOn, Active
<1>5. Ending /\ "poll" \notin faults => ToldTrue(w)'
  BY <1>0, <1>2, StillTold
<1> QED
  BY <1>1, <1>3, <1>4, <1>5, WorkerMoves DEF HoldsOn

\* An error: from the preparation and the wait it leads to the catch; from elsewhere only
\* where a publish or a query fails.
LEMMA RaiseCourse ==
  ASSUME TypeInv, CourseInv, NEW w \in Workers,
         worker[w].pc \notin {"idle", "finally", "settle"}, Raise(w),
         UNCHANGED <<status, req, job, faults>>,
         Once => worker[w].pc \in Preparing \cup Waiting,
         Ending => worker[w].pc # "closeRows"
  PROVE  CourseInv'
<1>0. Course(w) /\ TypeOK /\ HasExecution
  BY DEF CourseInv, TypeInv
<1>1. Thrown(w)' /\ worker'[w].pc # "idle"
  BY <1>0, RaiseStrays DEF Thrown, Ways
<1>2. Ending => Unended(w)'
  <2>1. Ending => Working(w)
    BY DEF Working
  <2> QED
    BY <1>0, <2>1, RaiseStrays DEF Course, Unended, HoldsOn
<1>3. Once => Staged(w)'
  <2>1. ASSUME Once PROVE worker'[w].pc = "fail" /\ worker'[w].mode = "catch"
    BY <1>0, <2>1, RaiseStrays, Places DEF Course, Thrown
  <2>2. "fail" \in Ways
    BY DEF Ways
  <2> QED
    BY <1>0, <2>1, <2>2, RaiseStrays, Places DEF Course, Staged, HoldsOn, Active
<1>4. Ending /\ "poll" \notin faults => ToldTrue(w)'
  BY <1>0, <1>1, RaiseStrays, StillTold
<1> QED
  BY <1>0, <1>1, <1>2, <1>3, <1>4, RaiseStrays, WorkerMoves DEF HoldsOn

\* transition(): the row goes to the stage, or says CANCELLED or is gone; a publish that
\* fails leads to the catch.
LEMMA TransitionCourse ==
  ASSUME TypeInv, CourseInv, NEW w \in Workers, NEW s \in Status \ {"none"},
         NEW next \in {"getTests", "wait", "readRows", "finally"}, Transition(w, s, next),
         worker[w].pc \notin Ways \cup {"idle"},
         next = "getTests" => s = "PROVISIONING",
         next = "wait" => s = "RUNNING",
         next = "readRows" => s = "COLLECTING"
  PROVE  CourseInv'
<1> DEFINE e == worker[w].cur
<1>0. Course(w) /\ TypeOK /\ HasExecution /\ e \in Executions
  BY DEF CourseInv, TypeInv, HasExecution, Ways
<1>1. worker[w].mode = "try" /\ Working(w)
  BY <1>0 DEF Course, Thrown, Working, Ways
<1>2. /\ UNCHANGED <<rows, req, job, box, faults>>
      /\ \A f \in Executions \ {e} : status'[f] = status[f]
      /\ status'[e] = IF Writable(e) THEN s ELSE status[e]
  BY <1>0 DEF Transition, TypeOK
<1>3. ~Writable(e) /\ Ending => status[e] \in Gone
  BY <1>0, <1>1 DEF Writable, Course, Unended, Gone, Active
<1>4. CASE Goto(w, next)
  <2>1. /\ worker'[w].pc = next /\ worker'[w].mode = "try" /\ HoldsOn(w)
        /\ \A u \in Workers \ {w} : worker'[u] = worker[u]
    BY <1>0, <1>1, <1>4, GotoGoes
  <2>2. Thrown(w)'
    BY <2>1 DEF Thrown
  <2>3. Ending => Unended(w)'
    BY <1>2, <1>3, <2>1 DEF Unended, Working, Active, HoldsOn
  <2>4. Once => Staged(w)'
    <3>1. CASE next = "getTests"
      <4>1. next \in Preparing
        BY <3>1 DEF Preparing
      <4> QED
        BY <1>2, <1>3, <2>1, <3>1, <4>1, Places, Environment DEF Staged, HoldsOn, Ways
    <3>2. CASE next = "wait"
      <4>1. next \in Waiting
        BY <3>2 DEF Waiting
      <4> QED
        BY <1>2, <1>3, <2>1, <3>2, <4>1, Places, Environment DEF Staged, HoldsOn, Ways
    <3>3. CASE next = "readRows"
      <4>1. next \in Collecting
        BY <3>3 DEF Collecting
      <4> QED
        BY <1>2, <1>3, <2>1, <3>3, <4>1, Places, Environment DEF Staged, HoldsOn, Ways
    <3>4. CASE next = "finally"
      <4>1. next \in Ways /\ next # "fail"
        BY <3>4 DEF Ways
      <4> QED
        BY <2>1, <4>1, Places DEF Staged
    <3> QED
      BY <3>1, <3>2, <3>3, <3>4
  <2>5. Ending /\ "poll" \notin faults => ToldTrue(w)'
    BY <1>0, <1>2, <2>1, StillTold
  <2> QED
    BY <1>0, <1>1, <1>2, <2>1, <2>2, <2>3, <2>4, <2>5, WorkerMoves DEF HoldsOn
<1>5. CASE "publish" \in faults /\ Raise(w)
  <2>1. ~Ending /\ ~Once
    BY <1>5, Environment
  <2>2. Thrown(w)'
    BY <1>0, <1>5, RaiseStrays DEF Thrown, Ways
  <2> QED
    BY <1>0, <1>1, <1>2, <1>5, <2>1, <2>2, RaiseStrays, WorkerMoves DEF HoldsOn
<1> QED
  BY <1>4, <1>5 DEF Transition

(***************************************************************************)
(* Every step keeps the invariant                                          *)
(***************************************************************************)

LEMMA InitCourseInv == Init => CourseInv
<1> SUFFICES ASSUME Init PROVE CourseInv
  OBVIOUS
<1>1. ASSUME NEW w \in Workers PROVE Course(w)
  <2>1. worker[w] = IdleWorker
    BY DEF Init
  <2>2. worker[w].pc = "idle" /\ worker[w].mode = "try" /\ worker[w].ear = "off"
        /\ worker[w].outcome = "none"
    BY <2>1 DEF IdleWorker
  <2>3. Staged(w)
    BY <2>2, Places DEF Staged
  <2> QED
    BY <2>2, <2>3 DEF Course, Thrown, OwnsJob, Unended, Working, ToldTrue
<1>2. ASSUME NEW e \in Executions PROVE Record(e)
  BY DEF Init, Record, NewJob
<1> QED
  BY <1>1, <1>2 DEF CourseInv

\* Up to the container.
LEMMA PrepareCourseInv ==
  ASSUME TypeInv, CourseInv, NEW w \in Workers,
         \/ Connect(w) \/ Provision(w) \/ GetTests(w) \/ WipeRows(w) \/ InsertRows(w)
         \/ RemoveOld(w) \/ CreateBox(w) \/ StartBox(w) \/ SaveContainer(w) \/ MarkRunning(w)
  PROVE  CourseInv'
<1>0. TypeOK /\ HasExecution /\ Course(w)
  BY DEF TypeInv, CourseInv
<1>p. \A l \in Preparing : l \notin Ways /\ l \notin {"idle", "closeRows", "finally", "settle"}
  BY DEF Preparing, Ways
<1>g. ASSUME NEW l \in Preparing, worker[w].pc \in Preparing, Goto(w, l),
             UNCHANGED <<status, req, job, faults>>
      PROVE  CourseInv'
  <2>1. worker'[w].pc = l
    BY <1>0, <1>g, GotoGoes
  <2> QED
    BY <1>0, <1>g, <1>p, <2>1, GotoGoes, CourseGoesOn
<1>r. ASSUME worker[w].pc \in Preparing, Raise(w), UNCHANGED <<status, req, job, faults>>
      PROVE  CourseInv'
  BY <1>r, <1>p, RaiseCourse
<1>1. CASE Connect(w)
  <2>0. worker[w].pc = "connect" /\ UNCHANGED <<status, req, job, faults>>
    BY <1>1 DEF Connect, At
  <2>1. CASE Goto(w, "provisioning")
    BY <1>0, <2>0, <2>1, GotoGoes, CourseGoesOn DEF Queued, Ways
  <2>2. CASE Sets(w, [worker[w] EXCEPT !.pc = "settle", !.mode = "rejected"])
    <3>1. /\ worker'[w].pc = "settle" /\ worker'[w].mode = "rejected" /\ HoldsOn(w)
          /\ \A u \in Workers \ {w} : worker'[u] = worker[u]
      BY <1>0, <2>2 DEF Sets, HoldsOn, TypeOK, WorkerState
    <3>2. Thrown(w)'
      BY <3>1 DEF Thrown, Ways
    <3>3. Ending => Unended(w)'
      BY <1>0, <2>0, <3>1 DEF Course, Unended, Working, HoldsOn
    <3>4. Once => Staged(w)'
      <4>1. "settle" \in Ways /\ "settle" # "fail" /\ "connect" \in Queued
        BY DEF Ways, Queued
      <4> QED
        BY <1>0, <2>0, <3>1, <4>1, Places DEF Course, Staged, HoldsOn
    <3>5. Ending /\ "poll" \notin faults => ToldTrue(w)'
      BY <1>0, <2>0, <3>1, StillTold
    <3> QED
      BY <1>0, <2>0, <3>1, <3>2, <3>3, <3>4, <3>5, WorkerMoves DEF HoldsOn
  <2> QED
    BY <1>1, <2>1, <2>2 DEF Connect
<1>2. CASE Provision(w)
  BY <1>2, TransitionCourse DEF Provision, At, Status, Active, Ways
<1>3. CASE GetTests(w)
  <2>0. worker[w].pc = "getTests" /\ UNCHANGED <<status, req, job, faults>>
    BY <1>3 DEF GetTests, At
  <2>1. /\ worker'[w].pc \in {"fail", "wipe"} /\ worker'[w].mode = worker[w].mode /\ HoldsOn(w)
        /\ \A u \in Workers \ {w} : worker'[u] = worker[u]
    <3>1. PICK s \in SUBSET Tests :
            Sets(w, [worker[w] EXCEPT !.chosen = s, !.pc = IF s = {} THEN "fail" ELSE "wipe"])
      BY <1>3 DEF GetTests
    <3>2. CASE s = {}
      BY <1>0, <3>1, <3>2 DEF Sets, HoldsOn, TypeOK, WorkerState
    <3>3. CASE s # {}
      BY <1>0, <3>1, <3>3 DEF Sets, HoldsOn, TypeOK, WorkerState
    <3> QED
      BY <3>2, <3>3
  <2> QED
    BY <1>0, <2>0, <2>1, CourseGoesOn DEF Preparing, Ways
<1>4. CASE WipeRows(w)
  BY <1>4, <1>g DEF WipeRows, At, Preparing
<1>5. CASE InsertRows(w)
  BY <1>5, <1>g, <1>r DEF InsertRows, At, Preparing
<1>6. CASE RemoveOld(w)
  BY <1>6, <1>g DEF RemoveOld, At, Preparing
<1>7. CASE CreateBox(w)
  BY <1>7, <1>g, <1>r DEF CreateBox, At, Preparing
<1>8. CASE StartBox(w)
  <2>0. worker[w].pc = "start" /\ UNCHANGED <<status, req, job, faults>>
    BY <1>8 DEF StartBox, At
  <2>1. CASE Raise(w)
    BY <1>r, <2>0, <2>1 DEF Preparing
  <2>2. CASE Sets(w, [worker[w] EXCEPT !.held = worker[w].run, !.pc = "saveContainer"])
    <3>1. /\ worker'[w].pc = "saveContainer" /\ worker'[w].mode = worker[w].mode /\ HoldsOn(w)
          /\ \A u \in Workers \ {w} : worker'[u] = worker[u]
      BY <1>0, <2>2 DEF Sets, HoldsOn, TypeOK, WorkerState
    <3> QED
      BY <1>0, <2>0, <3>1, CourseGoesOn DEF Preparing, Ways
  <2> QED
    BY <1>8, <2>1, <2>2 DEF StartBox
<1>9. CASE SaveContainer(w)
  <2>0. worker[w].pc = "saveContainer" /\ UNCHANGED <<status, req, job, faults>>
    BY <1>9 DEF SaveContainer, At
  <2>1. CASE status[worker[w].cur] # "deleted"
    BY <1>9, <1>g, <2>0, <2>1 DEF SaveContainer, Preparing
  <2>2. CASE status[worker[w].cur] = "deleted"
    <3>1. RaiseDeleted(w)
      BY <1>9, <2>2 DEF SaveContainer
    <3>2. Thrown(w)' /\ Unended(w)'
      BY <1>0, <3>1, RaiseDeletedEffect DEF Thrown, Unended, Working, Ways
    <3>3. Staged(w)'
      BY <1>0, <3>1, RaiseDeletedEffect, Places DEF Staged, Ways
    <3>4. Ending /\ "poll" \notin faults => ToldTrue(w)'
      BY <1>0, <2>0, <3>1, RaiseDeletedEffect, StillTold
    <3> QED
      BY <1>0, <2>0, <3>1, <3>2, <3>3, <3>4, RaiseDeletedEffect, WorkerMoves DEF HoldsOn
  <2> QED
    BY <2>1, <2>2
<1>10. CASE MarkRunning(w)
  BY <1>10, TransitionCourse DEF MarkRunning, At, Status, Active, Ways
<1> QED
  BY <1>1, <1>2, <1>3, <1>4, <1>5, <1>6, <1>7, <1>8, <1>9, <1>10

\* While the container runs: the cancelled branch is taken for a row that says so, or
\* because the poll could not read it.
LEMMA WaitCourseInv ==
  ASSUME TypeInv, CourseInv, NEW w \in Workers,
         \/ Subscribe(w) \/ WaitExit(w) \/ WaitFails(w) \/ WaitTimeout(w) \/ WaitNotice(w)
         \/ WaitPoll(w) \/ PollFails(w)
  PROVE  CourseInv'
<1>0. /\ TypeOK /\ HasExecution /\ Course(w)
      /\ worker[w].pc = "wait" /\ UNCHANGED <<status, req, job, faults>>
  BY DEF TypeInv, CourseInv, Subscribe, WaitExit, WaitFails, WaitTimeout, WaitNotice, WaitPoll,
         PollFails, At
<1>p. "wait" \in Waiting /\ \A l \in Waiting : l \notin Ways \cup {"idle"}
  BY DEF Waiting, Ways
<1>w. worker[w].mode = "try" /\ Working(w)
  BY <1>0, <1>p DEF Course, Thrown, Working
<1>1. CASE Subscribe(w)
  <2>1. /\ worker'[w].pc = "wait" /\ worker'[w].mode = "try" /\ worker'[w].ear = "on"
        /\ worker'[w].cur = worker[w].cur /\ worker'[w].outcome = worker[w].outcome
        /\ \A u \in Workers \ {w} : worker'[u] = worker[u]
    BY <1>0, <1>1, <1>w DEF Subscribe, Sets, TypeOK, WorkerState
  <2>2. Thrown(w)'
    BY <2>1 DEF Thrown
  <2>3. Ending => Unended(w)'
    BY <1>0, <1>w, <2>1 DEF Course, Unended
  <2>4. Once => Staged(w)'
    BY <1>0, <2>1 DEF Course, Staged
  <2>5. Ending /\ "poll" \notin faults => ToldTrue(w)'
    BY <1>0, <2>1 DEF Course, ToldTrue
  <2> QED
    BY <1>0, <2>1, <2>2, <2>3, <2>4, <2>5, WorkerMoves
<1>2. ASSUME NEW o \in {"clean", "dirty", "timeout", "cancelled"}, Resolve(w, o),
             /\ o = "cancelled" /\ Ending /\ "poll" \notin faults
               => status[worker[w].cur] \in Gone
      PROVE  CourseInv'
  <2>1. /\ worker'[w].pc \in {"stopAborted", "collecting"} /\ worker'[w].mode = "try"
        /\ worker'[w].cur = worker[w].cur /\ worker'[w].ear = "off" /\ worker'[w].outcome = o
        /\ \A u \in Workers \ {w} : worker'[u] = worker[u]
    BY <1>0, <1>2, <1>w, ResolveEffect
  <2>2. Thrown(w)'
    BY <2>1 DEF Thrown
  <2>3. Ending => Unended(w)'
    BY <1>0, <1>w, <2>1 DEF Course, Unended
  <2>4. Once => Staged(w)'
    <3>1. {"stopAborted", "collecting"} \subseteq Waiting
      BY DEF Waiting
    <3> QED
      BY <1>0, <1>p, <2>1, <3>1, Places DEF Course, Staged, Ways
  <2>5. Ending /\ "poll" \notin faults => ToldTrue(w)'
    BY <1>0, <1>2, <2>1 DEF ToldTrue
  <2> QED
    BY <1>0, <2>1, <2>2, <2>3, <2>4, <2>5, WorkerMoves
<1>3. CASE Raise(w)
  BY <1>0, <1>3, <1>p, RaiseCourse
<1>4. CASE WaitNotice(w)
  <2>1. Ending /\ "poll" \notin faults => status[worker[w].cur] \in Gone
    BY <1>0, <1>4 DEF WaitNotice, Course, ToldTrue
  <2> QED
    BY <1>2, <1>4, <2>1 DEF WaitNotice
<1>5. CASE WaitPoll(w)
  BY <1>2, <1>5 DEF WaitPoll, Gone
<1>6. CASE PollFails(w)
  BY <1>2, <1>6 DEF PollFails
<1>7. CASE WaitTimeout(w)
  BY <1>2, <1>7 DEF WaitTimeout
<1>8. CASE WaitExit(w)
  <2>1. \/ Raise(w)
        \/ \E o \in {"clean", "dirty"} : Resolve(w, o)
    BY <1>8 DEF WaitExit
  <2> QED
    BY <1>2, <1>3, <2>1
<1> QED
  BY <1>1, <1>3, <1>4, <1>5, <1>6, <1>7, <1>8 DEF WaitFails

\* From the end of the wait to the end of process().
LEMMA EndCourseInv ==
  ASSUME TypeInv, CourseInv, NEW w \in Workers,
         \/ StopAborted(w) \/ CancelRows(w) \/ Collect(w) \/ ReadRows(w) \/ SaveRows(w)
         \/ Finish(w) \/ FailExecution(w) \/ CloseRows(w) \/ QueryFails(w) \/ Finally(w)
  PROVE  CourseInv'
<1>0. TypeOK /\ HasExecution /\ Course(w)
  BY DEF TypeInv, CourseInv
<1>p. \A l \in Waiting \cup Collecting : l \notin Ways \cup {"idle"}
  BY DEF Waiting, Collecting, Ways
<1>1. CASE StopAborted(w)
  <2>1. worker[w].pc = "stopAborted" /\ UNCHANGED <<status, req, job, faults>>
    BY <1>1 DEF StopAborted, At
  <2>2. /\ worker'[w].pc \in {"cancelRows", "collecting"} /\ worker'[w].mode = worker[w].mode
        /\ HoldsOn(w) /\ \A u \in Workers \ {w} : worker'[u] = worker[u]
    BY <1>0, <1>1 DEF StopAborted, Sets, HoldsOn, TypeOK, WorkerState
  <2>3. {"stopAborted", "cancelRows", "collecting"} \subseteq Waiting
    BY DEF Waiting
  <2> QED
    BY <1>0, <1>p, <2>1, <2>2, <2>3, CourseGoesOn
<1>2. CASE CancelRows(w)
  <2>1. worker[w].pc = "cancelRows" /\ UNCHANGED <<status, req, job, faults>>
    BY <1>2 DEF CancelRows, At
  <2>2. "cancelRows" \in Waiting
    BY DEF Waiting
  <2>3. CASE Goto(w, "finally")
    BY <1>0, <1>p, <2>1, <2>2, <2>3, GotoGoes, CourseGoesOn
  <2>4. CASE Raise(w)
    BY <1>0, <1>p, <2>1, <2>2, <2>4, RaiseCourse
  <2> QED
    BY <1>2, <2>3, <2>4 DEF CancelRows
<1>3. CASE Collect(w)
  BY <1>3, TransitionCourse DEF Collect, At, Status, Active, Ways
<1>4. CASE ReadRows(w)
  <2>1. worker[w].pc = "readRows" /\ UNCHANGED <<status, req, job, faults>>
    BY <1>4 DEF ReadRows, At
  <2>2. /\ worker'[w].pc = "saveRows" /\ worker'[w].mode = worker[w].mode
        /\ HoldsOn(w) /\ \A u \in Workers \ {w} : worker'[u] = worker[u]
    BY <1>0, <1>4 DEF ReadRows, Sets, HoldsOn, TypeOK, WorkerState
  <2>3. {"readRows", "saveRows"} \subseteq Collecting
    BY DEF Collecting
  <2> QED
    BY <1>0, <1>p, <2>1, <2>2, <2>3, CourseGoesOn
<1>5. CASE SaveRows(w)
  <2>1. worker[w].pc = "saveRows" /\ UNCHANGED <<status, req, job, faults>>
    BY <1>5 DEF SaveRows, At
  <2>2. /\ HoldsOn(w) /\ \A u \in Workers \ {w} : worker'[u] = worker[u]
        /\ \/ worker'[w].pc \in {"fail", "final"} /\ worker'[w].mode = worker[w].mode
           \/ worker'[w].pc = "finally" /\ worker'[w].mode = "catch"
    <3> DEFINE f == [worker[w] EXCEPT !.seen = {}, !.pc = "fail"]
               g == [worker[w] EXCEPT !.seen = {}, !.pc = "final"]
               h == [worker[w] EXCEPT !.seen = {}, !.pc = "finally", !.mode = "catch"]
    <3>1. Sets(w, f) \/ Sets(w, g) \/ Sets(w, h)
      BY <1>5 DEF SaveRows
    <3>2. CASE Sets(w, f)
      BY <1>0, <3>2 DEF Sets, HoldsOn, TypeOK, WorkerState
    <3>3. CASE Sets(w, g)
      BY <1>0, <3>3 DEF Sets, HoldsOn, TypeOK, WorkerState
    <3>4. CASE Sets(w, h)
      BY <1>0, <3>4 DEF Sets, HoldsOn, TypeOK, WorkerState
    <3> QED
      BY <3>1, <3>2, <3>3, <3>4
  <2>3. {"saveRows", "final"} \subseteq Collecting
    BY DEF Collecting
  <2>4. CASE worker'[w].pc \in {"fail", "final"} /\ worker'[w].mode = worker[w].mode
    BY <1>0, <1>p, <2>1, <2>2, <2>3, <2>4, CourseGoesOn
  <2>5. CASE worker'[w].pc = "finally" /\ worker'[w].mode = "catch"
    <3>1. Thrown(w)' /\ Unended(w)'
      BY <2>5 DEF Thrown, Unended, Working, Ways
    <3>2. Staged(w)'
      BY <2>5, Places DEF Staged, Ways
    <3>3. Ending /\ "poll" \notin faults => ToldTrue(w)'
      BY <1>0, <2>1, <2>2, <2>5, StillTold
    <3> QED
      BY <1>0, <2>1, <2>2, <3>1, <3>2, <3>3, WorkerMoves DEF HoldsOn
  <2> QED
    BY <2>2, <2>4, <2>5
<1>6. CASE Finish(w)
  <2>1. PICK s \in {"COMPLETED", "FAILED"} : Transition(w, s, "finally")
    BY <1>6 DEF Finish
  <2>2. worker[w].pc \notin Ways \cup {"idle"}
    BY <1>6 DEF Finish, At, Ways
  <2> QED
    BY <2>1, <2>2, TransitionCourse DEF Status, Terminal
<1>7. CASE FailExecution(w)
  <2> DEFINE e == worker[w].cur
             l == IF Writable(e) THEN "closeRows" ELSE "finally"
  <2>1. /\ worker[w].pc = "fail" /\ UNCHANGED <<req, job, faults>> /\ Goto(w, l)
        /\ status' = IF Writable(e) THEN [status EXCEPT ![e] = "FAILED"] ELSE status
        /\ worker[w].mode # "rejected"
    BY <1>0, <1>7 DEF FailExecution, At, Course, Thrown
  <2>2. /\ worker'[w].pc = l /\ worker'[w].mode = worker[w].mode /\ HoldsOn(w)
        /\ \A u \in Workers \ {w} : worker'[u] = worker[u]
    BY <1>0, <2>1, GotoGoes
  <2>3. l \in {"closeRows", "finally"} /\ l \in Ways
    BY DEF Ways
  <2>4. Thrown(w)' /\ Unended(w)'
    BY <2>1, <2>2, <2>3 DEF Thrown, Unended, Working
  <2>5. Staged(w)'
    BY <2>1, <2>2, <2>3, Places DEF Staged
  <2>6. e \in Executions /\ Working(w)
    BY <1>0, <2>1 DEF HasExecution, Working
  <2>7. /\ \A f \in Executions \ {e} : status'[f] = status[f]
        /\ IF Writable(e) THEN status'[e] = "FAILED" ELSE status'[e] = status[e]
    BY <1>0, <2>1, <2>6 DEF TypeOK
  <2>8. Ending /\ "poll" \notin faults => ToldTrue(w)'
    BY <1>0, <2>2, <2>3, <2>7, StillTold
  <2> HIDE DEF l
  <2> QED
    BY <1>0, <2>1, <2>2, <2>4, <2>5, <2>6, <2>7, <2>8, WorkerMoves DEF HoldsOn
<1>8. CASE CloseRows(w)
  <2>1. worker[w].pc = "closeRows" /\ UNCHANGED <<status, req, job, faults>>
    BY <1>8 DEF CloseRows, At
  <2>2. CASE Goto(w, "finally")
    <3>1. worker[w].mode # "rejected"
      BY <1>0, <2>1 DEF Course, Thrown
    <3>2. /\ worker'[w].pc = "finally" /\ worker'[w].mode = worker[w].mode /\ HoldsOn(w)
          /\ \A u \in Workers \ {w} : worker'[u] = worker[u]
      BY <1>0, <2>2, GotoGoes
    <3>3. Thrown(w)' /\ Unended(w)'
      BY <3>1, <3>2 DEF Thrown, Unended, Working, Ways
    <3>4. Staged(w)'
      BY <3>1, <3>2, Places DEF Staged, Ways
    <3>5. Ending /\ "poll" \notin faults => ToldTrue(w)'
      BY <1>0, <2>1, <3>2, StillTold
    <3> QED
      BY <1>0, <2>1, <3>2, <3>3, <3>4, <3>5, WorkerMoves DEF HoldsOn
  <2>3. CASE "publish" \in faults /\ Raise(w)
    BY <2>1, <2>3, RaiseCourse, Environment
  <2> QED
    BY <1>8, <2>2, <2>3 DEF CloseRows
<1>9. CASE QueryFails(w)
  <2>1. ~Once /\ Raise(w) /\ UNCHANGED <<status, req, job, faults>>
        /\ worker[w].pc \notin {"idle", "finally", "settle", "closeRows"}
    BY <1>9, Environment DEF QueryFails, QueryPCs
  <2> QED
    BY <2>1, RaiseCourse
<1>10. CASE Finally(w)
  <2>1. worker[w].pc = "finally" /\ UNCHANGED <<status, req, job, faults>>
    BY <1>10 DEF Finally, At
  <2>2. /\ worker'[w].pc = "settle" /\ worker'[w].mode = worker[w].mode
        /\ HoldsOn(w) /\ \A u \in Workers \ {w} : worker'[u] = worker[u]
    BY <1>0, <1>10 DEF Finally, Sets, HoldsOn, TypeOK, WorkerState
  <2>3. Thrown(w)' /\ (Ending => Unended(w)')
    BY <1>0, <2>1, <2>2 DEF Course, Thrown, Unended, Working, HoldsOn, Ways
  <2>4. Once => Staged(w)'
    BY <1>0, <2>1, <2>2, Places DEF Course, Staged, HoldsOn, Ways
  <2>5. Ending /\ "poll" \notin faults => ToldTrue(w)'
    BY <1>0, <2>1, <2>2, StillTold
  <2> QED
    BY <1>0, <2>1, <2>2, <2>3, <2>4, <2>5, WorkerMoves DEF HoldsOn
<1> QED
  BY <1>1, <1>2, <1>3, <1>4, <1>5, <1>6, <1>7, <1>8, <1>9, <1>10

\* An idle worker promises nothing.
LEMMA IdleCourse ==
  ASSUME NEW w, worker'[w] = IdleWorker
  PROVE  Course(w)'
<1>1. /\ worker'[w].pc = "idle" /\ worker'[w].mode = "try" /\ worker'[w].ear = "off"
      /\ worker'[w].outcome = "none"
  BY DEF IdleWorker
<1>2. Staged(w)'
  BY <1>1, Places DEF Staged
<1> QED
  BY <1>1, <1>2 DEF Course, Thrown, OwnsJob, Unended, Working, ToldTrue

\* The job changes hands.
LEMMA QueueCourseInv ==
  ASSUME TypeInv, CourseInv, NEW e \in Executions, NEW w \in Workers,
         TakeJob(w, e) \/ Settle(w)
  PROVE  CourseInv'
<1>0. TypeOK /\ HasExecution /\ Course(w) /\ Record(e)
  BY DEF TypeInv, CourseInv
<1>n. w # None
  BY NoneAssumption
<1>1. CASE TakeJob(w, e)
  <2> DEFINE r == [IdleWorker EXCEPT !.pc = "connect", !.cur = e, !.run = job[e].runs + 1]
  <2>1. /\ job[e].st = "waiting" /\ Sets(w, r) /\ UNCHANGED <<status, rows, req, box, faults>>
        /\ job' = [job EXCEPT ![e] = [job[e] EXCEPT !.st = "active", !.owner = w,
                                                    !.runs = job[e].runs + 1]]
    BY <1>1 DEF TakeJob
  <2>2. /\ worker'[w].pc = "connect" /\ worker'[w].cur = e /\ worker'[w].mode = "try"
        /\ worker'[w].ear = "off" /\ worker'[w].outcome = "none"
        /\ \A u \in Workers \ {w} : worker'[u] = worker[u]
    BY <1>0, <2>1 DEF Sets, IdleWorker, TypeOK
  <2>3. /\ job'[e].st = "active" /\ job'[e].owner = w
        /\ \A f \in Executions \ {e} : job'[f] = job[f]
    BY <1>0, <2>1 DEF TypeOK, Job
  <2>4. Record(e)'
    BY <1>0, <1>n, <2>1, <2>3, Environment DEF Record
  <2>5. Course(w)'
    <3>1. Thrown(w)' /\ OwnsJob(w)' /\ ToldTrue(w)'
      BY <2>2, <2>3 DEF Thrown, OwnsJob, ToldTrue
    <3>2. Ending => Unended(w)'
      BY <1>0, <2>1, <2>2 DEF Record, Unended
    <3>3. Once => Staged(w)'
      <4>1. "connect" \in Queued
        BY DEF Queued
      <4> QED
        BY <1>0, <2>1, <2>2, <4>1, Places DEF Record, Staged
    <3> QED
      BY <2>1, <3>1, <3>2, <3>3, Environment DEF Course
  <2>6. ASSUME NEW u \in Workers, u # w, Undisputed
        PROVE  worker[u].pc = "idle" \/ worker[u].cur # e
    BY <2>1, <2>6 DEF CourseInv, Course, OwnsJob
  <2> QED
    BY <1>0, <2>1, <2>2, <2>3, <2>4, <2>5, <2>6, CourseLocal
<1>2. CASE Settle(w)
  <2>0. PICK f \in Executions : f = worker[w].cur
    BY <1>0, <1>2 DEF Settle, At, HasExecution
  <2> DEFINE n == job[f].made + 1
             done == [job[f] EXCEPT !.st = "done", !.owner = None]
             over == [job[f] EXCEPT !.st = IF n < Attempts THEN "waiting" ELSE "failed",
                                    !.owner = None, !.made = n]
  <2>1. /\ worker[w].pc = "settle" /\ Sets(w, IdleWorker)
        /\ UNCHANGED <<status, rows, req, box, faults>>
    BY <1>2 DEF Settle, At
  <2>2. worker'[w] = IdleWorker /\ \A u \in Workers \ {w} : worker'[u] = worker[u]
    BY <1>0, <2>1 DEF Sets, TypeOK
  <2>3. \/ job' = job
        \/ job' = [job EXCEPT ![f] = done]
        \/ worker[w].mode = "rejected" /\ job' = [job EXCEPT ![f] = over]
    BY <1>2, <2>0 DEF Settle
  <2>4. /\ done.st = "done"
        /\ over.st \in {"waiting", "failed"}
        /\ job[f] \in Job
    BY <1>0, <2>1 DEF TypeOK, Job
  <2> HIDE DEF done, over
  <2>5. Record(f)'
    <3>0. Record(f)
      BY <2>1 DEF CourseInv
    <3>1. CASE job' = job
      BY <2>1, <3>0, <3>1, SameRecord
    <3>2. CASE job' = [job EXCEPT ![f] = done]
      <4>1. job'[f].st = "done"
        BY <1>0, <2>1, <2>4, <3>2 DEF TypeOK
      <4> QED
        BY <2>1, <3>0, <4>1, Environment DEF Record
    <3>3. CASE worker[w].mode = "rejected" /\ job' = [job EXCEPT ![f] = over]
      <4>1. job'[f].st \in {"waiting", "failed"}
        BY <1>0, <2>1, <2>4, <3>3 DEF TypeOK
      <4>2. Working(w)
        BY <2>1, <3>3 DEF Working
      <4>3. Ending => status[f] \in Active \cup Gone
        BY <1>0, <2>0, <4>2 DEF Course, Unended
      <4>4. Once => status[f] \in {"QUEUED"} \cup Gone
        BY <1>0, <2>0, <3>3 DEF Course, Staged
      <4> QED
        BY <2>1, <3>0, <4>1, <4>3, <4>4, Environment DEF Record
    <3> QED
      BY <2>3, <3>1, <3>2, <3>3
  <2>6. \A g \in Executions \ {f} : job'[g] = job[g]
    BY <1>0, <2>1, <2>3 DEF TypeOK
  <2>7. ASSUME NEW u \in Workers, u # w, Undisputed
        PROVE  worker[u].pc = "idle" \/ worker[u].cur # f
    BY <2>0, <2>1, <2>7, NobodyElse
  <2>8. Course(w)'
    BY <2>2, IdleCourse
  <2> QED
    BY <1>0, <2>1, <2>2, <2>5, <2>6, <2>7, <2>8, CourseLocal
<1> QED
  BY <1>1, <1>2

\* Where a worker may crash or lose its job, little is left to keep.
LEMMA LossCourseInv ==
  ASSUME TypeInv, CourseInv, NEW w \in Workers, NEW e \in Executions,
         Crash(w) \/ LoseLock(e) \/ Stall(e)
  PROVE  CourseInv'
<1>1. ~Undisputed
  <2>1. CASE Stall(e)
    BY <2>1 DEF Stall, CourseInv, Record
  <2> QED
    BY <2>1, Environment DEF Crash, LoseLock
<1>2. UNCHANGED <<status, req, faults>>
  BY DEF Crash, LoseLock, Stall
<1>3. ASSUME NEW u \in Workers PROVE Thrown(u)'
  <2>1. worker'[u] = worker[u] \/ worker'[u] = IdleWorker
    BY DEF Crash, LoseLock, Stall, Sets, TypeInv, TypeOK
  <2>2. CASE worker'[u] = worker[u]
    BY <2>2 DEF CourseInv, Course, Thrown
  <2>3. CASE worker'[u] = IdleWorker
    BY <2>3 DEF Thrown, IdleWorker
  <2> QED
    BY <2>1, <2>2, <2>3
<1> QED
  BY <1>1, <1>2, <1>3, Environment DEF CourseInv, Course, Record

\* The API: a row is marked or deleted under the worker's feet, never its job.
LEMMA ApiCourseInv ==
  ASSUME TypeInv, CourseInv, NEW e \in Executions, Trigger(e) \/ ReadForCancel(e) \/ Api(e)
  PROVE  CourseInv'
<1>0. TypeOK /\ HasExecution /\ NoRowNoJob /\ Record(e) /\ job[e] \in Job
  BY DEF TypeInv, TypeOK, CourseInv
<1>1. ASSUME Undisputed, NEW u \in Workers, worker[u].cur = e, worker[u].pc # "idle"
      PROVE  job[e].st = "active" /\ job[e].owner # None
  BY <1>1, NoneAssumption DEF CourseInv, Course, OwnsJob
<1>2. CASE Trigger(e)
  <2>1. /\ status[e] = "none" /\ status'[e] = "QUEUED" /\ UNCHANGED <<req, worker, faults>>
        /\ \A f \in Executions \ {e} : status'[f] = status[f] /\ job'[f] = job[f]
        /\ job'[e].st = "adding"
    BY <1>0, <1>2 DEF Trigger, TypeOK, Job
  <2>2. ASSUME Undisputed, NEW u \in Workers PROVE worker[u].pc = "idle" \/ worker[u].cur # e
    BY <1>0, <1>1, <2>1, <2>2 DEF NoRowNoJob
  <2>3. Record(e)'
    BY <1>0, <2>1, Environment DEF Record, Active
  <2> QED
    BY <1>0, <2>1, <2>2, <2>3, CourseLocal
<1>3. CASE Enqueue(e)
  <2>1. /\ job[e].st = "adding" /\ job'[e].st \in {"waiting", "lost"}
        /\ UNCHANGED <<status, req, worker, faults>>
        /\ \A f \in Executions \ {e} : job'[f] = job[f]
    BY <1>0, <1>3 DEF Enqueue, TypeOK, Job
  <2>2. ASSUME Undisputed, NEW u \in Workers PROVE worker[u].pc = "idle" \/ worker[u].cur # e
    BY <1>1, <2>1, <2>2
  <2>3. Record(e)'
    BY <1>0, <2>1, Environment DEF Record
  <2> QED
    BY <1>0, <2>1, <2>2, <2>3, CourseLocal
<1>4. CASE RemoveJob(e)
  <2>1. /\ req[e] \in {"unqueue", "purge"} /\ UNCHANGED <<status, worker, faults>>
        /\ \A f \in Executions \ {e} : job'[f] = job[f] /\ req'[f] = req[f]
        /\ req[e] = "unqueue" => req'[e] = "notify"
        /\ req[e] # "unqueue" => req'[e] = "idle"
        /\ \/ Removable(e) /\ job'[e].st = "removed"
           \/ job' = job
    BY <1>0, <1>4 DEF RemoveJob, TypeOK, Job
  <2>2. CASE Removable(e) /\ job'[e].st = "removed"
    <3>1. ASSUME Undisputed, NEW u \in Workers PROVE worker[u].pc = "idle" \/ worker[u].cur # e
      BY <1>1, <2>2, <3>1 DEF Removable
    <3>2. Record(e)'
      BY <1>0, <2>1, <2>2, Environment DEF Record
    <3> QED
      BY <1>0, <2>1, <3>1, <3>2, CourseLocal
  <2>3. CASE job' = job
    <3>1. \A u \in Workers : Course(u)'
      BY <2>1, <2>3, SameCourse DEF CourseInv
    <3>2. Record(e)'
      BY <1>0, <2>1, <2>3, Environment DEF Record
    <3> QED
      BY <1>0, <2>1, <3>1, <3>2, CourseLocal
  <2> QED
    BY <2>1, <2>2, <2>3
<1>5. CASE ReadForCancel(e)
  <2>1. /\ UNCHANGED <<status, job, worker, faults>> /\ status[e] \in Active \cup Terminal
        /\ req'[e] = IF status[e] \in Active THEN "mark" ELSE "delete"
        /\ \A f \in Executions \ {e} : req'[f] = req[f]
    BY <1>0, <1>5 DEF ReadForCancel, TypeOK
  <2>2. \A u \in Workers : Course(u)'
    BY <2>1, SameCourse DEF CourseInv
  <2>3. Record(e)'
    BY <1>0, <2>1, Environment DEF Record, Active, Terminal
  <2> QED
    BY <1>0, <2>1, <2>2, <2>3, CourseLocal
<1>6. CASE MarkCancelled(e) \/ DeleteRow(e)
  <2>1. /\ UNCHANGED <<job, worker, faults>>
        /\ \A f \in Executions \ {e} : status'[f] = status[f] /\ req'[f] = req[f]
        /\ status'[e] = status[e] \/ status'[e] \in Gone
    BY <1>0, <1>6 DEF MarkCancelled, DeleteRow, TypeOK, Gone
  <2>2. ASSUME NEW u \in Workers PROVE Course(u)'
    <3>1. CASE worker[u].pc = "idle" \/ worker[u].cur # e \/ status'[e] = status[e]
      <4>1. worker[u].pc # "idle" => worker[u].cur \in Executions
        BY <1>0 DEF HasExecution
      <4> QED
        BY <2>1, <3>1, <4>1, SameCourse DEF CourseInv
    <3>2. CASE worker[u].pc # "idle" /\ worker[u].cur = e /\ status'[e] \in Gone
      BY <2>1, <3>2, Environment
      DEF CourseInv, Course, Thrown, OwnsJob, Unended, Working, Staged, ToldTrue
    <3> QED
      BY <2>1, <3>1, <3>2
  <2>3. Record(e)'
    <3>1. CASE MarkCancelled(e)
      <4>1. /\ req[e] = "mark" /\ req'[e] = "unqueue"
            /\ IF status[e] \in Active THEN status'[e] = "CANCELLED" ELSE status'[e] = status[e]
        BY <1>0, <3>1 DEF MarkCancelled, TypeOK
      <4>2. status[e] \in Status /\ status[e] # "none"
        BY <1>0, <4>1 DEF Record, TypeOK
      <4> QED
        BY <1>0, <2>1, <4>1, <4>2, Environment DEF Record, Status, Active, Terminal, Gone
    <3>2. CASE DeleteRow(e)
      <4>1. status'[e] = "deleted" /\ req'[e] \in {"idle", "purge"}
        BY <1>0, <3>2 DEF DeleteRow, TypeOK
      <4> QED
        BY <1>0, <2>1, <4>1, Environment DEF Record, Gone
    <3> QED
      BY <1>6, <3>1, <3>2
  <2> QED
    BY <1>0, <2>1, <2>2, <2>3, CourseLocal
<1>7. CASE Notify(e)
  <2>1. /\ req[e] = "notify" /\ req'[e] = "idle" /\ UNCHANGED <<status, job, faults>>
        /\ \A f \in Executions \ {e} : req'[f] = req[f]
    BY <1>0, <1>7 DEF Notify, TypeOK
  <2>2. Record(e)'
    BY <1>0, <2>1, Environment DEF Record
  <2>3. ASSUME NEW u \in Workers PROVE Course(u)'
    <3>1. CASE worker'[u] = worker[u]
      BY <2>1, <3>1, SameCourse DEF CourseInv
    <3>2. CASE Hears(u, e) /\ worker'[u] = [worker[u] EXCEPT !.ear = "heard"]
      <4>0. worker[u] \in WorkerState /\ Course(u)
        BY <1>0 DEF TypeOK, CourseInv
      <4>1. /\ worker'[u].pc = worker[u].pc /\ worker'[u].mode = worker[u].mode
            /\ worker'[u].cur = worker[u].cur
        BY <3>2, <4>0 DEF WorkerState
      <4>2. Ending => status[e] \in Gone
        <5>1. Working(u) /\ worker[u].cur = e
          BY <3>2 DEF Hears, Working
        <5>2. Ending => status[e] \in Active \cup Gone /\ status[e] \in Terminal \cup {"deleted"}
          BY <1>0, <2>1, <4>0, <5>1 DEF Course, Unended, Record
        <5> QED
          BY <5>2 DEF Active, Terminal, Gone
      <4>3. Ending => ToldTrue(u)'
        BY <2>1, <3>2, <4>1, <4>2 DEF ToldTrue, Hears
      <4> QED
        BY <2>1, <4>0, <4>1, <4>3, Environment
        DEF Course, Thrown, OwnsJob, Unended, Working, Staged
    <3> QED
      BY <1>7, <3>1, <3>2 DEF Notify
  <2> QED
    BY <1>0, <2>1, <2>2, <2>3, CourseLocal
<1> QED
  BY <1>2, <1>3, <1>4, <1>5, <1>6, <1>7 DEF Api

\* A step that leaves everything the invariant reads alone.
LEMMA Untouched ==
  ASSUME CourseInv, UNCHANGED <<status, req, job, worker, faults>>
  PROVE  CourseInv'
<1>1. \A u \in Workers : Course(u)'
  BY SameCourse DEF CourseInv
<1>2. \A e \in Executions : Record(e)'
  BY SameRecord DEF CourseInv
<1> QED
  BY <1>1, <1>2 DEF CourseInv

LEMMA NextCourseInv == TypeInv /\ CourseInv /\ [Next]_vars => CourseInv'
<1> SUFFICES ASSUME TypeInv, CourseInv, [Next]_vars PROVE CourseInv'
  OBVIOUS
<1>1. CASE UNCHANGED vars
  BY <1>1, Untouched DEF vars
<1>2. CASE Next
  <2>1. ASSUME NEW e \in Executions, Trigger(e) \/ ReadForCancel(e) \/ Api(e)
        PROVE  CourseInv'
    BY <2>1, ApiCourseInv
  <2>2. ASSUME NEW w \in Workers, Process(w) \/ Subscribe(w) \/ WaitTimeout(w)
        PROVE  CourseInv'
    <3>1. CASE Settle(w)
      <4>1. worker[w].cur \in Executions
        BY <3>1 DEF Settle, At, TypeInv, HasExecution
      <4> QED
        BY <3>1, <4>1, QueueCourseInv
    <3> QED
      BY <2>2, <3>1, PrepareCourseInv, WaitCourseInv, EndCourseInv DEF Process
  <2>3. ASSUME NEW w \in Workers, WaitFails(w) \/ PollFails(w) \/ QueryFails(w) \/ Crash(w)
        PROVE  CourseInv'
    <3>1. CASE Crash(w)
      <4>1. worker[w].cur \in Executions
        BY <3>1 DEF Crash, At, TypeInv, HasExecution
      <4> QED
        BY <3>1, <4>1, LossCourseInv
    <3> QED
      BY <2>3, <3>1, WaitCourseInv, EndCourseInv
  <2>4. ASSUME NEW w \in Workers, NEW e \in Executions, TakeJob(w, e)
        PROVE  CourseInv'
    BY <2>4, QueueCourseInv
  <2>5. ASSUME NEW e \in Executions, Container(e) \/ ExitDirty(e)
        PROVE  CourseInv'
    BY <2>5, Untouched DEF Container, Boot, ExitClean, RunTest, ExitDirty
  <2>6. ASSUME NEW e \in Executions, LoseLock(e) \/ Stall(e)
        PROVE  CourseInv'
    <3>1. CASE LoseLock(e)
      <4>1. job[e].owner \in Workers
        BY <3>1 DEF LoseLock, TypeInv, TypeOK, Job
      <4> QED
        BY <3>1, <4>1, LossCourseInv
    <3>2. CASE Stall(e)
      <4>1. ~Undisputed /\ UNCHANGED <<status, req, worker, faults>>
        BY <3>2 DEF Stall, CourseInv, Record
      <4> QED
        BY <4>1, Environment DEF CourseInv, Course, Record, Thrown
    <3> QED
      BY <2>6, <3>1, <3>2
  <2> QED
    BY <1>2, <2>1, <2>2, <2>3, <2>4, <2>5, <2>6 DEF Next
<1> QED
  BY <1>1, <1>2

(***************************************************************************)
(* The cancelled branch                                                    *)
(***************************************************************************)

\* The worker never abandons a container as cancelled while its execution goes on, whatever
\* notices are lost, queries fail and containers die: what the notice or the poll said
\* stays true (waitForContainerOrAbort() and the conditional updates).
THEOREM AbortIsTrue == Spec => []NoFalseAbort
<1>1. Init => TypeInv /\ CourseInv
  BY InitTypeInv, InitCourseInv
<1>2. TypeInv /\ CourseInv /\ [Next]_vars => TypeInv' /\ CourseInv'
  BY NextTypeInv, NextCourseInv
<1>3. CourseInv => NoFalseAbort
  BY DEF CourseInv, Course, ToldTrue, NoFalseAbort, AbortOnlyWhenCancelled, Ending, Without, Gone
<1> QED
  BY <1>1, <1>2, <1>3, PTL DEF Spec

(***************************************************************************)
(* The lifecycle                                                           *)
(***************************************************************************)

\* Execution's name for the parameter of the lifecycle, and its steps, expanded.
LEMMA StatusMoves ==
  ASSUME NEW e \in Executions, NEW s, UNCHANGED faults, status' = [status EXCEPT ![e] = s],
         \/ status[e] = "none" /\ s = "QUEUED"
         \/ status[e] = "QUEUED" /\ s = "PROVISIONING"
         \/ status[e] = "PROVISIONING" /\ s = "RUNNING"
         \/ status[e] = "RUNNING" /\ s = "COLLECTING"
         \/ status[e] = "COLLECTING" /\ s = "COMPLETED"
         \/ status[e] \in Active /\ s \in {"FAILED", "CANCELLED"}
         \/ status[e] \in Terminal /\ s = "deleted"
         \/ /\ ~Once
            /\ status[e] \in Active \cup {"COMPLETED", "FAILED"}
            /\ \/ s = "deleted"
               \/ s # "QUEUED" /\ s \in Active \cup {"COMPLETED", "FAILED"}
  PROVE  [Lifecycle!Next]_(Lifecycle!vars)
<1>1. UNCHANGED Once
  BY Environment
<1>2. Lifecycle!Unfinished = Active
  BY DEF Lifecycle!Unfinished, Lifecycle!NextStage, Active
<1>3. CASE status[e] = "none" /\ s = "QUEUED"
  <2>1. Lifecycle!Request(e)
    BY <1>3 DEF Lifecycle!Request, Lifecycle!Becomes
  <2> QED
    BY <1>1, <2>1 DEF Lifecycle!Next, Once
<1>4. CASE \/ status[e] = "QUEUED" /\ s = "PROVISIONING"
           \/ status[e] = "PROVISIONING" /\ s = "RUNNING"
           \/ status[e] = "RUNNING" /\ s = "COLLECTING"
           \/ status[e] = "COLLECTING" /\ s = "COMPLETED"
  <2>1. status[e] \in Active /\ s = Lifecycle!NextStage[status[e]]
    BY <1>4 DEF Active, Lifecycle!NextStage
  <2>2. Lifecycle!Advance(e)
    BY <1>2, <2>1 DEF Lifecycle!Advance, Lifecycle!Becomes
  <2> QED
    BY <1>1, <2>2 DEF Lifecycle!Next, Once
<1>5. CASE status[e] \in Active /\ s \in {"FAILED", "CANCELLED"}
  <2>1. Lifecycle!Fail(e) \/ Lifecycle!Cancel(e)
    BY <1>2, <1>5 DEF Lifecycle!Fail, Lifecycle!Cancel, Lifecycle!Becomes
  <2> QED
    BY <1>1, <2>1 DEF Lifecycle!Next, Once
<1>6. CASE status[e] \in Terminal /\ s = "deleted"
  <2>1. Lifecycle!Delete(e)
    BY <1>6 DEF Lifecycle!Delete, Lifecycle!Becomes, Lifecycle!Ended, Terminal
  <2> QED
    BY <1>1, <2>1 DEF Lifecycle!Next, Once
<1>7. CASE /\ ~Once
           /\ status[e] \in Active \cup {"COMPLETED", "FAILED"}
           /\ \/ s = "deleted"
              \/ s # "QUEUED" /\ s \in Active \cup {"COMPLETED", "FAILED"}
  <2>1. Lifecycle!Repeat(e)
    BY <1>2, <1>7 DEF Lifecycle!Repeat, Lifecycle!Becomes, Once
  <2> QED
    BY <1>1, <2>1 DEF Lifecycle!Next, Once
<1> QED
  BY <1>3, <1>4, <1>5, <1>6, <1>7

\* A step that leaves the rows' status alone is a stutter of the lifecycle.
LEMMA StatusStays ==
  ASSUME UNCHANGED <<status, faults>>
  PROVE  [Lifecycle!Next]_(Lifecycle!vars)
<1>1. UNCHANGED Once
  BY Environment
<1> QED
  BY <1>1 DEF Lifecycle!vars, Once

\* A transition of a worker that is where the lifecycle's stage says.
LEMMA TransitionFollows ==
  ASSUME TypeInv, CourseInv, NEW w \in Workers, NEW s, NEW next, Transition(w, s, next),
         worker[w].pc # "idle",
         s \in {"PROVISIONING", "RUNNING", "COLLECTING", "COMPLETED", "FAILED"},
         Once => \/ s = "FAILED" /\ status[worker[w].cur] \in Active \cup Gone
                 \/ s = "PROVISIONING" /\ status[worker[w].cur] \in {"QUEUED"} \cup Gone
                 \/ s = "RUNNING" /\ status[worker[w].cur] \in {"PROVISIONING"} \cup Gone
                 \/ s = "COLLECTING" /\ status[worker[w].cur] \in {"RUNNING"} \cup Gone
                 \/ s = "COMPLETED" /\ status[worker[w].cur] \in {"COLLECTING"} \cup Gone
  PROVE  [Lifecycle!Next]_(Lifecycle!vars)
<1> DEFINE e == worker[w].cur
<1>1. e \in Executions /\ UNCHANGED faults /\ status[e] \in Status
  BY DEF TypeInv, TypeOK, HasExecution, Transition
<1>2. CASE ~Writable(e)
  BY <1>1, <1>2, StatusStays DEF Transition
<1>3. CASE Writable(e)
  <2>1. status' = [status EXCEPT ![e] = s]
    BY <1>3 DEF Transition
  <2>2. status[e] \in Active \cup {"COMPLETED", "FAILED"} /\ status[e] \notin Gone
    BY <1>1, <1>3 DEF Writable, Status, Terminal, Gone
  <2>3. s # "QUEUED" /\ s \in Active \cup {"COMPLETED", "FAILED"}
    BY DEF Active
  <2> QED
    BY <1>1, <2>1, <2>2, <2>3, StatusMoves
<1> QED
  BY <1>2, <1>3

LEMMA NextFollows == TypeInv /\ CourseInv /\ [Next]_vars => [Lifecycle!Next]_(Lifecycle!vars)
<1> SUFFICES ASSUME TypeInv, CourseInv, [Next]_vars
             PROVE  [Lifecycle!Next]_(Lifecycle!vars)
  OBVIOUS
<1>0. TypeOK /\ HasExecution
  BY DEF TypeInv
<1>1. CASE UNCHANGED <<status, faults>>
  BY <1>1, StatusStays
<1>2. ASSUME NEW e \in Executions, Trigger(e) \/ MarkCancelled(e) \/ DeleteRow(e)
      PROVE  [Lifecycle!Next]_(Lifecycle!vars)
  <2>1. CASE Trigger(e)
    BY <2>1, StatusMoves DEF Trigger
  <2>2. CASE MarkCancelled(e)
    BY <2>2, StatusMoves, StatusStays DEF MarkCancelled
  <2>3. CASE DeleteRow(e)
    <3>1. /\ UNCHANGED faults /\ status' = [status EXCEPT ![e] = "deleted"]
          /\ status[e] \in Status \ {"none"} /\ Record(e)
      BY <1>0, <2>3 DEF DeleteRow, TypeOK, CourseInv, Record
    <3>2. CASE status[e] = "deleted"
      <4>1. UNCHANGED status
        BY <1>0, <3>1, <3>2 DEF TypeOK
      <4> QED
        BY <3>1, <4>1, StatusStays
    <3>3. CASE status[e] \in Terminal
      BY <3>1, <3>3, StatusMoves
    <3>4. CASE status[e] \in Active
      <4>1. ~Once
        BY <2>3, <3>1, <3>4, Environment DEF DeleteRow, Record, Active, Terminal
      <4> QED
        BY <3>1, <3>4, <4>1, StatusMoves
    <3> QED
      BY <3>1, <3>2, <3>3, <3>4 DEF Status
  <2> QED
    BY <1>2, <2>1, <2>2, <2>3
<1>3. ASSUME NEW w \in Workers,
             Provision(w) \/ MarkRunning(w) \/ Collect(w) \/ Finish(w) \/ FailExecution(w)
      PROVE  [Lifecycle!Next]_(Lifecycle!vars)
  <2>0. Course(w)
    BY DEF CourseInv
  <2>1. CASE Provision(w)
    <3>1. "provisioning" \in Queued
      BY DEF Queued
    <3> QED
      BY <2>0, <2>1, <3>1, TransitionFollows DEF Provision, At, Course, Staged
  <2>2. CASE MarkRunning(w)
    <3>1. "running" \in Preparing
      BY DEF Preparing
    <3> QED
      BY <2>0, <2>2, <3>1, TransitionFollows DEF MarkRunning, At, Course, Staged
  <2>3. CASE Collect(w)
    <3>1. "collecting" \in Waiting
      BY DEF Waiting
    <3> QED
      BY <2>0, <2>3, <3>1, TransitionFollows DEF Collect, At, Course, Staged
  <2>4. CASE Finish(w)
    <3>1. worker[w].pc = "final" /\ "final" \in Collecting
      BY <2>4 DEF Finish, At, Collecting
    <3>2. Once => status[worker[w].cur] \in {"COLLECTING"} \cup Gone
      BY <2>0, <3>1 DEF Course, Staged
    <3>3. PICK s \in {"COMPLETED", "FAILED"} : Transition(w, s, "finally")
      BY <2>4 DEF Finish
    <3> QED
      BY <3>1, <3>2, <3>3, TransitionFollows DEF Active
  <2>5. CASE FailExecution(w)
    <3> DEFINE e == worker[w].cur
    <3>1. worker[w].pc = "fail" /\ e \in Executions /\ UNCHANGED faults /\ status[e] \in Status
      BY <1>0, <2>5 DEF FailExecution, At, HasExecution, TypeOK
    <3>2. CASE ~Writable(e)
      BY <2>5, <3>1, <3>2, StatusStays DEF FailExecution
    <3>3. CASE Writable(e)
      <4>1. status' = [status EXCEPT ![e] = "FAILED"]
        BY <2>5, <3>3 DEF FailExecution
      <4>2. status[e] \in Active \cup {"COMPLETED", "FAILED"} /\ status[e] \notin Gone
        BY <3>1, <3>3 DEF Writable, Status, Terminal, Gone
      <4>3. Once => status[e] \in Active
        BY <2>0, <3>1, <4>2 DEF Course, Staged
      <4> QED
        BY <3>1, <4>1, <4>2, <4>3, StatusMoves
    <3> QED
      BY <3>2, <3>3
  <2> QED
    BY <1>3, <2>1, <2>2, <2>3, <2>4, <2>5
<1>4. CASE /\ Next
           /\ ~\E e \in Executions : Trigger(e) \/ MarkCancelled(e) \/ DeleteRow(e)
           /\ ~\E w \in Workers : \/ Provision(w) \/ MarkRunning(w) \/ Collect(w)
                                  \/ Finish(w) \/ FailExecution(w)
  <2>1. ASSUME NEW e \in Executions, ReadForCancel(e) \/ Api(e)
        PROVE  UNCHANGED <<status, faults>>
    BY <1>4, <2>1 DEF ReadForCancel, Api, Enqueue, RemoveJob, Notify
  <2>2. ASSUME NEW w \in Workers, Process(w)
        PROVE  UNCHANGED <<status, faults>>
    BY <1>4, <2>2
    DEF Process, Connect, GetTests, WipeRows, InsertRows, RemoveOld, CreateBox, StartBox,
        SaveContainer, WaitExit, WaitNotice, WaitPoll, StopAborted, CancelRows, ReadRows,
        SaveRows, CloseRows, Finally, Settle
  <2>3. UNCHANGED <<status, faults>>
    BY <1>4, <2>1, <2>2
    DEF Next, Subscribe, WaitTimeout, WaitFails, PollFails, QueryFails, Crash, TakeJob,
        Container, Boot, ExitClean, RunTest, ExitDirty, LoseLock, Stall
  <2> QED
    BY <2>3, StatusStays
<1> QED
  BY <1>1, <1>2, <1>3, <1>4 DEF vars

\* The row of an execution goes through the lifecycle of the documentation, once and in
\* order, as long as process() is not run again after it wrote a status; and with every
\* fault it leaves CANCELLED only to be deleted and is never queued twice.
THEOREM LifecycleFollowed == Spec => FollowsLifecycle
<1>1. Init => TypeInv /\ CourseInv
  BY InitTypeInv, InitCourseInv
<1>2. TypeInv /\ CourseInv /\ [Next]_vars => TypeInv' /\ CourseInv'
  BY NextTypeInv, NextCourseInv
<1>3. Init => Lifecycle!Init
  BY DEF Init, Lifecycle!Init
<1>4. TypeInv /\ CourseInv /\ [Next]_vars => [Lifecycle!Next]_(Lifecycle!vars)
  BY NextFollows
<1> QED
  BY <1>1, <1>2, <1>3, <1>4, PTL DEF Spec, FollowsLifecycle, Lifecycle!Spec

(***************************************************************************)
(* What an execution says of itself is true, for any sets of executions,   *)
(* tests and workers: a green execution ran and its results are those of   *)
(* one attempt (for every fault but the loss of a job's lock and an        *)
(* executor that cannot announce a test), a verdict is never rewritten,    *)
(* and no result stays open.                                               *)
(*                                                                         *)
(* The argument: while locks hold, a worker that is not idle is alone with *)
(* its execution (Owns). What it creates carries the number of its run, so *)
(* an older container that is still alive answers for older rows, and the  *)
(* one whose clean exit it sees had exactly its own rows to run. If each   *)
(* container also has the worker that will remove it (KeptInv), none is at *)
(* the rows that the next run inserts, so no test runs twice.              *)
(***************************************************************************)

(***************************************************************************)
(* The invariants of these theorems                                        *)
(***************************************************************************)

\* The stretches of process() that the invariant tells apart.
BeforeCreate == {"connect", "provisioning", "getTests", "wipe", "insert", "removeOld", "create"}
AfterWait    == {"stopAborted", "collecting", "readRows", "saveRows", "final"}
WithRows     == {"removeOld", "create", "start", "saveContainer", "running", "wait",
                 "cancelRows"} \cup AfterWait
Unfinished   == {"getTests", "wipe", "insert"} \cup WithRows

\* While locks hold, a worker that is not idle owns its job, and the job counts this run.
Owns(w) ==
  worker[w].pc # "idle" =>
    /\ job[worker[w].cur].st = "active"
    /\ job[worker[w].cur].owner = w
    /\ job[worker[w].cur].runs = worker[w].run

\* A run holds only the container it created, and until it creates one the execution's
\* container is older.
BoxOfRun(w) ==
  /\ worker[w].held \in {0, worker[w].run}
  /\ worker[w].pc \in BeforeCreate => box[worker[w].cur].id < worker[w].run

\* The rows of the execution at each stretch of process().
RowsOfRun(w) ==
  /\ worker[w].pc \in {"wipe", "insert"} => worker[w].chosen # {}
  /\ worker[w].pc = "insert" => rows[worker[w].cur] = {}
  /\ worker[w].pc \in WithRows =>
       \/ status[worker[w].cur] = "deleted"
       \/ /\ rows[worker[w].cur] # {}
          /\ \A r \in rows[worker[w].cur] : r.batch = worker[w].run

\* The test of a result ran; an executor that cannot announce a test leaves it out.
Ran(r) == r.ran \/ "announce" \in faults

\* A clean exit is only seen when every row ran, and nothing says COMPLETED before the last
\* transition.
CleanMeansRan(w) ==
  /\ worker[w].pc \in Unfinished => status[worker[w].cur] # "COMPLETED"
  /\ worker[w].pc \in AfterWait /\ worker[w].outcome = "clean" =>
       \A r \in rows[worker[w].cur] : Ran(r)

RunOK(w) == Owns(w) /\ BoxOfRun(w) /\ RowsOfRun(w) /\ CleanMeansRan(w)

\* A container that asked for its rows has run them or has them still to do.
BoxCovers(e) ==
  /\ box[e].id <= job[e].runs
  /\ box[e].st \in {"running", "clean"} =>
       \A r \in rows[e] : r.batch = box[e].id => Ran(r) \/ KeyOf(r) \in box[e].todo
  /\ box[e].st = "clean" => box[e].todo = {}

OneBatchOf(e) == \A r, q \in rows[e] : r.batch = q.batch
GreenOf(e)    == status[e] = "COMPLETED" => rows[e] # {} /\ \A r \in rows[e] : Ran(r)
GoneOf(e)     == status[e] = "deleted" => rows[e] = {}

RecordOK(e) == BoxCovers(e) /\ OneBatchOf(e) /\ GreenOf(e) /\ GoneOf(e)

GreenInv == (\A w \in Workers : RunOK(w)) /\ (\A e \in Executions : RecordOK(e))

(***************************************************************************)
(* What a step leaves alone                                                *)
(***************************************************************************)

\* The step is about execution e: the others are as they were.
About(e) ==
  /\ UNCHANGED faults
  /\ \A f \in Executions \ {e} :
       status'[f] = status[f] /\ rows'[f] = rows[f] /\ job'[f] = job[f] /\ box'[f] = box[f]

\* Worker w keeps everything that the invariant reads but its place in process().
Keeps(w) ==
  /\ worker'[w].cur = worker[w].cur /\ worker'[w].run = worker[w].run
  /\ worker'[w].chosen = worker[w].chosen /\ worker'[w].outcome = worker[w].outcome
  /\ worker'[w].held \in {worker[w].held, 0}

\* The rows of e are the same ones, with at most more of them run.
SameRows(e) ==
  /\ rows[e] # {} => rows'[e] # {}
  /\ \A q \in rows'[e] : \E r \in rows[e] :
       q.test = r.test /\ q.batch = r.batch /\ (r.ran => q.ran)

\* An idle worker promises nothing.
LEMMA IdleRunOK ==
  ASSUME NEW u, RunOK(u), worker[u].pc = "idle", worker'[u] = worker[u]
  PROVE  RunOK(u)'
BY DEF RunOK, Owns, BoxOfRun, RowsOfRun, CleanMeansRan, Ran, BeforeCreate, WithRows, AfterWait,
       Unfinished

\* A step about e is left to be shown for e and for the workers it is not plain that
\* nothing changed for.
LEMMA Local ==
  ASSUME GreenInv, NEW e \in Executions, About(e), HasExecution, RecordOK(e)',
         \A u \in Workers : RunOK(u)' \/ (worker'[u] = worker[u] /\ worker[u].cur # e)
  PROVE  GreenInv'
<1>1. ASSUME NEW f \in Executions PROVE RecordOK(f)'
  <2>1. CASE f = e
    BY <2>1
  <2>2. CASE f # e
    BY <2>2 DEF About, GreenInv, RecordOK, BoxCovers, OneBatchOf, GreenOf, GoneOf, Ran
  <2> QED
    BY <2>1, <2>2
<1>2. ASSUME NEW u \in Workers, worker'[u] = worker[u], worker[u].cur # e PROVE RunOK(u)'
  <2>1. CASE worker[u].pc = "idle"
    BY <1>2, <2>1, IdleRunOK DEF GreenInv
  <2>2. CASE worker[u].pc # "idle"
    <3>1. worker[u].cur \in Executions \ {e}
      BY <1>2, <2>2 DEF HasExecution
    <3> QED
      BY <1>2, <3>1 DEF About, GreenInv, RunOK, Owns, BoxOfRun, RowsOfRun, CleanMeansRan, Ran
  <2> QED
    BY <2>1, <2>2
<1> QED
  BY <1>1, <1>2 DEF GreenInv

\* Nobody else is at work on the execution of a worker that is not idle.
LEMMA Alone ==
  ASSUME GreenInv, NEW w \in Workers, worker[w].pc # "idle", NEW u \in Workers, u # w,
         worker[u].pc # "idle"
  PROVE  worker[u].cur # worker[w].cur
BY DEF GreenInv, RunOK, Owns

\* A step of worker w about its own execution.
LEMMA LocalToWorker ==
  ASSUME GreenInv, HasExecution, NEW w \in Workers, worker[w].pc # "idle",
         NEW e \in Executions, worker[w].cur = e, About(e),
         \A u \in Workers \ {w} : worker'[u] = worker[u],
         RunOK(w)', RecordOK(e)'
  PROVE  GreenInv'
<1>1. ASSUME NEW u \in Workers, worker'[u] = worker[u], worker[u].pc = "idle"
      PROVE  RunOK(u)'
  BY <1>1, IdleRunOK DEF GreenInv
<1>2. \A u \in Workers : RunOK(u)' \/ (worker'[u] = worker[u] /\ worker[u].cur # e)
  BY <1>1, Alone
<1> QED
  BY <1>2, Local

(***************************************************************************)
(* Moves of a worker                                                       *)
(***************************************************************************)

\* What Goto and Raise do to the fields that the invariant reads.
LEMMA GotoEffect ==
  ASSUME TypeOK, NEW w \in Workers, NEW l, Goto(w, l)
  PROVE  worker'[w].pc = l /\ Keeps(w) /\ \A u \in Workers \ {w} : worker'[u] = worker[u]
BY DEF Goto, Sets, Keeps, TypeOK, WorkerState

LEMMA RaiseEffect ==
  ASSUME TypeOK, NEW w \in Workers, Raise(w) \/ RaiseDeleted(w)
  PROVE  /\ worker'[w].pc \in {"fail", "finally"}
         /\ Keeps(w)
         /\ \A u \in Workers \ {w} : worker'[u] = worker[u]
<1>1. CASE Raise(w) /\ worker[w].mode = "try"
  BY <1>1 DEF Raise, Sets, Keeps, TypeOK, WorkerState
<1>2. CASE Raise(w) /\ worker[w].mode # "try"
  BY <1>2 DEF Raise, Sets, Keeps, TypeOK, WorkerState
<1>3. CASE RaiseDeleted(w)
  BY <1>3 DEF RaiseDeleted, Sets, Keeps, TypeOK, WorkerState
<1> QED
  BY <1>1, <1>2, <1>3

\* The labels at which a worker promises no more than to own its execution.
Loose == {"fail", "closeRows", "finally", "settle"}

LEMMA LooseIsLoose ==
  \A l \in Loose : l \notin BeforeCreate /\ l \notin AfterWait /\ l \notin WithRows
                   /\ l \notin Unfinished /\ l \notin {"wipe", "insert"}
BY DEF Loose, BeforeCreate, AfterWait, WithRows, Unfinished

\* A worker that goes to such a label, whatever it did to the rows, the status and the box.
LEMMA ToLoose ==
  ASSUME NEW w \in Workers, RunOK(w), worker[w].pc # "idle", worker'[w].pc \in Loose, Keeps(w),
         UNCHANGED job
  PROVE  RunOK(w)'
<1>1. Owns(w)' /\ BoxOfRun(w)'
  BY LooseIsLoose DEF RunOK, Owns, BoxOfRun, Keeps
<1> QED
  BY <1>1, LooseIsLoose DEF RunOK, RowsOfRun, CleanMeansRan, Ran

\* A worker that goes on within a stretch and leaves the rest alone.
LEMMA GoesOn ==
  ASSUME NEW w \in Workers, RunOK(w), worker[w].pc # "idle", Keeps(w),
         worker'[w].pc \notin {"wipe", "insert"},
         worker'[w].pc \in BeforeCreate => worker[w].pc \in BeforeCreate,
         worker'[w].pc \in AfterWait => worker[w].pc \in AfterWait,
         worker'[w].pc \in WithRows => worker[w].pc \in WithRows,
         worker'[w].pc \in Unfinished => worker[w].pc \in Unfinished,
         UNCHANGED <<status, rows, job, box, faults>>
  PROVE  RunOK(w)'
<1>1. Owns(w)' /\ BoxOfRun(w)'
  BY DEF RunOK, Owns, BoxOfRun, Keeps
<1>2. RowsOfRun(w)'
  BY DEF RunOK, RowsOfRun, Keeps
<1>3. CleanMeansRan(w)'
  BY DEF RunOK, CleanMeansRan, Ran, Keeps
<1> QED
  BY <1>1, <1>2, <1>3 DEF RunOK

\* transition(): the status is written, or the row may not be written and says something
\* that is not COMPLETED.
LEMMA TransitionEffect ==
  ASSUME TypeOK, NEW w \in Workers, NEW e \in Executions, worker[w].cur = e, NEW s, NEW l,
         Transition(w, s, l)
  PROVE  /\ About(e) /\ Keeps(w) /\ \A u \in Workers \ {w} : worker'[u] = worker[u]
         /\ worker'[w].pc \in {l, "fail", "finally"}
         /\ UNCHANGED <<rows, req, job, box, faults>>
         /\ IF status[e] \in {"none", "deleted", "CANCELLED"} THEN status'[e] = status[e]
            ELSE status'[e] = s
BY GotoEffect, RaiseEffect DEF Transition, About, Writable, TypeOK

(***************************************************************************)
(* Every step keeps the invariant                                          *)
(***************************************************************************)

LEMMA InitGreenInv == Init => GreenInv
<1> SUFFICES ASSUME Init PROVE GreenInv
  OBVIOUS
<1>1. ASSUME NEW w \in Workers PROVE RunOK(w)
  <2>1. worker[w] = IdleWorker
    BY DEF Init
  <2> QED
    BY <2>1 DEF IdleWorker, RunOK, Owns, BoxOfRun, RowsOfRun, CleanMeansRan, Ran, BeforeCreate,
                WithRows, AfterWait, Unfinished
<1>2. ASSUME NEW e \in Executions PROVE RecordOK(e)
  BY DEF Init, RecordOK, BoxCovers, OneBatchOf, GreenOf, GoneOf, Ran, NoBox, NewJob
<1> QED
  BY <1>1, <1>2 DEF GreenInv

\* The API: a row is marked or deleted under the worker's feet, never its job.
LEMMA ApiGreenInv ==
  ASSUME TypeInv, GreenInv, NEW e \in Executions, Trigger(e) \/ ReadForCancel(e) \/ Api(e)
  PROVE  GreenInv'
<1>t. TypeOK /\ HasExecution /\ NoRowNoJob /\ RecordOK(e) /\ job[e] \in Job
  BY DEF TypeInv, TypeOK, GreenInv
<1>1. ASSUME NEW u \in Workers, worker[u].cur = e, worker[u].pc # "idle"
      PROVE  job[e].st = "active" /\ job[e].owner # None
  BY <1>1, NoneAssumption DEF GreenInv, RunOK, Owns
<1>2. CASE Trigger(e)
  <2>1. About(e) /\ \A u \in Workers : worker'[u] = worker[u]
    BY <1>2 DEF Trigger, About
  <2>2. ASSUME NEW u \in Workers, worker[u].cur = e PROVE RunOK(u)'
    <3>1. worker[u].pc = "idle"
      BY <1>1, <1>2, <1>t, <2>2 DEF Trigger, NoRowNoJob
    <3> QED
      BY <2>1, <3>1, IdleRunOK DEF GreenInv
  <2>3. RecordOK(e)'
    BY <1>2, <1>t DEF Trigger, RecordOK, BoxCovers, OneBatchOf, GreenOf, GoneOf, Ran, TypeOK, Job
  <2> QED
    BY <1>t, <2>1, <2>2, <2>3, Local
<1>3. CASE ReadForCancel(e)
  BY <1>3 DEF ReadForCancel, GreenInv, RunOK, Owns, BoxOfRun, RowsOfRun, CleanMeansRan, Ran,
              RecordOK, BoxCovers, OneBatchOf, GreenOf, GoneOf, Ran
<1>4. CASE Enqueue(e) \/ RemoveJob(e)
  <2>1. About(e) /\ UNCHANGED <<status, rows, box, worker, faults>>
    BY <1>4, <1>t DEF Enqueue, RemoveJob, About, TypeOK
  <2>2. ASSUME NEW u \in Workers, worker[u].cur = e PROVE RunOK(u)'
    <3>1. CASE worker[u].pc = "idle"
      BY <2>1, <3>1, IdleRunOK DEF GreenInv
    <3>2. CASE worker[u].pc # "idle"
      <4>1. UNCHANGED job
        BY <1>1, <1>4, <2>2, <3>2 DEF Enqueue, RemoveJob, Removable
      <4> QED
        BY <2>1, <4>1 DEF GreenInv, RunOK, Owns, BoxOfRun, RowsOfRun, CleanMeansRan, Ran
    <3> QED
      BY <3>1, <3>2
  <2>3. job'[e].runs = job[e].runs
    BY <1>4, <1>t DEF Enqueue, RemoveJob, TypeOK, Job
  <2>4. RecordOK(e)'
    BY <1>t, <2>1, <2>3 DEF RecordOK, BoxCovers, OneBatchOf, GreenOf, GoneOf, Ran
  <2> QED
    BY <1>t, <2>1, <2>2, <2>4, Local
<1>5. CASE MarkCancelled(e)
  <2>1. About(e) /\ UNCHANGED <<rows, job, box, worker, faults>>
        /\ (status'[e] = status[e] \/ (status[e] \in Active /\ status'[e] = "CANCELLED"))
    BY <1>5, <1>t DEF MarkCancelled, About, TypeOK
  <2>2. ASSUME NEW u \in Workers, worker[u].cur = e PROVE RunOK(u)'
    BY <2>1, <2>2 DEF GreenInv, RunOK, Owns, BoxOfRun, RowsOfRun, CleanMeansRan, Ran, Active
  <2>3. RecordOK(e)'
    BY <1>t, <2>1 DEF RecordOK, BoxCovers, OneBatchOf, GreenOf, GoneOf, Ran
  <2> QED
    BY <1>t, <2>1, <2>2, <2>3, Local
<1>6. CASE DeleteRow(e)
  <2>1. About(e) /\ UNCHANGED <<job, box, worker, faults>> /\ status'[e] = "deleted" /\ rows'[e] = {}
    BY <1>6, <1>t DEF DeleteRow, About, TypeOK
  <2>2. ASSUME NEW u \in Workers, worker[u].cur = e PROVE RunOK(u)'
    BY <2>1, <2>2 DEF GreenInv, RunOK, Owns, BoxOfRun, RowsOfRun, CleanMeansRan, Ran
  <2>3. RecordOK(e)'
    BY <1>t, <2>1 DEF RecordOK, BoxCovers, OneBatchOf, GreenOf, GoneOf, Ran
  <2> QED
    BY <1>t, <2>1, <2>2, <2>3, Local
<1>7. CASE Notify(e)
  <2>1. UNCHANGED <<status, rows, job, box, faults>>
    BY <1>7 DEF Notify
  <2>2. ASSUME NEW u \in Workers
        PROVE  worker'[u].pc = worker[u].pc /\ Keeps(u) /\ worker'[u].held = worker[u].held
    BY <1>7, <1>t, <2>2 DEF Notify, Keeps, TypeOK, WorkerState
  <2>3. ASSUME NEW u \in Workers PROVE RunOK(u)'
    BY <2>1, <2>2, <2>3 DEF GreenInv, RunOK, Owns, BoxOfRun, RowsOfRun, CleanMeansRan, Ran, Keeps
  <2>4. ASSUME NEW f \in Executions PROVE RecordOK(f)'
    BY <2>1, <2>4 DEF GreenInv, RecordOK, BoxCovers, OneBatchOf, GreenOf, GoneOf, Ran
  <2> QED
    BY <2>3, <2>4 DEF GreenInv
<1> QED
  BY <1>2, <1>3, <1>4, <1>5, <1>6, <1>7 DEF Api

\* A worker that gives up or closes: the rows and the container may have changed, not the
\* job, and what changed keeps the records right.
LEMMA WorkerToLoose ==
  ASSUME GreenInv, HasExecution, NEW w \in Workers, worker[w].pc # "idle",
         NEW e \in Executions, worker[w].cur = e, About(e), UNCHANGED job,
         \A u \in Workers \ {w} : worker'[u] = worker[u],
         worker'[w].pc \in Loose, Keeps(w), RecordOK(e)'
  PROVE  GreenInv'
<1>1. RunOK(w)'
  BY ToLoose DEF GreenInv
<1> QED
  BY <1>1, LocalToWorker

\* An error: only the worker moves.
LEMMA RaiseGreenInv ==
  ASSUME TypeInv, GreenInv, NEW w \in Workers, worker[w].pc # "idle",
         Raise(w) \/ RaiseDeleted(w), UNCHANGED <<status, rows, req, job, box, faults>>
  PROVE  GreenInv'
<1> DEFINE e == worker[w].cur
<1>1. TypeOK /\ HasExecution /\ e \in Executions
  BY DEF TypeInv, HasExecution
<1>2. About(e) /\ (\A f \in Executions : RecordOK(f)')
  BY DEF About, GreenInv, RecordOK, BoxCovers, OneBatchOf, GreenOf, GoneOf, Ran
<1>3. worker'[w].pc \in Loose /\ Keeps(w) /\ \A u \in Workers \ {w} : worker'[u] = worker[u]
  BY <1>1, RaiseEffect DEF Loose
<1> QED
  BY <1>1, <1>2, <1>3, WorkerToLoose

\* A step of the worker alone, to a label that promises nothing new.
LEMMA GotoGreenInv ==
  ASSUME TypeInv, GreenInv, NEW w \in Workers, worker[w].pc # "idle", Keeps(w),
         \A u \in Workers \ {w} : worker'[u] = worker[u],
         worker'[w].pc \notin {"wipe", "insert"},
         worker'[w].pc \in BeforeCreate => worker[w].pc \in BeforeCreate,
         worker'[w].pc \in AfterWait => worker[w].pc \in AfterWait,
         worker'[w].pc \in WithRows => worker[w].pc \in WithRows,
         worker'[w].pc \in Unfinished => worker[w].pc \in Unfinished,
         UNCHANGED <<status, rows, job, box, faults>>
  PROVE  GreenInv'
<1> DEFINE e == worker[w].cur
<1>1. HasExecution /\ e \in Executions
  BY DEF TypeInv, HasExecution
<1>2. About(e) /\ (\A f \in Executions : RecordOK(f)')
  BY DEF About, GreenInv, RecordOK, BoxCovers, OneBatchOf, GreenOf, GoneOf, Ran
<1>3. RunOK(w)'
  BY GoesOn DEF GreenInv
<1> QED
  BY <1>1, <1>2, <1>3, LocalToWorker

\* A transition that does not end the execution well: to a stage, or to FAILED.
LEMMA TransitionGreenInv ==
  ASSUME TypeInv, GreenInv, NEW w \in Workers, worker[w].pc # "idle",
         NEW s \in {"PROVISIONING", "RUNNING", "COLLECTING", "FAILED"}, NEW l,
         Transition(w, s, l),
         l \notin {"wipe", "insert"},
         l \in BeforeCreate => worker[w].pc \in BeforeCreate,
         l \in AfterWait => worker[w].pc \in AfterWait,
         l \in WithRows => worker[w].pc \in WithRows
  PROVE  GreenInv'
<1> DEFINE e == worker[w].cur
<1>1. TypeOK /\ HasExecution /\ e \in Executions
  BY DEF TypeInv, HasExecution
<1>2. /\ About(e) /\ Keeps(w) /\ \A u \in Workers \ {w} : worker'[u] = worker[u]
      /\ worker'[w].pc \in {l, "fail", "finally"}
      /\ UNCHANGED <<rows, req, job, box, faults>>
      /\ IF status[e] \in {"none", "deleted", "CANCELLED"} THEN status'[e] = status[e]
         ELSE status'[e] = s
  BY <1>1, TransitionEffect
<1>3. status'[e] # "COMPLETED" /\ (status[e] = "deleted" => status'[e] = "deleted")
  BY <1>2
<1>4. ASSUME NEW f \in Executions, f = e PROVE RecordOK(f)'
  BY <1>2, <1>3, <1>4 DEF GreenInv, RecordOK, BoxCovers, OneBatchOf, GreenOf, GoneOf, Ran
<1>5. CASE worker'[w].pc \in Loose
  BY <1>1, <1>2, <1>4, <1>5, WorkerToLoose
<1>6. CASE worker'[w].pc = l
  <2>0. RunOK(w)
    BY DEF GreenInv
  <2>1. Owns(w)' /\ BoxOfRun(w)'
    BY <1>2, <1>6, <2>0 DEF RunOK, Owns, BoxOfRun, Keeps
  <2>2. RowsOfRun(w)'
    BY <1>2, <1>3, <1>6, <2>0 DEF RunOK, RowsOfRun, Keeps
  <2>3. CleanMeansRan(w)'
    BY <1>2, <1>3, <1>6, <2>0 DEF RunOK, CleanMeansRan, Ran, Keeps
  <2>4. RunOK(w)'
    BY <2>1, <2>2, <2>3 DEF RunOK
  <2> QED
    BY <1>1, <1>2, <1>4, <2>4, LocalToWorker
<1> QED
  BY <1>2, <1>5, <1>6 DEF Loose

\* The sets of labels, unfolded once.
LEMMA Stretches ==
  /\ \A l \in {"connect", "provisioning", "getTests", "wipe", "insert", "removeOld", "create"} :
       l \in BeforeCreate /\ l \notin AfterWait
  /\ \A l \in {"getTests", "wipe", "insert"} : l \in Unfinished /\ l \notin WithRows
  /\ \A l \in {"connect", "provisioning"} : l \notin Unfinished /\ l \notin WithRows
  /\ \A l \in {"removeOld", "create", "start", "saveContainer", "running", "wait", "cancelRows",
               "stopAborted", "collecting", "readRows", "saveRows", "final"} :
       l \in WithRows /\ l \in Unfinished
  /\ \A l \in {"start", "saveContainer", "running", "wait", "cancelRows", "stopAborted",
               "collecting", "readRows", "saveRows", "final"} : l \notin BeforeCreate
  /\ \A l \in {"start", "saveContainer", "running", "wait", "cancelRows"} : l \notin AfterWait
  /\ \A l \in {"stopAborted", "collecting", "readRows", "saveRows", "final"} : l \in AfterWait
BY DEF BeforeCreate, AfterWait, WithRows, Unfinished

\* Up to the container. The rows become those of this run before its container exists.
LEMMA PrepareGreenInv ==
  ASSUME TypeInv, GreenInv, NEW w \in Workers,
         \/ Connect(w) \/ Provision(w) \/ GetTests(w) \/ WipeRows(w) \/ InsertRows(w)
         \/ RemoveOld(w) \/ CreateBox(w) \/ StartBox(w) \/ SaveContainer(w) \/ MarkRunning(w)
  PROVE  GreenInv'
<1>0. worker[w].pc # "idle"
  BY DEF Connect, Provision, GetTests, WipeRows, InsertRows, RemoveOld, CreateBox, StartBox,
         SaveContainer, MarkRunning, At
<1> PICK e \in Executions : worker[w].cur = e
  BY <1>0 DEF TypeInv, HasExecution
<1>t. TypeOK /\ HasExecution /\ worker[w] \in WorkerState /\ worker[w].run \in Batch
  BY <1>0 DEF TypeInv, TypeOK, HasExecution
<1>i. RunOK(w) /\ RecordOK(e)
  BY DEF GreenInv
<1>1. CASE Connect(w)
  <2>1. CASE Goto(w, "provisioning")
    BY <1>0, <1>1, <1>t, <2>1, GotoEffect, GotoGreenInv, Stretches DEF Connect, At
  <2>2. CASE Sets(w, [worker[w] EXCEPT !.pc = "settle", !.mode = "rejected"])
    <3>1. worker'[w].pc \in Loose /\ Keeps(w) /\ \A u \in Workers \ {w} : worker'[u] = worker[u]
      BY <1>t, <2>2 DEF Sets, Keeps, Loose, TypeOK, WorkerState
    <3>2. About(e) /\ RecordOK(e)'
      BY <1>1, <1>i DEF Connect, About, RecordOK, BoxCovers, OneBatchOf, GreenOf, GoneOf, Ran
    <3> QED
      BY <1>0, <1>1, <1>t, <3>1, <3>2, WorkerToLoose DEF Connect
  <2> QED
    BY <1>1, <2>1, <2>2 DEF Connect
<1>2. CASE Provision(w)
  <2>1. PICK s \in {"PROVISIONING"} : Transition(w, s, "getTests") /\ At(w, "provisioning")
    BY <1>2 DEF Provision
  <2>2. /\ About(e) /\ Keeps(w) /\ \A u \in Workers \ {w} : worker'[u] = worker[u]
        /\ worker'[w].pc \in {"getTests", "fail", "finally"}
        /\ UNCHANGED <<rows, req, job, box, faults>>
        /\ status'[e] # "COMPLETED" /\ (status'[e] = "deleted" => status[e] = "deleted")
    BY <1>t, <2>1, TransitionEffect
  <2>3. RecordOK(e)'
    BY <1>i, <2>2 DEF RecordOK, BoxCovers, OneBatchOf, GreenOf, GoneOf, Ran
  <2>4. CASE worker'[w].pc \in Loose
    BY <1>0, <1>t, <2>2, <2>3, <2>4, WorkerToLoose
  <2>5. CASE worker'[w].pc = "getTests"
    <3>1. Owns(w)' /\ BoxOfRun(w)'
      BY <1>0, <1>i, <2>1, <2>2, <2>5, Stretches DEF RunOK, Owns, BoxOfRun, Keeps, At
    <3>2. RowsOfRun(w)' /\ CleanMeansRan(w)'
      BY <2>2, <2>5, Stretches DEF RowsOfRun, CleanMeansRan, Ran, Keeps
    <3> QED
      BY <1>0, <1>t, <2>2, <2>3, <3>1, <3>2, LocalToWorker DEF RunOK
  <2> QED
    BY <2>2, <2>4, <2>5 DEF Loose
<1>3. CASE GetTests(w)
  <2>1. PICK s \in SUBSET Tests :
          Sets(w, [worker[w] EXCEPT !.chosen = s, !.pc = IF s = {} THEN "fail" ELSE "wipe"])
    BY <1>3 DEF GetTests
  <2>2. /\ worker'[w].pc = IF s = {} THEN "fail" ELSE "wipe"
        /\ worker'[w].cur = e /\ worker'[w].run = worker[w].run /\ worker'[w].chosen = s
        /\ worker'[w].held = worker[w].held
        /\ \A u \in Workers \ {w} : worker'[u] = worker[u]
    BY <1>t, <2>1 DEF Sets, TypeOK, WorkerState
  <2>3. worker[w].pc = "getTests" /\ UNCHANGED <<status, rows, req, job, box, faults>>
    BY <1>3 DEF GetTests, At
  <2>4. Owns(w)' /\ BoxOfRun(w)'
    BY <1>0, <1>i, <2>2, <2>3, Stretches DEF RunOK, Owns, BoxOfRun
  <2>5. RowsOfRun(w)' /\ CleanMeansRan(w)'
    <3>1. CASE s = {}
      BY <2>2, <3>1, LooseIsLoose DEF Loose, RowsOfRun, CleanMeansRan, Ran
    <3>2. CASE s # {}
      BY <1>i, <2>2, <2>3, <3>2, Stretches DEF RunOK, RowsOfRun, CleanMeansRan, Ran
    <3> QED
      BY <3>1, <3>2
  <2>6. About(e) /\ RecordOK(e)'
    BY <1>i, <2>3 DEF About, RecordOK, BoxCovers, OneBatchOf, GreenOf, GoneOf, Ran
  <2> QED
    BY <1>0, <1>t, <2>2, <2>4, <2>5, <2>6, LocalToWorker DEF RunOK
<1>4. CASE WipeRows(w)
  <2>1. /\ worker'[w].pc = "insert" /\ Keeps(w)
        /\ \A u \in Workers \ {w} : worker'[u] = worker[u]
    BY <1>4, <1>t, GotoEffect DEF WipeRows
  <2>2. /\ worker[w].pc = "wipe" /\ UNCHANGED <<status, req, job, box, faults>>
        /\ About(e) /\ rows'[e] = {}
    BY <1>4, <1>t DEF WipeRows, At, About, TypeOK
  <2>3. status[e] # "COMPLETED" /\ worker[w].chosen # {}
    BY <1>i, <2>2, Stretches DEF RunOK, RowsOfRun, CleanMeansRan, Ran
  <2>4. Owns(w)' /\ BoxOfRun(w)'
    BY <1>0, <1>i, <2>1, <2>2, Stretches DEF RunOK, Owns, BoxOfRun, Keeps
  <2>5. RowsOfRun(w)' /\ CleanMeansRan(w)'
    BY <2>1, <2>2, <2>3, Stretches DEF RowsOfRun, CleanMeansRan, Ran, Keeps
  <2>6. RecordOK(e)'
    BY <1>i, <2>2, <2>3 DEF RecordOK, BoxCovers, OneBatchOf, GreenOf, GoneOf, Ran
  <2> QED
    BY <1>0, <1>t, <2>1, <2>2, <2>4, <2>5, <2>6, LocalToWorker DEF RunOK
<1>5. CASE InsertRows(w)
  <2>1. CASE status[e] = "deleted"
    BY <1>0, <1>5, <2>1, RaiseGreenInv DEF InsertRows
  <2>2. CASE status[e] # "deleted"
    <3> DEFINE new == {[test |-> t, batch |-> worker[w].run, st |-> "RUNNING", ran |-> FALSE] :
                         t \in worker[w].chosen}
    <3>1. /\ worker'[w].pc = "removeOld" /\ Keeps(w)
          /\ \A u \in Workers \ {w} : worker'[u] = worker[u]
      BY <1>5, <1>t, <2>2, GotoEffect DEF InsertRows
    <3>2. /\ worker[w].pc = "insert" /\ UNCHANGED <<status, req, job, box, faults>>
          /\ rows' = [rows EXCEPT ![e] = rows[e] \cup new]
      BY <1>5, <2>2 DEF InsertRows, At
    <3>3. rows[e] = {} /\ status[e] # "COMPLETED" /\ worker[w].chosen # {}
          /\ box[e].id < worker[w].run
      BY <1>i, <3>2, Stretches DEF RunOK, RowsOfRun, CleanMeansRan, Ran, BoxOfRun
    <3>4. About(e) /\ rows'[e] = new
      BY <1>t, <3>2, <3>3 DEF About, TypeOK
    <3>5. rows'[e] # {} /\ \A r \in rows'[e] : r.batch = worker[w].run
      <4>1. PICK t \in worker[w].chosen : TRUE
        BY <3>3
      <4>2. [test |-> t, batch |-> worker[w].run, st |-> "RUNNING", ran |-> FALSE] \in new
        OBVIOUS
      <4>3. \A r \in new : r.batch = worker[w].run
        OBVIOUS
      <4> QED
        BY <3>4, <4>2, <4>3
    <3>6. Owns(w)' /\ BoxOfRun(w)'
      BY <1>0, <1>i, <3>1, <3>2, Stretches DEF RunOK, Owns, BoxOfRun, Keeps
    <3>7. RowsOfRun(w)' /\ CleanMeansRan(w)'
      BY <3>1, <3>2, <3>3, <3>5, Stretches DEF RowsOfRun, CleanMeansRan, Ran, Keeps
    <3>8. box[e].id # worker[w].run
      BY <1>t, <3>3 DEF TypeOK, Box, Batch
    <3>9. RecordOK(e)'
      <4>1. BoxCovers(e)'
        BY <1>i, <3>2, <3>5, <3>8 DEF RecordOK, BoxCovers
      <4>2. OneBatchOf(e)' /\ GreenOf(e)' /\ GoneOf(e)'
        BY <2>2, <3>2, <3>3, <3>5 DEF OneBatchOf, GreenOf, GoneOf, Ran
      <4> QED
        BY <4>1, <4>2 DEF RecordOK
    <3> QED
      BY <1>0, <1>t, <3>1, <3>4, <3>6, <3>7, <3>9, LocalToWorker DEF RunOK
  <2> QED
    BY <2>1, <2>2
<1>6. CASE RemoveOld(w)
  <2>1. /\ worker'[w].pc = "create" /\ Keeps(w)
        /\ \A u \in Workers \ {w} : worker'[u] = worker[u]
    BY <1>6, <1>t, GotoEffect DEF RemoveOld
  <2>2. /\ worker[w].pc = "removeOld" /\ UNCHANGED <<status, rows, req, job, faults>>
        /\ About(e) /\ (box'[e] = NoBox \/ box'[e] = box[e])
    BY <1>6, <1>t DEF RemoveOld, At, About, TypeOK
  <2>3. Owns(w)' /\ RowsOfRun(w)' /\ CleanMeansRan(w)'
    BY <1>0, <1>i, <2>1, <2>2, Stretches DEF RunOK, Owns, RowsOfRun, CleanMeansRan, Ran, Keeps
  <2>4. BoxOfRun(w)'
    BY <1>i, <1>t, <2>1, <2>2, Stretches DEF RunOK, BoxOfRun, Keeps, NoBox, Batch
  <2>5. RecordOK(e)'
    BY <1>i, <1>t, <2>2 DEF RecordOK, BoxCovers, OneBatchOf, GreenOf, GoneOf, Ran, NoBox, TypeOK, Job
  <2> QED
    BY <1>0, <1>t, <2>1, <2>2, <2>3, <2>4, <2>5, LocalToWorker DEF RunOK
<1>7. CASE CreateBox(w)
  <2>1. CASE Raise(w) /\ UNCHANGED box
    BY <1>0, <1>7, <2>1, RaiseGreenInv DEF CreateBox
  <2>2. CASE /\ box' = [box EXCEPT ![e] = [id |-> worker[w].run, st |-> "created", todo |-> {}]]
             /\ Goto(w, "start")
    <3>1. /\ worker'[w].pc = "start" /\ Keeps(w)
          /\ \A u \in Workers \ {w} : worker'[u] = worker[u]
      BY <1>t, <2>2, GotoEffect
    <3>2. /\ worker[w].pc = "create" /\ UNCHANGED <<status, rows, req, job, faults>>
          /\ About(e) /\ box'[e].id = worker[w].run /\ box'[e].st = "created"
      BY <1>7, <1>t, <2>2 DEF CreateBox, At, About, TypeOK
    <3>3. job[e].runs = worker[w].run
      BY <1>0, <1>i DEF RunOK, Owns
    <3>4. Owns(w)' /\ RowsOfRun(w)' /\ CleanMeansRan(w)' /\ BoxOfRun(w)'
      BY <1>0, <1>i, <3>1, <3>2, Stretches
      DEF RunOK, Owns, RowsOfRun, CleanMeansRan, Ran, BoxOfRun, Keeps
    <3>5. RecordOK(e)'
      BY <1>i, <1>t, <3>2, <3>3 DEF RecordOK, BoxCovers, OneBatchOf, GreenOf, GoneOf, Ran, Batch
    <3> QED
      BY <1>0, <1>t, <3>1, <3>2, <3>4, <3>5, LocalToWorker DEF RunOK
  <2> QED
    BY <1>7, <2>1, <2>2 DEF CreateBox
<1>8. CASE StartBox(w)
  <2>1. CASE Raise(w) /\ UNCHANGED box
    BY <1>0, <1>8, <2>1, RaiseGreenInv DEF StartBox
  <2>2. CASE /\ box' = [box EXCEPT ![e].st = "booting"]
             /\ Sets(w, [worker[w] EXCEPT !.held = worker[w].run, !.pc = "saveContainer"])
    <3>1. /\ worker'[w].pc = "saveContainer"
          /\ worker'[w].cur = e /\ worker'[w].run = worker[w].run
          /\ worker'[w].held = worker[w].run /\ worker'[w].outcome = worker[w].outcome
          /\ \A u \in Workers \ {w} : worker'[u] = worker[u]
      BY <1>t, <2>2 DEF Sets, TypeOK, WorkerState
    <3>2. /\ worker[w].pc = "start" /\ UNCHANGED <<status, rows, req, job, faults>>
          /\ About(e) /\ box'[e].id = box[e].id /\ box'[e].st = "booting"
      BY <1>8, <1>t, <2>2 DEF StartBox, At, About, TypeOK, Box
    <3>3. Owns(w)' /\ RowsOfRun(w)' /\ CleanMeansRan(w)' /\ BoxOfRun(w)'
      BY <1>0, <1>i, <3>1, <3>2, Stretches
      DEF RunOK, Owns, RowsOfRun, CleanMeansRan, Ran, BoxOfRun
    <3>4. RecordOK(e)'
      BY <1>i, <3>2 DEF RecordOK, BoxCovers, OneBatchOf, GreenOf, GoneOf, Ran
    <3> QED
      BY <1>0, <1>t, <3>1, <3>2, <3>3, <3>4, LocalToWorker DEF RunOK
  <2> QED
    BY <1>8, <2>1, <2>2 DEF StartBox
<1>9. CASE SaveContainer(w)
  <2>1. CASE RaiseDeleted(w)
    BY <1>0, <1>9, <2>1, RaiseGreenInv DEF SaveContainer
  <2>2. CASE Goto(w, "running")
    BY <1>0, <1>9, <1>t, <2>2, GotoEffect, GotoGreenInv, Stretches DEF SaveContainer, At
  <2> QED
    BY <1>9, <2>1, <2>2 DEF SaveContainer
<1>10. CASE MarkRunning(w)
  <2>1. PICK s \in {"RUNNING"} : Transition(w, s, "wait") /\ At(w, "running")
    BY <1>10 DEF MarkRunning
  <2> QED
    BY <1>0, <2>1, TransitionGreenInv, Stretches DEF At
<1> QED
  BY <1>1, <1>2, <1>3, <1>4, <1>5, <1>6, <1>7, <1>8, <1>9, <1>10

\* While the container runs. Its clean exit means that all its rows ran.
LEMMA WaitGreenInv ==
  ASSUME TypeInv, GreenInv, NEW w \in Workers,
         \/ Subscribe(w) \/ WaitExit(w) \/ WaitFails(w) \/ WaitTimeout(w) \/ WaitNotice(w)
         \/ WaitPoll(w) \/ PollFails(w)
  PROVE  GreenInv'
<1>0. worker[w].pc = "wait" /\ UNCHANGED <<status, rows, req, job, box, faults>>
  BY DEF Subscribe, WaitExit, WaitFails, WaitTimeout, WaitNotice, WaitPoll, PollFails, At
<1> PICK e \in Executions : worker[w].cur = e
  BY <1>0 DEF TypeInv, HasExecution
<1>t. TypeOK /\ HasExecution /\ worker[w] \in WorkerState /\ worker[w].run \in Batch
  BY <1>0 DEF TypeInv, TypeOK, HasExecution
<1>i. RunOK(w) /\ RecordOK(e)
  BY DEF GreenInv
<1>1. CASE Subscribe(w)
  <2>1. /\ worker'[w].pc = "wait" /\ Keeps(w)
        /\ \A u \in Workers \ {w} : worker'[u] = worker[u]
    BY <1>0, <1>1, <1>t DEF Subscribe, Sets, Keeps, TypeOK, WorkerState
  <2> QED
    BY <1>0, <2>1, GotoGreenInv, Stretches
<1>2. ASSUME NEW o \in {"clean", "dirty", "timeout", "cancelled"}, Resolve(w, o),
             o = "clean" => \A r \in rows[e] : Ran(r)
      PROVE  GreenInv'
  <2>1. /\ worker'[w].pc \in {"stopAborted", "collecting"} /\ worker'[w].outcome = o
        /\ worker'[w].cur = e /\ worker'[w].run = worker[w].run
        /\ worker'[w].held = worker[w].held
        /\ \A u \in Workers \ {w} : worker'[u] = worker[u]
    BY <1>t, <1>2 DEF Resolve, Sets, TypeOK, WorkerState
  <2>2. Owns(w)' /\ RowsOfRun(w)' /\ BoxOfRun(w)'
    BY <1>0, <1>i, <2>1, Stretches DEF RunOK, Owns, RowsOfRun, BoxOfRun
  <2>3. CleanMeansRan(w)'
    BY <1>0, <1>2, <1>i, <2>1, Stretches DEF RunOK, CleanMeansRan, Ran
  <2>4. About(e) /\ RecordOK(e)'
    BY <1>0, <1>i DEF About, RecordOK, BoxCovers, OneBatchOf, GreenOf, GoneOf, Ran
  <2> QED
    BY <1>0, <1>t, <2>1, <2>2, <2>3, <2>4, LocalToWorker DEF RunOK
<1>3. CASE Raise(w)
  BY <1>0, <1>3, RaiseGreenInv
<1>4. CASE WaitExit(w)
  <2>1. CASE HeldBox(w) /\ box[e].st = "clean" /\ Resolve(w, "clean")
    <3>1. box[e].id = worker[w].run /\ box[e].todo = {}
      BY <1>i, <2>1 DEF HeldBox, RunOK, BoxOfRun, RecordOK, BoxCovers
    <3>2. ASSUME NEW r \in rows[e] PROVE Ran(r)
      <4>1. status[e] # "deleted" => r.batch = worker[w].run
        BY <1>0, <1>i, Stretches DEF RunOK, RowsOfRun
      <4>2. r.batch = worker[w].run => Ran(r)
        BY <1>i, <2>1, <3>1 DEF RecordOK, BoxCovers
      <4>3. status[e] = "deleted" => rows[e] = {}
        BY <1>i DEF RecordOK, GoneOf
      <4> QED
        BY <4>1, <4>2, <4>3
    <3> QED
      BY <1>2, <2>1, <3>2
  <2>2. CASE Resolve(w, "dirty")
    BY <1>2, <2>2
  <2> QED
    BY <1>3, <1>4, <1>t, <2>1, <2>2 DEF WaitExit, TypeOK
<1> QED
  BY <1>1, <1>2, <1>3, <1>4 DEF WaitFails, WaitTimeout, WaitNotice, WaitPoll, PollFails

(***************************************************************************)
(* Rows that are only closed or run                                        *)
(***************************************************************************)

\* Closing results or running one keeps what the records promise of the rows.
LEMMA SameRowsOK ==
  ASSUME NEW e \in Executions, RecordOK(e), SameRows(e), status'[e] = status[e],
         job'[e] = job[e], UNCHANGED faults,
         box'[e].id = box[e].id /\ box'[e].st = box[e].st /\ box'[e].todo = box[e].todo
  PROVE  RecordOK(e)'
<1>1. BoxCovers(e)'
  <2>1. ASSUME NEW q \in rows'[e], q.batch = box[e].id, box[e].st \in {"running", "clean"}
        PROVE  Ran(q) \/ KeyOf(q) \in box[e].todo
    <3> PICK r \in rows[e] : q.test = r.test /\ q.batch = r.batch /\ (r.ran => q.ran)
      BY DEF SameRows
    <3>1. Ran(r) \/ KeyOf(r) \in box[e].todo
      BY <2>1 DEF RecordOK, BoxCovers
    <3> QED
      BY <3>1 DEF KeyOf, Ran
  <2> QED
    BY <2>1 DEF RecordOK, BoxCovers, Ran
<1>2. OneBatchOf(e)' /\ GreenOf(e)' /\ GoneOf(e)'
  BY DEF SameRows, RecordOK, OneBatchOf, GreenOf, GoneOf, Ran
<1> QED
  BY <1>1, <1>2 DEF RecordOK

LEMMA ClosedIsSame ==
  ASSUME NEW e \in Executions, NEW s, rows \in [Executions -> SUBSET Row],
         rows' = [rows EXCEPT ![e] = Closed(e, s)]
  PROVE  SameRows(e)
<1>1. rows'[e] = Closed(e, s)
  OBVIOUS
<1>2. ASSUME NEW q \in Closed(e, s)
      PROVE  \E r \in rows[e] : q.test = r.test /\ q.batch = r.batch /\ (r.ran => q.ran)
  <2> PICK r \in rows[e] : q = IF r.st = "RUNNING" THEN [r EXCEPT !.st = s] ELSE r
    BY DEF Closed
  <2>1. q.test = r.test /\ q.batch = r.batch /\ q.ran = r.ran
    BY DEF Row
  <2> QED
    BY <2>1
<1>3. rows[e] # {} => Closed(e, s) # {}
  BY DEF Closed
<1> QED
  BY <1>1, <1>2, <1>3 DEF SameRows

\* Stopping a container leaves no container or the same one.
LEMMA StopEffect ==
  ASSUME TypeInv, NEW w \in Workers, NEW e \in Executions, worker[w].cur = e, RecordOK(e),
         StopAndRemove(w), UNCHANGED <<status, rows, job, faults>>
  PROVE  About(e) /\ RecordOK(e)'
<1>1. /\ About(e)
      /\ \/ box'[e] = NoBox \/ box'[e] = box[e]
         \/ box'[e].id = box[e].id /\ box'[e].st = "dirty"
  BY DEF StopAndRemove, About, TypeInv, TypeOK, Box
<1>2. job[e].runs \in Nat
  BY DEF TypeInv, TypeOK, Job
<1> QED
  BY <1>1, <1>2 DEF RecordOK, BoxCovers, OneBatchOf, GreenOf, GoneOf, Ran, NoBox

\* From the end of the wait to the end of process(). Only the clean outcome writes COMPLETED.
LEMMA EndGreenInv ==
  ASSUME TypeInv, GreenInv, NEW w \in Workers,
         \/ StopAborted(w) \/ CancelRows(w) \/ Collect(w) \/ ReadRows(w) \/ SaveRows(w)
         \/ Finish(w) \/ FailExecution(w) \/ CloseRows(w) \/ QueryFails(w) \/ Finally(w)
  PROVE  GreenInv'
<1>0. worker[w].pc # "idle"
  BY DEF StopAborted, CancelRows, Collect, ReadRows, SaveRows, Finish, FailExecution,
         CloseRows, QueryFails, QueryPCs, Finally, At
<1> PICK e \in Executions : worker[w].cur = e
  BY <1>0 DEF TypeInv, HasExecution
<1>t. TypeOK /\ HasExecution /\ worker[w] \in WorkerState /\ worker[w].run \in Batch
  BY <1>0 DEF TypeInv, TypeOK, HasExecution
<1>i. RunOK(w) /\ RecordOK(e)
  BY DEF GreenInv
<1>r. ASSUME NEW s, rows' = [rows EXCEPT ![e] = Closed(e, s)], UNCHANGED <<status, job, box, faults>>
      PROVE  About(e) /\ RecordOK(e)'
  BY <1>t, <1>i, <1>r, ClosedIsSame, SameRowsOK DEF About, TypeOK
<1>1. CASE StopAborted(w)
  <2>1. /\ worker'[w].pc \in {"cancelRows", "collecting"}
        /\ worker'[w].cur = e /\ worker'[w].run = worker[w].run /\ worker'[w].held = 0
        /\ worker'[w].outcome = worker[w].outcome
        /\ \A u \in Workers \ {w} : worker'[u] = worker[u]
    BY <1>1, <1>t DEF StopAborted, Sets, TypeOK, WorkerState
  <2>2. worker[w].pc = "stopAborted" /\ UNCHANGED <<status, rows, req, job, faults>>
    BY <1>1 DEF StopAborted, At
  <2>3. About(e) /\ RecordOK(e)'
    BY <1>1, <1>i, <2>2, StopEffect DEF StopAborted
  <2>4. Owns(w)' /\ BoxOfRun(w)' /\ RowsOfRun(w)' /\ CleanMeansRan(w)'
    BY <1>0, <1>i, <2>1, <2>2, Stretches
    DEF RunOK, Owns, BoxOfRun, RowsOfRun, CleanMeansRan, Ran
  <2> QED
    BY <1>0, <1>t, <2>1, <2>3, <2>4, LocalToWorker DEF RunOK
<1>2. CASE CancelRows(w)
  <2>1. /\ worker'[w].pc \in Loose /\ Keeps(w)
        /\ \A u \in Workers \ {w} : worker'[u] = worker[u]
    BY <1>2, <1>t, GotoEffect, RaiseEffect DEF CancelRows, Loose
  <2>2. rows' = [rows EXCEPT ![e] = Closed(e, "CANCELLED")] /\ UNCHANGED <<status, job, box, faults>>
    BY <1>2 DEF CancelRows
  <2> QED
    BY <1>0, <1>r, <1>t, <2>1, <2>2, WorkerToLoose
<1>3. CASE Collect(w)
  <2>1. PICK s \in {"COLLECTING"} : Transition(w, s, "readRows") /\ At(w, "collecting")
    BY <1>3 DEF Collect
  <2> QED
    BY <1>0, <2>1, TransitionGreenInv, Stretches DEF At
<1>4. CASE ReadRows(w)
  <2>1. /\ worker'[w].pc = "saveRows" /\ Keeps(w)
        /\ \A u \in Workers \ {w} : worker'[u] = worker[u]
    BY <1>4, <1>t DEF ReadRows, Sets, Keeps, TypeOK, WorkerState
  <2> QED
    BY <1>0, <1>4, <2>1, GotoGreenInv, Stretches DEF ReadRows, At
<1>5. CASE SaveRows(w)
  <2>1. /\ worker'[w].pc \in {"fail", "final", "finally"} /\ Keeps(w)
        /\ \A u \in Workers \ {w} : worker'[u] = worker[u]
    <3>1. CASE \E l \in {"fail", "final"} : Sets(w, [worker[w] EXCEPT !.seen = {}, !.pc = l])
      BY <1>t, <3>1 DEF Sets, Keeps, TypeOK, WorkerState
    <3>2. CASE Sets(w, [worker[w] EXCEPT !.seen = {}, !.pc = "finally", !.mode = "catch"])
      BY <1>t, <3>2 DEF Sets, Keeps, TypeOK, WorkerState
    <3> QED
      BY <1>5, <3>1, <3>2 DEF SaveRows
  <2>2. worker[w].pc = "saveRows" /\ UNCHANGED <<status, rows, req, job, box, faults>>
    BY <1>5 DEF SaveRows, At
  <2>3. CASE worker'[w].pc = "final"
    BY <1>0, <2>1, <2>2, <2>3, GotoGreenInv, Stretches
  <2>4. CASE worker'[w].pc \in Loose
    BY <1>0, <2>1, <2>2, <2>4, GotoGreenInv, LooseIsLoose
  <2> QED
    BY <2>1, <2>3, <2>4 DEF Loose
<1>6. CASE Finish(w)
  <2>0. worker[w].pc = "final"
    BY <1>6 DEF Finish, At
  <2>1. CASE worker[w].outcome = "clean"
    <3>1. PICK s \in {"COMPLETED"} : Transition(w, s, "finally")
      BY <1>6, <2>1 DEF Finish
    <3>2. /\ About(e) /\ Keeps(w) /\ \A u \in Workers \ {w} : worker'[u] = worker[u]
          /\ worker'[w].pc \in {"fail", "finally"}
          /\ UNCHANGED <<rows, req, job, box, faults>>
          /\ IF status[e] \in {"none", "deleted", "CANCELLED"} THEN status'[e] = status[e]
             ELSE status'[e] = "COMPLETED"
      BY <1>t, <3>1, TransitionEffect
    <3>3. (status[e] # "deleted" => rows[e] # {}) /\ \A r \in rows[e] : Ran(r)
      BY <1>i, <2>0, <2>1, Stretches DEF RunOK, RowsOfRun, CleanMeansRan
    <3>4. RecordOK(e)'
      BY <1>i, <3>2, <3>3 DEF RecordOK, BoxCovers, OneBatchOf, GreenOf, GoneOf, Ran
    <3> QED
      BY <1>0, <1>t, <3>2, <3>4, WorkerToLoose DEF Loose
  <2>2. CASE worker[w].outcome # "clean"
    <3>1. PICK s \in {"FAILED"} : Transition(w, s, "finally")
      BY <1>6, <2>2 DEF Finish
    <3> QED
      BY <1>0, <3>1, TransitionGreenInv, LooseIsLoose DEF Loose
  <2> QED
    BY <2>1, <2>2
<1>7. CASE FailExecution(w)
  <2>1. /\ worker'[w].pc \in Loose /\ Keeps(w)
        /\ \A u \in Workers \ {w} : worker'[u] = worker[u]
    BY <1>7, <1>t, GotoEffect DEF FailExecution, Loose
  <2>2. /\ UNCHANGED <<rows, req, job, box, faults>> /\ About(e)
        /\ status'[e] \in {status[e], "FAILED"}
    BY <1>7, <1>t DEF FailExecution, About, TypeOK
  <2>3. RecordOK(e)'
    BY <1>i, <2>2 DEF RecordOK, BoxCovers, OneBatchOf, GreenOf, GoneOf, Ran
  <2> QED
    BY <1>0, <1>t, <2>1, <2>2, <2>3, WorkerToLoose
<1>8. CASE CloseRows(w)
  <2>1. /\ worker'[w].pc \in Loose /\ Keeps(w)
        /\ \A u \in Workers \ {w} : worker'[u] = worker[u]
    BY <1>8, <1>t, GotoEffect, RaiseEffect DEF CloseRows, Loose
  <2>2. /\ rows' = [rows EXCEPT ![e] = Closed(e, "FAILED")] \/ UNCHANGED rows
        /\ UNCHANGED <<status, job, box, faults>>
    BY <1>8 DEF CloseRows
  <2>3. About(e) /\ RecordOK(e)'
    <3>1. CASE UNCHANGED rows
      BY <1>i, <2>2, <3>1 DEF About, RecordOK, BoxCovers, OneBatchOf, GreenOf, GoneOf, Ran
    <3> QED
      BY <1>r, <2>2, <3>1
  <2> QED
    BY <1>0, <1>t, <2>1, <2>2, <2>3, WorkerToLoose
<1>9. CASE QueryFails(w)
  BY <1>0, <1>9, RaiseGreenInv DEF QueryFails
<1>10. CASE Finally(w)
  <2>1. /\ worker'[w].pc \in Loose /\ Keeps(w)
        /\ \A u \in Workers \ {w} : worker'[u] = worker[u]
    BY <1>10, <1>t DEF Finally, Sets, Keeps, Loose, TypeOK, WorkerState
  <2>2. About(e) /\ RecordOK(e)' /\ UNCHANGED job
    BY <1>10, <1>i, StopEffect DEF Finally
  <2> QED
    BY <1>0, <1>t, <2>1, <2>2, WorkerToLoose
<1> QED
  BY <1>1, <1>2, <1>3, <1>4, <1>5, <1>6, <1>7, <1>8, <1>9, <1>10

\* Taking a job needs that nobody has it; giving it back leaves an idle worker.
LEMMA QueueGreenInv ==
  ASSUME TypeInv, GreenInv, NEW w \in Workers,
         (\E e \in Executions : TakeJob(w, e)) \/ Settle(w) \/ Crash(w)
  PROVE  GreenInv'
<1>t. TypeOK /\ HasExecution
  BY DEF TypeInv
<1>1. ASSUME NEW e \in Executions, TakeJob(w, e) PROVE GreenInv'
  <2> DEFINE r == [IdleWorker EXCEPT !.pc = "connect", !.cur = e, !.run = job[e].runs + 1]
  <2>1. job[e] \in Job /\ box[e] \in Box /\ job[e].runs \in Nat /\ job[e].st = "waiting"
    BY <1>1, <1>t DEF TakeJob, TypeOK, Job
  <2>2. /\ About(e) /\ UNCHANGED <<status, rows, req, box, faults>>
        /\ job'[e].st = "active" /\ job'[e].owner = w /\ job'[e].runs = job[e].runs + 1
    BY <1>1, <1>t, <2>1 DEF TakeJob, About, TypeOK, Job
  <2>3. worker'[w] = r /\ \A u \in Workers \ {w} : worker'[u] = worker[u]
    BY <1>1, <1>t DEF TakeJob, Sets, TypeOK
  <2>4. /\ worker'[w].pc = "connect" /\ worker'[w].cur = e /\ worker'[w].held = 0
        /\ worker'[w].run = job[e].runs + 1
    BY <2>3 DEF IdleWorker
  <2>5. box[e].id < job[e].runs + 1
    BY <2>1 DEF GreenInv, RecordOK, BoxCovers, Box
  <2>6. RunOK(w)'
    BY <2>2, <2>4, <2>5, Stretches DEF RunOK, Owns, BoxOfRun, RowsOfRun, CleanMeansRan, Ran
  <2>7. RecordOK(e)'
    BY <2>1, <2>2, <2>5 DEF GreenInv, RecordOK, BoxCovers, OneBatchOf, GreenOf, GoneOf, Ran, Box
  <2>8. ASSUME NEW u \in Workers \ {w}, worker[u].cur = e PROVE RunOK(u)'
    <3>1. worker[u].pc = "idle"
      BY <2>1, <2>8 DEF GreenInv, RunOK, Owns
    <3> QED
      BY <2>3, <3>1, IdleRunOK DEF GreenInv
  <2> QED
    BY <1>t, <2>2, <2>3, <2>6, <2>7, <2>8, Local
<1>2. CASE Settle(w) \/ Crash(w)
  <2>0. worker[w].pc # "idle"
    BY <1>2 DEF Settle, Crash, At
  <2> PICK e \in Executions : worker[w].cur = e
    BY <2>0, <1>t DEF HasExecution
  <2>1. worker'[w] = IdleWorker /\ \A u \in Workers \ {w} : worker'[u] = worker[u]
    BY <1>2, <1>t DEF Settle, Crash, Sets, TypeOK
  <2>2. RunOK(w)'
    BY <2>1 DEF IdleWorker, RunOK, Owns, BoxOfRun, RowsOfRun, CleanMeansRan, Ran, BeforeCreate,
                WithRows, AfterWait, Unfinished
  <2>3. /\ About(e) /\ UNCHANGED <<status, rows, req, box, faults>> /\ job'[e].runs = job[e].runs
    <3>1. CASE Settle(w)
      BY <1>t, <3>1 DEF Settle, About, TypeOK, Job
    <3>2. CASE Crash(w)
      BY <1>t, <3>2 DEF Crash, About, TypeOK, Job
    <3> QED
      BY <1>2, <3>1, <3>2
  <2>4. RecordOK(e)'
    BY <2>3 DEF GreenInv, RecordOK, BoxCovers, OneBatchOf, GreenOf, GoneOf, Ran
  <2> QED
    BY <1>t, <2>0, <2>1, <2>2, <2>3, <2>4, LocalToWorker
<1> QED
  BY <1>1, <1>2

\* A job whose lock expired has no worker any more, since locks are only lost in a crash.
LEMMA StallGreenInv ==
  ASSUME TypeInv, GreenInv, NEW e \in Executions, Stall(e)
  PROVE  GreenInv'
<1>t. TypeOK /\ HasExecution
  BY DEF TypeInv
<1>1. /\ About(e) /\ UNCHANGED <<status, rows, req, worker, box, faults>> /\ job'[e].runs = job[e].runs
      /\ job[e].owner = None
  BY <1>t DEF Stall, About, TypeOK, Job
<1>2. RecordOK(e)'
  BY <1>1 DEF GreenInv, RecordOK, BoxCovers, OneBatchOf, GreenOf, GoneOf, Ran
<1>3. ASSUME NEW u \in Workers, worker[u].cur = e PROVE RunOK(u)'
  <2>1. worker[u].pc = "idle"
    BY <1>1, <1>3, NoneAssumption DEF GreenInv, RunOK, Owns
  <2> QED
    BY <1>1, <2>1, IdleRunOK DEF GreenInv
<1> QED
  BY <1>t, <1>1, <1>2, <1>3, Local

\* The container, of whichever run it is.
LEMMA ContainerGreenInv ==
  ASSUME TypeInv, GreenInv, NEW e \in Executions, Container(e) \/ ExitDirty(e)
  PROVE  GreenInv'
<1>t. TypeOK /\ HasExecution /\ RecordOK(e) /\ rows[e] \in SUBSET Row
  BY DEF TypeInv, TypeOK, GreenInv
<1>1. ASSUME About(e), UNCHANGED <<status, job, worker, faults>>, box'[e].id = box[e].id, SameRows(e),
             RecordOK(e)'
      PROVE  GreenInv'
  <2>1. ASSUME NEW u \in Workers, worker[u].cur = e PROVE RunOK(u)'
    <3>1. RunOK(u)
      BY DEF GreenInv
    <3>2. Owns(u)' /\ BoxOfRun(u)'
      BY <1>1, <2>1, <3>1 DEF RunOK, Owns, BoxOfRun
    <3>3. RowsOfRun(u)'
      BY <1>1, <2>1, <3>1 DEF RunOK, RowsOfRun, SameRows
    <3>4. CleanMeansRan(u)'
      BY <1>1, <2>1, <3>1 DEF RunOK, CleanMeansRan, Ran, SameRows
    <3> QED
      BY <3>2, <3>3, <3>4 DEF RunOK
  <2> QED
    BY <1>t, <1>1, <2>1, Local
<1>2. ASSUME UNCHANGED rows, About(e), UNCHANGED <<status, job, worker, faults>>,
             box'[e].id = box[e].id, BoxCovers(e)'
      PROVE  GreenInv'
  <2>1. RecordOK(e)'
    BY <1>2, <1>t DEF RecordOK, OneBatchOf, GreenOf, GoneOf, Ran
  <2>2. SameRows(e)
    BY <1>2 DEF SameRows
  <2> QED
    BY <1>1, <1>2, <2>1, <2>2
<1>3. CASE Boot(e)
  <2>1. /\ About(e) /\ UNCHANGED <<status, rows, job, worker, faults>> /\ box'[e].id = box[e].id
        /\ box'[e].st = "running" /\ box'[e].todo = KeysOf(e)
    BY <1>t, <1>3 DEF Boot, About, TypeOK, Box
  <2>2. BoxCovers(e)'
    BY <1>t, <2>1 DEF RecordOK, BoxCovers, KeysOf
  <2> QED
    BY <1>2, <2>1, <2>2
<1>4. CASE ExitClean(e)
  <2>1. /\ About(e) /\ UNCHANGED <<status, rows, job, worker, faults>> /\ box'[e].id = box[e].id
        /\ box'[e].st = "clean" /\ box'[e].todo = box[e].todo
        /\ box[e].st = "running" /\ box[e].todo = {}
    BY <1>t, <1>4 DEF ExitClean, About, TypeOK, Box
  <2>2. BoxCovers(e)'
    BY <1>t, <2>1 DEF RecordOK, BoxCovers, Ran
  <2> QED
    BY <1>2, <2>1, <2>2
<1>5. CASE ExitDirty(e)
  <2>1. /\ About(e) /\ UNCHANGED <<status, rows, job, worker, faults>> /\ box'[e].id = box[e].id
        /\ box'[e].st = "dirty"
    BY <1>t, <1>5 DEF ExitDirty, About, TypeOK, Box
  <2>2. BoxCovers(e)'
    BY <1>t, <2>1 DEF RecordOK, BoxCovers, Ran
  <2> QED
    BY <1>2, <2>1, <2>2
<1>6. ASSUME NEW k \in box[e].todo, RunTest(e, k) PROVE GreenInv'
  <2>1. /\ About(e) /\ UNCHANGED <<status, job, worker, faults>> /\ box'[e].id = box[e].id
        /\ box'[e].st = box[e].st /\ box'[e].todo = box[e].todo \ {k} /\ box[e].st = "running"
    BY <1>t, <1>6 DEF RunTest, About, TypeOK, Box
  <2> DEFINE judged(s) == {IF KeyOf(r) = k THEN [r EXCEPT !.st = s, !.ran = TRUE] ELSE r :
                             r \in rows[e]}
             only == {IF KeyOf(r) = k THEN [r EXCEPT !.ran = TRUE] ELSE r : r \in rows[e]}
             Runs(q) == \E r \in rows[e] :
                          /\ q.test = r.test /\ q.batch = r.batch /\ (r.ran => q.ran)
                          /\ KeyOf(r) = k => Ran(q)
  <2>a. ASSUME NEW s PROVE (\A q \in judged(s) : Runs(q)) /\ (rows[e] # {} => judged(s) # {})
    <3>1. ASSUME NEW q \in judged(s) PROVE Runs(q)
      <4> PICK r \in rows[e] :
            q = IF KeyOf(r) = k THEN [r EXCEPT !.st = s, !.ran = TRUE] ELSE r
        OBVIOUS
      <4>1. r \in Row
        BY <1>t
      <4>2. q.test = r.test /\ q.batch = r.batch /\ (r.ran => q.ran) /\ (KeyOf(r) = k => q.ran)
        BY <4>1 DEF Row
      <4> QED
        BY <4>2 DEF Ran
    <3> QED
      BY <3>1
  <2>b. (\A q \in only : Runs(q)) /\ (rows[e] # {} => only # {})
    <3>1. ASSUME NEW q \in only PROVE Runs(q)
      <4> PICK r \in rows[e] : q = IF KeyOf(r) = k THEN [r EXCEPT !.ran = TRUE] ELSE r
        OBVIOUS
      <4>1. r \in Row
        BY <1>t
      <4>2. q.test = r.test /\ q.batch = r.batch /\ (r.ran => q.ran) /\ (KeyOf(r) = k => q.ran)
        BY <4>1 DEF Row
      <4> QED
        BY <4>2 DEF Ran
    <3> QED
      BY <3>1
  <2>c. \/ (\E s : rows' = [rows EXCEPT ![e] = judged(s)]) \/ rows' = [rows EXCEPT ![e] = only]
        \/ "announce" \in faults /\ UNCHANGED rows
    BY <1>6 DEF RunTest
  <2>d. "announce" \in faults => \A q \in rows[e] : Runs(q)
    BY DEF Ran
  <2> HIDE DEF judged, only, Runs
  <2>e. (\E s : rows'[e] = judged(s)) \/ rows'[e] = only \/ ("announce" \in faults /\ UNCHANGED rows)
    BY <1>t, <2>c DEF TypeOK
  <2>2. \A q \in rows'[e] : Runs(q)
    BY <2>a, <2>b, <2>d, <2>e
  <2>3. rows[e] # {} => rows'[e] # {}
    BY <2>a, <2>b, <2>e
  <2> USE DEF Runs
  <2>4. SameRows(e)
    BY <2>2, <2>3 DEF SameRows
  <2>5. BoxCovers(e)'
    <3>1. ASSUME NEW q \in rows'[e], q.batch = box[e].id
          PROVE  Ran(q) \/ KeyOf(q) \in box[e].todo \ {k}
      <4> PICK r \in rows[e] : /\ q.test = r.test /\ q.batch = r.batch /\ (r.ran => q.ran)
                               /\ KeyOf(r) = k => Ran(q)
        BY <2>2
      <4>1. Ran(r) \/ KeyOf(r) \in box[e].todo
        BY <1>t, <2>1, <3>1 DEF RecordOK, BoxCovers
      <4>2. KeyOf(q) = KeyOf(r)
        BY DEF KeyOf
      <4> QED
        BY <4>1, <4>2 DEF Ran
    <3> QED
      BY <1>t, <2>1, <3>1 DEF RecordOK, BoxCovers, About, Ran
  <2>6. RecordOK(e)'
    BY <1>t, <2>1, <2>4, <2>5 DEF RecordOK, SameRows, OneBatchOf, GreenOf, GoneOf, Ran
  <2> QED
    BY <1>1, <2>1, <2>4, <2>6
<1> QED
  BY <1>3, <1>4, <1>5, <1>6 DEF Container

\* No step changes the faults of the behaviour.
LEMMA FaultsAreFixed == [Next]_vars => UNCHANGED faults
BY DEF vars, Next, Trigger, ReadForCancel, Api, Enqueue, MarkCancelled, DeleteRow, RemoveJob,
       Notify, Process, Connect, Provision, MarkRunning, Collect, Finish, Transition, GetTests,
       WipeRows, InsertRows, RemoveOld, CreateBox, StartBox, SaveContainer, Subscribe,
       WaitExit, WaitFails, WaitTimeout, WaitNotice, WaitPoll, PollFails, StopAborted,
       CancelRows, ReadRows, SaveRows, FailExecution, CloseRows, QueryFails, Finally, Settle,
       Crash, TakeJob, LoseLock, Stall, Container, Boot, RunTest, ExitClean, ExitDirty

LEMMA NextGreenInv ==
  ASSUME "lock" \notin faults
  PROVE  TypeInv /\ GreenInv /\ [Next]_vars => GreenInv'
<1> SUFFICES ASSUME TypeInv, GreenInv, [Next]_vars PROVE GreenInv'
  OBVIOUS
<1>1. CASE UNCHANGED vars
  BY <1>1 DEF vars, GreenInv, RunOK, Owns, BoxOfRun, RowsOfRun, CleanMeansRan, Ran, RecordOK,
              BoxCovers, OneBatchOf, GreenOf, GoneOf
<1>2. ASSUME NEW e \in Executions, Trigger(e) \/ ReadForCancel(e) \/ Api(e) PROVE GreenInv'
  BY <1>2, ApiGreenInv
<1>3. ASSUME NEW w \in Workers, Process(w) \/ Subscribe(w) \/ WaitTimeout(w) PROVE GreenInv'
  BY <1>3, PrepareGreenInv, WaitGreenInv, EndGreenInv, QueueGreenInv DEF Process
<1>4. ASSUME NEW w \in Workers, WaitFails(w) \/ PollFails(w) \/ QueryFails(w) \/ Crash(w)
      PROVE  GreenInv'
  BY <1>4, WaitGreenInv, EndGreenInv, QueueGreenInv
<1>5. ASSUME NEW w \in Workers, NEW e \in Executions, TakeJob(w, e) PROVE GreenInv'
  BY <1>5, QueueGreenInv
<1>6. ASSUME NEW e \in Executions, Container(e) \/ ExitDirty(e) \/ LoseLock(e) \/ Stall(e)
      PROVE  GreenInv'
  BY <1>6, ContainerGreenInv, StallGreenInv DEF LoseLock
<1> QED
  BY <1>1, <1>2, <1>3, <1>4, <1>5, <1>6 DEF Next

LEMMA AlwaysGreenInv == Spec => [](Without({"lock"}) => GreenInv)
<1>1. Init => TypeInv /\ (Without({"lock"}) => GreenInv)
  BY InitTypeInv, InitGreenInv
<1>2. /\ TypeInv /\ (Without({"lock"}) => GreenInv)
      /\ [Next]_vars
      => (TypeInv /\ (Without({"lock"}) => GreenInv))'
  <2> SUFFICES ASSUME TypeInv, Without({"lock"}) => GreenInv, [Next]_vars, Without({"lock"})'
               PROVE  GreenInv'
    BY NextTypeInv
  <2>1. UNCHANGED faults
    BY FaultsAreFixed
  <2>2. Without({"lock"}) /\ "lock" \notin faults
    BY <2>1 DEF Without
  <2> QED
    BY <2>2, NextGreenInv
<1> QED
  BY <1>1, <1>2, PTL DEF Spec

\* Rule P5, for any number of executions, tests and workers and any faults but a lost lock
\* and an executor that cannot announce a test (it then leaves the test out):
\* COMPLETED is only written on an execution all of whose results ran, and there are some.
THEOREM GreenMeansRun == Spec => []NoGreenWithoutRun
<1>1. (Without({"lock"}) => GreenInv) => NoGreenWithoutRun
  <2> SUFFICES ASSUME Without({"lock"}) => GreenInv, Without({"lock", "announce"})
               PROVE  \A e \in Executions :
                        status[e] = "COMPLETED" => rows[e] # {} /\ \A r \in rows[e] : r.ran
    BY DEF NoGreenWithoutRun
  <2>1. Without({"lock"}) /\ "announce" \notin faults
    BY DEF Without
  <2> QED
    BY <2>1 DEF GreenInv, RecordOK, GreenOf, Ran
<1> QED
  BY <1>1, AlwaysGreenInv, PTL

\* Unless a lock is lost, a retry replaces the results of the attempt before it.
THEOREM ResultsOfOneBatch == Spec => []OneBatch
<1>1. (Without({"lock"}) => GreenInv) => OneBatch
  BY DEF GreenInv, RecordOK, OneBatchOf, OneBatch
<1> QED
  BY <1>1, AlwaysGreenInv, PTL

(***************************************************************************)
(* A verdict stays                                                         *)
(***************************************************************************)

\* Between the insertion of the results and the start of the container that runs them.
Awaiting == {"removeOld", "create", "start"}

Unrun(e)        == \A r \in rows[e] : ~r.ran
OneRowPerKey(e) == \A r, q \in rows[e] : KeyOf(r) = KeyOf(q) => r = q

\* No test runs twice: a container that is about to ask for its rows finds none that ran, and
\* what it has still to do did not run. There is a container that runs only while a worker
\* holds it (KeptInv), so none runs while the next run's rows wait for theirs.
UnrunOf(e) ==
  /\ OneRowPerKey(e)
  /\ box[e].st = "booting" => Unrun(e)
  /\ box[e].st = "running" => \A r \in rows[e] : KeyOf(r) \in box[e].todo => ~r.ran

UnrunInv ==
  /\ \A e \in Executions : UnrunOf(e)
  /\ \A w \in Workers : worker[w].pc \in Awaiting => Unrun(worker[w].cur)

\* Results that are left alone, closed or deleted: their tests ran as they did before.
RowsAsRun(e) == rows'[e] = rows[e] \/ rows'[e] = {} \/ \E s : rows'[e] = Closed(e, s)

LEMMA RowsAsRunEffect ==
  ASSUME NEW e \in Executions, rows[e] \in SUBSET Row, OneRowPerKey(e), RowsAsRun(e)
  PROVE  /\ OneRowPerKey(e)'
         /\ \A q \in rows'[e] : \E r \in rows[e] : KeyOf(q) = KeyOf(r) /\ q.ran = r.ran
<1>1. CASE rows'[e] = rows[e] \/ rows'[e] = {}
  BY <1>1 DEF OneRowPerKey
<1>2. ASSUME NEW s, rows'[e] = Closed(e, s)
      PROVE  /\ OneRowPerKey(e)'
             /\ \A q \in rows'[e] : \E r \in rows[e] : KeyOf(q) = KeyOf(r) /\ q.ran = r.ran
  <2> DEFINE c(r) == IF r.st = "RUNNING" THEN [r EXCEPT !.st = s] ELSE r
  <2>1. \A r \in rows[e] : KeyOf(c(r)) = KeyOf(r) /\ c(r).ran = r.ran
    BY DEF Row, KeyOf
  <2>2. rows'[e] = {c(r) : r \in rows[e]}
    BY <1>2 DEF Closed
  <2> HIDE DEF c
  <2> QED
    BY <2>1, <2>2 DEF OneRowPerKey
<1> QED
  BY <1>1, <1>2 DEF RowsAsRun

\* A step that runs no test, starts no container and inserts no results.
LEMMA NothingRuns ==
  ASSUME TypeInv, UnrunInv,
         \A e \in Executions : RowsAsRun(e),
         \A e \in Executions : box'[e] = box[e] \/ box'[e].st \notin {"booting", "running"},
         \A w \in Workers : worker'[w].pc \in Awaiting =>
           worker[w].pc \in Awaiting /\ worker'[w].cur = worker[w].cur
  PROVE  UnrunInv'
<1>1. \A e \in Executions :
        /\ OneRowPerKey(e)'
        /\ \A q \in rows'[e] : \E r \in rows[e] : KeyOf(q) = KeyOf(r) /\ q.ran = r.ran
  BY RowsAsRunEffect DEF UnrunInv, UnrunOf, TypeInv, TypeOK
<1>2. \A e \in Executions : Unrun(e) => Unrun(e)'
  BY <1>1 DEF Unrun
<1>3. ASSUME NEW e \in Executions PROVE UnrunOf(e)'
  <2>1. UnrunOf(e)
    BY DEF UnrunInv
  <2>2. CASE box'[e] = box[e]
    BY <1>1, <1>2, <2>1, <2>2 DEF UnrunOf
  <2>3. CASE box'[e].st \notin {"booting", "running"}
    BY <1>1, <2>3 DEF UnrunOf
  <2> QED
    BY <2>2, <2>3
<1>4. ASSUME NEW w \in Workers, worker'[w].pc \in Awaiting PROVE Unrun(worker[w].cur)'
  BY <1>2, <1>4 DEF UnrunInv, HasExecution, TypeInv, Awaiting
<1> QED
  BY <1>3, <1>4 DEF UnrunInv

\* A step of worker w that ends up at none of the places between insertion and start, or
\* goes on from one to the next.
LEMMA WorkerRunsNothing ==
  ASSUME TypeInv, UnrunInv, NEW w \in Workers, OnlyWorker(w),
         \A e \in Executions : RowsAsRun(e),
         \A e \in Executions : box'[e] = box[e] \/ box'[e].st \notin {"booting", "running"},
         worker'[w].pc \in Awaiting =>
           worker[w].pc \in Awaiting /\ worker'[w].cur = worker[w].cur
  PROVE  UnrunInv'
BY NothingRuns DEF OnlyWorker

\* Neither the API nor the queue does any of that.
LEMMA ApiUnrun ==
  ASSUME TypeInv, UnrunInv, NEW e \in Executions,
         Trigger(e) \/ ReadForCancel(e) \/ Api(e) \/ LoseLock(e) \/ Stall(e)
  PROVE  UnrunInv'
<1>1. \A f \in Executions : RowsAsRun(f)
  BY DEF Trigger, ReadForCancel, Api, LoseLock, Stall, Enqueue, MarkCancelled, DeleteRow, RemoveJob,
         Notify, RowsAsRun, TypeInv, TypeOK
<1>2. UNCHANGED box
  BY DEF Trigger, ReadForCancel, Api, LoseLock, Stall, Enqueue, MarkCancelled, DeleteRow, RemoveJob,
         Notify
<1>3. \A u \in Workers : worker'[u].pc = worker[u].pc /\ worker'[u].cur = worker[u].cur
  <2>1. CASE UNCHANGED worker
    BY <2>1
  <2>2. CASE Notify(e)
    BY <2>2 DEF Notify, TypeInv, TypeOK, WorkerState
  <2> QED
    BY <2>1, <2>2 DEF Trigger, ReadForCancel, Api, LoseLock, Stall, Enqueue, MarkCancelled, DeleteRow,
                      RemoveJob
<1> QED
  BY <1>1, <1>2, <1>3, NothingRuns

\* The results inserted did not run; there are none before them.
LEMMA InsertUnrun ==
  ASSUME TypeInv, GreenInv, UnrunInv, NEW w \in Workers, InsertRows(w)
  PROVE  UnrunInv'
<1> PICK e \in Executions : e = worker[w].cur
  BY DEF InsertRows, At, TypeInv, HasExecution
<1> DEFINE row(t) == [test |-> t, batch |-> worker[w].run, st |-> "RUNNING", ran |-> FALSE]
           new == {row(t) : t \in worker[w].chosen}
<1>0. worker[w].pc = "insert" /\ TypeOK /\ UNCHANGED box /\ rows[e] = {}
  BY DEF InsertRows, At, TypeInv, HasExecution, GreenInv, RunOK, RowsOfRun
<1>1. CASE Raise(w) /\ UNCHANGED rows
  <2>1. OnlyWorker(w) /\ worker'[w].pc \in {"fail", "finally"}
    BY <1>0, <1>1, RaiseEffect DEF OnlyWorker
  <2> QED
    BY <1>0, <1>1, <2>1, WorkerRunsNothing DEF RowsAsRun, Awaiting
<1>2. CASE rows' = [rows EXCEPT ![e] = rows[e] \cup new] /\ Goto(w, "removeOld")
  <2>1. rows'[e] = new /\ \A f \in Executions \ {e} : rows'[f] = rows[f]
    BY <1>0, <1>2 DEF TypeOK
  <2>2. Unrun(e)' /\ OneRowPerKey(e)'
    <3>1. \A t : ~row(t).ran /\ row(t).test = t
      OBVIOUS
    <3> HIDE DEF row
    <3> QED
      BY <2>1, <3>1 DEF Unrun, OneRowPerKey, KeyOf
  <2>3. \A f \in Executions : UnrunOf(f)'
    BY <1>0, <2>1, <2>2 DEF UnrunInv, UnrunOf, Unrun, OneRowPerKey
  <2>4. worker'[w].cur = e /\ \A u \in Workers \ {w} : worker'[u] = worker[u]
    BY <1>0, <1>2, GotoEffect DEF Keeps
  <2>5. ASSUME NEW u \in Workers, worker'[u].pc \in Awaiting PROVE Unrun(worker[u].cur)'
    <3>1. CASE worker'[u].cur = e
      BY <2>2, <3>1 DEF Unrun
    <3>2. CASE worker'[u].cur # e
      <4>1. worker'[u] = worker[u] /\ worker[u].cur \in Executions
        BY <2>4, <2>5, <3>2 DEF HasExecution, TypeInv, Awaiting
      <4> QED
        BY <2>1, <2>5, <3>2, <4>1 DEF UnrunInv, Unrun
    <3> QED
      BY <3>1, <3>2
  <2> QED
    BY <2>3, <2>5 DEF UnrunInv
<1> QED
  BY <1>1, <1>2 DEF InsertRows

\* Up to the container.
LEMMA PrepareUnrun ==
  ASSUME TypeInv, GreenInv, UnrunInv, NEW w \in Workers,
         \/ Connect(w) \/ Provision(w) \/ GetTests(w) \/ WipeRows(w) \/ InsertRows(w)
         \/ RemoveOld(w) \/ CreateBox(w)
  PROVE  UnrunInv'
<1> DEFINE e == worker[w].cur
<1>0. TypeOK /\ e \in Executions
  BY DEF Connect, Provision, GetTests, WipeRows, InsertRows, RemoveOld, CreateBox, At, TypeInv,
         HasExecution
<1>1. CASE Connect(w) \/ Provision(w) \/ GetTests(w) \/ WipeRows(w)
  <2>1. OnlyWorker(w) /\ UNCHANGED box
    BY <1>0, <1>1 DEF Connect, Provision, GetTests, WipeRows, Transition, Goto, Raise, Sets,
                      OnlyWorker, TypeOK
  <2>2. \A f \in Executions : RowsAsRun(f)
    BY <1>0, <1>1 DEF Connect, Provision, GetTests, WipeRows, Transition, RowsAsRun, TypeOK
  <2>3. worker'[w].pc \notin Awaiting
    <3>1. CASE Connect(w)
      <4>1. CASE Goto(w, "provisioning")
        BY <1>0, <4>1, GotoEffect DEF Awaiting
      <4>2. CASE Sets(w, [worker[w] EXCEPT !.pc = "settle", !.mode = "rejected"])
        BY <1>0, <4>2 DEF Sets, TypeOK, WorkerState, Awaiting
      <4> QED
        BY <3>1, <4>1, <4>2 DEF Connect
    <3>2. CASE Provision(w)
      BY <1>0, <3>2, GotoEffect, RaiseEffect DEF Provision, Transition, Awaiting
    <3>3. CASE GetTests(w)
      <4>1. PICK s \in SUBSET Tests, l \in {"fail", "wipe"} :
              Sets(w, [worker[w] EXCEPT !.chosen = s, !.pc = l])
        BY <3>3 DEF GetTests
      <4> QED
        BY <1>0, <4>1 DEF Sets, TypeOK, WorkerState, Awaiting
    <3>4. CASE WipeRows(w)
      BY <1>0, <3>4, GotoEffect DEF WipeRows, Awaiting
    <3> QED
      BY <1>1, <3>1, <3>2, <3>3, <3>4
  <2> QED
    BY <2>1, <2>2, <2>3, WorkerRunsNothing
<1>2. CASE InsertRows(w)
  BY <1>2, InsertUnrun
<1>3. CASE RemoveOld(w) \/ CreateBox(w)
  <2>1. worker[w].pc \in Awaiting /\ UNCHANGED rows
    BY <1>3 DEF RemoveOld, CreateBox, At, Awaiting
  <2>2. OnlyWorker(w) /\ worker'[w].cur = e
    BY <1>0, <1>3, GotoEffect, RaiseEffect DEF RemoveOld, CreateBox, OnlyWorker, Keeps
  <2>3. \A f \in Executions : box'[f] = box[f] \/ box'[f].st \notin {"booting", "running"}
    BY <1>0, <1>3 DEF RemoveOld, CreateBox, TypeOK, NoBox
  <2> QED
    BY <2>1, <2>2, <2>3, WorkerRunsNothing DEF RowsAsRun
<1> QED
  BY <1>1, <1>2, <1>3

\* The container that is started finds results that did not run.
LEMMA StartUnrun ==
  ASSUME TypeInv, UnrunInv, NEW w \in Workers, StartBox(w)
  PROVE  UnrunInv'
<1> PICK e \in Executions : e = worker[w].cur
  BY DEF StartBox, At, TypeInv, HasExecution
<1>0. worker[w].pc = "start" /\ TypeOK /\ worker[w] \in WorkerState /\ UNCHANGED rows
  BY DEF StartBox, At, TypeInv, TypeOK
<1>1. CASE Raise(w) /\ UNCHANGED box
  <2>1. OnlyWorker(w) /\ worker'[w].pc \in {"fail", "finally"}
    BY <1>0, <1>1, RaiseEffect DEF OnlyWorker
  <2> QED
    BY <1>0, <1>1, <2>1, WorkerRunsNothing DEF RowsAsRun, Awaiting
<1>2. CASE /\ box' = [box EXCEPT ![e].st = "booting"]
           /\ Sets(w, [worker[w] EXCEPT !.held = worker[w].run, !.pc = "saveContainer"])
  <2>1. Unrun(e)
    BY <1>0 DEF UnrunInv, Awaiting
  <2>2. \A f \in Executions \ {e} : box'[f] = box[f]
    BY <1>0, <1>2 DEF TypeOK
  <2>3. box'[e].st = "booting"
    BY <1>0, <1>2 DEF TypeOK, Box
  <2>4. \A f \in Executions : UnrunOf(f)'
    BY <1>0, <2>1, <2>2, <2>3 DEF UnrunInv, UnrunOf, Unrun, OneRowPerKey
  <2>5. worker'[w].pc = "saveContainer" /\ \A u \in Workers \ {w} : worker'[u] = worker[u]
    BY <1>0, <1>2 DEF Sets, TypeOK, WorkerState
  <2> QED
    BY <1>0, <2>4, <2>5 DEF UnrunInv, Unrun, Awaiting
<1> QED
  BY <1>1, <1>2 DEF StartBox

\* From the start of the container to the end of process().
LEMMA EndUnrun ==
  ASSUME TypeInv, UnrunInv, NEW w \in Workers,
         \/ SaveContainer(w) \/ MarkRunning(w) \/ Subscribe(w)
         \/ WaitExit(w) \/ WaitNotice(w) \/ WaitPoll(w)
         \/ WaitTimeout(w) \/ WaitFails(w) \/ PollFails(w)
         \/ CancelRows(w) \/ Collect(w) \/ ReadRows(w) \/ SaveRows(w)
         \/ Finish(w) \/ FailExecution(w) \/ CloseRows(w)
  PROVE  UnrunInv'
<1>1. TypeOK /\ UNCHANGED box
  BY DEF SaveContainer, MarkRunning, Subscribe, WaitExit, WaitNotice, WaitPoll, WaitTimeout,
         WaitFails, PollFails, CancelRows, Collect, ReadRows, SaveRows, Finish, FailExecution,
         CloseRows, Transition, TypeInv
<1>2. GoesOnHolding(w)
  BY HoldingGoesOn
<1>3. \A f \in Executions : RowsAsRun(f)
  BY <1>1 DEF SaveContainer, MarkRunning, Subscribe, WaitExit, WaitNotice, WaitPoll, WaitTimeout,
         WaitFails, PollFails, CancelRows, Collect, ReadRows, SaveRows, Finish, FailExecution,
         CloseRows, Transition, RowsAsRun, TypeOK
<1> QED
  BY <1>1, <1>2, <1>3, WorkerRunsNothing DEF GoesOnHolding, Holding, Awaiting

\* The other steps of a worker: the ones that stop a container, and the ones that leave.
LEMMA LeaveUnrun ==
  ASSUME TypeInv, UnrunInv, NEW w \in Workers,
         \/ StopAborted(w) \/ Finally(w) \/ Settle(w) \/ Crash(w) \/ QueryFails(w)
         \/ \E e \in Executions : TakeJob(w, e)
  PROVE  UnrunInv'
<1>0. TypeOK /\ UNCHANGED rows /\ worker[w] \in WorkerState
  BY DEF StopAborted, Finally, Settle, Crash, QueryFails, TakeJob, TypeInv, TypeOK
<1>1. CASE StopAborted(w) \/ Finally(w)
  <2>1. \A f \in Executions : box'[f] = box[f] \/ box'[f].st \notin {"booting", "running"}
    BY <1>0, <1>1 DEF StopAborted, Finally, StopAndRemove, NoBox, TypeOK, Box
  <2>2. OnlyWorker(w) /\ worker'[w].pc \notin Awaiting
    <3>1. PICK l \in {"cancelRows", "collecting", "settle"} :
            Sets(w, [worker[w] EXCEPT !.held = 0, !.pc = l])
      BY <1>1 DEF StopAborted, Finally
    <3> QED
      BY <1>0, <3>1 DEF Sets, OnlyWorker, Awaiting, TypeOK, WorkerState
  <2> QED
    BY <1>0, <2>1, <2>2, WorkerRunsNothing DEF RowsAsRun
<1>2. CASE QueryFails(w)
  <2>1. OnlyWorker(w) /\ worker'[w].pc \in {"fail", "finally"} /\ UNCHANGED box
    BY <1>0, <1>2, RaiseEffect DEF QueryFails, OnlyWorker
  <2> QED
    BY <1>0, <2>1, WorkerRunsNothing DEF RowsAsRun, Awaiting
<1>3. CASE Settle(w) \/ Crash(w) \/ \E e \in Executions : TakeJob(w, e)
  <2>1. OnlyWorker(w) /\ worker'[w].pc \notin Awaiting /\ UNCHANGED box
    <3>1. CASE Settle(w) \/ Crash(w)
      <4>1. Sets(w, IdleWorker) /\ UNCHANGED box
        BY <3>1 DEF Settle, Crash
      <4> QED
        BY <1>0, <4>1 DEF Sets, IdleWorker, OnlyWorker, Awaiting, TypeOK
    <3>2. ASSUME NEW e \in Executions, TakeJob(w, e)
          PROVE  OnlyWorker(w) /\ worker'[w].pc \notin Awaiting /\ UNCHANGED box
      <4> DEFINE taken == [IdleWorker EXCEPT !.pc = "connect", !.cur = e, !.run = job[e].runs + 1]
      <4>1. Sets(w, taken) /\ UNCHANGED box
        BY <3>2 DEF TakeJob
      <4>2. taken.pc = "connect"
        BY DEF IdleWorker
      <4> HIDE DEF taken
      <4> QED
        BY <1>0, <4>1, <4>2 DEF Sets, OnlyWorker, Awaiting, TypeOK
    <3> QED
      BY <1>3, <3>1, <3>2
  <2> QED
    BY <1>0, <2>1, WorkerRunsNothing DEF RowsAsRun
<1> QED
  BY <1>1, <1>2, <1>3

\* While a container runs, its worker holds it, and as locks hold that is the only one.
LEMMA NobodyAwaits ==
  ASSUME TypeInv, GreenInv, KeptInv, Without({"remove", "crash"}),
         NEW e \in Executions, box[e].st \notin {"absent", "created"},
         NEW w \in Workers, worker[w].cur = e
  PROVE  worker[w].pc \notin Awaiting
<1>1. PICK u \in Workers : Keeper(u, e)
  BY DEF KeptInv, Standing
<1>2. worker[u].cur = e /\ worker[u].pc \in Holding
  BY <1>1 DEF Keeper
<1>3. u # w => worker[w].pc = "idle"
  BY <1>2, Alone DEF Holding
<1> QED
  BY <1>2, <1>3 DEF Holding, Awaiting

\* What a test that ran leaves behind.
RanRow(r, k, q) ==
  \/ q = r
  \/ KeyOf(r) = k /\ KeyOf(q) = k

LEMMA RunTestEffect ==
  ASSUME TypeInv, NEW e \in Executions, NEW k \in box[e].todo, RunTest(e, k), OneRowPerKey(e)
  PROVE  /\ \A q \in rows'[e] : \E r \in rows[e] : RanRow(r, k, q)
         /\ OneRowPerKey(e)'
         /\ \A f \in Executions \ {e} : rows'[f] = rows[f] /\ box'[f] = box[f]
         /\ box'[e].st = "running" /\ box'[e].todo = box[e].todo \ {k} /\ box[e].st = "running"
<1>0. TypeOK /\ rows[e] \in SUBSET Row /\ box[e] \in Box
  BY DEF TypeInv, TypeOK
<1>1. /\ \A f \in Executions \ {e} : rows'[f] = rows[f] /\ box'[f] = box[f]
      /\ box'[e].st = "running" /\ box'[e].todo = box[e].todo \ {k} /\ box[e].st = "running"
  BY <1>0 DEF RunTest, TypeOK, Box
<1> DEFINE judged(r, s) == IF KeyOf(r) = k THEN [r EXCEPT !.st = s, !.ran = TRUE] ELSE r
           only(r) == IF KeyOf(r) = k THEN [r EXCEPT !.ran = TRUE] ELSE r
<1>2. \A r \in rows[e] : /\ RanRow(r, k, only(r)) /\ KeyOf(only(r)) = KeyOf(r)
                         /\ \A s : RanRow(r, k, judged(r, s)) /\ KeyOf(judged(r, s)) = KeyOf(r)
  BY <1>0 DEF Row, RanRow, KeyOf
<1>3. \/ \E s : rows'[e] = {judged(r, s) : r \in rows[e]}
      \/ rows'[e] = {only(r) : r \in rows[e]}
      \/ rows'[e] = rows[e]
  <2>1. \/ \E s : rows' = [rows EXCEPT ![e] = {judged(r, s) : r \in rows[e]}]
        \/ rows' = [rows EXCEPT ![e] = {only(r) : r \in rows[e]}]
        \/ UNCHANGED rows
    BY DEF RunTest
  <2> HIDE DEF judged, only
  <2> QED
    BY <1>0, <2>1 DEF TypeOK
<1> HIDE DEF judged, only
<1>4. CASE \E s : rows'[e] = {judged(r, s) : r \in rows[e]}
  BY <1>1, <1>2, <1>4 DEF OneRowPerKey
<1>5. CASE rows'[e] = {only(r) : r \in rows[e]}
  BY <1>1, <1>2, <1>5 DEF OneRowPerKey
<1>6. CASE rows'[e] = rows[e]
  BY <1>1, <1>6 DEF OneRowPerKey, RanRow
<1> QED
  BY <1>3, <1>4, <1>5, <1>6

LEMMA ContainerUnrun ==
  ASSUME TypeInv, GreenInv, KeptInv, UnrunInv, Without({"remove", "crash"}),
         NEW e \in Executions, Container(e) \/ ExitDirty(e)
  PROVE  UnrunInv'
<1>t. TypeOK /\ UnrunOf(e) /\ box[e] \in Box
  BY DEF TypeInv, TypeOK, UnrunInv
<1>1. CASE ExitClean(e) \/ ExitDirty(e)
  <2>1. \A f \in Executions : box'[f] = box[f] \/ box'[f].st \notin {"booting", "running"}
    BY <1>t, <1>1 DEF ExitClean, ExitDirty, TypeOK, Box
  <2> QED
    BY <1>1, <2>1, NothingRuns DEF ExitClean, ExitDirty, RowsAsRun
<1>2. CASE Boot(e)
  <2>1. /\ UNCHANGED <<rows, worker>> /\ Unrun(e) /\ box'[e].st = "running"
        /\ \A f \in Executions \ {e} : box'[f] = box[f]
    BY <1>t, <1>2 DEF Boot, UnrunOf, TypeOK, Box
  <2>2. \A f \in Executions : UnrunOf(f)'
    BY <2>1 DEF UnrunInv, UnrunOf, Unrun, OneRowPerKey
  <2> QED
    BY <2>1, <2>2 DEF UnrunInv, Unrun
<1>3. ASSUME NEW k \in box[e].todo, RunTest(e, k) PROVE UnrunInv'
  <2>1. /\ \A q \in rows'[e] : \E r \in rows[e] : RanRow(r, k, q)
        /\ OneRowPerKey(e)'
        /\ \A f \in Executions \ {e} : rows'[f] = rows[f] /\ box'[f] = box[f]
        /\ box'[e].st = "running" /\ box'[e].todo = box[e].todo \ {k} /\ box[e].st = "running"
    BY <1>t, <1>3, RunTestEffect DEF UnrunOf
  <2>2. \A r \in rows[e] : KeyOf(r) \in box[e].todo => ~r.ran
    BY <1>t, <2>1 DEF UnrunOf
  <2>3. \A q \in rows'[e] : KeyOf(q) \in box'[e].todo => ~q.ran
    BY <2>1, <2>2 DEF RanRow
  <2>4. \A f \in Executions : UnrunOf(f)'
    BY <2>1, <2>3 DEF UnrunInv, UnrunOf, Unrun, OneRowPerKey
  <2>5. UNCHANGED worker
    BY <1>3 DEF RunTest
  <2>6. ASSUME NEW u \in Workers, worker[u].pc \in Awaiting PROVE Unrun(worker[u].cur)'
    <3>1. worker[u].cur \in Executions \ {e}
      BY <2>1, <2>6, NobodyAwaits DEF HasExecution, TypeInv, Awaiting
    <3> QED
      BY <2>1, <2>5, <2>6, <3>1 DEF UnrunInv, Unrun
  <2> QED
    BY <2>4, <2>5, <2>6 DEF UnrunInv
<1> QED
  BY <1>1, <1>2, <1>3 DEF Container

LEMMA NextUnrun ==
  ASSUME Without({"remove", "crash"})
  PROVE  TypeInv /\ GreenInv /\ KeptInv /\ UnrunInv /\ [Next]_vars => UnrunInv'
<1> SUFFICES ASSUME TypeInv, GreenInv, KeptInv, UnrunInv, [Next]_vars PROVE UnrunInv'
  OBVIOUS
<1>1. CASE UNCHANGED vars
  BY <1>1, NothingRuns DEF vars, RowsAsRun
<1>2. ASSUME NEW e \in Executions,
             Trigger(e) \/ ReadForCancel(e) \/ Api(e) \/ LoseLock(e) \/ Stall(e)
      PROVE  UnrunInv'
  BY <1>2, ApiUnrun
<1>3. ASSUME NEW w \in Workers, Process(w) \/ Subscribe(w) \/ WaitTimeout(w) PROVE UnrunInv'
  BY <1>3, PrepareUnrun, StartUnrun, EndUnrun, LeaveUnrun DEF Process
<1>4. ASSUME NEW w \in Workers, WaitFails(w) \/ PollFails(w) \/ QueryFails(w) \/ Crash(w)
      PROVE  UnrunInv'
  BY <1>4, EndUnrun, LeaveUnrun
<1>5. ASSUME NEW w \in Workers, NEW e \in Executions, TakeJob(w, e) PROVE UnrunInv'
  BY <1>5, LeaveUnrun
<1>6. ASSUME NEW e \in Executions, Container(e) \/ ExitDirty(e) PROVE UnrunInv'
  BY <1>6, ContainerUnrun
<1> QED
  BY <1>1, <1>2, <1>3, <1>4, <1>5, <1>6 DEF Next

\* A step writes over no verdict.
Judged(r) == r.ran /\ r.st # "RUNNING"
KeepsVerdicts(e) ==
  \A r \in rows[e] : \A q \in rows'[e] : KeyOf(q) = KeyOf(r) /\ Judged(r) => q.st = r.st

LEMMA ClosingKeepsVerdicts ==
  ASSUME NEW e \in Executions, rows[e] \in SUBSET Row, OneRowPerKey(e), RowsAsRun(e)
  PROVE  KeepsVerdicts(e)
<1>1. CASE rows'[e] = rows[e] \/ rows'[e] = {}
  BY <1>1 DEF OneRowPerKey, KeepsVerdicts
<1>2. ASSUME NEW s, rows'[e] = Closed(e, s) PROVE KeepsVerdicts(e)
  <2> SUFFICES ASSUME NEW r \in rows[e], NEW p \in rows[e], NEW q,
                      q = IF p.st = "RUNNING" THEN [p EXCEPT !.st = s] ELSE p,
                      KeyOf(q) = KeyOf(r), Judged(r)
               PROVE  q.st = r.st
    BY <1>2 DEF Closed, KeepsVerdicts
  <2>1. KeyOf(q) = KeyOf(p)
    BY DEF Row, KeyOf
  <2> QED
    BY <2>1 DEF OneRowPerKey, Judged
<1> QED
  BY <1>1, <1>2 DEF RowsAsRun

LEMMA NextKeepsVerdicts ==
  TypeInv /\ GreenInv /\ UnrunInv /\ [Next]_vars => \A e \in Executions : KeepsVerdicts(e)
<1> SUFFICES ASSUME TypeInv, GreenInv, UnrunInv, [Next]_vars, NEW d \in Executions
             PROVE  KeepsVerdicts(d)
  OBVIOUS
<1>0. rows[d] \in SUBSET Row /\ OneRowPerKey(d) /\ TypeOK
  BY DEF TypeInv, TypeOK, UnrunInv, UnrunOf
<1>1. CASE RowsAsRun(d)
  BY <1>0, <1>1, ClosingKeepsVerdicts
<1>2. ASSUME NEW w \in Workers, InsertRows(w) PROVE KeepsVerdicts(d)
  <2>1. rows[d] = {} \/ rows'[d] = rows[d]
    BY <1>0, <1>2 DEF InsertRows, At, GreenInv, RunOK, RowsOfRun, TypeOK
  <2> QED
    BY <1>1, <2>1 DEF KeepsVerdicts, RowsAsRun
<1>3. ASSUME NEW e \in Executions, NEW k \in box[e].todo, RunTest(e, k) PROVE KeepsVerdicts(d)
  <2>1. CASE d # e
    BY <1>0, <1>1, <1>3, <2>1 DEF RunTest, RowsAsRun, TypeOK
  <2>2. CASE d = e
    <3>1. \A q \in rows'[e] : \E r \in rows[e] : RanRow(r, k, q)
      BY <1>0, <1>3, <2>2, RunTestEffect
    <3>2. \A r \in rows[e] : KeyOf(r) = k => ~r.ran
      BY <1>3 DEF RunTest, UnrunInv, UnrunOf
    <3> QED
      BY <1>0, <2>2, <3>1, <3>2 DEF RanRow, KeepsVerdicts, Judged, OneRowPerKey
  <2> QED
    BY <2>1, <2>2
<1>4. CASE /\ ~\E w \in Workers : InsertRows(w)
           /\ ~\E e \in Executions : \E k \in box[e].todo : RunTest(e, k)
  <2>1. CASE UNCHANGED rows
    BY <1>1, <2>1 DEF RowsAsRun
  <2>2. ASSUME NEW e \in Executions, DeleteRow(e) PROVE RowsAsRun(d)
    BY <1>0, <2>2 DEF DeleteRow, RowsAsRun, TypeOK
  <2>3. ASSUME NEW w \in Workers, WipeRows(w) \/ CancelRows(w) \/ CloseRows(w) PROVE RowsAsRun(d)
    BY <1>0, <2>3 DEF WipeRows, CancelRows, CloseRows, RowsAsRun, TypeOK
  <2>4. CASE /\ ~\E e \in Executions : DeleteRow(e)
             /\ ~\E w \in Workers : WipeRows(w) \/ CancelRows(w) \/ CloseRows(w)
    <3>1. UNCHANGED rows
      BY <1>4, <2>4 DEF vars, Next, Trigger, ReadForCancel, Api, Enqueue, MarkCancelled, RemoveJob,
         Notify, Process, Connect, Provision, MarkRunning, Collect, Finish, Transition, GetTests,
         RemoveOld, CreateBox, StartBox, SaveContainer, Subscribe, WaitExit, WaitFails, WaitTimeout,
         WaitNotice, WaitPoll, PollFails, StopAborted, ReadRows, SaveRows, FailExecution, QueryFails,
         Finally, Settle, Crash, TakeJob, LoseLock, Stall, Container, Boot, ExitClean, ExitDirty
    <3> QED
      BY <2>1, <3>1
  <2> QED
    BY <1>1, <2>2, <2>3, <2>4
<1> QED
  BY <1>2, <1>3, <1>4

\* Unless docker fails to remove a container, a worker dies or a lock is lost, what the
\* executor said of a test is never rewritten: not by a cancellation, not by a failure of the
\* worker, and not by a second container that runs the test again (updateMany where the
\* status is RUNNING; deleteMany before createMany; removeByName() before create).
THEOREM VerdictStays == Spec => VerdictKept
<1> DEFINE Quiet == Without({"remove", "crash", "lock"})
<1>1. Init => UnrunInv
  BY DEF Init, UnrunInv, UnrunOf, OneRowPerKey, NoBox, IdleWorker, Awaiting
<1>2. /\ TypeInv /\ (Without({"lock"}) => GreenInv) /\ KeptInv /\ (Quiet => UnrunInv)
      /\ [Next]_vars
      => (Quiet => UnrunInv)'
  <2> SUFFICES ASSUME TypeInv, Without({"lock"}) => GreenInv, KeptInv, Quiet => UnrunInv,
                      [Next]_vars, Quiet'
               PROVE  UnrunInv'
    OBVIOUS
  <2>1. Quiet /\ Without({"lock"}) /\ Without({"remove", "crash"})
    BY FaultsAreFixed DEF Without
  <2> QED
    BY <2>1, NextUnrun
<1>3. /\ TypeInv /\ (Without({"lock"}) => GreenInv) /\ (Quiet => UnrunInv) /\ [Next]_vars
      => [Without({"remove", "crash", "lock"}) =>
            \A e \in Executions : \A r \in rows[e] : \A q \in rows'[e] :
              KeyOf(q) = KeyOf(r) /\ r.ran /\ r.st # "RUNNING" => q.st = r.st]_vars
  <2>1. Quiet => Without({"lock"})
    BY DEF Without
  <2> QED
    BY <2>1, NextKeepsVerdicts DEF KeepsVerdicts, Judged
<1> QED
  BY <1>1, <1>2, <1>3, InitTypeInv, NextTypeInv, AlwaysGreenInv, AlwaysKept, PTL
  DEF Spec, VerdictKept

(***************************************************************************)
(* No result is left open                                                  *)
(***************************************************************************)

\* Before its results are inserted an execution has none, and before it creates one a run
\* finds no container.
NoResults(e) == rows[e] = {} /\ box[e].st = "absent"

\* The result of an execution that nobody works on any more is closed; the container closes
\* the results one by one, and those it has not closed yet it has still to run.
ClosingOf(e) ==
  /\ job[e].st \in {"none", "adding", "lost", "waiting"} => NoResults(e)
  /\ job[e].st = "active" => job[e].owner # None
  /\ job[e].st # "active" => ~Open(e)
  /\ box[e].st = "running" => \A r \in rows[e] : r.st = "RUNNING" => KeyOf(r) \in box[e].todo
  /\ box[e].st = "clean" => ~Open(e)

\* The stretches of process() and what they know of the results and the container.
Early == {"connect", "provisioning", "getTests", "wipe", "insert"}
Saved == {"collecting", "readRows", "saveRows", "final"}
Empty == {"fail", "closeRows"}

ClosingRun(w) ==
  LET e == worker[w].cur IN
  /\ worker[w].pc \in Early => NoResults(e)
  /\ worker[w].pc \in {"removeOld", "create"} => box[e].st = "absent"
  /\ worker[w].pc = "start" => box[e].st = "created" /\ box[e].id = worker[w].run
  /\ worker[w].pc \in {"saveContainer", "running", "wait"} =>
       /\ box[e].st \in {"booting", "running", "clean"}
       /\ worker[w].held # 0 /\ worker[w].held = box[e].id
  /\ worker[w].pc = "stopAborted" => worker[w].outcome = "cancelled"
  /\ worker[w].pc \in Saved => worker[w].outcome = "clean" /\ ~Open(e)
  /\ worker[w].pc \in Empty => rows[e] = {}
  /\ worker[w].pc = "finally" => ~Open(e)
  /\ worker[w].pc = "settle" => ~Open(e) /\ (worker[w].mode = "rejected" => NoResults(e))
  /\ worker[w].pc \notin Empty \cup {"settle"} => worker[w].mode # "rejected"
  /\ worker[w].pc \in Empty => worker[w].mode # "rejected"
  /\ worker[w].pc \notin Empty \cup {"finally", "settle"} => worker[w].mode = "try"

ClosingInv ==
  /\ \A e \in Executions : ClosingOf(e)
  /\ \A w \in Workers : worker[w].pc # "idle" => ClosingRun(w)

\* Only cancellations go wrong, and what docker leaves standing.
Tame == faults \subseteq {"connect", "notice", "poll", "enqueue", "remove", "hang"}

LEMMA TameIs ==
  ASSUME Tame
  PROVE  /\ "publish" \notin faults /\ "database" \notin faults /\ "create" \notin faults
         /\ "start" \notin faults /\ "wait" \notin faults /\ "timeout" \notin faults
         /\ "executor" \notin faults /\ "announce" \notin faults /\ "rowUpdate" \notin faults
         /\ "crash" \notin faults /\ "lock" \notin faults
BY DEF Tame

\* A step about e is left to be shown for e and for the workers on e.
LEMMA ClosingLocal ==
  ASSUME TypeInv, ClosingInv, NEW e \in Executions, About(e), ClosingOf(e)',
         \A u \in Workers : \/ worker'[u].pc = "idle" \/ ClosingRun(u)'
                            \/ worker'[u] = worker[u] /\ worker[u].cur # e
  PROVE  ClosingInv'
<1>1. ASSUME NEW f \in Executions PROVE ClosingOf(f)'
  <2>1. CASE f = e
    BY <2>1
  <2>2. CASE f # e
    BY <2>2 DEF About, ClosingInv, ClosingOf, NoResults, Open
  <2> QED
    BY <2>1, <2>2
<1>2. ASSUME NEW u \in Workers, worker'[u].pc # "idle", worker'[u] = worker[u], worker[u].cur # e
      PROVE  ClosingRun(u)'
  <2>1. ClosingRun(u) /\ worker[u].cur \in Executions \ {e}
    BY <1>2 DEF ClosingInv, HasExecution, TypeInv
  <2> QED
    BY <1>2, <2>1 DEF About, ClosingRun, NoResults, Open
<1> QED
  BY <1>1, <1>2 DEF ClosingInv

\* A step of the only worker on e.
LEMMA ClosingByWorker ==
  ASSUME TypeInv, GreenInv, ClosingInv, NEW w \in Workers, worker[w].pc # "idle",
         NEW e \in Executions, worker[w].cur = e, About(e), OnlyWorker(w),
         worker'[w].pc = "idle" \/ ClosingRun(w)', ClosingOf(e)'
  PROVE  ClosingInv'
<1>1. \A u \in Workers \ {w} : worker'[u].pc = "idle" \/ (worker'[u] = worker[u] /\ worker[u].cur # e)
  BY Alone DEF OnlyWorker
<1> QED
  BY <1>1, ClosingLocal

\* Worker w goes to l with all that the invariant reads.
Moves(w, l) ==
  /\ OnlyWorker(w)
  /\ worker'[w].pc = l
  /\ worker'[w].cur = worker[w].cur /\ worker'[w].run = worker[w].run
  /\ worker'[w].held = worker[w].held /\ worker'[w].outcome = worker[w].outcome
  /\ worker'[w].mode = worker[w].mode

LEMMA GotoMoves ==
  ASSUME TypeOK, NEW w \in Workers, NEW l, Goto(w, l)
  PROVE  Moves(w, l)
BY DEF Goto, Sets, Moves, OnlyWorker, TypeOK, WorkerState

LEMMA TransitionMoves ==
  ASSUME TypeOK, Tame, NEW w \in Workers, NEW e \in Executions, worker[w].cur = e, NEW s, NEW l,
         Transition(w, s, l)
  PROVE  Moves(w, l) /\ About(e) /\ UNCHANGED <<rows, job, box, faults>>
BY TameIs, GotoMoves DEF Transition, About, TypeOK

\* The end of the wait.
LEMMA ResolveMoves ==
  ASSUME TypeOK, NEW w \in Workers, NEW o \in {"clean", "cancelled"}, Resolve(w, o)
  PROVE  /\ OnlyWorker(w) /\ worker'[w].outcome = o /\ worker'[w].cur = worker[w].cur
         /\ worker'[w].mode = worker[w].mode
         /\ worker'[w].pc = IF o = "clean" THEN "collecting" ELSE "stopAborted"
<1>1. CASE o = "clean"
  BY <1>1 DEF Resolve, Sets, OnlyWorker, TypeOK, WorkerState
<1>2. CASE o = "cancelled"
  BY <1>2 DEF Resolve, Sets, OnlyWorker, TypeOK, WorkerState
<1> QED
  BY <1>1, <1>2

\* A step of a worker that leaves the results, the container and the job alone.
LEMMA ClosingMoves ==
  ASSUME TypeInv, GreenInv, ClosingInv, NEW w \in Workers, worker[w].pc # "idle",
         NEW e \in Executions, worker[w].cur = e, About(e), OnlyWorker(w), ClosingRun(w)',
         UNCHANGED <<rows, job, box>>
  PROVE  ClosingInv'
<1>1. ClosingOf(e)'
  BY DEF ClosingInv, ClosingOf, NoResults, Open
<1> QED
  BY <1>1, ClosingByWorker

\* Closing leaves none open.
LEMMA ClosedIsClosed ==
  ASSUME NEW e \in Executions, rows[e] \in SUBSET Row, NEW s, s # "RUNNING", rows'[e] = Closed(e, s)
  PROVE  ~Open(e)' /\ (rows[e] = {} => rows'[e] = {})
BY DEF Closed, Open, Row

\* Up to the insertion.
LEMMA EarlyClosing ==
  ASSUME TypeInv, GreenInv, ClosingInv, Tame, NEW w \in Workers,
         Connect(w) \/ Provision(w) \/ GetTests(w) \/ WipeRows(w) \/ InsertRows(w)
  PROVE  ClosingInv'
<1>0. worker[w].pc \in Early /\ worker[w].pc # "idle"
  BY DEF Connect, Provision, GetTests, WipeRows, InsertRows, At, Early
<1> PICK e \in Executions : e = worker[w].cur
  BY <1>0 DEF TypeInv, HasExecution
<1>i. /\ NoResults(e) /\ worker[w].mode = "try" /\ ClosingOf(e) /\ TypeOK
      /\ job[e].st = "active" /\ worker[w] \in WorkerState
  BY <1>0 DEF ClosingInv, ClosingRun, Early, Empty, GreenInv, RunOK, Owns, TypeInv, TypeOK
<1>1. CASE Connect(w)
  <2>1. /\ OnlyWorker(w) /\ worker'[w].cur = e
        /\ \/ worker'[w].pc = "provisioning" /\ worker'[w].mode = "try"
           \/ worker'[w].pc = "settle"
    <3>1. CASE Goto(w, "provisioning")
      BY <1>i, <3>1, GotoMoves DEF Moves
    <3>2. CASE Sets(w, [worker[w] EXCEPT !.pc = "settle", !.mode = "rejected"])
      BY <1>i, <3>2 DEF Sets, OnlyWorker, TypeOK, WorkerState
    <3> QED
      BY <1>1, <3>1, <3>2 DEF Connect
  <2>2. UNCHANGED <<rows, job, box>> /\ About(e)
    BY <1>1 DEF Connect, About
  <2>3. ClosingRun(w)'
    BY <1>i, <2>1, <2>2 DEF ClosingRun, NoResults, Open, Early, Saved, Empty
  <2> QED
    BY <1>0, <2>1, <2>2, <2>3, ClosingMoves
<1>2. CASE Provision(w)
  <2>1. Moves(w, "getTests") /\ About(e) /\ UNCHANGED <<rows, job, box, faults>>
    BY <1>2, <1>i, TransitionMoves DEF Provision
  <2>2. ClosingRun(w)'
    BY <1>i, <2>1 DEF Moves, ClosingRun, NoResults, Open, Early, Saved, Empty
  <2> QED
    BY <1>0, <2>1, <2>2, ClosingMoves DEF Moves
<1>3. CASE GetTests(w)
  <2>1. OnlyWorker(w) /\ worker'[w].cur = e /\ worker'[w].pc \in {"fail", "wipe"}
        /\ worker'[w].mode = "try"
    <3>1. PICK s \in SUBSET Tests, l \in {"fail", "wipe"} :
            Sets(w, [worker[w] EXCEPT !.chosen = s, !.pc = l])
      BY <1>3 DEF GetTests
    <3> QED
      BY <1>i, <3>1 DEF Sets, OnlyWorker, TypeOK, WorkerState
  <2>2. UNCHANGED <<rows, job, box>> /\ About(e)
    BY <1>3 DEF GetTests, About
  <2>3. ClosingRun(w)'
    BY <1>i, <2>1, <2>2 DEF ClosingRun, NoResults, Open, Early, Saved, Empty
  <2> QED
    BY <1>0, <2>1, <2>2, <2>3, ClosingMoves
<1>4. CASE WipeRows(w)
  <2>1. Moves(w, "insert") /\ About(e) /\ UNCHANGED <<job, box>> /\ rows'[e] = rows[e]
    BY <1>4, <1>i, GotoMoves DEF WipeRows, About, TypeOK, NoResults
  <2>2. ClosingRun(w)'
    BY <1>i, <2>1 DEF Moves, ClosingRun, NoResults, Open, Early, Saved, Empty
  <2>3. ClosingOf(e)'
    BY <1>i, <2>1 DEF ClosingOf, NoResults, Open
  <2> QED
    BY <1>0, <2>1, <2>2, <2>3, ClosingByWorker DEF Moves
<1>5. CASE InsertRows(w) /\ status[e] = "deleted"
  <2>1. OnlyWorker(w) /\ worker'[w].cur = e /\ worker'[w].pc = "fail" /\ worker'[w].mode = "catch"
    <3>1. Sets(w, [worker[w] EXCEPT !.pc = "fail", !.mode = "catch"])
      BY <1>5, <1>i DEF InsertRows, Raise
    <3> QED
      BY <1>i, <3>1 DEF Sets, OnlyWorker, TypeOK, WorkerState
  <2>2. UNCHANGED <<rows, job, box>> /\ About(e)
    BY <1>5 DEF InsertRows, About
  <2>3. ClosingRun(w)'
    BY <1>i, <2>1, <2>2 DEF ClosingRun, NoResults, Open, Early, Saved, Empty
  <2> QED
    BY <1>0, <2>1, <2>2, <2>3, ClosingMoves
<1>6. CASE InsertRows(w) /\ status[e] # "deleted"
  <2>1. Moves(w, "removeOld") /\ UNCHANGED <<job, box>>
    BY <1>6, <1>i, GotoMoves DEF InsertRows
  <2>2. About(e)
    BY <1>6, <1>i DEF InsertRows, About, TypeOK
  <2>3. ClosingRun(w)'
    BY <1>i, <2>1 DEF Moves, ClosingRun, NoResults, Early, Saved, Empty
  <2>4. ClosingOf(e)'
    BY <1>i, <2>1 DEF ClosingOf, NoResults
  <2> QED
    BY <1>0, <2>1, <2>2, <2>3, <2>4, ClosingByWorker DEF Moves
<1> QED
  BY <1>1, <1>2, <1>3, <1>4, <1>5, <1>6

\* The container is created and started; without the loss of a lock nothing is in the way.
LEMMA DockerClosing ==
  ASSUME TypeInv, GreenInv, ClosingInv, Tame, NEW w \in Workers,
         RemoveOld(w) \/ CreateBox(w) \/ StartBox(w)
  PROVE  ClosingInv'
<1>0. worker[w].pc \in Awaiting /\ worker[w].pc # "idle"
  BY DEF RemoveOld, CreateBox, StartBox, At, Awaiting
<1> PICK e \in Executions : e = worker[w].cur
  BY <1>0 DEF TypeInv, HasExecution
<1>i. /\ ClosingRun(w) /\ worker[w].mode = "try" /\ ClosingOf(e) /\ TypeOK
      /\ job[e].st = "active" /\ worker[w] \in WorkerState /\ worker[w].run # 0
  BY <1>0 DEF ClosingInv, ClosingRun, Awaiting, Empty, GreenInv, RunOK, Owns, TypeInv, TypeOK,
              HasExecution, Batch
<1>1. CASE RemoveOld(w)
  <2>1. Moves(w, "create") /\ UNCHANGED <<rows, job>> /\ About(e)
    BY <1>1, <1>i, GotoMoves DEF RemoveOld, About, TypeOK
  <2>2. box'[e].st = "absent"
    BY <1>1, <1>i DEF RemoveOld, At, ClosingRun, TypeOK, NoBox
  <2>3. ClosingRun(w)'
    BY <1>i, <2>1, <2>2 DEF Moves, ClosingRun, Early, Saved, Empty
  <2>4. ClosingOf(e)'
    BY <1>i, <2>1, <2>2 DEF ClosingOf, NoResults
  <2> QED
    BY <1>0, <2>1, <2>3, <2>4, ClosingByWorker DEF Moves
<1>2. CASE CreateBox(w)
  <2>1. box[e].st = "absent" /\ "create" \notin faults
    BY <1>2, <1>i, TameIs DEF CreateBox, At, ClosingRun
  <2>2. Moves(w, "start") /\ UNCHANGED <<rows, job>> /\ About(e)
    BY <1>2, <1>i, <2>1, GotoMoves DEF CreateBox, About, TypeOK
  <2>3. box'[e].st = "created" /\ box'[e].id = worker[w].run
    BY <1>2, <1>i, <2>1 DEF CreateBox, TypeOK
  <2>4. ClosingRun(w)'
    BY <1>i, <2>2, <2>3 DEF Moves, ClosingRun, Early, Saved, Empty
  <2>5. ClosingOf(e)'
    BY <1>i, <2>2, <2>3 DEF ClosingOf, NoResults
  <2> QED
    BY <1>0, <2>2, <2>4, <2>5, ClosingByWorker DEF Moves
<1>3. CASE StartBox(w)
  <2>1. box[e].st = "created" /\ box[e].id = worker[w].run /\ "start" \notin faults
    BY <1>3, <1>i, TameIs DEF StartBox, At, ClosingRun
  <2>2. /\ box' = [box EXCEPT ![e].st = "booting"] /\ UNCHANGED <<rows, job>> /\ About(e)
        /\ Sets(w, [worker[w] EXCEPT !.held = worker[w].run, !.pc = "saveContainer"])
    BY <1>3, <1>i, <2>1 DEF StartBox, About, TypeOK
  <2>3. /\ OnlyWorker(w) /\ worker'[w].pc = "saveContainer" /\ worker'[w].cur = e
        /\ worker'[w].held = worker[w].run /\ worker'[w].mode = "try"
    BY <1>i, <2>2 DEF Sets, OnlyWorker, TypeOK, WorkerState
  <2>4. box'[e].st = "booting" /\ box'[e].id = worker[w].run
    BY <1>i, <2>1, <2>2 DEF TypeOK, Box
  <2>5. ClosingRun(w)'
    BY <1>i, <2>3, <2>4 DEF ClosingRun, Early, Saved, Empty
  <2>6. ClosingOf(e)'
    BY <1>i, <2>2, <2>4 DEF ClosingOf, NoResults
  <2> QED
    BY <1>0, <2>2, <2>3, <2>5, <2>6, ClosingByWorker
<1> QED
  BY <1>1, <1>2, <1>3

\* From the start of the container to the end of the wait.
LEMMA WaitClosing ==
  ASSUME TypeInv, GreenInv, ClosingInv, Tame, NEW w \in Workers,
         \/ SaveContainer(w) \/ MarkRunning(w) \/ Subscribe(w)
         \/ WaitExit(w) \/ WaitNotice(w) \/ WaitPoll(w)
         \/ WaitTimeout(w) \/ WaitFails(w) \/ PollFails(w)
  PROVE  ClosingInv'
<1>0. worker[w].pc \in {"saveContainer", "running", "wait"}
  BY DEF SaveContainer, MarkRunning, Subscribe, WaitExit, WaitNotice, WaitPoll, WaitTimeout,
         WaitFails, PollFails, At
<1> PICK e \in Executions : e = worker[w].cur
  BY <1>0 DEF TypeInv, HasExecution
<1>i. /\ ClosingRun(w) /\ worker[w].mode = "try" /\ ClosingOf(e) /\ TypeOK
      /\ job[e].st = "active" /\ worker[w] \in WorkerState /\ HeldBox(w)
      /\ box[e].st \in {"booting", "running", "clean"}
  BY <1>0 DEF ClosingInv, ClosingRun, Empty, GreenInv, RunOK, Owns, TypeInv, TypeOK, HeldBox
<1>u. UNCHANGED <<rows, job, box>> /\ About(e)
  BY <1>i, TransitionMoves DEF SaveContainer, MarkRunning, Subscribe, WaitExit, WaitNotice, WaitPoll,
                          WaitTimeout, WaitFails, PollFails, About
<1> SUFFICES OnlyWorker(w) /\ ClosingRun(w)'
  BY <1>0, <1>u, ClosingMoves
<1>1. ASSUME NEW l \in {"running", "wait"}, Moves(w, l) PROVE OnlyWorker(w) /\ ClosingRun(w)'
  BY <1>i, <1>1, <1>u DEF Moves, ClosingRun, HeldBox, Early, Saved, Empty
<1>2. CASE SaveContainer(w)
  <2>1. CASE status[e] # "deleted"
    BY <1>1, <1>2, <1>i, <2>1, GotoMoves DEF SaveContainer
  <2>2. CASE status[e] = "deleted"
    <3>1. /\ OnlyWorker(w) /\ worker'[w].pc = "finally" /\ worker'[w].cur = e
          /\ worker'[w].mode = "catch"
      <4>1. Sets(w, [worker[w] EXCEPT !.pc = "finally", !.mode = "catch"])
        BY <1>2, <2>2 DEF SaveContainer, RaiseDeleted
      <4> QED
        BY <1>i, <4>1 DEF Sets, OnlyWorker, TypeOK, WorkerState
    <3>2. rows[e] = {}
      BY <2>2 DEF GreenInv, RecordOK, GoneOf
    <3> QED
      BY <1>u, <3>1, <3>2 DEF ClosingRun, Open, Early, Saved, Empty
  <2> QED
    BY <2>1, <2>2
<1>3. CASE MarkRunning(w)
  BY <1>1, <1>3, <1>i, TransitionMoves DEF MarkRunning
<1>4. CASE Subscribe(w)
  <2>1. Moves(w, "wait")
    BY <1>4, <1>i DEF Subscribe, At, Moves, Sets, OnlyWorker, TypeOK, WorkerState
  <2> QED
    BY <1>1, <2>1
<1>5. CASE WaitExit(w)
  <2>1. Resolve(w, "clean") /\ box[e].st = "clean"
    BY <1>5, <1>i DEF WaitExit
  <2>2. /\ OnlyWorker(w) /\ worker'[w].pc = "collecting" /\ worker'[w].cur = e
        /\ worker'[w].outcome = "clean" /\ worker'[w].mode = "try"
    BY <1>i, <2>1, ResolveMoves
  <2> QED
    BY <1>i, <1>u, <2>1, <2>2 DEF ClosingRun, ClosingOf, Open, Early, Saved, Empty
<1>6. CASE WaitNotice(w) \/ WaitPoll(w) \/ PollFails(w)
  <2>1. /\ OnlyWorker(w) /\ worker'[w].pc = "stopAborted" /\ worker'[w].cur = e
        /\ worker'[w].outcome = "cancelled" /\ worker'[w].mode = "try"
    BY <1>6, <1>i, ResolveMoves DEF WaitNotice, WaitPoll, PollFails
  <2> QED
    BY <2>1 DEF ClosingRun, Early, Saved, Empty
<1>7. ~WaitTimeout(w) /\ ~WaitFails(w)
  BY TameIs DEF WaitTimeout, WaitFails
<1> QED
  BY <1>2, <1>3, <1>4, <1>5, <1>6, <1>7

\* Stopping a container, or not.
LEMMA StopClosing ==
  ASSUME TypeInv, NEW w \in Workers, NEW e \in Executions, worker[w].cur = e, ClosingOf(e),
         StopAndRemove(w), UNCHANGED <<status, rows, job, faults>>, job[e].st = "active"
  PROVE  About(e) /\ ClosingOf(e)'
<1>1. About(e) /\ (box'[e] = NoBox \/ box'[e] = box[e] \/ box'[e].st = "dirty")
  BY DEF StopAndRemove, About, TypeInv, TypeOK, Box
<1>2. CASE box'[e] = box[e]
  BY <1>1, <1>2 DEF ClosingOf, NoResults, Open
<1>3. CASE box'[e] = NoBox \/ box'[e].st = "dirty"
  BY <1>1, <1>3 DEF ClosingOf, NoResults, Open, NoBox
<1> QED
  BY <1>1, <1>2, <1>3

\* The rest of process(): whichever way it goes, the results are closed before the finally.
LEMMA EndClosing ==
  ASSUME TypeInv, GreenInv, ClosingInv, Tame, NEW w \in Workers,
         \/ StopAborted(w) \/ CancelRows(w) \/ Collect(w) \/ ReadRows(w) \/ SaveRows(w)
         \/ Finish(w) \/ FailExecution(w) \/ CloseRows(w) \/ Finally(w)
  PROVE  ClosingInv'
<1>0. worker[w].pc \in Saved \cup Empty \cup {"stopAborted", "cancelRows", "finally"}
      /\ worker[w].pc # "idle" /\ worker[w].pc # "settle"
  BY DEF StopAborted, CancelRows, Collect, ReadRows, SaveRows, Finish, FailExecution, CloseRows,
         Finally, At, Saved, Empty
<1> PICK e \in Executions : e = worker[w].cur
  BY <1>0 DEF TypeInv, HasExecution
<1>i. /\ ClosingRun(w) /\ worker[w].mode # "rejected" /\ ClosingOf(e) /\ TypeOK
      /\ job[e].st = "active" /\ worker[w] \in WorkerState /\ rows[e] \in SUBSET Row
      /\ worker[w].pc \notin Empty \cup {"finally"} => worker[w].mode = "try"
  BY <1>0 DEF ClosingInv, ClosingRun, Empty, GreenInv, RunOK, Owns, TypeInv, TypeOK
<1>1. ASSUME Moves(w, "readRows") \/ Moves(w, "saveRows") \/ Moves(w, "final"),
             worker[w].pc \in Saved, UNCHANGED <<rows, job, box>>, About(e)
      PROVE  ClosingInv'
  <2>1. ClosingRun(w)'
    BY <1>1, <1>i DEF Moves, ClosingRun, Open, Early, Saved, Empty
  <2> QED
    BY <1>0, <1>1, <2>1, ClosingMoves DEF Moves
<1>2. ASSUME OnlyWorker(w), worker'[w].cur = e, worker'[w].pc = "finally",
             worker'[w].mode # "rejected",
             UNCHANGED <<job, box>>, About(e), ~Open(e)', rows[e] = {} => rows'[e] = {}
      PROVE  ClosingInv'
  <2>1. ClosingRun(w)'
    BY <1>2 DEF ClosingRun, Open, Early, Saved, Empty
  <2>2. ClosingOf(e)'
    BY <1>2, <1>i DEF ClosingOf, Open
  <2> QED
    BY <1>0, <1>2, <2>1, <2>2, ClosingByWorker
<1>3. CASE StopAborted(w)
  <2>1. worker[w].outcome = "cancelled"
    BY <1>3, <1>i DEF StopAborted, At, ClosingRun
  <2>2. Sets(w, [worker[w] EXCEPT !.held = 0, !.pc = "cancelRows"])
    BY <1>3, <2>1 DEF StopAborted
  <2>3. OnlyWorker(w) /\ worker'[w].cur = e /\ worker'[w].pc = "cancelRows" /\ worker'[w].mode = "try"
    <3>1. worker[w].mode = "try"
      BY <1>3, <1>i DEF StopAborted, At, Empty
    <3> QED
      BY <1>i, <2>2, <3>1 DEF Sets, OnlyWorker, TypeOK, WorkerState
  <2>4. ClosingRun(w)'
    BY <2>3 DEF ClosingRun, Early, Saved, Empty
  <2>5. About(e) /\ ClosingOf(e)'
    BY <1>3, <1>i, StopClosing DEF StopAborted
  <2> QED
    BY <1>0, <2>3, <2>4, <2>5, ClosingByWorker
<1>4. CASE CancelRows(w)
  <2>1. Moves(w, "finally") /\ UNCHANGED <<job, box>>
    BY <1>4, <1>i, TameIs, GotoMoves DEF CancelRows
  <2>2. About(e) /\ rows'[e] = Closed(e, "CANCELLED")
    BY <1>4, <1>i DEF CancelRows, About, TypeOK
  <2>3. ~Open(e)' /\ (rows[e] = {} => rows'[e] = {})
    BY <1>i, <2>2, ClosedIsClosed
  <2> QED
    BY <1>2, <1>i, <2>1, <2>2, <2>3 DEF Moves
<1>5. CASE Collect(w)
  BY <1>1, <1>5, <1>i, TransitionMoves DEF Collect, At, Saved
<1>6. CASE ReadRows(w)
  <2>1. Moves(w, "saveRows") /\ UNCHANGED <<rows, job, box>> /\ About(e) /\ worker[w].pc \in Saved
    BY <1>6, <1>i DEF ReadRows, At, Sets, Moves, OnlyWorker, About, Saved, TypeOK, WorkerState
  <2> QED
    BY <1>1, <2>1
<1>7. CASE SaveRows(w)
  <2>0. worker[w].pc \in Saved /\ UNCHANGED <<rows, job, box>> /\ About(e)
    BY <1>7 DEF SaveRows, At, Saved, About
  <2>1. ~Open(e) /\ worker[w].outcome = "clean"
    BY <1>i, <2>0 DEF ClosingRun
  <2>2. CASE Sets(w, [worker[w] EXCEPT !.seen = {}, !.pc = "final"])
    <3>1. Moves(w, "final")
      BY <1>i, <2>2 DEF Sets, Moves, OnlyWorker, TypeOK, WorkerState
    <3> QED
      BY <1>1, <2>0, <3>1
  <2>3. CASE Sets(w, [worker[w] EXCEPT !.seen = {}, !.pc = "finally", !.mode = "catch"])
    <3>1. OnlyWorker(w) /\ worker'[w].cur = e /\ worker'[w].pc = "finally" /\ worker'[w].mode = "catch"
      BY <1>i, <2>3 DEF Sets, OnlyWorker, TypeOK, WorkerState
    <3>2. ~Open(e)'
      BY <2>0, <2>1 DEF Open
    <3> QED
      BY <1>2, <2>0, <3>1, <3>2
  <2> QED
    BY <1>7, <2>1, <2>2, <2>3 DEF SaveRows
<1>8. CASE Finish(w)
  <2>1. PICK s \in {"COMPLETED", "FAILED"} : Transition(w, s, "finally")
    BY <1>8 DEF Finish
  <2>2. Moves(w, "finally") /\ UNCHANGED <<rows, job, box, faults>> /\ About(e)
    BY <1>i, <2>1, TransitionMoves
  <2>3. ~Open(e)'
    BY <1>8, <1>i, <2>2 DEF Finish, At, ClosingRun, Open, Saved
  <2> QED
    BY <1>2, <1>i, <2>2, <2>3 DEF Moves
<1>9. CASE FailExecution(w)
  <2>0. rows[e] = {} /\ UNCHANGED <<rows, job, box>> /\ About(e)
    BY <1>9, <1>i DEF FailExecution, At, ClosingRun, Empty, About, TypeOK
  <2>1. Moves(w, "closeRows") \/ Moves(w, "finally")
    BY <1>9, <1>i, GotoMoves DEF FailExecution
  <2>2. CASE Moves(w, "closeRows")
    <3>1. ClosingRun(w)'
      BY <1>i, <2>0, <2>2 DEF Moves, ClosingRun, Early, Saved, Empty
    <3> QED
      BY <1>0, <2>0, <2>2, <3>1, ClosingMoves DEF Moves
  <2>3. CASE Moves(w, "finally")
    BY <1>2, <1>i, <2>0, <2>3 DEF Moves, Open
  <2> QED
    BY <2>1, <2>2, <2>3
<1>10. CASE CloseRows(w)
  <2>1. Moves(w, "finally") /\ UNCHANGED <<job, box>>
    BY <1>10, <1>i, TameIs, GotoMoves DEF CloseRows
  <2>2. About(e) /\ rows'[e] = Closed(e, "FAILED")
    BY <1>10, <1>i, TameIs DEF CloseRows, About, TypeOK
  <2>3. ~Open(e)' /\ (rows[e] = {} => rows'[e] = {})
    BY <1>i, <2>2, ClosedIsClosed
  <2> QED
    BY <1>2, <1>i, <2>1, <2>2, <2>3 DEF Moves
<1>11. CASE Finally(w)
  <2>1. Sets(w, [worker[w] EXCEPT !.held = 0, !.pc = "settle"]) /\ ~Open(e) /\ UNCHANGED rows
    BY <1>11, <1>i DEF Finally, At, ClosingRun
  <2>2. /\ OnlyWorker(w) /\ worker'[w].cur = e /\ worker'[w].pc = "settle"
        /\ worker'[w].mode # "rejected"
    BY <1>i, <2>1 DEF Sets, OnlyWorker, TypeOK, WorkerState
  <2>3. ClosingRun(w)'
    BY <2>1, <2>2 DEF ClosingRun, Open, Early, Saved, Empty
  <2>4. About(e) /\ ClosingOf(e)'
    BY <1>11, <1>i, StopClosing DEF Finally
  <2> QED
    BY <1>0, <2>2, <2>3, <2>4, ClosingByWorker
<1> QED
  BY <1>3, <1>4, <1>5, <1>6, <1>7, <1>8, <1>9, <1>10, <1>11

\* BullMQ gives out jobs that have no results yet, and takes back those that have none open.
LEMMA QueueClosing ==
  ASSUME TypeInv, GreenInv, ClosingInv, Tame, NEW w \in Workers,
         (\E e \in Executions : TakeJob(w, e)) \/ Settle(w)
  PROVE  ClosingInv'
<1>t. TypeOK
  BY DEF TypeInv
<1>1. ASSUME NEW e \in Executions, TakeJob(w, e) PROVE ClosingInv'
  <2>1. /\ job[e].st = "waiting" /\ NoResults(e) /\ About(e) /\ UNCHANGED <<rows, box>>
        /\ job'[e].st = "active" /\ job'[e].owner = w
    BY <1>1, <1>t DEF TakeJob, ClosingInv, ClosingOf, About, TypeOK, Job
  <2>2. OnlyWorker(w) /\ worker'[w].pc = "connect" /\ worker'[w].cur = e /\ worker'[w].mode = "try"
    BY <1>1, <1>t DEF TakeJob, Sets, IdleWorker, OnlyWorker, TypeOK
  <2>3. ClosingRun(w)'
    BY <2>1, <2>2 DEF ClosingRun, NoResults, Early, Saved, Empty
  <2>4. ClosingOf(e)'
    BY <2>1, NoneAssumption DEF ClosingOf, NoResults
  <2>5. \A u \in Workers \ {w} : worker'[u].pc = "idle" \/ (worker'[u] = worker[u] /\ worker[u].cur # e)
    BY <2>1, <2>2 DEF OnlyWorker, GreenInv, RunOK, Owns
  <2> QED
    BY <2>1, <2>3, <2>4, <2>5, ClosingLocal
<1>2. CASE Settle(w)
  <2>0. worker[w].pc = "settle"
    BY <1>2 DEF Settle, At
  <2> PICK e \in Executions : e = worker[w].cur
    BY <2>0 DEF HasExecution, TypeInv
  <2>1. /\ ~Open(e) /\ (worker[w].mode = "rejected" => NoResults(e))
        /\ job[e].st = "active" /\ job[e].owner = w /\ ClosingOf(e) /\ job[e] \in Job
    BY <1>t, <2>0 DEF ClosingInv, ClosingRun, GreenInv, RunOK, Owns, TypeOK
  <2>2. /\ About(e) /\ UNCHANGED <<rows, box>> /\ job'[e].st \in {"done", "waiting", "failed"}
        /\ worker[w].mode # "rejected" => job'[e].st = "done"
    BY <1>2, <1>t, <2>1 DEF Settle, About, TypeOK, Job
  <2>3. ClosingOf(e)'
    BY <2>1, <2>2 DEF ClosingOf, NoResults, Open
  <2>4. OnlyWorker(w) /\ worker'[w].pc = "idle"
    BY <1>2, <1>t DEF Settle, Sets, IdleWorker, OnlyWorker, TypeOK
  <2> QED
    BY <2>0, <2>2, <2>3, <2>4, ClosingByWorker
<1> QED
  BY <1>1, <1>2

\* The API inserts no result and starts no container; what it deletes is closed.
LEMMA ApiClosing ==
  ASSUME TypeInv, GreenInv, ClosingInv, Tame, NEW e \in Executions,
         Trigger(e) \/ ReadForCancel(e) \/ Api(e) \/ Stall(e)
  PROVE  ClosingInv'
<1>t. TypeOK /\ ClosingOf(e) /\ job[e] \in Job
  BY DEF TypeInv, TypeOK, ClosingInv
<1>1. /\ About(e) /\ UNCHANGED <<box, faults>> /\ (rows'[e] = rows[e] \/ rows'[e] = {})
  BY <1>t DEF Trigger, ReadForCancel, Api, Stall, Enqueue, MarkCancelled, DeleteRow, RemoveJob, Notify,
              About, TypeOK
<1>2. \A u \in Workers : /\ worker'[u].pc = worker[u].pc /\ worker'[u].cur = worker[u].cur
                         /\ worker'[u].run = worker[u].run /\ worker'[u].held = worker[u].held
                         /\ worker'[u].outcome = worker[u].outcome
                         /\ worker'[u].mode = worker[u].mode
  <2>1. CASE UNCHANGED worker
    BY <2>1
  <2>2. CASE Notify(e)
    BY <1>t, <2>2 DEF Notify, TypeOK, WorkerState
  <2> QED
    BY <2>1, <2>2 DEF Trigger, ReadForCancel, Api, Stall, Enqueue, MarkCancelled, DeleteRow, RemoveJob
<1>3. /\ job'[e].st \in {"none", "adding", "lost", "waiting"} =>
           job[e].st \in {"none", "adding", "lost", "waiting"}
      /\ job'[e].st = "active" => job[e].st = "active" /\ job'[e].owner = job[e].owner
      /\ job'[e].st # "active" => job[e].st # "active"
  <2>1. CASE Trigger(e)
    BY <1>t, <2>1 DEF Trigger, TypeInv, NoRowNoJob, TypeOK, Job
  <2>2. CASE Enqueue(e)
    BY <1>t, <2>2 DEF Enqueue, TypeOK, Job
  <2>3. CASE RemoveJob(e)
    BY <1>t, <2>3 DEF RemoveJob, Removable, ClosingOf, TypeOK, Job
  <2>4. CASE ReadForCancel(e) \/ MarkCancelled(e) \/ DeleteRow(e) \/ Notify(e)
    BY <2>4 DEF ReadForCancel, MarkCancelled, DeleteRow, Notify
  <2>5. ~Stall(e)
    BY <1>t DEF Stall, ClosingOf
  <2> QED
    BY <2>1, <2>2, <2>3, <2>4, <2>5 DEF Api
<1>4. ClosingOf(e)'
  BY <1>t, <1>1, <1>3 DEF ClosingOf, NoResults, Open
<1>5. ASSUME NEW u \in Workers, worker'[u].pc # "idle" PROVE ClosingRun(u)'
  <2>1. ClosingRun(u) /\ worker[u].cur \in Executions
    BY <1>2, <1>5 DEF ClosingInv, TypeInv, HasExecution
  <2>2. LET f == worker[u].cur
        IN  (rows'[f] = rows[f] \/ rows'[f] = {}) /\ box'[f] = box[f]
    BY <1>1, <2>1 DEF About
  <2> QED
    BY <1>2, <2>1, <2>2 DEF ClosingRun, NoResults, Open
<1> QED
  BY <1>1, <1>4, <1>5, ClosingLocal

\* The container closes the results it runs.
LEMMA ContainerClosing ==
  ASSUME TypeInv, GreenInv, ClosingInv, Tame, NEW e \in Executions, Container(e) \/ ExitDirty(e)
  PROVE  ClosingInv'
<1>t. TypeOK /\ ClosingOf(e) /\ box[e] \in Box /\ rows[e] \in SUBSET Row
  BY DEF TypeInv, TypeOK, ClosingInv
<1>1. ASSUME About(e), UNCHANGED <<job, worker>>, box'[e].id = box[e].id,
             box[e].st \in {"booting", "running"}, box'[e].st \in {"running", "clean"},
             ~Open(e) => ~Open(e)', rows[e] = {} => rows'[e] = {},
             box'[e].st = "running" => \A r \in rows'[e] : r.st = "RUNNING" => KeyOf(r) \in box'[e].todo,
             box'[e].st = "clean" => ~Open(e)'
      PROVE  ClosingInv'
  <2>1. ClosingOf(e)'
    BY <1>1, <1>t DEF ClosingOf, NoResults
  <2>2. ASSUME NEW u \in Workers, worker[u].pc # "idle", worker[u].cur = e PROVE ClosingRun(u)'
    <3>1. ClosingRun(u)
      BY <2>2 DEF ClosingInv
    <3> QED
      BY <1>1, <2>2, <3>1 DEF ClosingRun, NoResults, Open
  <2> QED
    BY <1>1, <2>1, <2>2, ClosingLocal
<1>2. CASE Boot(e)
  <2>1. /\ About(e) /\ UNCHANGED <<rows, job, worker>> /\ box'[e].id = box[e].id
        /\ box[e].st = "booting" /\ box'[e].st = "running" /\ box'[e].todo = KeysOf(e)
    BY <1>t, <1>2 DEF Boot, About, TypeOK, Box
  <2> QED
    BY <1>1, <2>1 DEF Open, KeysOf
<1>3. CASE ExitClean(e)
  <2>1. /\ About(e) /\ UNCHANGED <<rows, job, worker>> /\ box'[e].id = box[e].id
        /\ box[e].st = "running" /\ box'[e].st = "clean" /\ box[e].todo = {}
    BY <1>t, <1>3 DEF ExitClean, About, TypeOK, Box
  <2>2. ~Open(e) /\ ~Open(e)'
    BY <1>t, <2>1 DEF ClosingOf, Open
  <2> QED
    BY <1>1, <2>1, <2>2
<1>4. ASSUME NEW k \in box[e].todo, RunTest(e, k) PROVE ClosingInv'
  <2>1. /\ About(e) /\ UNCHANGED <<job, worker>> /\ box'[e].id = box[e].id
        /\ box[e].st = "running" /\ box'[e].st = "running" /\ box'[e].todo = box[e].todo \ {k}
    BY <1>t, <1>4 DEF RunTest, About, TypeOK, Box
  <2>2. PICK s \in {"COMPLETED", "FAILED"} : rows' = [rows EXCEPT ![e] =
          {IF KeyOf(r) = k THEN [r EXCEPT !.st = s, !.ran = TRUE] ELSE r : r \in rows[e]}]
    BY <1>4, TameIs DEF RunTest
  <2>3. \A q \in rows'[e] : q.st = "RUNNING" => q \in rows[e] /\ KeyOf(q) # k
    <3>1. rows'[e] =
            {IF KeyOf(r) = k THEN [r EXCEPT !.st = s, !.ran = TRUE] ELSE r : r \in rows[e]}
      BY <1>t, <2>2 DEF TypeOK
    <3>2. \A r \in rows[e] : [r EXCEPT !.st = s, !.ran = TRUE].st = s
      BY <1>t DEF Row
    <3> QED
      BY <3>1, <3>2
  <2>4. rows[e] = {} => rows'[e] = {}
    BY <1>t, <2>2 DEF TypeOK
  <2> QED
    BY <1>1, <1>t, <2>1, <2>3, <2>4 DEF ClosingOf, Open
<1>5. ~ExitDirty(e)
  BY TameIs DEF ExitDirty
<1> QED
  BY <1>2, <1>3, <1>4, <1>5 DEF Container

LEMMA NextClosing ==
  ASSUME Tame
  PROVE  TypeInv /\ GreenInv /\ ClosingInv /\ [Next]_vars => ClosingInv'
<1> SUFFICES ASSUME TypeInv, GreenInv, ClosingInv, [Next]_vars PROVE ClosingInv'
  OBVIOUS
<1>1. CASE UNCHANGED vars
  BY <1>1 DEF vars, ClosingInv, ClosingOf, ClosingRun, NoResults, Open
<1>2. ASSUME NEW e \in Executions, Trigger(e) \/ ReadForCancel(e) \/ Api(e) \/ Stall(e)
      PROVE  ClosingInv'
  BY <1>2, ApiClosing
<1>3. ASSUME NEW w \in Workers, Process(w) \/ Subscribe(w) \/ WaitTimeout(w) PROVE ClosingInv'
  BY <1>3, EarlyClosing, DockerClosing, WaitClosing, EndClosing, QueueClosing DEF Process
<1>4. ASSUME NEW w \in Workers, WaitFails(w) \/ PollFails(w) \/ QueryFails(w) \/ Crash(w)
      PROVE  ClosingInv'
  BY <1>4, WaitClosing, TameIs DEF QueryFails, Crash
<1>5. ASSUME NEW w \in Workers, NEW e \in Executions, TakeJob(w, e) PROVE ClosingInv'
  BY <1>5, QueueClosing
<1>6. ASSUME NEW e \in Executions, Container(e) \/ ExitDirty(e) \/ LoseLock(e) PROVE ClosingInv'
  BY <1>6, ContainerClosing, TameIs DEF LoseLock
<1> QED
  BY <1>1, <1>2, <1>3, <1>4, <1>5, <1>6 DEF Next

\* As long as only cancellations go wrong, no result says RUNNING inside an execution that
\* ended and that nobody works on: not after a clean run, not after a cancellation at any
\* point, not after a failure before the container (the cancelled branch of process() and
\* failExecution() close what is open, and the executor closes what it runs).
THEOREM ResultsClosed == Spec => []ResultsClosedAtRest
<1>1. Init => ClosingInv
  <2> SUFFICES ASSUME Init PROVE ClosingInv
    OBVIOUS
  <2>1. \A e \in Executions : ClosingOf(e)
    BY DEF Init, ClosingOf, NoResults, Open, NewJob, NoBox
  <2>2. \A w \in Workers : worker[w].pc = "idle"
    BY DEF Init, IdleWorker
  <2> QED
    BY <2>1, <2>2 DEF ClosingInv
<1>2. /\ TypeInv /\ (Without({"lock"}) => GreenInv) /\ (Tame => ClosingInv)
      /\ [Next]_vars
      => (Tame => ClosingInv)'
  <2> SUFFICES ASSUME TypeInv, Without({"lock"}) => GreenInv, Tame => ClosingInv, [Next]_vars, Tame'
               PROVE  ClosingInv'
    OBVIOUS
  <2>1. Tame
    BY FaultsAreFixed DEF Tame
  <2>2. Without({"lock"})
    BY <2>1, TameIs DEF Without
  <2> QED
    BY <2>1, <2>2, NextClosing
<1>3. (Tame => ClosingInv) => ResultsClosedAtRest
  BY DEF Tame, ClosingInv, ClosingOf, ResultsClosedAtRest, AtRest
<1> QED
  BY <1>1, <1>2, <1>3, InitTypeInv, NextTypeInv, AlwaysGreenInv, PTL DEF Spec

=============================================================================
