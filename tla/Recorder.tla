------------------------------ MODULE Recorder ------------------------------
(***************************************************************************)
(* The recording of a user's session: the API keeps it in a Map, saves its *)
(* steps every ten seconds and once more at its end (recorder.service.ts), *)
(* and a container with a browser captures the steps (recorder.js).        *)
(*                                                                         *)
(* A session is ended by stop(), by the expiry timer, by both at once, or  *)
(* by the end of the process that holds the Map. Saves are upserts of all  *)
(* the steps so far; several may be on their way to Postgres at a time.    *)
(* A list of steps is the number of steps in it: steps are only appended.  *)
(***************************************************************************)
EXTENDS Naturals, SequencesExt

CONSTANTS
  Sessions,      \* session ids; each is a fresh UUID, so none is used twice
  Callers,       \* calls of stop() that a session may get
  Timer,         \* the session's expiry timer, which ends it like a caller does
  MaxSteps,      \* bound: steps a session captures
  MaxFlushes,    \* bound: saves of one session on their way when another flush starts
  Environments   \* the sets of faults to choose from, each a subset of FaultKinds

(***************************************************************************)
(* save      an upsert rejects                                             *)
(* reorder   an upsert overtakes an earlier one on another connection      *)
(* create    docker refuses to create the container, or has no image       *)
(* start     docker creates the container and fails to start it            *)
(* remove    docker fails to remove a container (the error is dropped)     *)
(* sweep     the sweep at start-up cannot list the containers              *)
(* crash     the API process dies and restarts                             *)
(* shutdown  the API process is asked to stop (SIGTERM) and restarts       *)
(***************************************************************************)
FaultKinds == {"save", "reorder", "create", "start", "remove", "sweep", "crash", "shutdown"}

ASSUME EnvironmentsAssumption == Environments \subseteq SUBSET FaultKinds
ASSUME TimerAssumption == Timer \notin Callers
ASSUME BoundsAssumption == MaxSteps \in Nat /\ MaxFlushes \in Nat

Enders == Callers \cup {Timer}

\* "flush" stands for nobody awaiting a save.
ASSUME FlushAssumption == "flush" \notin Enders

VARIABLES
  backend,   \* the API process
  session,   \* "ACTIVE" and "out" are "in the Map" and "not in it any more"
  steps,     \* session.steps
  timers,    \* session.expireTimer and session.flushTimer, those not cleared
  box,       \* Docker: the container recorder-<sessionId>
  ender,     \* stop() and expire() under way on each session
  pending,   \* upserts on their way to Postgres, in the order they were sent
  rec,       \* Postgres: the row of recordings
  promised,  \* history: the steps a stop() that resolved has vouched for
  faults     \* what may go wrong in this behaviour, any number of times

vars == <<backend, session, steps, timers, box, ender, pending, rec, promised, faults>>

-----------------------------------------------------------------------------
\* saved counts the steps of the row, stopped says that stoppedAt is set.
Recording == [st : {"none", "kept", "deleted"}, saved : Nat, stopped : BOOLEAN]
NoRecording == [st |-> "none", saved |-> 0, stopped |-> FALSE]

\* An upsert: by is the ender that awaits it, or "flush".
Upsert == [saved : Nat, by : Enders \cup {"flush"}]

\* owes is the number of steps the session had when this ender was called.
Ender == [pc : {"idle", "saving", "destroying", "done"}, owes : Nat, failed : BOOLEAN]
IdleEnder == [pc |-> "idle", owes |-> 0, failed |-> FALSE]

TypeOK ==
  /\ backend \in {"up", "closing", "down"}
  /\ session \in [Sessions -> {"none", "creating", "starting", "ACTIVE", "out"}]
  /\ steps \in [Sessions -> 0..MaxSteps]
  /\ timers \in [Sessions -> SUBSET {"expire", "flush"}]
  /\ box \in [Sessions -> {"absent", "created", "running", "exited"}]
  /\ ender \in [Sessions -> [Enders -> Ender]]
  /\ pending \in [Sessions -> Seq(Upsert)]
  /\ rec \in [Sessions -> Recording]
  /\ promised \in [Sessions -> Nat]
  /\ faults \subseteq FaultKinds

Init ==
  /\ backend = "up"
  /\ session = [s \in Sessions |-> "none"]
  /\ steps = [s \in Sessions |-> 0]
  /\ timers = [s \in Sessions |-> {}]
  /\ box = [s \in Sessions |-> "absent"]
  /\ ender = [s \in Sessions |-> [x \in Enders |-> IdleEnder]]
  /\ pending = [s \in Sessions |-> <<>>]
  /\ rec = [s \in Sessions |-> NoRecording]
  /\ promised = [s \in Sessions |-> 0]
  /\ faults \in Environments

Alive == backend # "down"

-----------------------------------------------------------------------------
(* start()                                                                 *)

\* The project and the image are there.
Start(s) ==
  /\ Alive /\ session[s] = "none"
  /\ session' = [session EXCEPT ![s] = "creating"]
  /\ UNCHANGED <<backend, steps, timers, box, ender, pending, rec, promised, faults>>

CreateBox(s) ==
  /\ Alive /\ session[s] = "creating"
  /\ \/ /\ session' = [session EXCEPT ![s] = "starting"]
        /\ box' = [box EXCEPT ![s] = "created"]
     \/ /\ "create" \in faults
        /\ session' = [session EXCEPT ![s] = "out"]
        /\ UNCHANGED box
  /\ UNCHANGED <<backend, steps, timers, ender, pending, rec, promised, faults>>

\* Mutant: the session has no expiry timer.
StartWithoutExpiry(s) ==
  /\ Alive /\ session[s] = "starting"
  /\ session' = [session EXCEPT ![s] = "ACTIVE"]
  /\ timers' = [timers EXCEPT ![s] = {"flush"}]
  /\ box' = [box EXCEPT ![s] = "running"]
  /\ UNCHANGED <<backend, steps, ender, pending, rec, promised, faults>>

\* The container runs; the timers and the entry in the Map follow without an await.
StartBox(s) ==
  /\ Alive /\ session[s] = "starting"
  /\ session' = [session EXCEPT ![s] = "ACTIVE"]
  /\ timers' = [timers EXCEPT ![s] = {"expire", "flush"}]
  /\ box' = [box EXCEPT ![s] = "running"]
  /\ UNCHANGED <<backend, steps, ender, pending, rec, promised, faults>>

\* The catch around container.start(): remove({ force: true }), whose error is dropped.
StartFails(s) ==
  /\ "start" \in faults
  /\ Alive /\ session[s] = "starting"
  /\ session' = [session EXCEPT ![s] = "out"]
  /\ \/ box' = [box EXCEPT ![s] = "absent"]
     \/ "remove" \in faults /\ UNCHANGED box
  /\ UNCHANGED <<backend, steps, timers, ender, pending, rec, promised, faults>>

-----------------------------------------------------------------------------
(* Steps and saves                                                         *)

\* addStep(): the session stays ACTIVE until its end is complete, so a step is still taken
\* in while stop() awaits its save and the removal of the container, from which a message
\* may be on its way.
AddStep(s) ==
  /\ Alive /\ session[s] = "ACTIVE"
  /\ steps[s] < MaxSteps
  /\ steps' = [steps EXCEPT ![s] = @ + 1]
  /\ UNCHANGED <<backend, session, timers, box, ender, pending, rec, promised, faults>>

\* persist(): all the steps of the session as they are at the call.
Persist(s, by) ==
  pending' = [pending EXCEPT ![s] = Append(@, [saved |-> steps[s], by |-> by])]

\* Mutant: a flush takes the steps out of the session, as if saves were added up.
FlushEmptying(s) ==
  /\ Alive /\ session[s] = "ACTIVE" /\ "flush" \in timers[s]
  /\ steps[s] > 0 /\ Len(pending[s]) < MaxFlushes
  /\ Persist(s, "flush")
  /\ steps' = [steps EXCEPT ![s] = 0]
  /\ UNCHANGED <<backend, session, timers, box, ender, rec, promised, faults>>

\* Every ten seconds, whether or not the save before has come back.
Flush(s) ==
  /\ Alive /\ session[s] = "ACTIVE" /\ "flush" \in timers[s]
  /\ steps[s] > 0 /\ Len(pending[s]) < MaxFlushes
  /\ Persist(s, "flush")
  /\ UNCHANGED <<backend, session, steps, timers, box, ender, rec, promised, faults>>

\* Mutant: stop() takes the error for itself, as expire() does, and resolves.
AnsweredQuietly(s, i, failed) ==
  LET x == pending[s][i].by IN
  ender' = IF x \in Enders /\ ender[s][x].pc = "saving"
           THEN [ender EXCEPT ![s][x].pc = "destroying"]
           ELSE ender

\* The ender that awaited the i-th upsert goes on to destroy the container; the finally of
\* stop() and the try of expire() see to it that a save that failed changes nothing there.
Answered(s, i, failed) ==
  LET x == pending[s][i].by IN
  ender' = IF x \in Enders /\ ender[s][x].pc = "saving"
           THEN [ender EXCEPT ![s][x].pc = "destroying", ![s][x].failed = failed]
           ELSE ender

\* Postgres runs an upsert. A row that it creates has stoppedAt by default (now()), whether
\* or not the save was the final one.
Serve(s, i) ==
  /\ i \in 1..Len(pending[s])
  /\ i = 1 \/ "reorder" \in faults
  /\ rec' = [rec EXCEPT ![s] = [st |-> "kept", saved |-> pending[s][i].saved, stopped |-> TRUE]]
  /\ Answered(s, i, FALSE)
  /\ pending' = [pending EXCEPT ![s] = RemoveAt(@, i)]
  /\ UNCHANGED <<backend, session, steps, timers, box, promised, faults>>

SaveFails(s, i) ==
  /\ "save" \in faults
  /\ i \in 1..Len(pending[s])
  /\ Answered(s, i, TRUE)
  /\ pending' = [pending EXCEPT ![s] = RemoveAt(@, i)]
  /\ UNCHANGED <<backend, session, steps, timers, box, rec, promised, faults>>

-----------------------------------------------------------------------------
(* stop() and expire()                                                     *)

\* getSessionOrThrow() finds the session as long as it is in the Map, also when another
\* stop() or the expiry is already at work on it.
Stop(s, c) ==
  /\ Alive /\ session[s] = "ACTIVE" /\ ender[s][c].pc = "idle"
  /\ timers' = [timers EXCEPT ![s] = {}]
  /\ Persist(s, c)
  /\ ender' = [ender EXCEPT ![s][c] = [pc |-> "saving", owes |-> steps[s], failed |-> FALSE]]
  /\ UNCHANGED <<backend, session, steps, box, rec, promised, faults>>

\* Mutant: an expired session goes as it is.
ExpireUnsaved(s) ==
  /\ Alive /\ session[s] = "ACTIVE" /\ "expire" \in timers[s]
  /\ timers' = [timers EXCEPT ![s] = {}]
  /\ ender' = [ender EXCEPT ![s][Timer] = [pc |-> "destroying", owes |-> steps[s], failed |-> FALSE]]
  /\ UNCHANGED <<backend, session, steps, box, pending, rec, promised, faults>>

\* Thirty minutes: the timer has fired, and expire() clears the other one.
Expire(s) ==
  /\ Alive /\ session[s] = "ACTIVE" /\ "expire" \in timers[s]
  /\ timers' = [timers EXCEPT ![s] = {}]
  /\ Persist(s, Timer)
  /\ ender' = [ender EXCEPT ![s][Timer] = [pc |-> "saving", owes |-> steps[s], failed |-> FALSE]]
  /\ UNCHANGED <<backend, session, steps, box, rec, promised, faults>>

\* destroyContainer(): both the stop and the remove may fail, and the errors are dropped.
DestroyBox(s) ==
  \/ box' = [box EXCEPT ![s] = "absent"]
  \/ "remove" \in faults /\ UNCHANGED box
  \/ "remove" \in faults /\ box[s] = "running" /\ box' = [box EXCEPT ![s] = "exited"]

\* The container is destroyed, the session leaves the Map and, if its save was made, the
\* call of stop() resolves.
Finish(s, x) ==
  LET kept == x \in Callers /\ ~ender[s][x].failed /\ ender[s][x].owes > promised[s] IN
  /\ Alive /\ ender[s][x].pc = "destroying"
  /\ DestroyBox(s)
  /\ session' = [session EXCEPT ![s] = "out"]
  /\ ender' = [ender EXCEPT ![s][x].pc = "done"]
  /\ promised' = IF kept THEN [promised EXCEPT ![s] = ender[s][x].owes] ELSE promised
  /\ UNCHANGED <<backend, steps, timers, pending, rec, faults>>

\* deleteRecording(): a save that comes later creates the row again.
Delete(s) ==
  /\ Alive /\ rec[s].st = "kept"
  /\ rec' = [rec EXCEPT ![s] = [NoRecording EXCEPT !.st = "deleted"]]
  /\ UNCHANGED <<backend, session, steps, timers, box, ender, pending, promised, faults>>

-----------------------------------------------------------------------------
(* The container and the process                                           *)

\* Its own thirty minutes, or a fatal error: it ends and stays to be removed.
BoxExits(s) ==
  /\ box[s] = "running"
  /\ box' = [box EXCEPT ![s] = "exited"]
  /\ UNCHANGED <<backend, session, steps, timers, ender, pending, rec, promised, faults>>

Terminate ==
  /\ "shutdown" \in faults /\ backend = "up"
  /\ backend' = "closing"
  /\ UNCHANGED <<session, steps, timers, box, ender, pending, rec, promised, faults>>

\* onModuleDestroy(), one session of its loop: the steps are not saved, the session stays
\* in the Map, and requests are still served until the loop is over.
Close(s) ==
  /\ backend = "closing" /\ session[s] = "ACTIVE"
  /\ timers' = [timers EXCEPT ![s] = {}]
  /\ DestroyBox(s)
  /\ UNCHANGED <<backend, session, steps, ender, pending, rec, promised, faults>>

\* The process is gone, with its Map and its timers.
Die ==
  /\ backend = "closing" \/ (backend = "up" /\ "crash" \in faults)
  /\ backend' = "down"
  /\ session' = [s \in Sessions |-> IF session[s] = "none" THEN "none" ELSE "out"]
  /\ timers' = [s \in Sessions |-> {}]
  /\ ender' = [s \in Sessions |-> [x \in Enders |-> IdleEnder]]
  /\ UNCHANGED <<steps, box, pending, rec, promised, faults>>

\* Postgres runs the upserts that reached it; the last ones may not have.
NeverSent(s) ==
  /\ backend = "down" /\ pending[s] # <<>>
  /\ pending' = [pending EXCEPT ![s] = Front(@)]
  /\ UNCHANGED <<backend, session, steps, timers, box, ender, rec, promised, faults>>

\* Mutant: start-up without the sweep.
BootUnswept ==
  /\ backend = "down"
  /\ backend' = "up"
  /\ UNCHANGED <<session, steps, timers, box, ender, pending, rec, promised, faults>>

\* onModuleInit(), before the first request: all containers with the recorder's label go,
\* as far as Docker can list and remove them.
Boot ==
  /\ backend = "down"
  /\ backend' = "up"
  /\ \E left \in SUBSET Sessions :
       /\ left = {} \/ faults \cap {"sweep", "remove"} # {}
       /\ box' = [s \in Sessions |-> IF s \in left THEN box[s] ELSE "absent"]
  /\ UNCHANGED <<session, steps, timers, ender, pending, rec, promised, faults>>

-----------------------------------------------------------------------------
\* What goes on by itself once it was begun.
Service(s) ==
  \/ CreateBox(s) \/ StartBox(s)
  \/ \E i \in 1..Len(pending[s]) : Serve(s, i)
  \/ \E x \in Enders : Finish(s, x)

Next ==
  \/ \E s \in Sessions : Start(s) \/ AddStep(s) \/ Flush(s) \/ Expire(s) \/ Delete(s)
  \/ \E s \in Sessions : Service(s) \/ StartFails(s) \/ BoxExits(s) \/ Close(s) \/ NeverSent(s)
  \/ \E s \in Sessions, c \in Callers : Stop(s, c)
  \/ \E s \in Sessions : \E i \in 1..Len(pending[s]) : SaveFails(s, i)
  \/ Terminate \/ Die \/ Boot

Spec == Init /\ [][Next]_vars

\* Handlers that were begun run on, Postgres answers, Node's timers fire, and a process that
\* is closing ends (Docker kills it after ten seconds). Users, the container and faults owe
\* nothing.
Fairness ==
  /\ WF_vars(backend = "closing" /\ Die)
  /\ \A s \in Sessions : WF_vars(Service(s)) /\ WF_vars(Flush(s)) /\ WF_vars(Expire(s))

FairSpec == Spec /\ Fairness

-----------------------------------------------------------------------------
(* Properties. Each says the faults it does not survive; the rest it does. *)

Without(kinds) == faults \cap kinds = {}

\* A container belongs to a session that is starting or in the Map, after a restart too:
\* every way out of a session destroys it, and the sweep takes what a crash left.
NoOrphanBox ==
  Without({"remove", "sweep"}) /\ backend = "up" =>
    \A s \in Sessions : box[s] # "absent" => session[s] \in {"starting", "ACTIVE"}

\* A call of stop() that resolved has saved all the steps that were there when it was made,
\* and no flush or second end of the session takes one back (saveRecording() throws).
StopKeepsSteps ==
  Without({"reorder"}) =>
    \A s \in Sessions : rec[s].st # "deleted" => rec[s].saved >= promised[s]

\* Saves of a session do not undo each other: what is in the database stays, over flushes,
\* two ends at once, crashes and restarts, until the user deletes it (comment of persist()).
RecordingGrows ==
  [][Without({"reorder"}) =>
       \A s \in Sessions :
         rec[s].st = "kept" /\ rec'[s].st = "kept" => rec'[s].saved >= rec[s].saved]_vars

\* Every session comes to its end, with or without its user.
SessionsEnd == \A s \in Sessions : (session[s] = "ACTIVE") ~> (session[s] = "out")

\* A step taken in before the end of its session began reaches the database, by a flush or
\* by the save at the end (the incremental saves of start()).
StepsArePersisted ==
  \A s \in Sessions, n \in 1..MaxSteps :
    (session[s] = "ACTIVE" /\ "flush" \in timers[s] /\ steps[s] >= n
       /\ Without({"save", "reorder", "crash", "shutdown"}))
      ~> (rec[s].saved >= n \/ rec[s].st = "deleted")

=============================================================================
