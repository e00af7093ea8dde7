---------------------------- MODULE ExecutionView ----------------------------
(***************************************************************************)
(* What a user sees of an execution while it runs: the events that the     *)
(* worker and the executor publish, the gateway that relays them to the    *)
(* rooms of a socket (executions.gateway.ts), the page with its socket and *)
(* its polling (useExecutionSocket.ts, ExecutionDetailPage.tsx), the list  *)
(* with its button (ExecutionsListPage.tsx) and what the API does when it  *)
(* is pressed.                                                             *)
(*                                                                         *)
(* The executions here do what ExecutionLifecycle lets them do, which is   *)
(* what Execution is checked to implement. One browser, one socket.        *)
(***************************************************************************)
EXTENDS Naturals, Sequences

CONSTANTS
  Executions,   \* executions of the organization
  Results,      \* how many tests an execution has
  Slots,        \* bound: HTTP requests that the page has under way at a time
  MaxWire,      \* bound: events on their way to the browser at a time
  None,
  Environments  \* sets of circumstances to choose from

(***************************************************************************)
(* drop     the socket's connection breaks                                 *)
(* refused  the gateway refuses a connection: its access token expired     *)
(* relay    the gateway misses an event of Redis                           *)
(* error    the worker gives an execution up (failExecution)               *)
(* slow     an answer arrives after answers to later requests              *)
(* reject   a request of the page fails                                    *)
(* early    a page is left or opened before the messages of the one that   *)
(*          was open have arrived                                          *)
(* cancel   the user of the page cancels what it shows                     *)
(* list     the list of executions is open in another tab                  *)
(* two      two executions go on, not one, and a page is opened twice      *)
(***************************************************************************)
Circumstances == {"drop", "refused", "relay", "error", "slow", "reject", "early", "cancel", "list",
                  "two"}

ASSUME ViewAssumption ==
  /\ Environments \subseteq SUBSET Circumstances
  /\ Results \in Nat \ {0}
  /\ Slots \subseteq Nat
  /\ MaxWire \in Nat
  /\ None \notin Executions

VARIABLES
  status,    \* Postgres: executions.status
  run,       \* the worker and the executor of each execution
  link,      \* the socket of the browser: "closed", "opening" or "up"
  asks,      \* its messages to the gateway; while it is not up, socket.io's buffer
  checking,  \* gateway: subscriptions that await ownsExecution()
  room,      \* gateway: the rooms the socket is in
  wire,      \* events on their way from the gateway to the socket
  page,      \* the state of ExecutionDetailPage and its hook
  calls,     \* its HTTP requests
  listed,    \* what the list says of each execution
  request,   \* DELETE /executions/:id
  opens,     \* how often a page was opened
  may        \* the circumstances of this behaviour

socketVars == <<link, asks, checking, room>>
clientVars == <<page, calls, opens>>
userVars   == <<listed, request>>
vars == <<status, run, socketVars, wire, clientVars, userVars, may>>

Lifecycle == INSTANCE ExecutionLifecycle WITH again <- FALSE

-----------------------------------------------------------------------------
Active   == Lifecycle!Unfinished
Terminal == Lifecycle!Ended
Known    == Active \cup Terminal

\* done is how many results are final, closing that failExecution() has still to close the
\* others, over that nobody works on the execution any more, and wait what became of
\* waitForContainerOrAbort(): it is still to end, a cancellation ended it, or it is past and
\* no cancellation is heard of any more.
Run == [done : 0..Results, closing : BOOLEAN, over : BOOLEAN, wait : {"on", "cancelled", "past"}]
NewRun == [done |-> 0, closing |-> FALSE, over |-> FALSE, wait |-> "on"]
Ended(wait) == [done |-> Results, closing |-> FALSE, over |-> TRUE, wait |-> wait]

\* live is `status` of the hook and origin, history, the execution it was said of. fetched is
\* `execution`, shown `results`, timer the interval of the polling.
Page == [of : Executions \cup {None}, live : Known \cup {None},
         origin : Executions \cup {None}, fetched : Known \cup {None},
         shown : 0..Results \cup {None}, timer : BOOLEAN]
NoPage == [of |-> None, live |-> None, origin |-> None, fetched |-> None,
           shown |-> None, timer |-> FALSE]

\* A request of the page with what was read for it so far. "load" reads both the execution
\* and its results, "poll" the execution and, when that ended, "results". own: the interval
\* that sent it is still the one that runs.
Call == [kind : {"none", "load", "poll", "results", "refetch"},
         st : Known \cup {None}, done : 0..Results \cup {None}, own : BOOLEAN]
NoCall == [kind |-> "none", st |-> None, done |-> None, own |-> FALSE]
NoCalls == [s \in Slots |-> NoCall]

\* Bound: how often a page is opened.
Visits == IF "two" \in may THEN 2 ELSE 1

NoRequest == [asked |-> "none", from |-> "page"]

Ask == {"subscribe", "unsubscribe"} \X Executions

TypeOK ==
  /\ status \in [Executions -> Known \cup {"none", "deleted"}]
  /\ run \in [Executions -> Run]
  /\ link \in {"closed", "opening", "up"}
  /\ asks \in Seq(Ask) /\ wire \in Seq(Executions \X Known)
  /\ checking \subseteq Executions /\ room \subseteq Executions
  /\ page \in Page
  /\ calls \in [Slots -> Call]
  /\ listed \in [Executions -> Known \cup {None}]
  /\ request \in [Executions ->
       [asked : {"none", "cancel", "delete"}, from : {"page", "list"}]]
  /\ opens \in 0..Visits
  /\ may \subseteq Circumstances

\* An execution that was just triggered, perhaps one that comes to its end, and a browser that
\* shows something else.
Init ==
  /\ may \in Environments
  /\ LET first == CHOOSE e \in Executions : TRUE IN
     status = [e \in Executions |-> IF e = first THEN "QUEUED"
                                    ELSE IF "two" \in may THEN "COLLECTING" ELSE "none"]
  /\ run = [e \in Executions |->
              IF status[e] = "COLLECTING" THEN [NewRun EXCEPT !.done = Results, !.wait = "past"]
              ELSE NewRun]
  /\ link = "closed" /\ asks = <<>> /\ checking = {} /\ room = {} /\ wire = <<>>
  /\ page = NoPage /\ calls = NoCalls /\ opens = 0
  /\ listed = [e \in Executions |-> None]
  /\ request = [e \in Executions |-> NoRequest]

-----------------------------------------------------------------------------
(* The worker and the executor: what they write and then publish. Nothing  *)
(* reads between the two what an event under way would not show as well.   *)

Working(e) == ~run[e].over /\ ~run[e].closing

\* pSubscribe of the gateway: the event goes to the sockets in the room of its execution.
Relay(e, s) ==
  \/ Len(wire) < MaxWire /\ wire' = IF link = "up" /\ e \in room THEN Append(wire, <<e, s>>) ELSE wire
  \/ "relay" \in may /\ UNCHANGED wire

\* transition(). An exit code of 0 means that every result was written; with another the
\* last transition is to FAILED.
Transition(e) ==
  /\ Working(e)
  /\ \/ Lifecycle!Advance(e) /\ (status[e] = "COLLECTING" => run[e].done = Results)
     \/ Lifecycle!Fail(e) /\ status[e] = "COLLECTING"
  /\ Relay(e, status'[e])
  /\ run' = [run EXCEPT ![e].over = status'[e] \in Terminal,
                        ![e].wait = IF status'[e] \in {"PROVISIONING", "RUNNING"} THEN @ ELSE "past"]
  /\ UNCHANGED <<socketVars, clientVars, userVars, may>>

\* failExecution(): the row, then the results. Its event is execution:error, and no page
\* listens to that.
FailExecution(e) ==
  /\ "error" \in may
  /\ Working(e)
  /\ Lifecycle!Fail(e)
  /\ run' = [run EXCEPT ![e].closing = TRUE]
  /\ UNCHANGED <<socketVars, wire, clientVars, userVars, may>>

CloseResults(e) ==
  /\ run[e].closing
  /\ run' = [run EXCEPT ![e] = Ended("past")]
  /\ UNCHANGED <<status, socketVars, wire, clientVars, userVars, may>>

\* Mutant: the cancelled branch publishes nothing.
AbortSilently(e) ==
  /\ Working(e) /\ run[e].wait = "on"
  /\ status[e] \in {"CANCELLED", "deleted"}
  /\ run' = [run EXCEPT ![e] = Ended("cancelled")]
  /\ UNCHANGED <<status, socketVars, wire, clientVars, userVars, may>>

\* The cancelled branch of process(), of a worker that was waiting for the container: it is
\* stopped, the results are closed.
Abort(e) ==
  /\ Working(e) /\ run[e].wait = "on"
  /\ status[e] \in {"CANCELLED", "deleted"}
  /\ run' = [run EXCEPT ![e] = Ended("cancelled")]
  /\ Relay(e, "CANCELLED")
  /\ UNCHANGED <<status, socketVars, clientVars, userVars, may>>

\* Any other end of a worker whose execution was cancelled: the container exited first, or there
\* was none, or the results were collected already. transition() and failExecution() find no
\* row to write (count === 0), publish nothing and leave the results as they are.
Overtaken(e) ==
  /\ Working(e)
  /\ status[e] \in {"CANCELLED", "deleted"}
  /\ run' = [run EXCEPT ![e].over = TRUE, ![e].wait = "past"]
  /\ UNCHANGED <<status, socketVars, wire, clientVars, userVars, may>>

\* The end of runTest(): the row of the result, then result:completed, whose field `status`
\* is the verdict of the test. The container starts before the execution says RUNNING.
Judge(e) ==
  /\ Working(e) /\ run[e].wait = "on"
  /\ status[e] \in {"PROVISIONING", "RUNNING", "CANCELLED"}
  /\ run[e].done < Results
  /\ run' = [run EXCEPT ![e].done = @ + 1]
  /\ \E verdict \in {"COMPLETED", "FAILED"} : Relay(e, verdict)
  /\ UNCHANGED <<status, socketVars, clientVars, userVars, may>>

-----------------------------------------------------------------------------
(* The socket and the gateway                                              *)

Connect ==
  /\ link = "opening"
  /\ link' = "up"
  /\ asks' = IF page.of = None THEN asks ELSE Append(asks, <<"subscribe", page.of>>)
  /\ UNCHANGED <<status, run, checking, room, wire, clientVars, userVars, may>>

\* handleConnection() without a user: a socket that the server disconnects does not try
\* again by itself, and what it had buffered was sent to nobody.
Refuse ==
  /\ "refused" \in may
  /\ link = "opening"
  /\ link' = "closed" /\ asks' = <<>>
  /\ UNCHANGED <<status, run, checking, room, wire, clientVars, userVars, may>>

\* The server's side of the socket goes with its rooms; the client's connects again.
Drop ==
  /\ "drop" \in may
  /\ link = "up"
  /\ link' = "opening" /\ asks' = <<>> /\ checking' = {} /\ room' = {} /\ wire' = <<>>
  /\ UNCHANGED <<status, run, clientVars, userVars, may>>

\* Mutant: nothing takes the socket out of its room.
HandleNoLeave ==
  /\ link = "up" /\ asks # <<>>
  /\ asks' = Tail(asks)
  /\ checking' = IF Head(asks)[1] = "subscribe" THEN checking \cup {Head(asks)[2]} ELSE checking
  /\ UNCHANGED <<status, run, link, room, wire, clientVars, userVars, may>>

\* handleSubscribe() awaits a query first, handleUnsubscribe() leaves at once.
Handle ==
  LET e == Head(asks)[2] IN
  /\ link = "up" /\ asks # <<>>
  /\ asks' = Tail(asks)
  /\ \/ Head(asks)[1] = "subscribe" /\ checking' = checking \cup {e} /\ UNCHANGED room
     \/ Head(asks)[1] = "unsubscribe" /\ room' = room \ {e} /\ UNCHANGED checking
  /\ UNCHANGED <<status, run, link, wire, clientVars, userVars, may>>

\* The answer of ownsExecution(): a deleted execution is nobody's.
Join(e) ==
  /\ e \in checking
  /\ checking' = checking \ {e}
  /\ room' = IF status[e] \in Known THEN room \cup {e} ELSE room
  /\ UNCHANGED <<status, run, link, asks, wire, clientVars, userVars, may>>

-----------------------------------------------------------------------------
(* The page                                                                *)

\* The effect of the polling: it runs when the execution is loaded and one of the two
\* statuses is active.
Polls(p) == p.fetched # None /\ (p.fetched \in Active \/ p.live \in Active)

\* A render in which one of the effect's dependencies changed clears the interval and may
\* set another: no request under way belongs to the new one.
Depends(p, q) == p.live # q.live \/ p.fetched # q.fetched
Rendered(q)   == IF Depends(page, q) THEN [q EXCEPT !.timer = Polls(q)] ELSE q
Kept(q, cs)   == IF Depends(page, q) THEN [s \in Slots |-> [cs[s] EXCEPT !.own = FALSE]] ELSE cs

Free(s)  == calls[s].kind = "none"
First(s) == Free(s) /\ \A t \in Slots : Free(t) => s <= t
Send(cs, s, k) == [cs EXCEPT ![s] = [NoCall EXCEPT !.kind = k, !.own = k = "poll"]]

Quiet == asks = <<>> /\ checking = {} /\ wire = <<>>

Emit(a) == asks' = Append(asks, <<a[1], a[2]>>)

\* The page is opened: it loads the execution, and the hook subscribes.
Open(e) ==
  /\ page.of = None /\ opens < Visits
  /\ "early" \in may \/ Quiet
  /\ status[e] \in Known
  /\ page' = [NoPage EXCEPT !.of = e]
  /\ opens' = opens + 1
  /\ \E s \in Slots : First(s) /\ calls' = Send(calls, s, "load")
  /\ link' = IF link = "closed" THEN "opening" ELSE link
  /\ Emit(<<"subscribe", e>>)
  /\ UNCHANGED <<status, run, checking, room, wire, userVars, may>>

Unmount ==
  /\ page' = NoPage
  /\ calls' = NoCalls
  /\ IF page.of # None THEN Emit(<<"unsubscribe", page.of>>) ELSE UNCHANGED asks

Leave ==
  /\ page.of # None
  /\ "early" \in may \/ Quiet
  /\ Unmount
  /\ UNCHANGED <<status, run, link, checking, room, wire, opens, userVars, may>>

\* onStatus: whatever its executionId, an event with a status sets the status; and a status
\* that is an end has the results fetched again.
Receive ==
  LET e == Head(wire)[1]
      q == [page EXCEPT !.live = Head(wire)[2], !.origin = e]
      kept == Kept(q, calls) IN
  /\ wire # <<>>
  /\ wire' = Tail(wire)
  /\ IF page.of = None THEN UNCHANGED <<page, calls>>
     ELSE /\ page' = Rendered(q)
          /\ IF q.live # page.live /\ q.live \in {"COMPLETED", "FAILED"}
             THEN \E s \in Slots : First(s) /\ calls' = Send(kept, s, "refetch")
             ELSE calls' = kept
  /\ UNCHANGED <<status, run, socketVars, opens, userVars, may>>

\* The interval fires.
Tick ==
  /\ page.timer
  /\ \E s \in Slots : First(s) /\ calls' = Send(calls, s, "poll")
  /\ UNCHANGED <<status, run, socketVars, wire, page, opens, userVars, may>>

WantsStatus(c)  == c.kind \in {"load", "poll"} /\ c.st = None
WantsResults(c) == c.kind \in {"load", "results", "refetch"} /\ c.done = None
Answered(c)     == c.kind # "none" /\ ~WantsStatus(c) /\ ~WantsResults(c)

\* What the API reads for a request now.
Read(c) == [c EXCEPT !.st   = IF WantsStatus(c) THEN status[page.of] ELSE @,
                     !.done = IF WantsResults(c) THEN run[page.of].done ELSE @]

\* A part of an answer that will take its time: a load asks twice, and one answer may be
\* older than the other.
Serve(s) ==
  LET c == calls[s] IN
  /\ "slow" \in may
  /\ ~Free(s) /\ status[page.of] \in Known
  /\ \/ WantsStatus(c)  /\ calls' = [calls EXCEPT ![s].st = Read(c).st]
     \/ WantsResults(c) /\ calls' = [calls EXCEPT ![s].done = Read(c).done]
  /\ UNCHANGED <<status, run, socketVars, wire, page, opens, userVars, may>>

\* A request fails: a deleted execution is not found, and the page is not told what to do.
Reject(s) ==
  /\ ~Free(s)
  /\ "reject" \in may \/ status[page.of] \notin Known
  /\ calls' = [calls EXCEPT ![s] = NoCall]
  /\ UNCHANGED <<status, run, socketVars, wire, page, opens, userVars, may>>

\* setExecution: what the page knows of the execution, and the effects that follow.
Shows(q, cs) == page' = Rendered(q) /\ calls' = Kept(q, cs)

Loaded(s, c) ==
  /\ c.kind = "load"
  /\ Shows([page EXCEPT !.fetched = c.st, !.shown = c.done], [calls EXCEPT ![s] = NoCall])

\* Mutant: an execution that ended is not asked for its results.
PolledStatusOnly(s, c) ==
  /\ c.kind = "poll"
  /\ Shows([page EXCEPT !.fetched = c.st], [calls EXCEPT ![s] = NoCall])

\* A turn of the interval: when the execution ended it goes on to the results.
Polled(s, c) ==
  /\ c.kind = "poll"
  /\ Shows([page EXCEPT !.fetched = c.st],
           [calls EXCEPT ![s] = IF c.st \in Active THEN NoCall
                                ELSE [NoCall EXCEPT !.kind = "results", !.own = c.own]])

\* clearInterval clears the interval of this turn, which may not be the one that runs.
PolledResults(s, c) ==
  /\ c.kind = "results"
  /\ page' = [page EXCEPT !.shown = c.done, !.timer = @ /\ ~c.own]
  /\ calls' = [calls EXCEPT ![s] = NoCall]

Refetched(s, c) ==
  /\ c.kind = "refetch"
  /\ page' = [page EXCEPT !.shown = c.done]
  /\ calls' = [calls EXCEPT ![s] = NoCall]

\* An answer arrives, with what was read when the API got to it or with what is read now.
Land(s) ==
  LET c == Read(calls[s]) IN
  /\ ~Free(s) /\ status[page.of] \in Known
  /\ Answered(calls[s]) \/ "slow" \notin may
  /\ Loaded(s, c) \/ Polled(s, c) \/ PolledResults(s, c) \/ Refetched(s, c)
  /\ UNCHANGED <<status, run, socketVars, wire, opens, userVars, may>>

\* displayStatus
Badge == IF page.live # None THEN page.live ELSE page.fetched

-----------------------------------------------------------------------------
(* Cancelling and deleting                                                 *)

Asks(e, what, tab) ==
  /\ request[e] = NoRequest
  /\ request' = [request EXCEPT ![e] = [asked |-> what, from |-> tab]]

\* handleCancel() of the page: the button is there while the badge is active.
AskCancel(e) ==
  /\ "cancel" \in may
  /\ page.of = e /\ page.fetched # None /\ Badge \in Active
  /\ Asks(e, "cancel", "page")
  /\ UNCHANGED <<status, run, socketVars, wire, clientVars, listed, may>>

\* The list is loaded once, when it is opened.
LoadList ==
  /\ "list" \in may
  /\ \A e \in Executions : listed[e] = None
  /\ listed' = [e \in Executions |-> IF status[e] \in Known THEN status[e] ELSE None]
  /\ UNCHANGED <<status, run, socketVars, wire, clientVars, request, may>>

\* handleRemove() of the list: what it asks the user depends on what it shows.
AskRemove(e) ==
  /\ listed[e] # None
  /\ Asks(e, IF listed[e] \in Active THEN "cancel" ELSE "delete", "list")
  /\ UNCHANGED <<status, run, socketVars, wire, clientVars, listed, may>>

\* The answer: the page goes back in its history, the list drops the line.
Replied(e) ==
  /\ request' = [request EXCEPT ![e] = NoRequest]
  /\ IF request[e].from = "page" THEN Unmount /\ UNCHANGED listed
     ELSE listed' = [listed EXCEPT ![e] = None] /\ UNCHANGED <<page, calls, asks>>

\* cancel() of the API decides by what the row says, not by what was asked (Execution has its
\* two awaits apart). A job that no worker took is removed with the cancellation, and then
\* nobody publishes it.
Cancel(e) ==
  /\ request[e] # NoRequest
  /\ \/ /\ Lifecycle!Cancel(e)
        /\ \/ UNCHANGED run
           \/ status[e] = "QUEUED" /\ run' = [run EXCEPT ![e].over = TRUE]
     \/ Lifecycle!Delete(e) /\ UNCHANGED run
     \/ status[e] = "deleted" /\ UNCHANGED <<status, run>>
  /\ Replied(e)
  /\ UNCHANGED <<link, checking, room, wire, opens, may>>

-----------------------------------------------------------------------------
Platform(e) == Transition(e) \/ CloseResults(e) \/ Abort(e) \/ Overtaken(e) \/ Judge(e)
Socket      == Connect \/ Handle \/ \E e \in Executions : Join(e)
Answer(s)   == Serve(s) \/ Land(s) \/ Reject(s)
User        == Leave \/ LoadList \/ \E e \in Executions : Open(e) \/ AskCancel(e) \/ AskRemove(e)
Mishap      == Refuse \/ Drop \/ \E e \in Executions : FailExecution(e)

Next ==
  \/ \E e \in Executions : Platform(e) \/ Cancel(e)
  \/ Socket \/ Receive \/ Tick \/ (\E s \in Slots : Answer(s)) \/ User \/ Mishap

Spec == Init /\ [][Next]_vars

\* Published events are relayed, the socket connects and delivers, the API answers, answers
\* land and the interval fires. Users and mishaps owe nothing.
Fairness ==
  /\ \A e \in Executions : WF_vars(Platform(e)) /\ WF_vars(Cancel(e))
  /\ WF_vars(Socket) /\ WF_vars(Receive) /\ SF_vars(Tick)
  /\ \A s \in Slots : WF_vars(Answer(s))

FairSpec == Spec /\ Fairness

-----------------------------------------------------------------------------
(* Properties                                                              *)

Without(kinds) == may \cap kinds = {}

\* The status on a page was said of its own execution: onStatus does not compare the id, it
\* relies on the rooms, which the socket shares between the pages of the browser. A page left
\* before its subscription is answered is joined for good, whether its user was early or the
\* answer to a cancellation took the page away.
ShowsOwn == Without({"early", "cancel"}) /\ page.live # None => page.origin = page.of

\* The page is loaded and shows an execution that ended and that nobody works on any more.
ShowsEnded ==
  page.fetched # None /\ status[page.of] \in Terminal /\ run[page.of].over

\* The end of the execution on the page is published: of a cancellation only when it ends the
\* wait for the container, or takes the job from the queue before anything was.
Announced == status[page.of] = "CANCELLED" => run[page.of].wait # "past"

\* In the end the page of an execution that ended shows that end, as long as it is announced
\* and its events arrive: the badge prefers what an event said to what the polling fetches. Of
\* a cancellation that the worker does not hear of it goes on to show the last event.
BadgeSettles ==
  <>[](Without({"drop", "refused", "relay", "error", "reject", "early"})
         => (ShowsEnded /\ Announced => Badge = status[page.of]))

\* In the end it shows the final results, also when events are lost or the socket never
\* connects: that is what the polling is for. Of an execution that was cancelled the page may
\* read the results before the worker closes them, and nothing makes it read them again.
ResultsSettle ==
  <>[](Without({"error", "slow", "reject"})
         => (ShowsEnded /\ status[page.of] # "CANCELLED" => page.shown = run[page.of].done))

\* What a user was asked to cancel is not deleted: deleting is confirmed with 'Esta acción no
\* se puede deshacer', cancelling is not.
DeletesOnlyAsked ==
  [][\A e \in Executions :
       status'[e] = "deleted" /\ status[e] # "deleted" => request[e].asked = "delete"]_vars

=============================================================================
