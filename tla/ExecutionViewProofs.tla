------------------------- MODULE ExecutionViewProofs -------------------------
(***************************************************************************)
(* Theorems of ExecutionView, for any executions, numbers of results and   *)
(* requests under way, and any circumstances.                              *)
(***************************************************************************)
EXTENDS ExecutionView, TLAPS

(***************************************************************************)
(* Types                                                                   *)
(***************************************************************************)

\* A browser that shows something else has no page and no request of one.
NothingOpen == page.of = None => page = NoPage /\ calls = NoCalls

ViewTypeInv == TypeOK /\ NothingOpen

LEMMA Statuses ==
  /\ Active = {"QUEUED", "PROVISIONING", "RUNNING", "COLLECTING"}
  /\ Terminal = {"COMPLETED", "FAILED", "CANCELLED"}
  /\ Known = Active \cup Terminal
BY DEF Active, Terminal, Known, Lifecycle!Unfinished, Lifecycle!Ended, Lifecycle!NextStage

\* The steps of the lifecycle write statuses.
LEMMA LifecycleType ==
  ASSUME status \in [Executions -> Known \cup {"none", "deleted"}], NEW e \in Executions
  PROVE  /\ Lifecycle!Advance(e) \/ Lifecycle!Fail(e) \/ Lifecycle!Cancel(e) =>
              /\ status' \in [Executions -> Known \cup {"none", "deleted"}]
              /\ status'[e] \in Known
         /\ Lifecycle!Delete(e) => status' \in [Executions -> Known \cup {"none", "deleted"}]
<1>1. \A s \in Lifecycle!Unfinished : Lifecycle!NextStage[s] \in Known
  BY Statuses DEF Lifecycle!Unfinished, Lifecycle!NextStage
<1> QED
  BY <1>1, Statuses
  DEF Lifecycle!Advance, Lifecycle!Fail, Lifecycle!Cancel, Lifecycle!Delete, Lifecycle!Becomes

\* The parts of the state, to show them one at a time.
PlatformOK ==
  /\ status \in [Executions -> Known \cup {"none", "deleted"}]
  /\ run \in [Executions -> Run]
SocketOK ==
  /\ link \in {"closed", "opening", "up"}
  /\ asks \in Seq(Ask)
  /\ checking \subseteq Executions /\ room \subseteq Executions
WireOK   == wire \in Seq(Executions \X Known)
ClientOK == page \in Page /\ calls \in [Slots -> Call] /\ opens \in 0..Visits /\ NothingOpen
UserOK   ==
  /\ listed \in [Executions -> Known \cup {None}]
  /\ request \in [Executions ->
       [asked : {"none", "cancel", "delete"}, from : {"page", "list"}]]

LEMMA Parts ==
  /\ ViewTypeInv <=> PlatformOK /\ SocketOK /\ WireOK /\ ClientOK /\ UserOK /\ may \subseteq Circumstances
  /\ ViewTypeInv' <=>
       PlatformOK' /\ SocketOK' /\ WireOK' /\ ClientOK' /\ UserOK' /\ (may \subseteq Circumstances)'
BY DEF ViewTypeInv, TypeOK, PlatformOK, SocketOK, WireOK, ClientOK, UserOK

\* What a step leaves alone keeps its type.
LEMMA Unchanged ==
  /\ PlatformOK /\ UNCHANGED <<status, run>> => PlatformOK'
  /\ SocketOK /\ UNCHANGED socketVars => SocketOK'
  /\ WireOK /\ UNCHANGED wire => WireOK'
  /\ ClientOK /\ UNCHANGED <<clientVars, may>> => ClientOK'
  /\ UserOK /\ UNCHANGED userVars => UserOK'
  /\ may \subseteq Circumstances /\ UNCHANGED may => (may \subseteq Circumstances)'
BY DEF PlatformOK, SocketOK, socketVars, WireOK, ClientOK, clientVars, NothingOpen, Visits, UserOK,
       userVars

LEMMA NonePageType == NoPage \in Page /\ NoCall \in Call /\ NoCalls \in [Slots -> Call]
BY Statuses, ViewAssumption DEF NoPage, Page, NoCall, Call, NoCalls

LEMMA RelayType ==
  ASSUME WireOK, NEW e \in Executions, NEW s \in Known, Relay(e, s)
  PROVE  WireOK'
<1>1. Append(wire, <<e, s>>) \in Seq(Executions \X Known)
  BY DEF WireOK
<1> QED
  BY <1>1 DEF WireOK, Relay

\* The worker and the executor.
LEMMA PlatformType ==
  ASSUME ViewTypeInv, NEW e \in Executions,
         \/ Transition(e) \/ FailExecution(e) \/ CloseResults(e)
         \/ Abort(e) \/ Overtaken(e) \/ Judge(e)
  PROVE  ViewTypeInv'
<1>0. /\ PlatformOK /\ SocketOK /\ WireOK /\ ClientOK /\ UserOK /\ may \subseteq Circumstances
      /\ run[e] \in Run /\ UNCHANGED <<socketVars, clientVars, userVars, may>>
  BY Parts DEF PlatformOK, Transition, FailExecution, CloseResults, Abort, Overtaken, Judge
<1> SUFFICES PlatformOK' /\ WireOK'
  BY <1>0, Parts, Unchanged
<1>1. CASE Transition(e)
  <2>1. status' \in [Executions -> Known \cup {"none", "deleted"}] /\ status'[e] \in Known
    BY <1>0, <1>1, LifecycleType DEF Transition, PlatformOK
  <2> DEFINE wait == IF status'[e] \in {"PROVISIONING", "RUNNING"} THEN run[e].wait ELSE "past"
  <2>2. \E b \in BOOLEAN : run' = [run EXCEPT ![e] = [run[e] EXCEPT !.over = b, !.wait = wait]]
    <3>1. CASE status'[e] \in Terminal
      <4>1. (status'[e] \in Terminal) = TRUE
        BY <3>1
      <4> QED
        BY <1>1, <4>1 DEF Transition
    <3>2. CASE ~(status'[e] \in Terminal)
      <4>1. (status'[e] \in Terminal) = FALSE
        BY <3>2
      <4> QED
        BY <1>1, <4>1 DEF Transition
    <3> QED
      BY <3>1, <3>2
  <2>3. \A b \in BOOLEAN : [run[e] EXCEPT !.over = b, !.wait = wait] \in Run
    BY <1>0 DEF Run
  <2>4. run' \in [Executions -> Run]
    BY <1>0, <2>2, <2>3 DEF PlatformOK
  <2>5. WireOK'
    BY <1>0, <1>1, <2>1, RelayType DEF Transition
  <2> QED
    BY <2>1, <2>4, <2>5 DEF PlatformOK
<1>2. CASE FailExecution(e)
  <2>1. status' \in [Executions -> Known \cup {"none", "deleted"}]
    BY <1>0, <1>2, LifecycleType DEF FailExecution, PlatformOK
  <2>2. [run[e] EXCEPT !.closing = TRUE] \in Run
    BY <1>0 DEF Run
  <2>3. run' \in [Executions -> Run]
    BY <1>0, <1>2, <2>2 DEF FailExecution, PlatformOK
  <2> QED
    BY <1>0, <1>2, <2>1, <2>3 DEF FailExecution, PlatformOK, WireOK
<1>3. CASE CloseResults(e)
  <2>1. Ended("past") \in Run
    BY ViewAssumption DEF Ended, Run
  <2> QED
    BY <1>0, <1>3, <2>1 DEF CloseResults, PlatformOK, WireOK
<1>4. CASE Abort(e)
  <2>1. Ended("cancelled") \in Run /\ "CANCELLED" \in Known
    BY ViewAssumption, Statuses DEF Ended, Run
  <2>2. WireOK'
    BY <1>0, <1>4, <2>1, RelayType DEF Abort
  <2> QED
    BY <1>0, <1>4, <2>1, <2>2 DEF Abort, PlatformOK
<1>5. CASE Judge(e)
  <2>1. [run[e] EXCEPT !.done = @ + 1] \in Run
    BY <1>0, <1>5, ViewAssumption DEF Judge, Run
  <2>2. run' \in [Executions -> Run]
    BY <1>0, <1>5, <2>1 DEF Judge, PlatformOK
  <2>3. PICK v \in {"COMPLETED", "FAILED"} : Relay(e, v)
    BY <1>5 DEF Judge
  <2>4. WireOK'
    BY <1>0, <2>3, RelayType, Statuses
  <2> QED
    BY <1>0, <1>5, <2>2, <2>4 DEF Judge, PlatformOK
<1>6. CASE Overtaken(e)
  <2>1. [run[e] EXCEPT !.over = TRUE, !.wait = "past"] \in Run
    BY <1>0 DEF Run
  <2> QED
    BY <1>0, <1>6, <2>1 DEF Overtaken, PlatformOK, WireOK
<1> QED
  BY <1>1, <1>2, <1>3, <1>4, <1>5, <1>6

\* The socket and the gateway.
LEMMA SocketType ==
  ASSUME ViewTypeInv, Connect \/ Refuse \/ Drop \/ Handle \/ \E e \in Executions : Join(e)
  PROVE  ViewTypeInv'
<1>0. /\ PlatformOK /\ SocketOK /\ WireOK /\ ClientOK /\ UserOK /\ may \subseteq Circumstances
      /\ page \in Page /\ UNCHANGED <<status, run, clientVars, userVars, may>>
  BY Parts DEF ClientOK, Connect, Refuse, Drop, Handle, Join
<1> SUFFICES SocketOK' /\ WireOK'
  BY <1>0, Parts, Unchanged
<1>1. CASE Connect
  <2>1. page.of # None => Append(asks, <<"subscribe", page.of>>) \in Seq(Ask)
    BY <1>0 DEF SocketOK, Page, Ask
  <2> QED
    BY <1>0, <1>1, <2>1 DEF Connect, SocketOK, WireOK
<1>2. CASE Refuse
  BY <1>0, <1>2 DEF Refuse, SocketOK, WireOK
<1>3. CASE Drop
  BY <1>0, <1>3 DEF Drop, SocketOK, WireOK
<1>4. CASE Handle
  <2>1. Head(asks) \in Ask /\ Tail(asks) \in Seq(Ask)
    BY <1>0, <1>4 DEF Handle, SocketOK
  <2>2. Head(asks)[2] \in Executions
    BY <2>1 DEF Ask
  <2> QED
    BY <1>0, <1>4, <2>1, <2>2 DEF Handle, SocketOK, WireOK
<1>5. ASSUME NEW e \in Executions, Join(e) PROVE SocketOK' /\ WireOK'
  BY <1>0, <1>5 DEF Join, SocketOK, WireOK
<1> QED
  BY <1>1, <1>2, <1>3, <1>4, <1>5

\* A render and a request are what the page may hold.
LEMMA RenderedType ==
  ASSUME NEW q \in Page
  PROVE  Rendered(q) \in Page /\ \A f \in {"of", "live", "origin"} : Rendered(q)[f] = q[f]
<1>1. \A b \in BOOLEAN : /\ [q EXCEPT !.timer = b] \in Page
                         /\ \A f \in {"of", "live", "origin"} : [q EXCEPT !.timer = b][f] = q[f]
  BY DEF Page
<1>2. \E b \in BOOLEAN : [q EXCEPT !.timer = Polls(q)] = [q EXCEPT !.timer = b]
  <2>1. CASE Polls(q)
    <3>1. Polls(q) = TRUE
      BY <2>1 DEF Polls
    <3> QED
      BY <3>1
  <2>2. CASE ~Polls(q)
    <3>1. Polls(q) = FALSE
      BY <2>2 DEF Polls
    <3> QED
      BY <3>1
  <2> QED
    BY <2>1, <2>2
<1> QED
  BY <1>1, <1>2 DEF Rendered

LEMMA KeptType ==
  ASSUME NEW q, NEW cs \in [Slots -> Call]
  PROVE  Kept(q, cs) \in [Slots -> Call]
<1>1. \A c \in Call : [c EXCEPT !.own = FALSE] \in Call
  BY DEF Call
<1> QED
  BY <1>1 DEF Kept

LEMMA SendType ==
  ASSUME NEW cs \in [Slots -> Call], NEW s \in Slots,
         NEW k \in {"load", "poll", "results", "refetch"}
  PROVE  Send(cs, s, k) \in [Slots -> Call]
<1>1. \A b \in BOOLEAN : [NoCall EXCEPT !.kind = k, !.own = b] \in Call
  BY NonePageType DEF Call
<1>2. CASE k = "poll"
  <2>1. (k = "poll") = TRUE
    BY <1>2
  <2> QED
    BY <1>1, <2>1 DEF Send
<1>3. CASE k # "poll"
  <2>1. (k = "poll") = FALSE
    BY <1>3
  <2> QED
    BY <1>1, <2>1 DEF Send
<1> QED
  BY <1>2, <1>3

\* Opening a page, leaving it, an event and a turn of the interval.
LEMMA UnmountType ==
  ASSUME ClientOK, SocketOK, Unmount, opens' = opens, may' = may
  PROVE  ClientOK' /\ asks' \in Seq(Ask)
<1>1. ClientOK'
  BY NonePageType DEF Unmount, ClientOK, NothingOpen, Visits
<1>2. page.of # None => Append(asks, <<"unsubscribe", page.of>>) \in Seq(Ask)
  BY DEF ClientOK, Page, SocketOK, Ask
<1> QED
  BY <1>1, <1>2 DEF Unmount, Emit, SocketOK

LEMMA OpenType ==
  ASSUME ViewTypeInv, NEW e \in Executions, Open(e)
  PROVE  ViewTypeInv'
<1>0. /\ PlatformOK /\ SocketOK /\ WireOK /\ ClientOK /\ UserOK /\ may \subseteq Circumstances
      /\ UNCHANGED <<status, run, checking, room, wire, userVars, may>>
  BY Parts DEF Open
<1> SUFFICES SocketOK' /\ ClientOK'
  BY <1>0, Parts, Unchanged
<1>1. Append(asks, <<"subscribe", e>>) \in Seq(Ask)
  BY <1>0 DEF SocketOK, Ask
<1>2. SocketOK'
  BY <1>0, <1>1 DEF Open, Emit, SocketOK
<1>3. page' \in Page /\ page'.of = e
  BY NonePageType DEF Open, Page, NoPage
<1>4. calls' \in [Slots -> Call]
  BY <1>0, SendType DEF Open, ClientOK
<1>5. opens' \in 0..Visits'
  BY <1>0 DEF Open, ClientOK, Visits
<1> QED
  BY <1>2, <1>3, <1>4, <1>5, ViewAssumption DEF ClientOK, NothingOpen

LEMMA ReceiveType ==
  ASSUME ViewTypeInv, Receive
  PROVE  ViewTypeInv'
<1>0. /\ PlatformOK /\ SocketOK /\ WireOK /\ ClientOK /\ UserOK /\ may \subseteq Circumstances
      /\ UNCHANGED <<status, run, socketVars, opens, userVars, may>>
  BY Parts DEF Receive
<1> DEFINE q == [page EXCEPT !.live = Head(wire)[2], !.origin = Head(wire)[1]]
<1> SUFFICES WireOK' /\ ClientOK'
  BY <1>0, Parts, Unchanged
<1>1. Head(wire) \in Executions \X Known /\ Tail(wire) \in Seq(Executions \X Known)
  BY <1>0 DEF Receive, WireOK
<1>2. WireOK'
  BY <1>1 DEF Receive, WireOK
<1>3. CASE page.of = None
  BY <1>0, <1>2, <1>3 DEF Receive, ClientOK, NothingOpen, Visits
<1>4. CASE page.of # None
  <2>1. q \in Page /\ q.of = page.of
    BY <1>0, <1>1 DEF ClientOK, Page
  <2>2. page' = Rendered(q) /\ page' \in Page /\ page'.of = page.of
    BY <1>4, <2>1, RenderedType DEF Receive
  <2>3. Kept(q, calls) \in [Slots -> Call]
    BY <1>0, KeptType DEF ClientOK
  <2>4. \/ \E s \in Slots : calls' = Send(Kept(q, calls), s, "refetch")
        \/ calls' = Kept(q, calls)
    BY <1>4 DEF Receive
  <2>5. calls' \in [Slots -> Call]
    BY <2>3, <2>4, SendType
  <2> QED
    BY <1>0, <1>2, <1>4, <2>2, <2>5 DEF ClientOK, NothingOpen, Visits
<1> QED
  BY <1>3, <1>4

LEMMA TickType ==
  ASSUME ViewTypeInv, Tick
  PROVE  ViewTypeInv'
<1>0. /\ PlatformOK /\ SocketOK /\ WireOK /\ ClientOK /\ UserOK /\ may \subseteq Circumstances
      /\ UNCHANGED <<status, run, socketVars, wire, page, opens, userVars, may>>
  BY Parts DEF Tick
<1> SUFFICES ClientOK'
  BY <1>0, Parts, Unchanged DEF PlatformOK, WireOK
<1>1. calls' \in [Slots -> Call]
  BY <1>0, SendType DEF Tick, ClientOK
<1>2. page.of # None
  BY <1>0 DEF Tick, ClientOK, NothingOpen, NoPage
<1> QED
  BY <1>0, <1>1, <1>2 DEF ClientOK, NothingOpen, Visits

\* A request is under way only while a page is open, and what is read for it is of that page.
LEMMA ReadType ==
  ASSUME ViewTypeInv, NEW s \in Slots, ~Free(s), status[page.of] \in Known
  PROVE  /\ page.of \in Executions
         /\ calls[s] \in Call /\ calls[s].kind # "none"
         /\ Read(calls[s]) \in Call /\ Read(calls[s]).kind = calls[s].kind
<1>1. /\ page \in Page /\ calls \in [Slots -> Call] /\ run \in [Executions -> Run]
      /\ NothingOpen
  BY DEF ViewTypeInv, TypeOK
<1>2. page.of \in Executions
  BY <1>1 DEF Page, NothingOpen, NoCalls, NoCall, Free
<1>3. calls[s] \in Call /\ calls[s].kind # "none"
  BY <1>1 DEF Free
<1>4. run[page.of].done \in 0..Results
  BY <1>1, <1>2 DEF Run
<1>5. \A c \in Call, st \in Known \cup {None}, done \in 0..Results \cup {None} :
         /\ [c EXCEPT !.st = st, !.done = done] \in Call
         /\ [c EXCEPT !.st = st, !.done = done].kind = c.kind
  BY DEF Call
<1>6. calls[s].st \in Known \cup {None} /\ calls[s].done \in 0..Results \cup {None}
  BY <1>3 DEF Call
<1> DEFINE st   == IF WantsStatus(calls[s]) THEN status[page.of] ELSE calls[s].st
           done == IF WantsResults(calls[s]) THEN run[page.of].done ELSE calls[s].done
<1>7. st \in Known \cup {None} /\ done \in 0..Results \cup {None}
  BY <1>4, <1>6
<1>8. Read(calls[s]) = [calls[s] EXCEPT !.st = st, !.done = done]
  BY <1>3 DEF Read, Call
<1> HIDE DEF st, done
<1>9. /\ [calls[s] EXCEPT !.st = st, !.done = done] \in Call
      /\ [calls[s] EXCEPT !.st = st, !.done = done].kind = calls[s].kind
  BY <1>3, <1>5, <1>7
<1> QED
  BY <1>2, <1>3, <1>8, <1>9

LEMMA ServeType ==
  ASSUME ViewTypeInv, NEW s \in Slots, Serve(s)
  PROVE  ClientOK'
<1>1. ClientOK /\ calls \in [Slots -> Call]
  BY Parts DEF ClientOK
<1>2. /\ page.of \in Executions /\ calls[s] \in Call /\ Read(calls[s]) \in Call
  BY ReadType DEF Serve
<1>3. /\ [calls[s] EXCEPT !.st = Read(calls[s]).st] \in Call
      /\ [calls[s] EXCEPT !.done = Read(calls[s]).done] \in Call
  BY <1>2 DEF Call
<1>4. calls' \in [Slots -> Call]
  BY <1>1, <1>3 DEF Serve
<1> QED
  BY <1>1, <1>2, <1>4, ViewAssumption DEF Serve, ClientOK, NothingOpen, Visits

\* What the page shows after an answer.
LEMMA ShowsType ==
  ASSUME NEW q \in Page, NEW cs \in [Slots -> Call], Shows(q, cs)
  PROVE  /\ page' \in Page /\ calls' \in [Slots -> Call]
         /\ page'.of = q.of /\ page'.live = q.live /\ page'.origin = q.origin
BY RenderedType, KeptType DEF Shows

LEMMA LandType ==
  ASSUME ViewTypeInv, NEW s \in Slots, Land(s)
  PROVE  /\ ClientOK'
         /\ page'.of = page.of /\ page'.live = page.live /\ page'.origin = page.origin
<1> DEFINE c == Read(calls[s])
<1>1. ClientOK /\ page \in Page /\ calls \in [Slots -> Call]
  BY Parts DEF ClientOK
<1>2. page.of \in Executions /\ page.of # None /\ c \in Call
  BY ReadType, ViewAssumption DEF Land
<1>3. [calls EXCEPT ![s] = NoCall] \in [Slots -> Call]
  BY <1>1, NonePageType
<1>4. Loaded(s, c) \/ Polled(s, c) \/ PolledResults(s, c) \/ Refetched(s, c)
  BY DEF Land
<1> HIDE DEF c
<1>5. c.st \in Known \cup {None} /\ c.done \in 0..Results \cup {None} /\ c.own \in BOOLEAN
  BY <1>2 DEF Call
<1> SUFFICES /\ page' \in Page /\ calls' \in [Slots -> Call]
             /\ page'.of = page.of /\ page'.live = page.live /\ page'.origin = page.origin
  BY <1>1, <1>2 DEF Land, ClientOK, NothingOpen, Visits
<1>6. CASE Loaded(s, c)
  <2> DEFINE q == [page EXCEPT !.fetched = c.st, !.shown = c.done]
  <2>1. q \in Page /\ q.of = page.of /\ q.live = page.live /\ q.origin = page.origin
    BY <1>1, <1>5 DEF Page
  <2>2. Shows(q, [calls EXCEPT ![s] = NoCall])
    BY <1>6 DEF Loaded
  <2> HIDE DEF q
  <2> QED
    BY <1>3, <2>1, <2>2, ShowsType
<1>7. CASE Polled(s, c)
  <2> DEFINE q == [page EXCEPT !.fetched = c.st]
             next == IF c.st \in Active THEN NoCall
                     ELSE [NoCall EXCEPT !.kind = "results", !.own = c.own]
  <2>1. q \in Page /\ q.of = page.of /\ q.live = page.live /\ q.origin = page.origin
    BY <1>1, <1>5 DEF Page
  <2>2. [NoCall EXCEPT !.kind = "results", !.own = c.own] \in Call
    BY <1>5, NonePageType DEF Call
  <2>3. [calls EXCEPT ![s] = next] \in [Slots -> Call]
    BY <1>1, <2>2, NonePageType
  <2>4. Shows(q, [calls EXCEPT ![s] = next])
    BY <1>7 DEF Polled
  <2> HIDE DEF q, next
  <2> QED
    BY <2>1, <2>3, <2>4, ShowsType
<1>8. CASE PolledResults(s, c)
  <2>1. \A b \in BOOLEAN : LET q == [page EXCEPT !.shown = c.done, !.timer = b] IN
          q \in Page /\ q.of = page.of /\ q.live = page.live /\ q.origin = page.origin
    BY <1>1, <1>5 DEF Page
  <2>2. \E b \in BOOLEAN : page' = [page EXCEPT !.shown = c.done, !.timer = b]
    <3>1. CASE page.timer /\ ~c.own
      <4>1. (page.timer /\ ~c.own) = TRUE
        BY <3>1
      <4> QED
        BY <1>8, <4>1 DEF PolledResults
    <3>2. CASE ~(page.timer /\ ~c.own)
      <4>1. (page.timer /\ ~c.own) = FALSE
        BY <3>2
      <4> QED
        BY <1>8, <4>1 DEF PolledResults
    <3> QED
      BY <3>1, <3>2
  <2> QED
    BY <1>3, <1>8, <2>1, <2>2 DEF PolledResults
<1>9. CASE Refetched(s, c)
  BY <1>1, <1>3, <1>5, <1>9 DEF Refetched, Page
<1> QED
  BY <1>4, <1>6, <1>7, <1>8, <1>9

LEMMA RejectType ==
  ASSUME ViewTypeInv, NEW s \in Slots, Reject(s)
  PROVE  ClientOK'
<1>1. ClientOK /\ [calls EXCEPT ![s] = NoCall] \in [Slots -> Call]
  BY Parts, NonePageType DEF ClientOK
<1>2. page.of # None
  BY <1>1 DEF ClientOK, NothingOpen, NoCalls, NoCall, Reject, Free
<1> QED
  BY <1>1, <1>2 DEF Reject, ClientOK, NothingOpen, Visits

LEMMA AnswerType ==
  ASSUME ViewTypeInv, NEW s \in Slots, Answer(s)
  PROVE  ViewTypeInv'
<1>1. /\ PlatformOK /\ SocketOK /\ WireOK /\ UserOK /\ may \subseteq Circumstances
      /\ UNCHANGED <<status, run, socketVars, wire, opens, userVars, may>>
  BY Parts DEF Answer, Serve, Land, Reject
<1>2. ClientOK'
  BY ServeType, LandType, RejectType DEF Answer
<1> QED
  BY <1>1, <1>2, Parts, Unchanged DEF PlatformOK, WireOK

\* Cancelling and deleting.
LEMMA AsksType ==
  ASSUME UserOK, NEW e \in Executions, NEW what \in {"cancel", "delete"},
         NEW tab \in {"page", "list"}, Asks(e, what, tab)
  PROVE  request' \in [Executions ->
           [asked : {"none", "cancel", "delete"}, from : {"page", "list"}]]
BY DEF UserOK, Asks

LEMMA CancelType ==
  ASSUME ViewTypeInv, NEW e \in Executions, Cancel(e)
  PROVE  ViewTypeInv'
<1>0. /\ PlatformOK /\ SocketOK /\ WireOK /\ ClientOK /\ UserOK /\ may \subseteq Circumstances
      /\ UNCHANGED <<link, checking, room, wire, opens, may>>
  BY Parts DEF Cancel
<1>1. status' \in [Executions -> Known \cup {"none", "deleted"}]
  BY <1>0, LifecycleType DEF Cancel, PlatformOK
<1>2. run' \in [Executions -> Run]
  <2>1. [run[e] EXCEPT !.over = TRUE] \in Run
    BY <1>0 DEF PlatformOK, Run
  <2> QED
    BY <1>0, <2>1 DEF Cancel, PlatformOK
<1>3. /\ request' \in [Executions ->
           [asked : {"none", "cancel", "delete"}, from : {"page", "list"}]]
      /\ listed' \in [Executions -> Known \cup {None}]
  BY <1>0 DEF Cancel, Replied, NoRequest, UserOK
<1>4. ClientOK' /\ asks' \in Seq(Ask)
  <2>1. CASE request[e].from = "page"
    BY <1>0, <2>1, UnmountType DEF Cancel, Replied
  <2>2. CASE request[e].from # "page"
    BY <1>0, <2>2 DEF Cancel, Replied, ClientOK, NothingOpen, Visits, SocketOK
  <2> QED
    BY <2>1, <2>2
<1> QED
  BY <1>0, <1>1, <1>2, <1>3, <1>4, Parts DEF PlatformOK, SocketOK, WireOK, UserOK

LEMMA UserType ==
  ASSUME ViewTypeInv, User
  PROVE  ViewTypeInv'
<1>0. /\ PlatformOK /\ SocketOK /\ WireOK /\ ClientOK /\ UserOK /\ may \subseteq Circumstances
  BY Parts
<1>1. CASE Leave
  <2>1. UNCHANGED <<status, run, link, checking, room, wire, opens, userVars, may>>
    BY <1>1 DEF Leave
  <2>2. ClientOK' /\ asks' \in Seq(Ask)
    BY <1>0, <1>1, <2>1, UnmountType DEF Leave
  <2> QED
    BY <1>0, <2>1, <2>2, Parts, Unchanged DEF PlatformOK, SocketOK, WireOK
<1>2. CASE LoadList
  <2>1. listed' \in [Executions -> Known \cup {None}]
    BY <1>2 DEF LoadList
  <2> QED
    BY <1>0, <1>2, <2>1, Parts, Unchanged DEF LoadList, UserOK
<1>3. ASSUME NEW e \in Executions, Open(e) PROVE ViewTypeInv'
  BY <1>3, OpenType
<1>4. ASSUME NEW e \in Executions, AskCancel(e) PROVE ViewTypeInv'
  <2>1. UserOK'
    BY <1>0, <1>4, AsksType DEF AskCancel, UserOK
  <2> QED
    BY <1>0, <1>4, <2>1, Parts, Unchanged DEF AskCancel
<1>5. ASSUME NEW e \in Executions, AskRemove(e) PROVE ViewTypeInv'
  <2>1. UserOK'
    <3>1. CASE listed[e] \in Active
      BY <1>0, <1>5, <3>1, AsksType DEF AskRemove, UserOK
    <3>2. CASE listed[e] \notin Active
      BY <1>0, <1>5, <3>2, AsksType DEF AskRemove, UserOK
    <3> QED
      BY <3>1, <3>2
  <2> QED
    BY <1>0, <1>5, <2>1, Parts, Unchanged DEF AskRemove
<1> QED
  BY <1>1, <1>2, <1>3, <1>4, <1>5 DEF User

LEMMA InitViewType == Init => ViewTypeInv
<1> SUFFICES ASSUME Init PROVE ViewTypeInv
  OBVIOUS
<1>1. status \in [Executions -> Known \cup {"none", "deleted"}]
  BY Statuses DEF Init
<1>2. run \in [Executions -> Run]
  <2>0. NewRun \in Run /\ Results \in 0..Results /\ 0 \in 0..Results
    BY ViewAssumption DEF NewRun, Run
  <2>1. [NewRun EXCEPT !.done = Results, !.wait = "past"] \in Run
    BY <2>0 DEF Run
  <2> QED
    BY <2>0, <2>1 DEF Init
<1>3. ClientOK
  <2>1. opens = 0 /\ Visits \in {1, 2}
    BY DEF Init, Visits
  <2>2. opens \in 0..Visits
    BY <2>1
  <2>3. page = NoPage /\ calls = NoCalls
    BY DEF Init
  <2> QED
    BY <2>1, <2>2, <2>3, NonePageType DEF ClientOK, NothingOpen
<1>4. may \subseteq Circumstances
  BY ViewAssumption DEF Init
<1> QED
  BY <1>1, <1>2, <1>3, <1>4, Parts
  DEF Init, PlatformOK, SocketOK, WireOK, UserOK, NoRequest

LEMMA NextViewType == ViewTypeInv /\ [Next]_vars => ViewTypeInv'
<1> SUFFICES ASSUME ViewTypeInv, [Next]_vars PROVE ViewTypeInv'
  OBVIOUS
<1>1. ASSUME NEW e \in Executions, Platform(e) PROVE ViewTypeInv'
  BY <1>1, PlatformType DEF Platform
<1>2. ASSUME NEW e \in Executions, Cancel(e) PROVE ViewTypeInv'
  BY <1>2, CancelType
<1>3. CASE Socket
  BY <1>3, SocketType DEF Socket
<1>4. CASE Receive
  BY <1>4, ReceiveType
<1>5. CASE Tick
  BY <1>5, TickType
<1>6. ASSUME NEW s \in Slots, Answer(s) PROVE ViewTypeInv'
  BY <1>6, AnswerType
<1>7. CASE User
  BY <1>7, UserType
<1>8. CASE Mishap
  BY <1>8, SocketType, PlatformType DEF Mishap
<1>9. CASE UNCHANGED vars
  BY <1>9, Parts, Unchanged DEF vars
<1> QED
  BY <1>1, <1>2, <1>3, <1>4, <1>5, <1>6, <1>7, <1>8, <1>9 DEF Next

\* Every reachable state has the types that its variables are declared with, whatever answers,
\* events and messages overlap; nothing is under way for a page that is not open.
THEOREM ViewTypeCorrect == Spec => []TypeOK
<1>1. ViewTypeInv => TypeOK
  BY DEF ViewTypeInv
<1> QED
  BY <1>1, InitViewType, NextViewType, PTL DEF Spec

(***************************************************************************)
(* A page shows its own execution                                          *)
(***************************************************************************)

\* The members of a sequence, and what becomes of them.
Among(q) == {q[i] : i \in 1..Len(q)}

LEMMA AmongAppend ==
  ASSUME NEW T, NEW q \in Seq(T), NEW x \in T
  PROVE  Among(Append(q, x)) = Among(q) \cup {x}
<1> DEFINE r == Append(q, x)
<1>1. Len(q) \in Nat /\ Len(r) = Len(q) + 1
  OBVIOUS
<1>2. r[Len(q) + 1] = x /\ \A i \in 1..Len(q) : r[i] = q[i]
  OBVIOUS
<1> HIDE DEF r
<1>3. 1..Len(r) = (1..Len(q)) \cup {Len(q) + 1}
  BY <1>1
<1>4. Among(r) = Among(q) \cup {x}
  BY <1>2, <1>3 DEF Among
<1> QED
  BY <1>4 DEF r

LEMMA AmongTail ==
  ASSUME NEW T, NEW q \in Seq(T), q # <<>>
  PROVE  Head(q) \in T /\ Tail(q) \in Seq(T) /\ Among(q) = Among(Tail(q)) \cup {Head(q)}
<1> DEFINE r == Tail(q)
<1>1. /\ Len(q) \in Nat /\ Len(q) # 0 /\ Len(r) = Len(q) - 1
      /\ Head(q) \in T /\ r \in Seq(T) /\ Head(q) = q[1]
  OBVIOUS
<1>2. \A i \in 1..Len(r) : r[i] = q[i + 1]
  OBVIOUS
<1> HIDE DEF r
<1>3. /\ 1 \in 1..Len(q)
      /\ \A i \in 1..Len(r) : i + 1 \in 1..Len(q)
      /\ \A j \in 1..Len(q) : j = 1 \/ (j - 1 \in 1..Len(r) /\ (j - 1) + 1 = j)
  BY <1>1
<1>4. Among(q) \subseteq Among(r) \cup {Head(q)}
  <2> SUFFICES ASSUME NEW j \in 1..Len(q) PROVE q[j] \in Among(r) \cup {Head(q)}
    BY DEF Among
  <2>1. CASE j = 1
    BY <1>1, <2>1
  <2>2. CASE j # 1
    <3>1. j - 1 \in 1..Len(r) /\ r[j - 1] = q[j]
      BY <1>2, <1>3, <2>2
    <3> QED
      BY <3>1 DEF Among
  <2> QED
    BY <2>1, <2>2
<1>5. Among(r) \cup {Head(q)} \subseteq Among(q)
  BY <1>1, <1>2, <1>3 DEF Among
<1> QED
  BY <1>1, <1>4, <1>5 DEF r

LEMMA AmongNone == Among(<<>>) = {}
BY DEF Among

\* While no page is open the gateway has been told, or is about to be, to take the socket out
\* of every room it is in; while one is open everything on its way is about its execution.
RoomsLeft ==
  /\ checking = {}
  /\ Among(asks) \subseteq {"unsubscribe"} \X Executions
  /\ \A e \in room : <<"unsubscribe", e>> \in Among(asks)

RoomsOwn ==
  /\ checking \subseteq {page.of} /\ room \subseteq {page.of}
  /\ Among(asks) \subseteq {<<"subscribe", page.of>>}
  /\ Among(wire) \subseteq {page.of} \X Known
  /\ page.live # None => page.origin = page.of

\* The rooms are those of the page's own execution, when nobody leaves a page early and no
\* page is taken away by the answer to its own cancellation.
RoomsInv ==
  Without({"early", "cancel"}) =>
    /\ link # "up" => checking = {} /\ room = {} /\ wire = <<>>
    /\ \A e \in Executions : request[e] # NoRequest => request[e].from = "list"
    /\ IF page.of = None THEN RoomsLeft ELSE RoomsOwn

\* What the invariant is about and a step leaves alone.
LEMMA RoomsUnchanged ==
  ASSUME RoomsInv, UNCHANGED <<link, asks, checking, room, wire, request, may>>,
         page'.of = page.of, page'.live = page.live, page'.origin = page.origin
  PROVE  RoomsInv'
BY DEF RoomsInv, RoomsLeft, RoomsOwn, Without, Among

\* A relayed event is said to the room, and only the page's own execution has one.
LEMMA RoomsRelay ==
  ASSUME ViewTypeInv, RoomsInv, NEW e \in Executions, NEW s \in Known, Relay(e, s),
         UNCHANGED <<socketVars, page, request, may>>
  PROVE  RoomsInv'
<1>1. CASE UNCHANGED wire
  BY <1>1, RoomsUnchanged DEF socketVars
<1>2. CASE ~UNCHANGED wire
  <2>1. link = "up" /\ e \in room /\ wire' = Append(wire, <<e, s>>)
    BY <1>2 DEF Relay
  <2>2. wire \in Seq(Executions \X Known)
    BY DEF ViewTypeInv, TypeOK
  <2>3. Among(wire') = Among(wire) \cup {<<e, s>>}
    BY <2>1, <2>2, AmongAppend
  <2> QED
    BY <2>1, <2>3 DEF RoomsInv, RoomsLeft, RoomsOwn, Without, socketVars, Among
<1> QED
  BY <1>1, <1>2

LEMMA RoomsPlatform ==
  ASSUME ViewTypeInv, RoomsInv, NEW e \in Executions,
         \/ Transition(e) \/ FailExecution(e) \/ CloseResults(e)
         \/ Abort(e) \/ Overtaken(e) \/ Judge(e)
  PROVE  RoomsInv'
<1>0. UNCHANGED <<socketVars, page, request, may>>
  BY DEF Transition, FailExecution, CloseResults, Abort, Overtaken, Judge, clientVars, userVars
<1>1. CASE Transition(e)
  <2>1. status'[e] \in Known
    BY <1>1, LifecycleType DEF Transition, ViewTypeInv, TypeOK
  <2> QED
    BY <1>0, <1>1, <2>1, RoomsRelay DEF Transition
<1>2. CASE FailExecution(e) \/ CloseResults(e) \/ Overtaken(e)
  BY <1>0, <1>2, RoomsUnchanged DEF FailExecution, CloseResults, Overtaken, socketVars
<1>3. CASE Abort(e)
  BY <1>0, <1>3, RoomsRelay, Statuses DEF Abort
<1>4. CASE Judge(e)
  BY <1>0, <1>4, RoomsRelay, Statuses DEF Judge
<1> QED
  BY <1>1, <1>2, <1>3, <1>4

LEMMA RoomsSocket ==
  ASSUME ViewTypeInv, RoomsInv, Connect \/ Refuse \/ Drop \/ Handle \/ \E e \in Executions : Join(e)
  PROVE  RoomsInv'
<1>0. /\ UNCHANGED <<page, request, may>>
      /\ asks \in Seq(Ask) /\ page \in Page
  BY DEF ViewTypeInv, TypeOK, Connect, Refuse, Drop, Handle, Join, clientVars, userVars
<1> SUFFICES ASSUME Without({"early", "cancel"}) PROVE RoomsInv'
  BY <1>0 DEF RoomsInv, Without
<1>1. CASE Connect
  <2>1. CASE page.of = None
    BY <1>0, <1>1, <2>1 DEF Connect, RoomsInv, RoomsLeft, Among
  <2>2. CASE page.of # None
    <3>1. <<"subscribe", page.of>> \in Ask
      BY <1>0, <2>2 DEF Page, Ask
    <3>2. Among(asks') = Among(asks) \cup {<<"subscribe", page.of>>}
      BY <1>0, <1>1, <2>2, <3>1, AmongAppend DEF Connect
    <3> QED
      BY <1>0, <1>1, <2>2, <3>2 DEF Connect, RoomsInv, RoomsOwn, Among
  <2> QED
    BY <2>1, <2>2
<1>2. CASE Refuse \/ Drop
  <2>1. Among(asks') = {} /\ (wire' = wire \/ Among(wire') = {})
    BY <1>2, AmongNone DEF Refuse, Drop
  <2>2. CASE Refuse
    BY <1>0, <2>1, <2>2 DEF Refuse, RoomsInv, RoomsLeft, RoomsOwn
  <2>3. CASE Drop
    <3>1. Among(wire') = {}
      BY <2>3, AmongNone DEF Drop
    <3> QED
      BY <1>0, <2>1, <2>3, <3>1 DEF Drop, RoomsInv, RoomsLeft, RoomsOwn
  <2> QED
    BY <1>2, <2>2, <2>3
<1>3. CASE Handle
  <2> DEFINE a == Head(asks)
  <2>1. a \in Ask /\ Among(asks) = Among(asks') \cup {a}
    BY <1>0, <1>3, AmongTail DEF Handle
  <2>2. a = <<a[1], a[2]>>
    BY <2>1 DEF Ask
  <2>3. CASE page.of = None
    <3>1. a[1] = "unsubscribe" /\ RoomsLeft
      BY <2>1, <2>3 DEF RoomsInv, RoomsLeft
    <3>2. room' = room \ {a[2]} /\ UNCHANGED <<checking, link, wire>>
      BY <1>3, <3>1 DEF Handle
    <3> HIDE DEF a
    <3>3. RoomsLeft'
      BY <2>1, <2>2, <3>1, <3>2 DEF RoomsLeft
    <3> QED
      BY <1>0, <1>3, <2>3, <3>2, <3>3 DEF Handle, RoomsInv
  <2>4. CASE page.of # None
    <3>1. RoomsOwn /\ a = <<"subscribe", page.of>>
      BY <2>1, <2>4 DEF RoomsInv, RoomsOwn
    <3>2. checking' = checking \cup {page.of} /\ UNCHANGED <<room, link, wire>>
      BY <1>3, <3>1 DEF Handle
    <3>3. Among(asks') \subseteq Among(asks)
      BY <2>1
    <3> QED
      BY <1>0, <1>3, <2>4, <3>1, <3>2, <3>3 DEF Handle, RoomsInv, RoomsOwn
  <2> QED
    BY <2>3, <2>4
<1>4. ASSUME NEW e \in Executions, Join(e) PROVE RoomsInv'
  BY <1>0, <1>4 DEF Join, RoomsInv, RoomsLeft, RoomsOwn
<1> QED
  BY <1>1, <1>2, <1>3, <1>4

\* A page is opened and left when nothing is on its way.
LEMMA RoomsOpen ==
  ASSUME ViewTypeInv, RoomsInv, NEW e \in Executions, Open(e)
  PROVE  RoomsInv'
<1>0. /\ UNCHANGED <<checking, room, wire, request, may>>
      /\ asks \in Seq(Ask) /\ page.of = None /\ e # None
      /\ page'.of = e /\ page'.live = None
  BY ViewAssumption DEF ViewTypeInv, TypeOK, Open, userVars, NoPage
<1> SUFFICES ASSUME Without({"early", "cancel"}) PROVE RoomsInv'
  BY <1>0 DEF RoomsInv, Without
<1>1. Quiet /\ RoomsLeft
  BY <1>0 DEF Open, RoomsInv, Without
<1>2. Among(asks) = {} /\ Among(wire) = {} /\ checking = {} /\ room = {} /\ wire = <<>>
  BY <1>1, AmongNone DEF Quiet, RoomsLeft
<1>3. Among(asks') = Among(asks) \cup {<<"subscribe", e>>}
  <2>1. <<"subscribe", e>> \in Ask
    BY DEF Ask
  <2> QED
    BY <1>0, <2>1, AmongAppend DEF Open, Emit
<1>4. Among(asks') = {<<"subscribe", e>>} /\ Among(wire') = {} /\ checking' = {} /\ room' = {}
  BY <1>0, <1>2, <1>3
<1>5. RoomsOwn'
  BY <1>0, <1>4 DEF RoomsOwn
<1> QED
  BY <1>0, <1>2, <1>5 DEF RoomsInv

LEMMA RoomsLeave ==
  ASSUME ViewTypeInv, RoomsInv, Leave
  PROVE  RoomsInv'
<1>0. /\ UNCHANGED <<link, checking, room, wire, request, may>>
      /\ asks \in Seq(Ask) /\ page \in Page /\ page.of # None /\ page'.of = None
  BY DEF ViewTypeInv, TypeOK, Leave, Unmount, userVars, NoPage
<1> SUFFICES ASSUME Without({"early", "cancel"}) PROVE RoomsInv'
  BY <1>0 DEF RoomsInv, Without
<1>1. Quiet /\ RoomsOwn
  BY <1>0 DEF Leave, RoomsInv, Without
<1>2. Among(asks) = {} /\ checking = {} /\ room \subseteq {page.of}
  BY <1>1, AmongNone DEF Quiet, RoomsOwn
<1>3. Among(asks') = Among(asks) \cup {<<"unsubscribe", page.of>>}
  <2>1. <<"unsubscribe", page.of>> \in Ask
    BY <1>0 DEF Ask, Page
  <2> QED
    <3>1. asks' = Append(asks, <<"unsubscribe", page.of>>)
      BY <1>0 DEF Leave, Unmount, Emit
    <3> QED
      BY <1>0, <2>1, <3>1, AmongAppend
<1>4. page.of \in Executions
  BY <1>0 DEF Page
<1>5. RoomsLeft'
  BY <1>0, <1>2, <1>3, <1>4 DEF RoomsLeft
<1> QED
  BY <1>0, <1>5 DEF RoomsInv

\* An event says what it says of the page's own execution.
LEMMA RoomsReceive ==
  ASSUME ViewTypeInv, RoomsInv, Receive
  PROVE  RoomsInv'
<1> DEFINE q == [page EXCEPT !.live = Head(wire)[2], !.origin = Head(wire)[1]]
<1>0. /\ UNCHANGED <<link, asks, checking, room, request, may>>
      /\ wire \in Seq(Executions \X Known) /\ wire # <<>> /\ page \in Page
  BY DEF ViewTypeInv, TypeOK, Receive, socketVars, userVars
<1> SUFFICES ASSUME Without({"early", "cancel"}) PROVE RoomsInv'
  BY <1>0 DEF RoomsInv, Without
<1>1. /\ Head(wire) \in Executions \X Known
      /\ Among(wire) = Among(wire') \cup {Head(wire)}
  BY <1>0, AmongTail DEF Receive
<1>2. link = "up"
  BY <1>0 DEF RoomsInv
<1>3. CASE page.of = None
  BY <1>0, <1>2, <1>3 DEF Receive, RoomsInv, RoomsLeft, Among
<1>4. CASE page.of # None
  <2>1. q \in Page /\ q.of = page.of /\ q.origin = Head(wire)[1]
    BY <1>0, <1>1 DEF Page
  <2>2. page' = Rendered(q)
    BY <1>4 DEF Receive
  <2> HIDE DEF q
  <2>3. page'.of = page.of /\ page'.origin = Head(wire)[1]
    BY <2>1, <2>2, RenderedType
  <2>4. Head(wire)[1] = page.of
    BY <1>1, <1>4 DEF RoomsInv, RoomsOwn
  <2>5. RoomsOwn'
    BY <1>0, <1>1, <1>4, <2>3, <2>4 DEF RoomsInv, RoomsOwn, Among
  <2> QED
    BY <1>0, <1>2, <1>4, <2>3, <2>5 DEF RoomsInv
<1> QED
  BY <1>3, <1>4

LEMMA RoomsCancel ==
  ASSUME ViewTypeInv, RoomsInv, NEW e \in Executions, Cancel(e)
  PROVE  RoomsInv'
<1>0. UNCHANGED <<link, checking, room, wire, may>>
  BY DEF Cancel
<1> SUFFICES ASSUME Without({"early", "cancel"}) PROVE RoomsInv'
  BY <1>0 DEF RoomsInv, Without
<1>1. request[e].from = "list"
  BY DEF RoomsInv, Cancel
<1>2. UNCHANGED <<page, asks>> /\ request' = [request EXCEPT ![e] = NoRequest]
  BY <1>1 DEF Cancel, Replied
<1>3. \A x \in Executions : request'[x] # NoRequest => request'[x].from = "list"
  BY <1>2 DEF RoomsInv, ViewTypeInv, TypeOK
<1> QED
  BY <1>0, <1>2, <1>3 DEF RoomsInv, RoomsLeft, RoomsOwn, Among

LEMMA RoomsUser ==
  ASSUME ViewTypeInv, RoomsInv, User
  PROVE  RoomsInv'
<1>1. CASE Leave
  BY <1>1, RoomsLeave
<1>2. CASE LoadList
  BY <1>2, RoomsUnchanged DEF LoadList, socketVars, clientVars
<1>3. ASSUME NEW e \in Executions, Open(e) PROVE RoomsInv'
  BY <1>3, RoomsOpen
<1>4. ASSUME NEW e \in Executions, AskCancel(e) PROVE RoomsInv'
  BY <1>4 DEF AskCancel, RoomsInv, Without
<1>5. ASSUME NEW e \in Executions, AskRemove(e) PROVE RoomsInv'
  <2>1. UNCHANGED <<link, asks, checking, room, wire, page, may>>
    BY <1>5 DEF AskRemove, socketVars, clientVars
  <2>2. \E what : request' = [request EXCEPT ![e] = [asked |-> what, from |-> "list"]]
    BY <1>5 DEF AskRemove, Asks
  <2>3. \A x \in Executions :
           request'[x] = request[x] \/ request'[x].from = "list"
    BY <2>2 DEF ViewTypeInv, TypeOK
  <2> QED
    BY <2>1, <2>3 DEF RoomsInv, RoomsLeft, RoomsOwn, Without, Among
<1> QED
  BY <1>1, <1>2, <1>3, <1>4, <1>5 DEF User

LEMMA InitRooms == Init => RoomsInv
<1> SUFFICES ASSUME Init PROVE RoomsInv
  OBVIOUS
<1>1. /\ link = "closed" /\ asks = <<>> /\ checking = {} /\ room = {} /\ wire = <<>>
      /\ page.of = None /\ \A e \in Executions : request[e] = NoRequest
  BY DEF Init, NoPage
<1> QED
  BY <1>1, AmongNone DEF RoomsInv, RoomsLeft

LEMMA NextRooms == ViewTypeInv /\ RoomsInv /\ [Next]_vars => RoomsInv'
<1> SUFFICES ASSUME ViewTypeInv, RoomsInv, [Next]_vars PROVE RoomsInv'
  OBVIOUS
<1>1. ASSUME NEW e \in Executions, Platform(e) PROVE RoomsInv'
  BY <1>1, RoomsPlatform DEF Platform
<1>2. ASSUME NEW e \in Executions, Cancel(e) PROVE RoomsInv'
  BY <1>2, RoomsCancel
<1>3. CASE Socket
  BY <1>3, RoomsSocket DEF Socket
<1>4. CASE Receive
  BY <1>4, RoomsReceive
<1>5. CASE Tick
  BY <1>5, RoomsUnchanged DEF Tick, socketVars, userVars
<1>6. ASSUME NEW s \in Slots, Answer(s) PROVE RoomsInv'
  <2>1. /\ UNCHANGED <<socketVars, wire, userVars, may>>
        /\ page'.of = page.of /\ page'.live = page.live /\ page'.origin = page.origin
    BY <1>6, LandType DEF Answer, Serve, Land, Reject
  <2> QED
    BY <2>1, RoomsUnchanged DEF socketVars, userVars
<1>7. CASE User
  BY <1>7, RoomsUser
<1>8. CASE Mishap
  BY <1>8, RoomsSocket, RoomsPlatform DEF Mishap
<1>9. CASE UNCHANGED vars
  BY <1>9, RoomsUnchanged DEF vars, socketVars, clientVars, userVars
<1> QED
  BY <1>1, <1>2, <1>3, <1>4, <1>5, <1>6, <1>7, <1>8, <1>9 DEF Next

\* The status on a page was said of its own execution, although onStatus compares no id:
\* however often the connection breaks or is refused, whatever events are lost, and whoever
\* cancels in the list, as long as nobody is too early for the gateway and no cancellation
\* takes the page away.
THEOREM PageShowsOwn == Spec => []ShowsOwn
<1>1. ViewTypeInv /\ RoomsInv => ShowsOwn
  <2> SUFFICES ASSUME ViewTypeInv, RoomsInv, Without({"early", "cancel"}), page.live # None
               PROVE  page.origin = page.of
    BY DEF ShowsOwn
  <2>1. page.of # None
    BY DEF ViewTypeInv, NothingOpen, NoPage
  <2> QED
    BY <2>1 DEF RoomsInv, RoomsOwn
<1> QED
  BY <1>1, InitViewType, NextViewType, InitRooms, NextRooms, PTL DEF Spec

=============================================================================
