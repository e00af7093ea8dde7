------------------------------- MODULE Capture -------------------------------
(***************************************************************************)
(* From what a user does in the remote browser to a test: the browser of a *)
(* recording and its handlers (recorder.js), the steps they capture on     *)
(* their way to the session (recorder.gateway.ts) and the conversion of a  *)
(* saved recording (convertToTest() of recorder.service.ts). The life of   *)
(* the session itself is in Recorder.                                      *)
(***************************************************************************)
EXTENDS Naturals, FiniteSets, Sequences, SequencesExt

CONSTANTS
  Pages,        \* pages of the web
  Points,       \* where an element may be, in document order
  Chars,        \* characters a user types
  Origins,      \* addresses where pages live
  Base,         \* the one of them that is projects.baseUrl: the application
  Sites,        \* the webs to choose from, see Site
  MaxActions,   \* bound: messages of the user to the browser
  MaxHasty,     \* bound: the same, of a hasty user
  MaxTests,     \* bound: times that the recording is converted
  None,
  Environments  \* sets of circumstances to choose from

(***************************************************************************)
(* hasty      the user acts before the last action has settled, or stops   *)
(* quick      a page loads before the handler that asked for it goes on    *)
(* drop       the container loses its connection, nothing being on its way *)
(* lost       it loses its connection, and what is on its way with it      *)
(* part       the recording is converted before it is finished             *)
(* broken     a navigation fails                                           *)
(* saved      the recording is there already, with steps of its own        *)
(* moved, flaky, edited, setup, close, error, announce: see Replay         *)
(***************************************************************************)
Circumstances == {"hasty", "quick", "drop", "lost", "part", "broken", "saved",
                  "moved", "flaky", "edited", "setup", "close", "error", "announce"}

\* What there is on a page, and what the elements do: a click on a link goes to its page, and
\* selector names it as buildSelectorInPage() would.
Element == Pages \X Points
Site == [goes : [Element -> Pages \cup {None}], selector : [Element -> Points], origin : [Pages -> Origins]]

ASSUME CaptureAssumption ==
  /\ Points \subseteq Nat /\ IsFiniteSet(Points)
  /\ \A w \in Sites : w \in Site
  /\ Environments \subseteq SUBSET Circumstances
  /\ MaxActions \in Nat /\ MaxHasty \in Nat /\ MaxTests \in Nat \ {0}
  /\ Base \in Origins
  /\ None \notin Pages /\ None \notin Points /\ None \notin Origins /\ None \notin Element

VARIABLES
  site,      \* the web, see Site
  browser,   \* the browser of the recording
  effects,   \* history: what happened to the elements of the web
  handler,   \* the handlers of container:action, in the order of their messages
  online,    \* the container is connected, and in the room of its session
  wire,      \* action:captured, on its way or kept until the connection is back
  session,   \* the session in the service: its target and its steps
  recording, \* the row of recordings, None before it is saved
  tests,     \* the tests that the recording was converted into
  may        \* the circumstances of this behaviour

browserVars == <<browser, effects, handler>>
captureVars == <<site, browserVars, online, wire, session, recording, tests, may>>

-----------------------------------------------------------------------------
\* What the page sends, what is captured, and a step of a test: the type says which of the
\* fields matter. rel tells a path from a whole address. A double click goes the way of a click.
Step == [type : {"navigate", "click", "type", "press"}, point : Points \cup {None},
         sel : Points \cup {None}, text : Seq(Chars), page : Pages \cup {None}, rel : BOOLEAN]
NewStep == [type |-> "press", point |-> None, sel |-> None, text |-> <<>>, page |-> None, rel |-> FALSE]

\* What is captured of a click is a selector or a point.
Kept == {s \in Step : s.type = "click" => (s.sel = None) # (s.point = None)}

Goto(p) == [NewStep EXCEPT !.type = "navigate", !.page = p]

\* A browser with its page, the element that has the focus and the page it is going to.
Browser == [page : Pages \cup {None}, focus : Element \cup {None}, to : Pages \cup {None}]

Effect == {"click", "press"} \X (Element \cup {None})
          \cup {"type"} \X (Element \cup {None}) \X Chars

Handler == [at : {"idle", "resolve", "act", "loading", "capture", "done"}, do : Step]
Idle == [at |-> "idle", do |-> NewStep]

CaptureTypeOK ==
  /\ site \in Sites
  /\ browser \in Browser /\ effects \in Seq(Effect)
  /\ handler \in [1..MaxActions -> Handler]
  /\ online \in BOOLEAN
  /\ wire \in Seq(Kept)
  /\ session \in [st : {"active", "stopping", "over"}, target : Pages, steps : Seq(Kept)]
  /\ recording = None \/ recording \in Seq(Kept)
  /\ tests \in Seq(Seq(Kept)) /\ Len(tests) <= MaxTests
  /\ may \subseteq Circumstances

\* goto(TARGET_URL) ends before anything listens to the page: that step is never captured.
CaptureInit ==
  /\ may \in Environments /\ site \in Sites
  /\ \E p \in Pages :
       /\ browser = [page |-> p, focus |-> None, to |-> None]
       /\ IF "saved" \in may
          THEN /\ recording \in {<<Goto(p), NewStep>>, <<NewStep, NewStep>>}
               /\ session = [st |-> "over", target |-> p, steps |-> recording]
          ELSE recording = None /\ session = [st |-> "active", target |-> p, steps |-> <<>>]
  /\ effects = <<>> /\ handler = [h \in 1..MaxActions |-> Idle]
  /\ online = TRUE /\ wire = <<>> /\ tests = <<>>

-----------------------------------------------------------------------------
(* A browser, of a recording or of an execution                            *)

\* What a step does to the page that is there.
Target(b, sel) == {p \in Points : site.selector[<<b.page, p>>] = sel}
Hit(b, el)     == [b EXCEPT !.focus = el, !.to = IF site.goes[el] = None THEN @ ELSE site.goes[el]]
Loaded(b, p)   == [page |-> p, focus |-> None, to |-> None]

\* A selector finds the first element that it fits, and a point whatever is there.
Found(b, step) ==
  IF step.sel = None THEN step.point ELSE CHOOSE p \in Target(b, step.sel) : \A q \in Target(b, step.sel) : p <= q

Acted(b, step) ==
  CASE step.type = "click" -> Hit(b, <<b.page, Found(b, step)>>)
    [] step.type = "press" /\ b.focus # None -> Hit(b, b.focus)
    [] OTHER -> b

Effects(b, step) ==
  CASE step.type = "click" -> <<<<"click", <<b.page, Found(b, step)>>>>>>
    [] step.type = "type" -> [i \in 1..Len(step.text) |-> <<"type", b.focus, step.text[i]>>]
    [] step.type = "press" -> <<<<"press", b.focus>>>>
    [] OTHER -> <<>>

-----------------------------------------------------------------------------
(* The user and the handlers                                               *)

Busy(h)  == handler[h].at \in {"resolve", "act", "loading", "capture"}
Settled  == browser.to = None /\ \A h \in 1..MaxActions : ~Busy(h)

At(h, at) == handler' = [handler EXCEPT ![h].at = at]

\* A message of the page. A handler starts as it arrives: nothing makes it wait for the others.
Perform(step) ==
  \E h \in 1..MaxActions :
    /\ session.st = "active"
    /\ \/ "hasty" \in may /\ h <= MaxHasty
       \/ "hasty" \notin may /\ Settled /\ (wire = <<>> \/ ~online)
    /\ handler[h].at = "idle" /\ \A g \in 1..(h - 1) : handler[g].at # "idle"
    /\ handler' = [handler EXCEPT ![h] =
         [at |-> IF ~online THEN "done" ELSE IF step.point = None THEN "act" ELSE "resolve", do |-> step]]
    /\ UNCHANGED <<site, browser, effects, online, wire, session, recording, tests, may>>

\* The page's clicks, keys and toolbar.
Use ==
  \/ \E p \in Points : Perform([NewStep EXCEPT !.type = "click", !.point = p])
  \/ \E c \in Chars : Perform([NewStep EXCEPT !.type = "type", !.text = <<c>>])
  \/ Perform(NewStep)
  \/ \E p \in Pages : Perform(Goto(p))

\* robustSelectorAt(), on the page that is there. It fails while that page goes away.
Resolve(h) ==
  /\ handler[h].at = "resolve"
  /\ LET el == <<browser.page, handler[h].do.point>> IN
     \/ handler' = [handler EXCEPT ![h].at = "act", ![h].do.sel = site.selector[el]]
     \/ browser.to # None /\ At(h, "act")
  /\ UNCHANGED <<site, browser, effects, online, wire, session, recording, tests, may>>

\* At the point, whatever the selector was. goto() goes on once the page is loaded.
Act(h) ==
  LET do == handler[h].do
      here == [do EXCEPT !.sel = None] IN
  /\ handler[h].at = "act"
  /\ IF do.type = "navigate"
     THEN At(h, "loading") /\ browser' = [browser EXCEPT !.to = do.page] /\ UNCHANGED effects
     ELSE /\ At(h, "capture")
          /\ browser' = Acted(browser, here) /\ effects' = effects \o Effects(browser, here)
  /\ UNCHANGED <<site, online, wire, session, recording, tests, may>>

Emit(step) == wire' = Append(wire, step)

\* The selector when there is one, the point otherwise.
Captured(do) == IF do.sel = None THEN do ELSE [do EXCEPT !.point = None]

Capture(h) ==
  /\ handler[h].at = "capture"
  /\ At(h, "done") /\ Emit(Captured(handler[h].do))
  /\ UNCHANGED <<site, browser, effects, online, session, recording, tests, may>>

\* framenavigated. A goto() to another page is interrupted and fails: its handler captures
\* nothing.
Commit ==
  /\ browser.to # None
  /\ "quick" \in may \/ \A h \in 1..MaxActions : handler[h].at # "capture"
  /\ browser' = Loaded(browser, browser.to)
  /\ handler' = [h \in 1..MaxActions |->
                   IF handler[h].at # "loading" THEN handler[h]
                   ELSE [handler[h] EXCEPT !.at = IF handler[h].do.page = browser.to THEN "capture" ELSE "done"]]
  /\ Emit(Goto(browser.to))
  /\ UNCHANGED <<site, effects, online, session, recording, tests, may>>

\* A page that does not load: goto() rejects and the browser stays where it was.
NotLoaded ==
  /\ "broken" \in may /\ browser.to # None
  /\ browser' = [browser EXCEPT !.to = None]
  /\ handler' = [h \in 1..MaxActions |-> IF handler[h].at # "loading" THEN handler[h]
                                         ELSE [handler[h] EXCEPT !.at = "done"]]
  /\ UNCHANGED <<site, effects, online, wire, session, recording, tests, may>>

\* The container loses its connection, and joins again. What its socket had sent is sent at most
\* once, and lost with the connection; what it emits from now on it keeps until it is back.
Drop ==
  /\ online /\ online' = FALSE
  /\ "lost" \in may \/ ("drop" \in may /\ wire = <<>>)
  /\ wire' = <<>>
  /\ UNCHANGED <<site, browserVars, session, recording, tests, may>>

Rejoin == ~online /\ online' = TRUE /\ session.st # "over"
          /\ UNCHANGED <<site, browserVars, wire, session, recording, tests, may>>

\* handleActionCaptured() and addStep(): a session that is over keeps nothing.
Deliver ==
  /\ wire # <<>> /\ online
  /\ wire' = Tail(wire)
  /\ session' = IF session.st = "over" THEN session ELSE [session EXCEPT !.steps = Append(@, Head(wire))]
  /\ UNCHANGED <<site, browserVars, online, recording, tests, may>>

\* The periodic flush, when there is something to save.
Flush ==
  /\ "part" \in may /\ session.st = "active" /\ session.steps # <<>> /\ recording # session.steps
  /\ recording' = session.steps
  /\ UNCHANGED <<site, browserVars, online, wire, session, tests, may>>

\* stop() saves the steps that there are. The session takes steps until its container is gone.
Stop ==
  /\ session.st = "active"
  /\ "hasty" \in may \/ (Settled /\ wire = <<>>)
  /\ session' = [session EXCEPT !.st = "stopping"] /\ recording' = session.steps
  /\ UNCHANGED <<site, browserVars, online, wire, tests, may>>

Stopped ==
  /\ session.st = "stopping"
  /\ session' = [session EXCEPT !.st = "over"]
  /\ UNCHANGED <<site, browserVars, online, wire, recording, tests, may>>

-----------------------------------------------------------------------------
(* The conversion                                                          *)

\* A recording that does not begin with a navigation begins where it was recorded.
Entered(steps) ==
  IF steps # <<>> /\ Head(steps).type = "navigate" THEN steps ELSE <<Goto(session.target)>> \o steps

\* Mutant: what was typed last replaces what was typed before it.
MergeLast(steps, step) ==
  IF steps # <<>> /\ step.type = "type" /\ Last(steps).type = "type"
  THEN Append(Front(steps), step) ELSE Append(steps, step)

\* Consecutive keys are one text, and two navigations to a page are one.
Merge(steps, step) ==
  CASE steps # <<>> /\ step.type = "type" /\ Last(steps).type = "type" ->
         Append(Front(steps), [Last(steps) EXCEPT !.text = @ \o step.text])
    [] steps # <<>> /\ step.type = "navigate" /\ Last(steps).type = "navigate"
         /\ Last(steps).page = step.page -> steps
    [] OTHER -> Append(steps, step)

\* relativizar() and toTestStep().
ToTestStep(step) == [step EXCEPT !.rel = step.type = "navigate" /\ site.origin[step.page] = Base]

\* collapseSteps(), its loop: upTo[n] is what it has made of the first n steps.
Collapsed(steps) ==
  LET upTo[n \in 0..Len(steps)] == IF n = 0 THEN <<>> ELSE Merge(upTo[n - 1], steps[n])
  IN  upTo[Len(steps)]

Converted(steps) ==
  LET collapsed == Collapsed(Entered(steps)) IN
  [i \in 1..Len(collapsed) |-> ToTestStep(collapsed[i])]

\* The recordings of a session that is not over are listed too; one with no steps cannot be
\* converted.
Convert ==
  /\ recording \notin {None, <<>>}
  /\ session.st = "over" \/ "part" \in may
  /\ Len(tests) < IF "saved" \in may THEN MaxTests ELSE 1
  /\ tests' = Append(tests, Converted(recording))
  /\ UNCHANGED <<site, browserVars, online, wire, session, recording, may>>

Handlers == \E h \in 1..MaxActions : Resolve(h) \/ Act(h) \/ Capture(h)

CaptureNext ==
  \/ Use \/ Handlers \/ Commit \/ NotLoaded \/ Drop \/ Rejoin \/ Deliver
  \/ Flush \/ Stop \/ Stopped \/ Convert

=============================================================================
