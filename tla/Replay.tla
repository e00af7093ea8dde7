------------------------------- MODULE Replay --------------------------------
(***************************************************************************)
(* The tests that a recording was converted into, run in one execution:    *)
(* the container with its batches, the steps of each test in a browser of  *)
(* its own, and what becomes of its results (executor.js). What the worker *)
(* does around the container is in Execution.                              *)
(***************************************************************************)
EXTENDS Capture

CONSTANTS
  Parallel      \* values of projects.maxParallel

(***************************************************************************)
(* moved      the application moves, and the base URL of its project       *)
(* flaky      a step fails that should not                                 *)
(* edited     a step of the test is deleted while it runs                  *)
(* setup      the browser gives no page to a test                          *)
(* close      the context of a test cannot be closed                       *)
(* error      a query fails                                                *)
(* announce   Redis rejects the message that a test has started            *)
(***************************************************************************)
ASSUME ReplayAssumption == Parallel \subseteq 1..20

VARIABLES
  box,      \* the container: not started, up, exited
  width,    \* MAX_PARALLEL
  away,     \* the application has moved
  next,     \* the first test of the next batch
  runner,   \* runTest() for each test
  result,   \* execution_results.status
  rows,     \* step_results, by test
  edited    \* tests that lost a step since the query

boxVars    == <<box, width, away, next, edited>>
resultVars == <<result, rows>>
replayVars == <<boxVars, runner, resultVars>>
vars       == <<captureVars, replayVars>>

-----------------------------------------------------------------------------
\* i is the step under way, and failedIndex + 1 once it failed; did are the stepResults and
\* effects what happened to the web.
Runner == [at : {"waiting", "setup", "steps", "failed", "finally", "insert", "update", "done", "escaped"},
           i : Nat, browser : Browser, did : Seq({"PASSED", "FAILED", "SKIPPED"}),
           status : {"COMPLETED", "FAILED"}, effects : Seq(Effect)]
NewRunner == [at |-> "waiting", i |-> 0, browser |-> [page |-> None, focus |-> None, to |-> None],
              did |-> <<>>, status |-> "COMPLETED", effects |-> <<>>]

All == 1..MaxTests
Ran == 1..Len(tests)

TypeOK ==
  /\ CaptureTypeOK
  /\ box \in {"none", "up", "exited"}
  /\ width \in Parallel \cup {0} /\ away \in BOOLEAN /\ next \in Nat
  /\ runner \in [All -> Runner]
  /\ result \in [All -> {"RUNNING", "COMPLETED", "FAILED"}]
  /\ rows \in [All -> Seq({"PASSED", "FAILED", "SKIPPED"})]
  /\ edited \subseteq All

Init ==
  /\ CaptureInit
  /\ box = "none" /\ width = 0 /\ away = FALSE /\ next = 1 /\ edited = {}
  /\ runner = [t \in All |-> NewRunner]
  /\ result = [t \in All |-> "RUNNING"] /\ rows = [t \in All |-> <<>>]

-----------------------------------------------------------------------------
(* The container                                                           *)

\* The application moves, with the base URL of the project, before the execution.
Move ==
  /\ "moved" \in may /\ box = "none" /\ ~away
  /\ away' = TRUE
  /\ UNCHANGED <<captureVars, box, width, next, edited, runner, resultVars>>

\* Once there are tests: they are read with their steps, each batch after the one before.
Start ==
  /\ box = "none" /\ tests # <<>>
  /\ box' = "up" /\ width' \in Parallel
  /\ UNCHANGED <<captureVars, away, next, edited, runner, resultVars>>

Over(t) == runner[t].at \in {"done", "escaped"}

\* Mutant: a batch takes one test less than it leaves behind.
BatchShort == {t \in Ran : next <= t /\ t < next + width - 1}

Batch == {t \in Ran : next <= t /\ t < next + width}

\* Promise.allSettled: the next batch starts when every test of this one is over, however.
StartBatch ==
  /\ box = "up" /\ next \in Ran
  /\ \A t \in 1..(next - 1) : runner[t].at # "waiting" => Over(t)
  /\ runner' = [t \in All |-> IF t \in Batch THEN [runner[t] EXCEPT !.at = "setup"] ELSE runner[t]]
  /\ next' = next + width
  /\ UNCHANGED <<captureVars, box, width, away, edited, resultVars>>

Exit ==
  /\ box = "up" /\ next \notin Ran
  /\ \A t \in Ran : runner[t].at # "waiting" => Over(t)
  /\ box' = "exited"
  /\ UNCHANGED <<captureVars, width, away, next, edited, runner, resultVars>>

\* A step of a test is deleted by a user. Its results cannot refer to it any more.
EditTest ==
  /\ "edited" \in may /\ box = "up"
  /\ \E t \in Ran : t \notin edited /\ edited' = edited \cup {t}
  /\ UNCHANGED <<captureVars, box, width, away, next, runner, resultVars>>

-----------------------------------------------------------------------------
(* runTest()                                                               *)

Goes(t, r) == runner' = [runner EXCEPT ![t] = r] /\ UNCHANGED <<captureVars, boxVars, resultVars>>

\* result:started, newContext() and newPage(). The message is published before the try: if it is
\* rejected, so is runTest(), and the result of the test stays as it was.
Setup(t) ==
  LET r == runner[t] IN
  /\ r.at = "setup"
  /\ \/ Goes(t, [r EXCEPT !.at = "steps", !.i = 1])
     \/ "setup" \in may /\ Goes(t, [r EXCEPT !.at = "failed"])
     \/ "announce" \in may /\ Goes(t, [r EXCEPT !.at = "escaped"])

\* resolverDestino(): a path is joined to the base URL as it is now, and an address is taken
\* as it is, where the application may not be any more.
Leads(step) == IF step.rel THEN site.origin[step.page] = Base ELSE ~away \/ site.origin[step.page] # Base

\* runStep() does what it is told, if it can: the element that a selector names appears in
\* time or it fails.
Possible(b, step) ==
  CASE step.type = "navigate" -> Leads(step)
    [] step.type # "navigate" /\ step.sel # None -> b.page # None /\ Target(b, step.sel) # {}
    [] OTHER -> b.page # None

\* A page that a step leads to is loaded before the next one: Playwright waits after a click,
\* and a navigation follows whatever else leads away.
Settle(b) == IF b.to = None THEN b ELSE Loaded(b, b.to)

AfterStep(r, step) ==
  [r EXCEPT !.browser = IF step.type = "navigate" THEN Loaded(@, step.page) ELSE Settle(Acted(@, step)),
            !.effects = @ \o Effects(r.browser, step),
            !.did = Append(@, "PASSED"), !.i = @ + 1]

RunStep(t) ==
  LET r == runner[t]
      step == tests[t][r.i] IN
  /\ r.at = "steps" /\ r.i <= Len(tests[t])
  /\ \/ Possible(r.browser, step) /\ Goes(t, AfterStep(r, step))
     \/ ~Possible(r.browser, step) /\ Goes(t, [r EXCEPT !.at = "failed"])
     \/ "flaky" \in may /\ Goes(t, [r EXCEPT !.at = "failed"])

\* The last step has passed.
Pass(t) ==
  LET r == runner[t] IN
  /\ r.at = "steps" /\ r.i > Len(tests[t])
  /\ Goes(t, [r EXCEPT !.at = "finally"])

\* Mutant: what follows the failed step is counted from the step itself.
SkippedFromFailed(t) == [i \in 1..(Len(tests[t]) - runner[t].i + 1) |-> "SKIPPED"]

\* The steps after the failed one, all of them if there was no page (i = 0).
Skipped(t) == [i \in 1..(Len(tests[t]) - runner[t].i) |-> "SKIPPED"]

\* The catch.
Fail(t) ==
  LET r == runner[t] IN
  /\ r.at = "failed"
  /\ Goes(t, [r EXCEPT !.at = "finally", !.status = "FAILED",
                !.did = @ \o (IF r.i > 0 THEN <<"FAILED">> ELSE <<>>) \o Skipped(t)])

\* The finally: a context that cannot be closed rejects, and runTest() with it.
Finally(t) ==
  LET r == runner[t] IN
  /\ r.at = "finally"
  /\ \/ Goes(t, [r EXCEPT !.at = "insert"])
     \/ "close" \in may /\ Goes(t, [r EXCEPT !.at = "escaped"])

\* One query for all the steps: none of them is kept if it fails, and the test goes on.
Insert(t) ==
  LET r == runner[t] IN
  /\ r.at = "insert"
  /\ runner' = [runner EXCEPT ![t].at = "update"]
  /\ \/ t \notin edited /\ rows' = [rows EXCEPT ![t] = r.did]
     \/ (t \in edited \/ "error" \in may) /\ UNCHANGED rows
  /\ UNCHANGED <<captureVars, boxVars, result>>

Update(t) ==
  LET r == runner[t] IN
  /\ r.at = "update"
  /\ \/ result' = [result EXCEPT ![t] = r.status] /\ runner' = [runner EXCEPT ![t].at = "done"]
     \/ "error" \in may /\ runner' = [runner EXCEPT ![t].at = "escaped"] /\ UNCHANGED result
  /\ UNCHANGED <<captureVars, boxVars, rows>>

-----------------------------------------------------------------------------
RunTest(t) ==
  \/ Setup(t) \/ RunStep(t) \/ Pass(t) \/ Fail(t) \/ Finally(t) \/ Insert(t) \/ Update(t)

Next ==
  \/ box = "none" /\ CaptureNext /\ UNCHANGED replayVars
  \/ Move \/ Start \/ StartBatch \/ Exit \/ EditTest
  \/ \E t \in All : RunTest(t)

Spec == Init /\ [][Next]_vars

-----------------------------------------------------------------------------
(* Properties                                                              *)

Without(kinds) == may \cap kinds = {}

\* No two elements of a page have one selector: buildSelectorInPage() does not look whether
\* its answer is unique, only its last resort does.
SelectorsTell == \A e, f \in Element : e[1] = f[1] /\ site.selector[e] = site.selector[f] => e = f

\* What was recorded replays (comment in convertToTest()): a test that was converted from a
\* recording passes, and does to the web what the user did, wherever the application is by
\* now; a recording that was converted before it was finished does the first part of it. The
\* user acts when the last action has settled, no page loads in the middle of one, and no
\* connection breaks with a captured action on its way: nobody sends that one again. (Of a
\* recording that is there already nobody knows what was done, and a test whose runTest()
\* rejected has no verdict.)
Replayable ==
  SelectorsTell /\ Without({"hasty", "quick", "lost", "broken", "saved", "flaky", "setup"}) =>
    \A t \in Ran : runner[t].at = "done" =>
      /\ result[t] = "COMPLETED"
      /\ IF "part" \in may THEN IsPrefix(runner[t].effects, effects) ELSE runner[t].effects = effects

Count(t, st) == Cardinality({i \in 1..Len(rows[t]) : rows[t][i] = st})

\* The results of a judged test are complete (comment in runTest()): one for every step, those
\* that passed, then at most the one that failed, then those that were skipped.
StepsAccounted ==
  Without({"edited", "error"}) =>
    \A t \in Ran : result[t] # "RUNNING" =>
      /\ Len(rows[t]) = Len(tests[t])
      /\ \A i \in 1..Len(rows[t]) - 1 : rows[t][i] # "PASSED" => rows[t][i + 1] = "SKIPPED"
      /\ Count(t, "FAILED") <= 1
      /\ result[t] = "COMPLETED" <=> Count(t, "PASSED") = Len(tests[t])

\* An exit of the container means that every test of the execution was judged, in batches of
\* whatever width, unless a runTest() rejected: allSettled() tells nobody of it.
ExitMeansJudged ==
  box = "exited" /\ Without({"close", "error", "announce"}) => \A t \in Ran : result[t] # "RUNNING"

=============================================================================
