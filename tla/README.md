# EasyTest: a TLA+ model

EasyTest is a no-code platform for end-to-end tests: a user records or writes the steps of
a test in the browser, the platform runs the tests in a container with Playwright and
reports what happened. This directory models the parts of it that keep state and share it,
checks them with TLC and proves the most important facts with TLAPS.

## 1. The system

| part | process | state it keeps | operations |
|---|---|---|---|
| Executions API | NestJS API (`modules/executions`) | rows `executions`, `execution_results`; BullMQ jobs | `trigger`, `cancel` (cancels an active execution, deletes an ended one), reads |
| Execution worker | NestJS worker (`workers/execution`) | the locals of `process()`; the container `exec-<id>` | `process`, `waitForContainerOrAbort`, `transition`, `failExecution` |
| Executor | container (`executor/src/executor.js`) | its list of tests, one browser; rows `step_results` | `main`, `runTest`, `runStep` |
| Live events | API socket gateway, the page's hook | rooms by execution; the status the page shows | relay Redis events, subscribe, unsubscribe |
| Recorder | API (`modules/recorder`), container (`recorder/src/recorder.js`) | in-memory sessions, rows `recordings`, the remote browser | `start`, `addStep`, `flush`, `stop`, `expire`, `convertToTest`, `deleteRecording`; `container:action`, `framenavigated` |
| Authentication | API (`modules/auth`), frontend (`lib/api`, `lib/auth`) | rows `refresh_tokens`, `users`; tokens in the browser | `register`, `login`, `refresh`, `logout`, the axios interceptor |
| Organizations | API (`modules/organizations`) | rows `memberships`, `organizations` | `invite`, `updateRole`, `remove`, `create`, `update` |
| Tests, steps and versions | API (`modules/tests`), the visual editor | rows `tests`, `test_steps`, `test_versions`; the editor's copy | edits, reorder, `snapshot`, status, archive; drag, add, save |
| AI | API (`modules/ai`), worker (`auto-healing`) | rows `selector_healing_logs`, `ai_audit_logs` | `propose`, `proposeAutomatic`, `approve`, `reject`; code and documentation of a test |
| Projects, suites, secrets, git, flow | API and the pages that list them | their rows; what a page shows | list, create, archive or delete |
| Demonstration data | a script run by hand (`prisma/seed.ts`) | rows of every table | `sembrar`, `borrar`, `--forzar`, `--borrar` |
| Reports, artifacts, vault, configuration | API, worker | files, environment | reads, formatting, encryption |

How they interact: the API and the worker share Postgres, Redis carries the queue (BullMQ)
and two kinds of notices (`execution:cancel` to the workers, `execution:<id>:events` to the
gateway), Docker runs one container per execution and per recording, and a container talks
to Postgres and Redis by itself. A browser reaches the API with HTTP calls, which may be
answered in any order, and two sockets. Few of these steps share a transaction: between two
awaits of one process the others take steps, and any of the awaits may reject.

What is hard: a cancellation or a deletion at any await of the worker; retries and stalled
jobs that run `process()` again over what the first run left; a container that outlives its
worker; errors inside the error path; notices that get lost; a save in flight while the
final save is made; handlers of one browser that nothing queues; two requests that read the
same row and then both write; a page that shows an answer which another has overtaken; a
copy in the editor that is older than the table; a script that stops between two queries.
`PROJECT.json` lists each such hazard at its line with the properties that watch it.

### What makes each part correct

* Executions: a cancellation is final; green means that everything ran; whatever is
  triggered ends; no container is left behind; no result stays open in an execution that
  was cancelled; a retry replaces the results of the attempt before it; every test that the
  container takes is judged, and every step of it accounted for.
* The page of an execution: it shows its own execution, and in the end how it ended.
* Recorder: no captured step is lost by stopping; the saves of a session do not undo each
  other; every session ends and takes its container with it; what was recorded replays.
* Authentication: a refresh token is exchanged once; a session that is still good is not
  lost to a race of two requests; nobody waits for a refresh that cannot end.
* Organizations: there is always an administrator; a registration gives up only when its
  name is really taken.
* Tests: what a test was before an edit is in one of its versions; two edits never take one
  number; what the editor saved is what it showed; a rejected selector is in no step.
* Lists and forms: a page ends on what the table holds; what a user starts concerns the row
  that the user chose.
* Demonstration: a run that says it has seeded leaves the whole of it; what a failed run
  left, the next one repairs.

## 2. Modules

| module | what it is |
|---|---|
| `Execution` | API, BullMQ job, worker and container of an execution |
| `ExecutionLifecycle` | the abstract specification: what the status of an execution may do |
| `ExecutionView` | the gateway, the socket, the polling and the page of an execution, over the lifecycle |
| `Recorder` | sessions of the recorder, their saves, their containers, and the API process that holds them |
| `Capture` | the remote browser and its handlers, the steps that are captured, and their conversion |
| `Replay` | the tests of a conversion, run by the executor: extends `Capture` |
| `Session` | the refresh tokens of the API and the tabs of a browser that exchange them |
| `Accounts` | registration, organizations and their members, several requests at a time |
| `Seed` | the script of the demonstration data, on the same tables: extends `Accounts` |
| `Authoring` | one test under edits, versions, AI writers and the visual editor |
| `Panels` | the pages that list rows, the page of a test, and the dialog that converts a recording |
| `MCExecution`, `MCExecutionView`, `MCRecorder`, `MCReplay`, `MCSession`, `MCAccounts`, `MCAuthoring`, `MCPanels` | the same for TLC: symmetry, and the webs of `MCReplay` (`MCAccounts` extends `Seed`) |
| `ExecutionProofs` | proofs: types, `CancelIsFinal`, `NoOrphanContainer`, `NoFalseAbort`, `FollowsLifecycle`, `NoGreenWithoutRun`, `OneBatch`, `VerdictKept`, `ResultsClosedAtRest` |
| `ExecutionViewProofs` | proofs: types, `ShowsOwn` |
| `RecorderProofs` | proofs: types, `NoOrphanBox`, `StopKeepsSteps`, `RecordingGrows` |
| `ReplayProofs` | proofs: types, of `Capture` too, `ExitMeansJudged`, `StepsAccounted`, `Replayable` |
| `SessionProofs` | proofs: types, `ExchangedOnce`, `StoredIsLive`, `SessionKept` |
| `AccountsProofs` | proofs: types, of `Seed` too, `HasAdmin`, `RefusedOnlyLast`, `GivesUpOnlyIfTaken`, `SeededIsWhole`, `FailsOnlyAfterCrash` |
| `AuthoringProofs` | proofs: types, `EditsDoNotCollide`, `EveryStateKept`, `RejectedNotApplied`, `SaveSticks` |
| `PanelsProofs` | proofs: types, `PageSettles`, `ConvertsWhereChosen`, `RunsActive` |

How they compose: `Execution` is checked and proved to implement `ExecutionLifecycle`, and
`ExecutionView` moves its executions by the actions of `ExecutionLifecycle` only, so what
the page is shown to do it does over anything that `Execution` may do to a status. `Replay`
takes the tests that `Capture` converts; `Seed` writes the tables of `Accounts` and its next
state is a step of either. `Recorder` and `Capture` are two views of one session, its life
and its contents: the first counts the steps of a recording and has the crashes, the second
has the steps themselves and one session that does not crash. Each module begins with the
circumstances (faults, habits of the user) that may be chosen; they are chosen at the start
of a behaviour from `Environments` and never change, and each may then happen any number of
times.

### Execution

| variable | code |
|---|---|
| `status` | `executions.status` |
| `rows` | `execution_results`: the test, the call of `process()` that inserted the row, its status; `ran` is history and says that the executor put the test to the browser |
| `req` | where a `DELETE /executions/:id` stands between the awaits of `cancel()` |
| `job` | the BullMQ job with `jobId = execution.id`: its lock, failed attempts, stalls |
| `worker` | the locals of `process()`: `held` is `containerId`, `ear` the subscription to the cancellation channel, `mode` tells whether an error goes to the `catch`, out of it, or went out already |
| `box` | the container `exec-<id>`: which run created it, what it does, the rows it has still to run |
| `faults` | what may go wrong in this behaviour, chosen at the start from `Environments` and never changed; each fault may then happen any number of times |

One action stands for what a process does between two awaits that touch shared state.
`Transition` is `transition()`: the conditional update (`status <> CANCELLED`) and, when it
touched a row, the publish, which may reject after the row was written. `Raise` is the
`catch`: the first error leads to `failExecution()`, an error inside that leaves
`process()` through the `finally` and makes BullMQ try again. The wait on the container is
one label with one action per competitor (`WaitExit`, `WaitTimeout`, `WaitNotice`,
`WaitPoll`) and one for each way in which they fail (`WaitFails`, `PollFails`).

The actions of the environment are the users' (`Trigger`, `ReadForCancel`), BullMQ's
(`TakeJob`, `Settle`, `Stall`, `LoseLock`), the container's (`Boot`, `RunTest`, `ExitClean`,
`ExitDirty`) and the faults. A fault is an outcome of an action that the code awaits, never
a change of state that the code could not meet.

What is abstracted: texts, time stamps, artifact URLs, secrets and logs; which tests a
trigger selects (any subset, so a test may be deactivated between two runs); the time-outs
of the steps (a container may finish whenever it likes or, with the fault `hang`, never).
The healing proposals that the worker asks for before the final transition change no state
of this module; they are in `Authoring`.

### Recorder

| variable | code |
|---|---|
| `session` | the `Map` of `RecorderService` and where `start()` stands; "out" is out of the Map |
| `steps` | `session.steps`: steps are only appended, so a list is its length |
| `timers` | `expireTimer` and `flushTimer`, those not cleared |
| `ender` | a call of `stop()` or of `expire()` between its awaits: saving, then destroying the container |
| `pending` | upserts on their way to Postgres, each with the steps at its call |
| `rec` | the row of `recordings` |
| `box` | the container `recorder-<sessionId>` |
| `backend` | the API process: up, in its shutdown hooks, or down |
| `promised` | history: the steps that were there when a `stop()` that resolved was called |

`Persist` takes the steps as they are at the call and `Serve` is Postgres running the
upsert, so a flush, a `stop()`, a second one and the expiry may all be on their way at once.
`Answered` is what the `finally` of `stop()` and the `try` of `expire()` are for: a save
that fails leads to the removal of the container like one that does not. `Die` takes the
Map with it, `NeverSent` the last upserts, and `Boot` is the sweep of `onModuleInit()`.
Abstracted: what a step contains (that is `Capture`), who may see a session, the image
check, the tokens.

### Session

| variable | code |
|---|---|
| `token` | `refresh_tokens`: live, revoked (`revokedAt`) or expired (`expiresAt`) |
| `exchanged` | history: how often a token was exchanged for another |
| `stored` | the refresh token in `localStorage`, shared by the tabs of the browser |
| `tab` | the memory of a page: what the router shows, the access token in the store, whether the interceptor's `refreshing` is set |
| `call` | requests of a page: calls of the application, `boot` (the refresh of `App.tsx`), `inner` (the one of the interceptor), `exit` (the sign-out) |
| `adrift` | the tokens that a request of a page that is gone may still revoke at the API |

A request is sent, answered and received in separate steps. `Denied` is the interceptor on
a 401 that was not retried: it joins the refresh under way or begins one, and `inner` goes
through it like any other request. `Check` and `Exchange` are the two halves of `refresh()`:
the read of the token, and its revocation by id with the creation of the new one. A page
that goes (`Reload`, or the interceptor's own `/login`) takes its memory and the answers with
it, and not what it asked (`Gone`): the API may still revoke the token that was to be exchanged
or signed out, at any later moment (`Stray`), before, between or after the two halves of the
refresh that the next page asks for. The token that it creates for a page that is gone reaches
nobody, so it has no number. A sign-in that is refused (`SignInRefused`) is a 401 like any
other to the interceptor: it exchanges the token that is stored, or loads `/login`. Users,
their organizations and what the calls carry are left out, so a refresh is refused for its
token only.

### Accounts

| variable | code |
|---|---|
| `registered` | `users`, by their email |
| `slug` | `organizations`: a slug is the reduced name and the number behind it |
| `role` | `memberships` |
| `req` | a request: which query of its handler comes next, and the handler's locals (`tries` and `k` are the two variables called `attempt`) |
| `kinds` | which operations are requested in this behaviour, and `race`: two requests that may lower an administrator of one organization overlap |

One action is one query: `Probe` is a turn of the loop in `freeSlug()` and `uniqueSlug()`,
`Registers` and `Creates` are the transactions that follow, `ReadMembership`, `Count` and
`Write` are `updateRole()` and `remove()`, and `ReadForInvite` and `Write` are `invite()`.
`Ask` admits what `RoleGuard` and the check in `remove()` admit. A write that meets a row it
did not expect is an error of Prisma, and an answer 500. Passwords, profiles and texts are
left out, and so is the reduction of a name to a slug: two names may give the same one.

### ExecutionView

| variable | code |
|---|---|
| `status`, `run` | the row, by the lifecycle; how many of its results are final, whether the closing of the others is still to come, whether anybody still works on it, and where its wait for the container stands (`wait`) |
| `link`, `asks` | the socket of the browser and its messages to the gateway, or socket.io's buffer while it is not up |
| `checking`, `room` | the gateway: subscriptions between their `await ownsExecution()` and their `join`, and the rooms of the socket |
| `wire` | status events relayed by the gateway and not received yet |
| `page` | `useExecutionSocket` and `ExecutionDetailPage`: the last live status, the execution as it was fetched, the results shown, whether the interval runs |
| `calls` | HTTP requests of the page: what they read so far; the two reads of `Promise.all` are separate |
| `listed`, `request` | what the list in another tab says, and a `DELETE` with the question that the user confirmed |

`Transition` is a status with its event, `Judge` a result of the executor, `CloseResults`
what follows the status of a failed execution. A cancellation has an event only while the
worker waits for the container (`Abort`); one that comes before or after that wait, or with
the container exiting first, finds no row to write, publishes nothing and closes nothing
(`Overtaken`). `Handle` and `Join` are the two halves of
`handleSubscribe()`. `Serve` reads, `Land` is the answer in the page, in any order with the
circumstance `slow`. `Badge` is `displayStatus`, which prefers what an event said.

### Capture and Replay

| variable | code |
|---|---|
| `site` | the web that is recorded: which clicks lead where, the selectors of its elements, the address of each page |
| `browser`, `effects` | the page, the focus and the navigation under way; history: what happened to the elements |
| `handler` | the handlers of `container:action`, one per message: resolving a selector, acting, waiting for a `goto`, capturing |
| `online`, `wire` | the container's socket; `action:captured`, kept by socket.io while it is not connected, lost when it was on its way as the connection broke (`Drop`) |
| `session`, `recording`, `tests` | the session's steps, the row of `recordings`, and the tests converted from it |
| `box`, `width`, `next` | the executor: `main()` with `MAX_PARALLEL` and its batches |
| `runner`, `result`, `rows` | `runTest()` for each test with its browser, `execution_results.status`, `step_results` |
| `away`, `edited` | the application has moved with its base URL; tests that lost a step during the run |

A message starts a handler at once and nothing makes it wait for another (`Perform`).
`Commit` is `framenavigated`. `Converted` is `convertToTest()`: the entry, the collapse of
typed characters and repeated navigations, and addresses made relative to the base URL. The
executor's browser acts by the same operators (`Acted`, `Effects`) as the recorder's: the web
is the same for both, and what differs is what was captured. `Setup` is the start of
`runTest()`: the message of the start, which may be rejected before the `try` (`announce`) and
then leaves the test RUNNING, and the context and the page of the browser. What is on a page is a few
elements; scrolling, time and the contents of an application are left out.

### Seed

`script` is a run of `seed.ts`: the query that comes next, the mode, and where it stands
among its users. `rows` counts how much of the story (a project, a suite, tests, an
execution, results, a proposal) hangs from an organization, `audited` says who has a row in
`ai_audit_logs`, which keeps a user from being deleted. `Begin`, `CountReal`, `Look`,
`Find`, `DeleteOrg`, `DeleteUsers`, `CreateOrg`, `CreateUser`, `CreateMember` and `Tell` are
its queries, each in a transaction of its own as Prisma makes them. An environment has
either the script or requests of `Accounts`: what a request does whose organization the
script deletes meanwhile is not modelled. `UseAi` is the one thing that users do beside it.

### Authoring

| variable | code |
|---|---|
| `step`, `code`, `docs` | `test_steps` (who wrote the selector, the place), the generated code and what the documentation is about |
| `versions`, `lock` | `test_versions` and the advisory lock of `snapshot()` |
| `log`, `applied` | `selector_healing_logs`; history: proposals that reached their step |
| `req` | requests between two of their queries: `Check`, `Lock`, `ReadTest`, `ReadSteps`, `Commit` are an edit in its transaction, `Supersede` and `CreateLog` a proposal, `ReadLog`, `Apply` and `Mark` a decision |
| `page` | `FlowEditorPage`: the copy of the steps, what is being saved, the calls still to be made |

`ReadTest` and `ReadSteps` are the queries of `snapshot()`, which other transactions may
come between; `Commit` is everything that becomes visible at once. The three requests are
any of the API's, the AI's and the worker's; the editor has its own.

### Panels

| variable | code |
|---|---|
| `env` | the page, by what it does with an answer (the records `RecordingsPage` to `ConvertModal`), and the circumstances |
| `table` | the rows it is about, each with its scope and status |
| `place`, `shown`, `chosen` | the address or the project of the dialog; the list with its loading and error; the suite of the dialog |
| `calls` | its calls with what they were answered, and whether anybody still listens |

`Serve` and `Refuse` are the API, `Deliver` the `then` and `catch` of the page. `Given` is what
a list is answered with: what the table has, but for the members, whom
`GET /organizations/:id` leaves out, so that their panel shows none. A page that
is left forgets its lists but goes on with what it started (`GoOn`), which is how the code
comes to navigate for a user who is elsewhere. `TransicionVista` gives each address a key,
so another address is another page: `Open` begins anew.

## 3. Runs

| run | instance | what it shows |
|---|---|---|
| `ExecutionFaults` | 1 test, 1 execution (2 in the environment `two`), 2 workers (the second acts only when a lock is lost), 8 environments; 1.6 million states | type, `NoGreenWithoutRun`, `OneBatch`, `NoOrphanContainer`, `ResultsClosedAtRest`, `CancelIsFinal`, `VerdictKept`, that the status implements `ExecutionLifecycle` (`FollowsLifecycle`), and `NoFalseAbort` across executions that share the channel |
| `ExecutionLive` | 2 tests, 1 worker, 2 environments, with fairness; 0.1 million states | `CancelStopsContainer`, `EveryExecutionEnds` |
| `ViewFaults` | 1 execution (2 in `two`) of 1 result, 2 requests at a time, 6 environments, with fairness; 0.3 million states | `ShowsOwn`, `BadgeSettles`, `ResultsSettle` |
| `RecorderFaults` | 1 session, 2 calls of `stop()` and the expiry, 2 steps, 4 environments, with fairness; 0.2 million states | `NoOrphanBox`, `StopKeepsSteps`, `RecordingGrows`, `SessionsEnd`, `StepsArePersisted` |
| `ReplayFaults` | 2 webs of 2 pages with 2 elements, 3 actions (2 of a hasty user), 1 or 2 tests at a time, 9 environments; 2.8 million states | `Replayable`, `StepsAccounted`, `ExitMeansJudged` |
| `SessionFaults` | 2 tabs, 2 calls in each, 3 events, 4 environments; 0.1 million states | type, `ExchangedOnce`, `StoredIsLive`, `SessionKept` |
| `AccountsRaces` | 4 people, 3 names, up to 4 organizations, 3 requests, 2 attempts; 3 runs of the script, 2 at a time; 7 environments; 0.1 million states | type, `HasAdmin`, `RefusedOnlyLast`, `GivesUpOnlyIfTaken`, `SeededIsWhole`, `FailsOnlyAfterCrash` |
| `AuthoringRaces` | a test of 1 or 2 steps of 3, 3 requests, an editor with 3 edits, 6 environments; 0.2 million states | type, `EditsDoNotCollide`, `EveryStateKept`, `RejectedNotApplied`, `SaveSticks` |
| `PanelsRaces` | 3 rows in 2 scopes, 2 calls at a time, 5 acts of the user or others, 12 environments; 0.5 million states | `PageSettles`, `ConvertsWhereChosen`, `RunsActive` |

Counts are of states up to the symmetry of the instance, where there is one. Runs with
liveness use none. The type invariants of `ExecutionView`, `Recorder`, `Capture`, `Replay`,
`Seed` and `Panels` are there to say what the variables hold; no run lists them, and all of
them are proved.

Each property begins with the circumstances it does not survive (`Without`). The condition
is not padding: each of them breaks the property, and TLC finds the behaviour when it is
taken out of the condition. In short:

* a lost lock breaks what depends on one worker per execution; it does not break
  `CancelIsFinal` or `NoOrphanContainer`;
* a crash of the worker, a refused query or a refused publish can leave an execution
  unfinished for good, or run it again after its end;
* a container that Docker created and could not start, or could not remove, stays;
* lost events leave the badge behind (`BadgeSettles`), and so does a cancellation that the
  worker finds out too late to tell anybody (`Announced`). The results are fetched by the
  polling; what breaks those is an answer that is overtaken or refused, and a worker that
  closes the results after the status was read;
* a captured action that was on its way when the connection broke is missing from the test
  (`lost`); a connection that breaks otherwise (`drop`) costs nothing;
* a recording of a user who does not wait, or of a page that loads within a click, does not
  replay as it was made; nor does one whose selectors fit several elements. A recording that
  is there from the start (`saved`) has steps of its own and nothing that a user did, so
  `Replayable` says nothing of it: it is there for what the executor does with two tests;
* where answers are not guarded by what superseded them, which is everywhere but in
  `useRecordings`, a page is right only for a user who waits.

Bounds. One execution is enough for everything but the cancellation channel and the rooms of
the socket, what two executions share besides the worker: there the environment is `two`. In
`ExecutionLive` two tests tell "some" from "all" results; the safety run has one, so that a
second worker and all of the faults fit. One worker and one execution already interleave
with the API, BullMQ and the container, and a second worker matters only when a lock is
lost. Attempts (2) and stalls (1) are the code's own limits, so behaviours are finite
without a bound of the model's.

For the page two requests at a time (`Slots`) are a load and a poll, or two polls, which is
what can overtake one another; `MaxWire` = 1 holds one event back while the others wait at
the worker, and a page is opened once or, with `two`, twice.

For the recorder one session is enough, since sessions share only the process. Two steps
tell an older save from a newer one; two calls of `stop()` and the timer are every kind of
double end; `MaxFlushes` = 2 lets a flush be sent while another is on its way.

For a recording three actions on two pages are a click that leads to another page, what is
typed there, and something after it (`MaxActions`); a hasty user has two (`MaxHasty`), all
of which overlap. One web has its second page at another address with its elements in
another order, so that a selector that is taken on the wrong page finds the wrong element;
the other has two elements of one selector, and `Replayable` claims nothing of it. A
recording is converted once, or twice when it is there already (`MaxTests`), for which
`Parallel` = {1, 2} makes two batches or one.

For the session two calls are what can meet a 401 at one time, and two tabs what can hold
one token. `MaxEvents` = 3 bounds loads, sign-ins and expiries of access tokens, which is
what bounds the number of tokens: two tabs and an expiry, or three expiries in one tab.

For the accounts each request is made once. Three are what one registration needs to lose
its slug twice, which is all of its attempts (`MaxAttempts` = 2 instead of the code's 5);
two would show the race of two administrators. Names, members and the demonstration are
separate environments: a third run of the script (`MaxRuns` = 3) repairs what a second one
left of the first. Two at a time are enough for what `SeededIsWhole` says; with three, or with
a fourth run, runs that overlap may also delete a user of each other's, which is why it says
nothing of the users then. The proofs hold for any number of users, names and requests.

For a test three requests are a proposal and its two decisions, or an edit that reads while
two others write; three steps are what a drag needs to move one past another with one to be
added; `MaxEdits` = 3 is a change, a save and a change of what was saved.

For the pages two calls are a list and what makes it old, five acts (`MaxActs`) are opening,
two changes, and going elsewhere and back; a second scope tells what a page is about from
what it is not.

Fairness of `Execution`: the code of a handler or of `process()` that has been started runs
on, BullMQ runs its stalled check, a job that waits is taken by a worker that is free again
and again (strong fairness: the worker is busy with other jobs in between), and a container
ends because each step of a test has a time limit of its own, unless it hangs. Users,
time-outs and faults are not assumed to happen; `CancelStopsContainer` and
`EveryExecutionEnds` do not rest on `EXECUTION_TIMEOUT_MS`.

Fairness of `Recorder`: handlers that were begun run on, Postgres answers, both timers fire
(Node's timers do), and a process in its shutdown hooks ends (Docker kills it after ten
seconds, says the comment in `main.ts`). Nobody is assumed to stop a session.

Fairness of `ExecutionView`: executions go on, the socket connects and delivers what is not
lost (socket.io reconnects by itself), the API answers and answers land, and an interval
that is set fires (strong fairness, as it is set and cleared with the page's state). Nobody
is assumed to open a page, to leave it or to press a button. The two properties are of the
form `<>[]`: what the page shows may be behind at any time, but not for good.

### Disagreements between the code and what it says

| run | what TLC finds |
|---|---|
| `FindingNothingToRun` | an active test without an enabled step ends COMPLETED, with nothing failing. Rule P5 of the project calls that critical, and `porQueNoHayNada()` has a message for the case that is never reached |
| `FindingRefreshHangs` | a refresh that is refused comes back through the interceptor and awaits itself: neither the interceptor's own sign-out nor the end of the load in `App.tsx` is ever reached |
| `FindingCancelDeletes` | a user confirms a cancellation, on a list that was loaded a while ago or on a page that is behind; the execution has ended, and the API deletes it |

Others are visible in the conditions of the properties, or were met while modelling:

* Executions. A container whose `start()` is refused is not removed by the `finally`
  (`NoOrphanContainer` excludes `start`). A test whose `result:started` cannot be published
  is left out of an execution that ends COMPLETED (`NoGreenWithoutRun` excludes `announce`).
  When the executor exits with an error the execution is FAILED and results stay RUNNING, and
  a rejected query of the poll is read as a deletion (`ResultsClosedAtRest`, `NoFalseAbort`).
  `context.close()`, the UPDATE of a result and, before the `try`, the message of the start
  reject out of `runTest()`, which `allSettled()` tells nobody (`ExitMeansJudged` excludes
  `close`, `error` and `announce`); the results of all steps are one INSERT, and none is kept
  if one step was deleted meanwhile (`StepsAccounted`).
* The page. The badge prefers the last status that it heard to what it fetches
  (`BadgeSettles` excludes lost events). Only the branch of `process()` that ends the wait
  publishes CANCELLED: of a cancellation before or after the wait the worker publishes
  nothing, and the badge goes on to show what it heard last (`Announced`). The page takes an
  event of whatever room the socket is in (`ShowsOwn` excludes `early`, and `cancel`, where
  the answer to a cancellation takes the page away before its subscription is answered), and
  the results of a cancelled execution may stay RUNNING.
* Recorder. A flush that Postgres runs after the final save puts the older steps back, for
  nothing in the upsert compares the two (`StopKeepsSteps` excludes `reorder`); the first
  flush creates the row with the default of `stoppedAt`, so a recording that goes on looks
  stopped; steps captured while `stop()` awaits are accepted and lost. A navigation that
  comes before the click that caused it becomes the entry of the test (`Replayable` excludes
  `quick`), although `recorder.service.ts:180` says that the first step is always where it
  was recorded. A captured action that was on its way as the socket closed was done and is
  not sent again (`Replayable` excludes `lost`); selectors that `buildSelectorInPage()`
  returns need not be unique.
* Tokens. Two tabs that load together exchange one refresh token twice, for `refresh()`
  revokes what it read without looking again (`ExchangedOnce` counts tabs). So do a page and
  the one that is loaded after it in its tab, when the API is still between the two halves of
  the first one's refresh: both get a token, one of which nobody receives (`ExchangedOnce`
  counts the exchanges of pages that are there, not this one). A tab whose
  exchange was cut off leaves the browser with a revoked token (`StoredIsLive` excludes
  `reload`); a refresh that overlaps a sign-out stores its token after it.
* Organizations. Two administrators who leave together are both let go, and the organization
  has none (`HasAdmin` excludes `race`); an `update()` or an `invite()` that loses a race
  answers 500.
* Demonstration. A demonstration user who used the AI cannot be deleted, as
  `ai_audit_logs.userId` restricts it: `borrar()` has deleted the organization by then, and
  every later run fails too (`FailsOnlyAfterCrash` excludes `ai`), although `seed.ts:10` says
  that running it twice is running it once. After a crash between the two deletes `--borrar`
  finds nothing to delete.
* Tests. `approve()` and the generated code write without a version (`EveryStateKept`
  excludes them). When a proposal is approved between the check of `reject()` and its write,
  the selector is applied and the proposal says rejected, which the comment at
  `self-healing.service.ts:207` says the check prevents; so it ends, too, when the second
  query of `approve()` fails and somebody then rejects what is still pending
  (`RejectedNotApplied` excludes `overlap` and `error`). A step removed in the editor comes
  back, two that are added at once get one place (`SaveSticks`); a step that was executed
  cannot be deleted; documentation describes steps that may have changed while the AI was
  thinking.
* Pages. The form of a Git integration sends `branch`, the DTO calls it `defaultBranch` and
  refuses what it does not know: it is never created, and the page does not say so. The panel
  of the members shows none, as the organization that it asks for comes without them
  (`PageSettles` says nothing of its rows). The dialog of a conversion keeps the suites of
  another project when a load fails or the project is unset, takes whatever load answers
  last, and its button stays on while it converts (`Button` uses `disabled ?? loading`). A
  list whose load failed looks empty on several pages. `handleRun()` and the conversion lead
  to their result wherever the user is by then.

## 4. Proofs

Every safety invariant and every safety property of a step that the runs check on a small
instance is proved for all values of the constants. The theorems carry the conditions of the
properties (`Without`) and no others. What the proofs assume of the constants:

| module | assumptions |
|---|---|
| `Execution` | environments are sets of faults; `None` is neither an execution nor a worker; the tests without steps are tests |
| `ExecutionView` | environments are sets of circumstances; `Results` is positive, `MaxWire` and the slots are numbers; `None` is no execution |
| `Recorder` | environments are sets of faults; the timer is no caller of `stop()`, and `"flush"` names neither; `MaxSteps` and `MaxFlushes` are numbers |
| `Capture`, `Replay` | `Sites` is a set of webs, `Base` an origin, the points finitely many numbers; the bounds are numbers, `MaxTests` positive; `None` stands for nothing else; `Parallel` is what `MAX_PARALLEL` may be, 1 to 20 |
| `Session` | environments are sets of faults; the tabs are finitely many; no call of the application is named like one of the page's own; `MaxEvents` is a number |
| `Accounts`, `Seed` | the users are finitely many; `ADMIN` and `EDITOR` are roles; `MaxAttempts` and `MaxRuns` are positive; the demonstration's two users are different users, and its name is a name; `None` stands for nothing else |
| `Authoring` | the steps are finitely many; the editor's requests are not those of the API; `MaxEdits` is a number; `None` stands for nothing else and is no row |
| `Panels` | an environment is one page and some circumstances; `MaxActs` is a number; `None` and `NoProject` stand for nothing else |

How many executions, tests, workers, sessions, requests, calls or rows there are is left open.

### Execution (`ExecutionProofs`)

* `TypeCorrect`: `TypeOK` alone is not inductive: a job that is tried again must have tries
  left (`JobHasTries`), a busy worker must have an execution (`HasExecution`), and a job exists
  only after its row (`NoRowNoJob`).
* `CancellationFinal`: `CancelIsFinal`. Every write of the worker goes through the conditional
  update; only the API's own delete leaves CANCELLED.
* `GreenMeansRun` and `ResultsOfOneBatch`: `NoGreenWithoutRun` and `OneBatch`. The inductive
  invariant (`GreenInv`) says of each worker that it owns its job while locks hold (`Owns`),
  that it holds only the container of its own run (`BoxOfRun`), that from the insertion on the
  rows are those of its run or the execution is deleted (`RowsOfRun`), and that a clean exit was
  seen only with every row run (`CleanMeansRan`); and of each execution that its container
  covers the rows of its run (`BoxCovers`). The last is what makes a container that outlived a
  crash harmless: it carries the number of an older run, so its exit says nothing about the new
  rows. The invariant holds while no lock is lost; both theorems carry that condition.
* `NoContainerLeft`: `NoOrphanContainer`. Every container that stands has a worker that is
  about to start it or holds it, somewhere before its `finally` (`KeptInv`). It holds with two
  workers on one execution too, as `removeByName()` takes the other's container away.
* `VerdictStays`: `VerdictKept`. No test may run twice over the rows of one run: there is one
  row per test, a run that waits for its container finds none that ran, and what a running
  container has still to do has not run (`UnrunInv`). A second container would break it, and
  `KeptInv` excludes that one.
* `LifecycleFollowed`: `FollowsLifecycle`, the refinement of `ExecutionLifecycle`: initial
  states map to initial states, and each step to one of the lifecycle or to a stutter. A step
  of a worker that writes a status must be known to find the one before it, which is what
  `CourseInv` is for: while one worker at most is at an execution, its place in `process()`
  tells the status of the row, or the row was cancelled or deleted (`Staged`), and the row of a
  job that may still run has not ended (`Record`). Where `process()` may be run again after it
  wrote a status, the lifecycle allows for that (`again`); that it leaves CANCELLED only to be
  deleted, and is queued once, it keeps with every fault.
* `AbortIsTrue`: `NoFalseAbort`, from the same invariant: what a worker was told of a
  cancellation, by a notice or by the poll, stays true (`ToldTrue`).
* `ResultsClosed`: `ResultsClosedAtRest`. `ClosingInv` goes through `process()` and says what
  each stretch of it knows of the results and of the container; what is still RUNNING in a
  container that runs, the container has still to do.

### The page of an execution (`ExecutionViewProofs`)

* `ViewTypeCorrect`: `TypeOK`, with nothing kept by a page that is not open (`NothingOpen`).
* `PageShowsOwn`: `ShowsOwn`. While a page is open, the checks of the gateway, the rooms of the
  socket, the messages to the gateway and the events on the wire are of its execution
  (`RoomsOwn`); while none is, each room has its `unsubscribe` on the way (`RoomsLeft`). The
  attempt found a case that the bounds of the run had missed: when the answer to the page's own
  cancellation comes before the one to its subscription, the page goes and the gateway joins
  the room afterwards, for good. `ShowsOwn` excludes `cancel` for it since.

### Recorder (`RecorderProofs`)

* `TypeCorrect`: `TypeOK`, which no run lists.
* `NoContainerLeft`: `NoOrphanBox`, from a container having its session in every state in which
  the process can take a step (`BoxHasSession`).
* `StopVouchesForSteps` and `SavesOnlyAdd`: `StopKeepsSteps` and `RecordingGrows`. The saves
  under way of a session hold more and more steps, all of them at least what the row has and
  what was vouched for (`Ordered`); the save that an ender awaits holds what it owes, and so
  does the row once the save was answered (`Owed`); and a session that is not active yet has
  nothing under way, so a second start of it begins from nothing (`Young`). This holds where
  Postgres runs the saves in the order of their calls.

### Session (`SessionProofs`)

* `TypeCorrect`: `TypeOK`, with what a request may carry where it stands (`Requests`, `Bodies`).
* `OneExchange`: `ExchangedOnce`. The exchanges that were made of a token and those that were
  found good and are still to be made are together no more than the tabs (`ExchangeInv`), since
  a tab has one refresh under way at most (`TabInv`). It speaks of the pages that are there; an
  exchange that goes on for a page that is gone is in no tab, and is not counted.
* `HeldIsLive` and `NotThrownOut`: `StoredIsLive` and `SessionKept`. `HoldInv` follows one tab
  from its load to its sign-out and says where the one good refresh token is: stored, or in the
  answer that is on its way.

### Replay (`ReplayProofs`)

* `ExitJudgesAll`: `ExitMeansJudged`. Every test before `next` was begun and the container exits
  when all are over (`BatchInv`), whatever the width of a batch; a test that is over was judged
  unless its browser did not close, a query failed or its start could not be announced.
* `ReplayTypeCorrect`: `TypeOK` with `CaptureTypeOK`. What is captured of an action is a step
  that a browser can be told (`CanDo`, `CapturedIs`), to merge two such steps gives another
  (`MergeKeeps`), and the browser of a runner has no page on its way between two steps.
* `StepsAreAccounted`: `StepsAccounted`. What a runner has recorded so far is PASSED for each
  step, then one FAILED, then SKIPPED to the end of the test (`Reached`), and what is written is
  what the runner has (`Written`). That a test has steps at all (`Lengths`) is the conversion's
  doing, which leaves at least the entry.
* `RecordingsReplay`: `Replayable`, for any web whose selectors tell its elements apart, any
  number of actions and any number of characters in a text. It relates four things that are
  made of each other, by what a sequence of steps does to a browser that has no page yet
  (`Yields`). `RecordInv`: what was captured, wherever it is between the container and the
  session (`Full`), yields where the user is, or where the user was before the one action
  that is under way, and the handler of that action is about to capture the difference
  (`Phase`); a saved recording is the first part of it (`Part`), and all of it once the
  session is stopped (`Saved`). `YieldsConverted`: the entry, the merged texts, the
  navigations that are left out and the addresses made relative change nothing in what the
  steps yield. `ReplaysInv`: a runner stands where its test leads after the steps that it
  took (`Follows`), so what it is told next is possible. No captured action is lost with a
  connection, which is what excluding `lost` is for: `Full` would have a gap. `Alone`, that
  one action is under way, is what a user who waits brings about, and `quick` and `broken`
  are what would let a navigation be captured before the action that caused it or a handler
  go on from a page that never came. The loops (`Collapsed`, and a browser that plays a
  sequence of steps) are reasoned about by the least number of turns after which the claim
  would be wrong (`Least`, `Induct`), with sets in the place of predicates: the library's
  induction theorems, whose parameter is an operator, cannot be used here. The conversion had
  been written with a fold before; it is a recursive function now, as the code's loop is.

### Accounts and Seed (`AccountsProofs`)

* `AccountsTypeCorrect`: with what the fields of a request are where its handler uses them
  (`Fits`). That a request under way names an organization that is there (`Standing`) is
  stated apart: it is true of the requests alone, not beside the script.
* `OrganizationsKeepAnAdmin` and `OnlyTheLastIsRefused`: `HasAdmin` and `RefusedOnlyLast`.
  `HasAdmin` is not inductive: a write must be known to leave somebody. `LeavesOne` says so
  of every lowering that is about to write, either because it counted two or because the
  target was no administrator when it was read and somebody else was; it survives the other
  requests because only a lowering takes the role away and lowerings do not overlap
  (`OneLowers`). That last condition is `race`, and without it two who leave together do.
* `RegisterGivesUpForAReason`: `GivesUpOnlyIfTaken`. The numbers below the one that is being
  probed, and as many as attempts have failed, are taken (`Searched`), so the number that an
  attempt finds free is a new one and the failure of the attempt takes it.
* `SeededMeansWhole` and `FailureNeedsACrash`: `SeededIsWhole` and `FailsOnlyAfterCrash`, where
  nobody uses the application meanwhile. `SeedInv`: there is one organization of the
  demonstration at most and the runs that fill or delete one are at that one (`FoundInv`);
  alone, a run knows what it has written so far (`AloneInv`); what was seeded is there until a
  run begins to delete it (`ToldInv`); and a run that comes after one that was not interrupted
  does not find what is in its way (`RepairInv`). The attempt found that `SeededIsWhole`, as it
  had been stated, held because of the bounds only: with more runs, or three at a time, a run
  may delete a user that another has just put in. With runs that overlap it now speaks of the
  organization and its story.
* `SeedTypeCorrect`: the types of both modules in every behaviour of `Seed`, whatever
  environments are chosen. That `rows` counts no further than the story goes is the part
  that is not plain (`RowsInv`): two runs never fill one organization, and a run that still
  tells has not told all, also when the organization is deleted under it and nothing hangs
  from it any more.
* `AccountsWithoutTheScript`: `SeedSpec /\ "seed" \notin kinds => Spec`. The run checks the
  properties of `Accounts` on `SeedSpec`, and this carries their theorems over to it:
  `AdminBesideTheScript`, and `RegisterBesideTheScript` and `RefusalBesideTheScript` for what
  the run has, the script or requests (`Apart`). With both at once these two would not hold:
  the script may give a slug back that `register()` found taken, and take away the user that
  a request is about between its two queries.

### Authoring (`AuthoringProofs`)

The proofs are of `Authoring` with all its requests, whatever circumstances are chosen.

* `ExclusiveInvariant`: `Spec => []Exclusive`, the inductive invariant. Beside the shape of the
  state (`Shape`: what each field holds where it is used, for instance that the editor has a
  call left while it saves, about a step that it saves), it says of each request that it has
  the lock from its snapshot to its end (`Locked`), that the number it counted is still the
  next one (`Counted`), and, where nothing is healed or generated, that only edits are under
  way (`Plain`) and that the test is still what was read (`Fresh`). `Counted` and `Fresh` need
  `Locked`: without the lock another request may commit between the snapshot and its use.
* `EditsTakeOwnNumbers`: `EditsDoNotCollide`. A commit fails for its number only if the count
  has changed, which `Counted` excludes.
* `StatesAreKept`: `EveryStateKept`. A step that changes the test is then a commit (`Plain`),
  and by `Fresh` its snapshot, made of two queries, is the test as it is.
* `AppliedStayApproved`: `RejectedNotApplied`. Its inductive invariant (`Decided`)
  says of each decision that it is the only one under way, that what it is about to apply was
  not rejected and what it is about to reject was not applied (`Decision`); of each proposal
  that it belongs to a request that was answered, so it never comes back (`Made`), and that
  one which was applied and is still pending is about to be marked (`Settled`). The last is
  what a failed query breaks.
* `TypeCorrect`: `TypeOK` bounds the places by the number of identities. That they stay within
  it rests on what is shown being different steps, each of which there is or was, and on the
  identity that an addition takes being nobody else's (`IdentityInv`), as a place is never above
  the number of steps that are shown, or one more for an addition.
* `SavesStick`: `SaveSticks`. `EditorInv` says of the copy in the editor that its places rise
  and that it has every step of the test (`Opened`), of a save that the calls answered so far
  have written what is saved (`Saving`), and that the request under way is the next call with
  what is saved in it (`Sent`).

### Panels (`PanelsProofs`)

* `TypeCorrect`: `TypeOK`, with every call being one that its page makes, about a row that there
  is (`KindInv`).
* `PagesSettle`: `PageSettles`. A page that loads has a call whose answer it takes (`WaitInv`).
  Where superseded answers are dropped, a list that was answered is what the table has, unless
  others changed it or it will be asked for again (`GuardInv`). Elsewhere, a user who waits has
  one call away (`OneCall`), and what is shown is what the table has or will be with the answer
  that is awaited (`UnguardedInv`). For the panel of the members it says only that it stops
  loading.
* `ConversionsStay`: `ConvertsWhereChosen`, by what the dialog shows and has chosen being of the
  project that it shows (`ChooseInv`).
* `OnlyActiveRun`: `RunsActive`. For a user who is alone what the page shows is never outdated,
  and a test that is activated to be run is active once that was answered (`RunInv`).

### Only model-checked

* The liveness properties: `CancelStopsContainer`, `EveryExecutionEnds`, `BadgeSettles`,
  `ResultsSettle`, `SessionsEnd` and `StepsArePersisted`. Liveness under fairness and ENABLED
  are beyond the prover.
* The three findings, which are behaviours that TLC shows.

## 5. Plan

Done: every part of the system that shares state has a module, and its safety is proved.
What is left, in this order:

1. `Authoring`: an abstract specification of a test with its history, and the refinement.
2. The recorder's session and its contents in one module (`Recorder` with `Capture`): a
   crash of the API while steps are on their way.
3. The providers of the AI with their retries and time limits; the synchronisation with Git.

## 6. Not modelled

* Reports: a read of one execution and its formatting as HTML or JSON; they are right or
  wrong as texts.
* Artifacts: files behind a token, a search with retries, a daily deletion.
* The HTTP calls of the AI and Git providers and the prompts: I/O of one request.
* The vault's encryption, the configuration and its checks, Prisma's wiring; of the guards
  what they admit is in the guards of the actions.
* Layout, styles, the drawing of the flow and of the remote screen, and what forms hold.
* Logs, times of day and durations, texts, secrets and the contents of the tested
  applications.

`PROJECT.json` lists every part with its status.
