------------------------------- MODULE Panels --------------------------------
(***************************************************************************)
(* The pages that list what an organization has (projects, suites, tests,  *)
(* recordings, members, secrets, Git integrations, the counts of the       *)
(* flow), the page of a test with its status, and the dialog that turns a  *)
(* recording into a test: what a page shows while its calls are under way, *)
(* against the table that the API keeps. Calls are answered in any order.  *)
(***************************************************************************)
EXTENDS Naturals, FiniteSets

CONSTANTS
  Rows,          \* ids of the rows of the table
  Scopes,        \* what a page is about: a project, a suite, a test, or else an organization
  Calls,         \* bound: calls of the page at a time
  MaxActs,       \* bound: what the user and others do
  Environments,  \* what may be chosen: a page and the kinds of things that happen
  NoProject,     \* the empty option of the dialog
  None           \* no scope, no row

\* overlap: the user does not wait; fail: the API refuses a call; others: somebody else changes
\* the table.
Kinds == {"overlap", "fail", "others"}

VARIABLES
  env,     \* the page, and what happens in this behaviour
  table,   \* Postgres: the rows, each with its scope and its status
  place,   \* the scope in the address, or the project that the dialog shows
  shown,   \* the state of the page
  chosen,  \* the dialog: suiteId
  calls,   \* the calls of the page
  acts     \* how much was done

vars == <<env, table, place, shown, chosen, calls, acts>>

-----------------------------------------------------------------------------
(* The pages: what each does with the answer to a call.                    *)

\* guarded: an answer that was superseded is not shown. made, gone: what follows a row that
\* was created or removed: the list is asked for again, the row is added or taken out here,
\* or the page has no such button; "refused" is a body that the API does not accept (the
\* form calls branch what the DTO calls defaultBranch).
RecordingsPage == [guarded |-> TRUE, made |-> "never", gone |-> "reload"]
ProjectsListPage == [guarded |-> FALSE, made |-> "reload", gone |-> "reload"]
ProjectDetailPage == [guarded |-> FALSE, made |-> "add", gone |-> "never"]
TestsListPage == [guarded |-> FALSE, made |-> "add", gone |-> "take"]
MembersPanel == [guarded |-> FALSE, made |-> "reload", gone |-> "never"]
SecretsPanel == [guarded |-> FALSE, made |-> "reload", gone |-> "take"]
GitIntegrationPanel == [guarded |-> FALSE, made |-> "refused", gone |-> "take"]
FlujoPage == [guarded |-> FALSE, made |-> "never", gone |-> "never"]
TestDetailPage == [guarded |-> FALSE, made |-> "never", gone |-> "never"]
ConvertModal == [guarded |-> FALSE, made |-> "never", gone |-> "never"]

Pages == [recordings |-> RecordingsPage, projects |-> ProjectsListPage,
          suites |-> ProjectDetailPage, tests |-> TestsListPage, members |-> MembersPanel,
          secrets |-> SecretsPanel, git |-> GitIntegrationPanel, flow |-> FlujoPage,
          test |-> TestDetailPage, convert |-> ConvertModal]

Is(page) == page \in env
Happens(kind) == kind \in env
Page == Pages[CHOOSE page \in DOMAIN Pages : Is(page)]

ASSUME EnvironmentsAssumption ==
  \A e \in Environments : \E page \in DOMAIN Pages : e \ Kinds = {page}
ASSUME BoundAssumption == MaxActs \in Nat
ASSUME NoneAssumption == None \notin Scopes \cup Rows /\ NoProject \notin Scopes \cup {None}

\* TestStatus. Of the rows of other tables it says only whether they are listed.
Statuses == {"DRAFT", "ACTIVE", "ARCHIVED"}

\* The rows of a scope that a page is to show, each with its status. A list leaves out what is
\* archived; a test is found by its id all the same, and the flow counts every status.
Listed(p) == [r \in {x \in DOMAIN table : /\ table[x].scope = p
                                          /\ Is("test") \/ Is("flow") \/ table[x].status # "ARCHIVED"}
                |-> table[r].status]

NoItems == [r \in {} |-> "DRAFT"]

\* What a list is answered with. The panel of the members asks for the organization, which comes
\* without them, and takes that for none.
Given(p) == IF Is("members") THEN NoItems ELSE Listed(p)

\* from: the scope that was loaded. old, not part of the program: somebody else has changed
\* the table since.
Blank == [items |-> NoItems, from |-> None, loading |-> TRUE, failed |-> FALSE, old |-> FALSE]

\* useRecordings() derives it.
Loading == IF Page.guarded THEN shown.from # place ELSE shown.loading

\* live: the page still takes the answer. off: the button that was pressed is off meanwhile.
\* back: what a status goes back to.
Free == [at |-> "free", op |-> "list", scope |-> None, row |-> None, to |-> "DRAFT",
         back |-> "DRAFT", live |-> TRUE, off |-> TRUE, items |-> NoItems, old |-> FALSE]

Ops == {"list", "create", "remove", "status", "activate", "trigger", "convert"}
Places == Scopes \cup {NoProject, None}
Call == [at : {"free", "sent", "ok", "error"}, op : Ops, scope : Places,
         row : Rows \cup {None}, to : Statuses, back : Statuses, live : BOOLEAN, off : BOOLEAN,
         items : UNION {[R -> Statuses] : R \in SUBSET Rows}, old : BOOLEAN]

TypeOK ==
  /\ env \in Environments
  /\ table \in UNION {[R -> [scope : Scopes, status : Statuses]] : R \in SUBSET Rows}
  /\ place \in Places
  /\ shown \in [items : UNION {[R -> Statuses] : R \in SUBSET Rows}, from : Places,
                loading : BOOLEAN, failed : BOOLEAN, old : BOOLEAN]
  /\ chosen \in Rows \cup {None}
  /\ calls \in [Calls -> Call]
  /\ acts \in 0..MaxActs

\* Where a page is about one row, each scope has one.
Init ==
  /\ env \in Environments
  /\ \E R \in SUBSET Rows : table \in [R -> [scope : Scopes, status : {"DRAFT", "ACTIVE"}]]
  /\ Is("test") => \A p \in Scopes : \E r \in Rows : {x \in DOMAIN table : table[x].scope = p} = {r}
  /\ place = None
  /\ shown = Blank
  /\ chosen = None
  /\ calls = [c \in Calls |-> Free]
  /\ acts = 0

-----------------------------------------------------------------------------
(* Calls                                                                   *)

Quiet == \A c \in Calls : calls[c].at = "free"

\* The user waits for what is under way, or does not.
MayAct == acts < MaxActs /\ acts' = acts + 1 /\ (Quiet \/ Happens("overlap"))

Waiting(ops) == {c \in Calls : calls[c].at # "free" /\ calls[c].off /\ calls[c].op \in ops}

\* The page is left, by a link or by an answer: what is under way goes on.
Left == place' = None /\ shown' = Blank /\ chosen' = None

Unheard(cs) == [c \in Calls |-> [cs[c] EXCEPT !.live = FALSE, !.off = FALSE]]

Ask(op, p) == [Free EXCEPT !.at = "sent", !.op = op, !.scope = p]

Sends(c, call) == calls[c].at = "free" /\ calls' = [calls EXCEPT ![c] = call]

\* Mutant: no flag vigente.
NobodySuperseded(cs) == cs

\* The cleanup of the effect: the answer to an earlier list is not taken any more; and the rows
\* give way to a spinner, with the state of their buttons.
Superseded(cs) ==
  IF Page.guarded
  THEN [c \in Calls |-> [cs[c] EXCEPT !.live = @ /\ cs[c].op # "list", !.off = FALSE]]
  ELSE cs

\* The list is asked for again, by the call that was free or has just been answered.
Reloads(c) ==
  /\ calls' = [Superseded(calls) EXCEPT ![c] = Ask("list", place)]
  /\ shown' = IF Page.guarded THEN Blank ELSE [shown EXCEPT !.loading = Is("projects")]

Row(r, p, status) == [x \in DOMAIN table \cup {r} |->
                        IF x = r THEN [scope |-> p, status |-> status] ELSE table[x]]

\* What the page shows, and what is on its way to it, is no longer what the table has.
Outdated(cs) == [c \in Calls |-> [cs[c] EXCEPT !.old = cs[c].at = "ok"]]

\* What the user did before leaving the page is for the page the same as what others do.
Answers(c, call) ==
  LET behind == call.op \in {"create", "remove", "status", "activate"} /\ ~call.live
      cs == IF behind THEN Outdated(calls) ELSE calls IN
  /\ calls' = [cs EXCEPT ![c] = [call EXCEPT !.at = "ok"]]
  /\ shown' = [shown EXCEPT !.old = @ \/ behind]

\* What the API does with a call and answers: archive() keeps the row, delete() does not. A
\* conversion and an execution change other tables.
Serves(c, call) ==
  /\ \/ /\ call.op \in {"list", "trigger", "convert"}
        /\ UNCHANGED table
     \/ /\ call.op = "remove" /\ call.row \in DOMAIN table
        /\ table' = IF Is("tests") \/ Is("projects")
                    THEN Row(call.row, table[call.row].scope, "ARCHIVED")
                    ELSE [x \in DOMAIN table \ {call.row} |-> table[x]]
     \/ /\ call.op \in {"status", "activate"}
        /\ table' = Row(call.row, table[call.row].scope, call.to)
  /\ Answers(c, [call EXCEPT !.items = IF call.op = "list" THEN Given(call.scope) ELSE @])

Creates(c, call) ==
  \E r \in Rows \ DOMAIN table :
    /\ table' = Row(r, call.scope, "DRAFT")
    /\ Answers(c, [call EXCEPT !.row = r])

Serve(c) ==
  /\ calls[c].at = "sent"
  /\ \/ calls[c].op = "create" /\ Page.made # "refused" /\ Creates(c, calls[c])
     \/ calls[c].op # "create" /\ Serves(c, calls[c])
  /\ UNCHANGED <<env, place, chosen, acts>>

\* The API says no: a row that is not there, a body that it does not accept, or any failure.
Refuse(c) ==
  /\ calls[c].at = "sent"
  /\ \/ Happens("fail")
     \/ calls[c].op = "create" /\ Page.made = "refused"
     \/ calls[c].op = "remove" /\ calls[c].row \notin DOMAIN table
  /\ calls' = [calls EXCEPT ![c].at = "error"]
  /\ UNCHANGED <<env, table, place, shown, chosen, acts>>

-----------------------------------------------------------------------------
(* What the user does                                                      *)

\* A page is opened and asks for its list. Every address has a page of its own: the state of
\* the last one is gone (the key of TransicionVista).
Open(c, p) ==
  /\ MayAct /\ place = None
  /\ place' = p /\ shown' = Blank
  /\ Sends(c, Ask("list", p))
  /\ UNCHANGED <<env, table, chosen>>

\* Mutant: the suite that was chosen stays.
SwitchKeeping(p) == shown' = [shown EXCEPT !.loading = TRUE] /\ UNCHANGED chosen

\* Another project is chosen in the dialog: its suites are asked for, the suite is not chosen.
Switch(p) == shown' = [shown EXCEPT !.loading = TRUE] /\ chosen' = None

\* handleProjectChange()
Choose(c, p) ==
  /\ MayAct /\ Is("convert") /\ place # None /\ p # place
  /\ place' = p /\ Switch(p)
  /\ Sends(c, Ask("list", p))
  /\ UNCHANGED <<env, table>>

\* No project is chosen in the dialog: the suite stays, and its field is off.
Unset ==
  /\ MayAct /\ Is("convert") /\ place \in Scopes
  /\ place' = NoProject
  /\ shown' = [shown EXCEPT !.items = NoItems]
  /\ UNCHANGED <<env, table, chosen, calls>>

Leave ==
  /\ MayAct /\ place # None
  /\ Left
  /\ calls' = Unheard(calls)
  /\ UNCHANGED <<env, table>>

\* The button of the form is off while it waits. Two of the pages have it while they load.
Make(c) ==
  /\ MayAct /\ place # None /\ Page.made # "never"
  /\ ~Loading \/ Is("projects") \/ Is("tests")
  /\ Waiting({"create"}) = {}
  /\ Sends(c, Ask("create", place))
  /\ UNCHANGED <<env, table, place, shown, chosen>>

Drop(c, r) ==
  /\ MayAct /\ place # None /\ ~Loading /\ Page.gone # "never"
  /\ r \in DOMAIN shown.items
  /\ Is("recordings") => \A x \in Waiting({"remove"}) : calls[x].row # r
  /\ Sends(c, [Ask("remove", place) EXCEPT !.row = r])
  /\ UNCHANGED <<env, table, place, shown, chosen>>

\* recargar(), which is not guarded; and the page of a test, when a step of it was deleted.
Again(c) ==
  /\ MayAct /\ place # None
  /\ \/ Is("flow")
     \/ Is("test") /\ ~Loading /\ shown.items # NoItems
  /\ shown' = [shown EXCEPT !.loading = Is("flow")]
  /\ Sends(c, Ask("list", place))
  /\ UNCHANGED <<env, table, place, chosen>>

\* cambiarEstado(): the page shows it before the API has it.
Change(c, r, to) ==
  /\ MayAct /\ Is("test") /\ ~Loading
  /\ r \in DOMAIN shown.items /\ to # shown.items[r]
  /\ shown' = [shown EXCEPT !.items[r] = to]
  /\ Sends(c, [Ask("status", place) EXCEPT !.row = r, !.to = to, !.back = shown.items[r]])
  /\ UNCHANGED <<env, table, place, chosen>>

\* Mutant: a test that is not active is run as it is.
RunAsItIs(c, r) ==
  /\ MayAct /\ Is("test") /\ ~Loading /\ r \in DOMAIN shown.items
  /\ Sends(c, [Ask("trigger", place) EXCEPT !.row = r])
  /\ UNCHANGED <<env, table, place, shown, chosen>>

\* handleRun(): a test that is not active by what the page shows is made so first. (The suite that
\* it would ask for if the test had come without one is never asked for: findById() includes it.)
Run(c, r) ==
  /\ MayAct /\ Is("test") /\ ~Loading /\ r \in DOMAIN shown.items
  /\ Waiting({"activate", "trigger"}) = {}
  /\ Sends(c, [Ask(IF shown.items[r] = "ACTIVE" THEN "trigger" ELSE "activate", place)
                 EXCEPT !.row = r, !.to = "ACTIVE"])
  /\ UNCHANGED <<env, table, place, shown, chosen>>

Pick(r) ==
  /\ MayAct /\ Is("convert") /\ place \in Scopes /\ ~Loading
  /\ r \in DOMAIN shown.items \cup {None}
  /\ chosen' = r
  /\ UNCHANGED <<env, table, place, shown, calls>>

\* handleConvert(): the field must name one of the suites, unless it is off, without a project
\* or while they load. The button is off without a suite, and not while it waits (Button:
\* disabled ?? loading) nor while the suites load.
Convert(c) ==
  /\ Is("convert") /\ chosen # None
  /\ acts < MaxActs /\ acts' = acts + 1
  /\ Happens("overlap") \/ \A x \in Calls : calls[x].at = "free" \/ calls[x].op = "list"
  /\ Loading \/ place = NoProject \/ chosen \in DOMAIN shown.items
  /\ Sends(c, [Ask("convert", place) EXCEPT !.row = chosen])
  /\ UNCHANGED <<env, table, place, shown, chosen>>

-----------------------------------------------------------------------------
(* The answers                                                             *)

Done(c) == calls' = [calls EXCEPT ![c] = Free]

\* A list. The dialog chooses the only suite there is.
ShowList(c, call) ==
  /\ Done(c)
  /\ IF call.at = "ok"
     THEN /\ shown' = [items |-> call.items, from |-> call.scope, loading |-> FALSE,
                        failed |-> FALSE, old |-> call.old]
          /\ chosen' = IF Is("convert") /\ Cardinality(DOMAIN call.items) = 1
                       THEN CHOOSE r \in DOMAIN call.items : TRUE ELSE chosen
     ELSE /\ shown' = [shown EXCEPT !.loading = FALSE, !.failed = TRUE, !.from = call.scope,
                        !.items = IF Page.guarded THEN NoItems ELSE @]
          /\ UNCHANGED chosen
  /\ UNCHANGED place

\* A row that was created or removed.
ShowRow(c, call) ==
  LET how == IF call.op = "create" THEN Page.made ELSE Page.gone IN
  /\ IF call.at = "ok" /\ how = "reload" THEN Reloads(c)
     ELSE /\ Done(c)
          /\ shown' = IF call.at = "error" THEN shown
                      ELSE IF how = "add"
                      THEN [shown EXCEPT !.items = [r \in DOMAIN @ \cup {call.row} |->
                              IF r = call.row THEN "DRAFT" ELSE @[r]]]
                      ELSE [shown EXCEPT !.items = [r \in DOMAIN @ \ {call.row} |-> @[r]]]
  /\ UNCHANGED <<place, chosen>>

\* Whatever was chosen meanwhile.
ShowStatus(call) == IF call.at = "ok" THEN call.to ELSE call.back

\* A status, of cambiarEstado() or of handleRun(), which goes on wherever the user is.
ShowChange(c, call) ==
  /\ shown' = IF ~call.live \/ (call.op = "activate" /\ call.at = "error") THEN shown
              ELSE [shown EXCEPT !.items = [r \in DOMAIN @ |-> ShowStatus(call)]]
  /\ calls' = [calls EXCEPT ![c] =
                 IF call.op = "activate" /\ call.at = "ok"
                 THEN [call EXCEPT !.at = "sent", !.op = "trigger"] ELSE Free]
  /\ UNCHANGED <<place, chosen>>

\* The browser goes to the execution, or to the new test, wherever the user is.
GoOn(c, call) ==
  IF call.at = "ok"
  THEN Left /\ calls' = [Unheard(calls) EXCEPT ![c] = Free]
  ELSE Done(c) /\ UNCHANGED <<place, shown, chosen>>

Deliver(c) ==
  LET call == calls[c] IN
  /\ call.at \in {"ok", "error"}
  /\ \/ /\ ~call.live /\ call.op \in {"list", "create", "remove"}
        /\ Done(c) /\ UNCHANGED <<place, shown, chosen>>
     \/ call.live /\ call.op = "list" /\ ShowList(c, call)
     \/ call.live /\ call.op \in {"create", "remove"} /\ ShowRow(c, call)
     \/ call.op \in {"status", "activate"} /\ ShowChange(c, call)
     \/ call.op \in {"trigger", "convert"} /\ GoOn(c, call)
  /\ UNCHANGED <<env, table, acts>>

\* Somebody else: another page, another member, the recorder.
Others(r) ==
  /\ Happens("others") /\ acts < MaxActs /\ acts' = acts + 1
  /\ \/ r \notin DOMAIN table /\ ~Is("test") /\ \E p \in Scopes : table' = Row(r, p, "DRAFT")
     \/ r \in DOMAIN table /\ \E status \in Statuses \ {table[r].status} :
          table' = Row(r, table[r].scope, status)
  /\ shown' = [shown EXCEPT !.old = TRUE]
  /\ calls' = Outdated(calls)
  /\ UNCHANGED <<env, place, chosen>>

-----------------------------------------------------------------------------
User(c) ==
  \/ \E p \in Scopes : Open(c, p) \/ Choose(c, p)
  \/ Make(c) \/ Again(c) \/ Convert(c)
  \/ \E r \in Rows : Drop(c, r) \/ Run(c, r) \/ \E to \in Statuses : Change(c, r, to)

Next ==
  \/ \E c \in Calls : Serve(c) \/ Refuse(c) \/ Deliver(c) \/ User(c)
  \/ \E r \in Rows \cup {None} : Pick(r)
  \/ \E r \in Rows : Others(r)
  \/ Leave \/ Unset

Spec == Init /\ [][Next]_vars

-----------------------------------------------------------------------------
(* Properties                                                              *)

\* When nothing is under way the page does not wait any more, and it shows what the table has
\* for its scope, its own changes and refusals included (the comment of cambiarEstado: the
\* user believed to have activated it and had not), but for what failed to load or what others
\* have changed since: whatever the order of the answers where they are guarded (the comment
\* of useRecordings), and elsewhere for a user who waits for each. The panel of the members is
\* left out: it shows none of them, whatever happens (Given).
PageSettles ==
  Quiet /\ place # None =>
    /\ ~Loading
    /\ ~Is("members") /\ ~shown.failed /\ ~shown.old /\ (Page.guarded \/ ~Happens("overlap")) =>
         shown.items = Listed(place)

\* A recording becomes a test of the project that the dialog shows, if it shows one, for a user
\* who waits for the answer to a conversion and not for the suites, unless they failed to load.
ConvertsWhereChosen ==
  ~Happens("overlap") /\ ~shown.failed =>
    \A c \in Calls : calls[c].op = "convert" /\ calls[c].scope # NoProject =>
                      table[calls[c].row].scope = calls[c].scope

\* A test is run only when it is active (the comment of the page: one in draft is not run, and
\* the user does not understand why), for a user who waits and is alone.
RunsActive ==
  ~Happens("overlap") /\ ~Happens("others") =>
    \A c \in Calls : calls[c].op = "trigger" => table[calls[c].row].status = "ACTIVE"

=============================================================================
