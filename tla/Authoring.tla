------------------------------ MODULE Authoring ------------------------------
(***************************************************************************)
(* One test and those who write it: requests of the API that edit its      *)
(* steps and its code behind a version (test-steps.service.ts,             *)
(* tests.service.ts, test-versions.service.ts), the AI's writers           *)
(* (codegen.service.ts, documentation.service.ts, self-healing.service.ts) *)
(* and the visual editor with its local copy (FlowEditorPage.tsx,          *)
(* useFlowEditor.ts).                                                      *)
(***************************************************************************)
EXTENDS Naturals, FiniteSets, Sequences

CONSTANTS
  Steps,        \* identities for the rows of test_steps
  Requests,     \* requests of the API, each made once
  Saver,        \* the request under way of the editor's handleSave()
  Adders,       \* the requests of its addStep()
  MaxEdits,     \* bound: what a user does in the editor
  None,
  Environments  \* sets of circumstances to choose from

(***************************************************************************)
(* edit       steps and code are edited over the API                       *)
(* heal       selectors are proposed and the proposals are decided         *)
(* overlap    two decisions are made at a time                             *)
(* generate   code and documentation are generated                         *)
(* editor     the visual editor is open                                    *)
(* hasty      a step is added while another one is being added             *)
(* local      a step is removed in the editor                              *)
(* executed   the test was executed: its steps have results                *)
(* error      a query, or the AI, fails                                    *)
(***************************************************************************)
Circumstances == {"edit", "heal", "overlap", "generate", "editor", "hasty", "local", "executed",
                  "error"}

Calls == Requests \cup {Saver} \cup Adders

ASSUME AuthoringAssumption ==
  /\ Environments \subseteq SUBSET Circumstances
  /\ Saver \notin Requests \cup Adders /\ Adders \cap Requests = {}
  /\ IsFiniteSet(Steps)
  /\ MaxEdits \in Nat
  /\ None \notin Steps \cup Calls \cup Nat /\ "reorder" \notin Steps

VARIABLES
  step,      \* test_steps
  code,      \* tests.generatedCode: the request that wrote it
  docs,      \* tests.documentation: the steps that it is about
  versions,  \* test_versions: the snapshot of each number
  lock,      \* who holds the advisory lock of the test
  log,       \* selector_healing_logs, by the request that proposed
  applied,   \* history: the proposals that were written to their step
  req,       \* the requests, each between two of its queries
  page,      \* FlowEditorPage
  may        \* the circumstances of this behaviour

testVars == <<step, code, docs>>
logVars  == <<log, applied>>
vars     == <<testVars, versions, lock, logVars, req, page, may>>

-----------------------------------------------------------------------------
\* Who wrote a selector: a request, the user of the editor or somebody before.
Typed   == "typed"
Writers == Calls \cup {Typed, "before"}

MaxOrder == Cardinality(Steps)

StepRow == [sel : Writers, order : 0..MaxOrder]
Gone    == None

ASSUME NoneIsNoRow == None \notin [sel : Writers, order : Nat]

Present == {s \in Steps : step[s] # Gone}

Content == [step : [Steps -> StepRow \cup {Gone}], code : Calls \cup {None}]
content == [step |-> step, code |-> code]
NoContent == [step |-> [s \in Steps |-> Gone], code |-> None]

Edits == {"create", "update", "remove", "reorder", "code"}
Ops   == Edits \cup {"heal", "autoheal", "approve", "reject", "codegen", "document"}

\* s is the step in question, sel, order or orders what is to be written, of the proposal to
\* decide, old the selector a proposal replaces, snap and n what the snapshot read.
Request == [at : {"new", "asked", "locking", "locked", "test read", "read", "thinking",
                  "superseding", "creating", "deciding", "marking", "ok", "refused", "failed"},
            op : Ops \cup {None}, s : Steps \cup {None}, sel : Writers \cup {None},
            orders : [Steps -> 0..MaxOrder \cup {None}], of : Requests \cup {None},
            old : Writers \cup {None}, snap : Content, n : Nat]

NoOrders == [s \in Steps |-> None]
NewRequest == [at |-> "new", op |-> None, s |-> None, sel |-> None, orders |-> NoOrders,
               of |-> None, old |-> None, snap |-> NoContent, n |-> 0]

Proposal == [st : {"none", "pending", "superseded", "approved", "rejected"},
             s : Steps \cup {None}, old : Writers \cup {None}]
NoProposal == [st |-> "none", s |-> None, old |-> None]

\* What the editor shows, the steps of which the user pressed save and the calls still to be
\* made for that.
Shown == [id : Steps, sel : Writers, order : 0..MaxOrder]
Page  == [st : {"closed", "ready", "saving"}, shown : Seq(Shown), saves : Seq(Shown),
          calls : Seq(Steps \cup {"reorder"}), edits : 0..MaxEdits]

TypeOK ==
  /\ content \in Content
  /\ docs \in [Steps -> StepRow \cup {Gone}]
  /\ versions \in Seq(Content)
  /\ lock \in Calls \cup {None}
  /\ log \in [Requests -> Proposal] /\ applied \subseteq Requests
  /\ req \in [Calls -> Request]
  /\ page \in Page
  /\ may \subseteq Circumstances

\* A test with some steps, recorded (their order counts from 0) or written by hand (from 1).
Init ==
  /\ may \in Environments
  /\ \E P \in SUBSET Steps : \E base \in {0, 1} : \E nth \in [P -> 0..Cardinality(P)] :
       /\ P # {} /\ Cardinality(P) < Cardinality(Steps)
       /\ \A s, t \in P : s # t => nth[s] # nth[t]
       /\ \A s \in P : nth[s] < Cardinality(P)
       /\ step = [s \in Steps |-> IF s \in P THEN [sel |-> "before", order |-> base + nth[s]]
                                  ELSE Gone]
  /\ code = None /\ docs = [s \in Steps |-> Gone] /\ versions = <<>> /\ lock = None
  /\ log = [r \in Requests |-> NoProposal] /\ applied = {}
  /\ req = [r \in Calls |-> NewRequest]
  /\ page = [st |-> "closed", shown |-> <<>>, saves |-> <<>>, calls |-> <<>>, edits |-> 0]

-----------------------------------------------------------------------------
(* Requests                                                                *)

Over(r) == req[r].at \in {"new", "ok", "refused", "failed"}
Moves(r, from, to) == req[r].at = from /\ req' = [req EXCEPT ![r].at = to]

Deciding(r) == req[r].op \in {"approve", "reject"} /\ ~Over(r)

\* What the requests of the API ask for.
Asked(r, q) ==
  /\ req[r].at = "new"
  /\ req' = [req EXCEPT ![r] = [q EXCEPT !.at = "asked"]]
  /\ UNCHANGED <<testVars, versions, lock, logVars, page, may>>

New(op) == [NewRequest EXCEPT !.op = op]

\* Identities that no row has and no request under way is about to give.
Unused == {s \in Steps : step[s] = Gone
                         /\ \A r \in Calls : ~(req[r].op = "create" /\ req[r].s = s)
                         /\ \A n \in 1..Len(versions) : versions[n].step[s] = Gone}

AskEdit(r) ==
  /\ "edit" \in may
  /\ \/ \E s \in Unused : Asked(r, [New("create") EXCEPT !.s = s, !.sel = r,
                                      !.orders = [NoOrders EXCEPT ![s] = MaxOrder]])
     \/ \E s \in Present : \/ Asked(r, [New("update") EXCEPT !.s = s, !.sel = r])
                           \/ Asked(r, [New("remove") EXCEPT !.s = s])
     \/ \E s, t \in Present :
          s # t /\ Asked(r, [New("reorder") EXCEPT
                               !.orders = [NoOrders EXCEPT ![s] = step[t].order,
                                                           ![t] = step[s].order]])
     \/ Asked(r, New("code"))

AskHeal(r) ==
  /\ "heal" \in may
  /\ \/ \E s \in Present, op \in {"heal", "autoheal"} : Asked(r, [New(op) EXCEPT !.s = s])
     \/ \E l \in Requests, op \in {"approve", "reject"} :
          /\ log[l].st # "none"
          /\ "overlap" \in may \/ ~\E d \in Requests : Deciding(d)
          /\ Asked(r, [New(op) EXCEPT !.of = l])

AskGenerate(r) ==
  /\ "generate" \in may
  /\ \E op \in {"codegen", "document"} : Asked(r, New(op))

\* The end of a request. What follows in the page is below, with the page.
Ends(r, at) == req' = [req EXCEPT ![r] = [NewRequest EXCEPT !.at = at, !.op = req[r].op]] /\ UNCHANGED page

\* The editor's requests: handleSave() goes on to its next call or ends, addStep() shows the
\* new row.
Replies(r, at) ==
  \/ r \in Requests /\ Ends(r, at)
  \/ /\ r \in Adders
     /\ req' = [req EXCEPT ![r] = NewRequest]
     /\ page' = IF at = "ok"
                THEN [page EXCEPT !.shown = Append(@, [id    |-> req[r].s,
                                                       sel   |-> req[r].sel,
                                                       order |-> req[r].orders[req[r].s]])]
                ELSE page
  \/ /\ r = Saver
     /\ req' = [req EXCEPT ![r] = NewRequest]
     /\ page' = IF at = "ok" /\ Len(page.calls) > 1
                THEN [page EXCEPT !.calls = Tail(@)]
                ELSE [page EXCEPT !.calls = <<>>, !.saves = <<>>, !.st = "ready"]

-----------------------------------------------------------------------------
(* Edits: a transaction that takes the lock, a snapshot, and then writes   *)

Editing(r) == req[r].op \in Edits

\* assertTestOwnership() and findStepOrThrow(), before the transaction.
Check(r) ==
  /\ Editing(r) /\ req[r].at = "asked"
  /\ IF req[r].op \in {"update", "remove"} /\ req[r].s \notin Present
     THEN Replies(r, "refused")
     ELSE Moves(r, "asked", "locking") /\ UNCHANGED page
  /\ UNCHANGED <<testVars, versions, lock, logVars, may>>

\* Mutant: nobody waits for the lock.
LockNobody(r) ==
  /\ Moves(r, "locking", "locked")
  /\ UNCHANGED <<testVars, versions, lock, logVars, page, may>>

\* pg_advisory_xact_lock: until the transaction ends.
Lock(r) ==
  /\ lock = None /\ lock' = r
  /\ Moves(r, "locking", "locked")
  /\ UNCHANGED <<testVars, versions, logVars, page, may>>

\* Prisma reads the test and its steps in two queries, and each sees what is committed then.
ReadTest(r) ==
  /\ req[r].at = "locked"
  /\ req' = [req EXCEPT ![r].at = "test read", ![r].snap.code = code]
  /\ UNCHANGED <<testVars, versions, lock, logVars, page, may>>

ReadSteps(r) ==
  /\ req[r].at = "test read"
  /\ req' = [req EXCEPT ![r].at = "read", ![r].snap.step = step, ![r].n = Len(versions)]
  /\ UNCHANGED <<testVars, versions, lock, logVars, page, may>>

\* What the request writes after its snapshot.
Writes(r) ==
  LET q == req[r] IN
  /\ step' = CASE q.op = "create"  -> [step EXCEPT ![q.s] = [sel |-> q.sel, order |-> q.orders[q.s]]]
               [] q.op = "update"  -> [step EXCEPT ![q.s].sel = q.sel]
               [] q.op = "remove"  -> [step EXCEPT ![q.s] = Gone]
               [] q.op = "reorder" -> [s \in Steps |-> IF q.orders[s] = None THEN step[s]
                                                       ELSE [step[s] EXCEPT !.order = q.orders[s]]]
               [] OTHER -> step
  /\ code' = IF q.op = "code" THEN r ELSE code

\* A row that is not there any more (P2025, and 404 of reorder()), or one that results refer
\* to: step_results has no ON DELETE CASCADE.
Possible(r) ==
  LET q == req[r] IN
  /\ q.op \in {"update", "remove"} => q.s \in Present
  /\ q.op = "remove" => "executed" \notin may
  /\ \A s \in Steps : q.op = "reorder" /\ q.orders[s] # None => s \in Present

\* Mutant: the test is read once it is changed.
SnapshotAfter(r) == content'

Snapshot(r) == req[r].snap

\* A number that exists already (P2002). A healing log goes with its step.
Commit(r) ==
  /\ req[r].at = "read"
  /\ req[r].n = Len(versions) /\ Possible(r)
  /\ Writes(r)
  /\ versions' = Append(versions, Snapshot(r))
  /\ log' = [l \in Requests |-> IF log[l].s # None /\ step'[log[l].s] = Gone THEN NoProposal ELSE log[l]]
  /\ lock' = IF lock = r THEN None ELSE lock
  /\ Replies(r, "ok")
  /\ UNCHANGED <<docs, applied, may>>

\* The transaction is rolled back.
Rollback(r) ==
  /\ Editing(r)
  /\ \/ req[r].at = "read" /\ req[r].n # Len(versions) /\ Replies(r, "failed")
     \/ req[r].at = "read" /\ ~Possible(r) /\ Replies(r, "refused")
     \/ /\ "error" \in may
        /\ req[r].at \in {"asked", "locking", "locked", "test read", "read"}
        /\ Replies(r, "refused")
  /\ lock' = IF lock = r THEN None ELSE lock
  /\ UNCHANGED <<testVars, versions, logVars, may>>

-----------------------------------------------------------------------------
(* Code and documentation by the AI                                        *)

\* What the prompt is made of is read first.
ReadForPrompt(r) ==
  /\ req[r].op \in {"codegen", "document"} /\ req[r].at = "asked"
  /\ req' = [req EXCEPT ![r].at = "thinking", ![r].snap = content]
  /\ UNCHANGED <<testVars, versions, lock, logVars, page, may>>

\* The answer overwrites what was there: no version, no lock.
Generated(r) ==
  /\ req[r].op \in {"codegen", "document"}
  /\ req[r].at = "thinking" /\ Ends(r, "ok")
  /\ IF req[r].op = "codegen" THEN code' = r /\ UNCHANGED docs
     ELSE docs' = req[r].snap.step /\ UNCHANGED code
  /\ UNCHANGED <<step, versions, lock, logVars, may>>

-----------------------------------------------------------------------------
(* Healing                                                                 *)

Pending(s) == {l \in Requests : log[l].st = "pending" /\ log[l].s = s}

\* findStep(), and of proposeAutomatic() the search for a proposal that is pending already.
ReadStep(r) ==
  LET s == req[r].s IN
  /\ req[r].op \in {"heal", "autoheal"} /\ req[r].at = "asked"
  /\ IF s \notin Present \/ (req[r].op = "autoheal" /\ Pending(s) # {})
     THEN Ends(r, "refused")
     ELSE /\ req' = [req EXCEPT ![r].at = "superseding", ![r].old = step[s].sel]
          /\ UNCHANGED page
  /\ UNCHANGED <<testVars, versions, lock, logVars, may>>

\* persistProposal(), once the AI answered with enough confidence.
Supersede(r) ==
  /\ Moves(r, "superseding", "creating")
  /\ log' = [l \in Requests |-> IF l \in Pending(req[r].s) THEN [log[l] EXCEPT !.st = "superseded"]
                                ELSE log[l]]
  /\ UNCHANGED <<testVars, versions, lock, applied, page, may>>

CreateLog(r) ==
  /\ req[r].at = "creating"
  /\ IF req[r].s \in Present
     THEN /\ log' = [log EXCEPT ![r] = [st |-> "pending", s |-> req[r].s, old |-> req[r].old]]
          /\ Ends(r, "ok")
     ELSE Ends(r, "refused") /\ UNCHANGED log
  /\ UNCHANGED <<testVars, versions, lock, applied, may>>

\* Mutant: reject() takes any proposal.
ReadAnyLog(r) ==
  /\ req[r].op \in {"approve", "reject"} /\ req[r].at = "asked"
  /\ IF log[req[r].of].st = "pending" \/ (req[r].op = "reject" /\ log[req[r].of].st # "none")
     THEN /\ req' = [req EXCEPT ![r].at = IF req[r].op = "approve" THEN "deciding" ELSE "marking"]
          /\ UNCHANGED page
     ELSE Ends(r, "refused")
  /\ UNCHANGED <<testVars, versions, lock, logVars, may>>

\* approve() and reject(): only a pending proposal is decided.
ReadLog(r) ==
  /\ req[r].op \in {"approve", "reject"} /\ req[r].at = "asked"
  /\ IF log[req[r].of].st = "pending"
     THEN /\ req' = [req EXCEPT ![r].at = IF req[r].op = "approve" THEN "deciding" ELSE "marking"]
          /\ UNCHANGED page
     ELSE Ends(r, "refused")
  /\ UNCHANGED <<testVars, versions, lock, logVars, may>>

\* The proposed selector replaces whatever the step has now.
Apply(r) ==
  LET l == req[r].of IN
  /\ req[r].at = "deciding"
  /\ IF log[l].s \in Present
     THEN /\ step' = [step EXCEPT ![log[l].s].sel = l]
          /\ applied' = applied \cup {l}
          /\ Moves(r, "deciding", "marking") /\ UNCHANGED page
     ELSE Ends(r, "refused") /\ UNCHANGED <<step, applied>>
  /\ UNCHANGED <<code, docs, versions, lock, log, may>>

\* By id: whatever the proposal is by now. It may have gone with its step.
Mark(r) ==
  LET l == req[r].of IN
  /\ req[r].at = "marking"
  /\ IF log[l].st # "none"
     THEN /\ log' = [log EXCEPT ![l].st = IF req[r].op = "approve" THEN "approved" ELSE "rejected"]
          /\ Ends(r, "ok")
     ELSE Ends(r, "refused") /\ UNCHANGED log
  /\ UNCHANGED <<testVars, versions, lock, applied, may>>

\* A query or the AI fails, or the AI's answer is of no use.
Fails(r) ==
  /\ req[r].op \notin Edits /\ ~Over(r)
  /\ "error" \in may \/ req[r].at \in {"thinking", "superseding"}
  /\ Ends(r, "refused")
  /\ UNCHANGED <<testVars, versions, lock, logVars, may>>

-----------------------------------------------------------------------------
(* The editor                                                              *)

Sorted(shown) == \A i, j \in 1..Len(shown) : i < j => shown[i].order <= shown[j].order

\* getOne(), sorted by order.
Open ==
  /\ "editor" \in may /\ page.st = "closed"
  /\ \E ids \in [1..Cardinality(Present) -> Present] :
       LET shown == [i \in DOMAIN ids |-> [id |-> ids[i], sel |-> step[ids[i]].sel,
                                           order |-> step[ids[i]].order]] IN
       /\ \A i, j \in DOMAIN ids : i # j => ids[i] # ids[j]
       /\ Sorted(shown)
       /\ page' = [page EXCEPT !.st = "ready", !.shown = shown]
  /\ UNCHANGED <<testVars, versions, lock, logVars, req, may>>

Edit(shown) ==
  /\ page.st # "closed" /\ page.edits < MaxEdits
  /\ page' = [page EXCEPT !.shown = shown, !.edits = @ + 1]
  /\ UNCHANGED <<testVars, versions, lock, logVars, req, may>>

\* updateStep() of the hook.
Type == \E i \in 1..Len(page.shown) : Edit([page.shown EXCEPT ![i].sel = Typed])

Without1(shown, i) == SubSeq(shown, 1, i - 1) \o SubSeq(shown, i + 1, Len(shown))

\* The steps with the one at `from` taken to `to`.
Taken(shown, from, to) ==
  LET rest == Without1(shown, from) IN
  SubSeq(rest, 1, to - 1) \o <<shown[from]>> \o SubSeq(rest, to, Len(rest))

\* Mutant: the steps move and keep the order they had.
DragKeepingOrder == \E i, j \in 1..Len(page.shown) : i # j /\ Edit(Taken(page.shown, i, j))

\* reorder() of the hook numbers them anew.
Drag ==
  \E i, j \in 1..Len(page.shown) :
    LET moved == Taken(page.shown, i, j) IN
    i # j /\ Edit([k \in DOMAIN moved |-> [moved[k] EXCEPT !.order = k]])

\* removeStep() of the hook: nothing tells the server, now or later.
RemoveLocal ==
  "local" \in may /\ \E i \in 1..Len(page.shown) : Edit(Without1(page.shown, i))

\* Mutant: the new step goes two places after the last one.
NextOrderTwo == Len(page.shown) + 2

NextOrder == Len(page.shown) + 1

\* addStep(): a request, and the step is shown when it is answered.
Add(r) ==
  /\ page.st # "closed" /\ page.edits < MaxEdits
  /\ req[r].at = "new"
  /\ "hasty" \in may \/ \A a \in Adders : req[a].at = "new"
  /\ \E s \in Unused :
       req' = [req EXCEPT ![r] = [New("create") EXCEPT !.at = "asked", !.s = s, !.sel = r,
                 !.orders = [NoOrders EXCEPT ![s] = NextOrder]]]
  /\ page' = [page EXCEPT !.edits = @ + 1]
  /\ UNCHANGED <<testVars, versions, lock, logVars, may>>

\* handleSave(): reorder(), then an update of every step, changed or not, one after another.
Save ==
  /\ page.st = "ready" /\ page.edits < MaxEdits
  /\ page' = [page EXCEPT !.st = "saving", !.saves = page.shown, !.edits = @ + 1,
                !.calls = <<"reorder">> \o [i \in 1..Len(page.shown) |-> page.shown[i].id]]
  /\ UNCHANGED <<testVars, versions, lock, logVars, req, may>>

\* The position of a step among those that are saved.
Nth(s) == CHOOSE i \in 1..Len(page.saves) : page.saves[i].id = s

SendNext ==
  LET c == Head(page.calls)
      ids == {page.saves[i].id : i \in 1..Len(page.saves)} IN
  /\ page.st = "saving" /\ req[Saver].at = "new"
  /\ req' = [req EXCEPT ![Saver] =
               IF c = "reorder"
               THEN [New("reorder") EXCEPT !.at = "asked",
                       !.orders = [s \in Steps |-> IF s \in ids THEN page.saves[Nth(s)].order ELSE None]]
               ELSE [New("update") EXCEPT !.at = "asked", !.s = c, !.sel = page.saves[Nth(c)].sel]]
  /\ UNCHANGED <<testVars, versions, lock, logVars, page, may>>

-----------------------------------------------------------------------------
Handler(r) ==
  \/ Check(r) \/ Lock(r) \/ ReadTest(r) \/ ReadSteps(r) \/ Commit(r) \/ Rollback(r)
  \/ ReadForPrompt(r) \/ Generated(r) \/ Fails(r)
  \/ ReadStep(r) \/ Supersede(r) \/ CreateLog(r) \/ ReadLog(r) \/ Apply(r) \/ Mark(r)

Editor == Open \/ Type \/ Drag \/ RemoveLocal \/ Save \/ SendNext \/ \E r \in Adders : Add(r)

Next ==
  \/ \E r \in Requests : AskEdit(r) \/ AskHeal(r) \/ AskGenerate(r)
  \/ \E r \in Calls : Handler(r)
  \/ Editor

Spec == Init /\ [][Next]_vars

-----------------------------------------------------------------------------
(* Properties                                                              *)

Without(kinds) == may \cap kinds = {}

\* What the test was before a significant change is in one of its versions (comment of
\* snapshot()), whoever else edits it at the same time. Approved selectors and generated code
\* are written without one.
EveryStateKept ==
  [][Without({"heal", "generate"}) /\ content' # content
       => \E n \in 1..Len(versions') : versions'[n] = content]_vars

\* Two edits of a test never take the same version number: the second waits for the first
\* and is not refused for it (comment on the lock in snapshot()).
EditsDoNotCollide == \A r \in Requests : req[r].at # "failed"

\* When handleSave() ends well the test is what the editor showed when it was pressed: the
\* order and the selector of every step, and no step that was not there. A step that the user
\* removed is not removed, and two that are added together get one place.
SaveSticks ==
  [][Without({"edit", "heal", "local", "hasty"})
       /\ page.st = "saving" /\ page'.st = "ready" /\ Len(versions') > Len(versions)
       => /\ \A i, j \in 1..Len(page.saves) :
               i < j => step'[page.saves[i].id].order < step'[page.saves[j].id].order
          /\ \A i \in 1..Len(page.saves) : step'[page.saves[i].id].sel = page.saves[i].sel
          /\ \A s \in Steps :
               step'[s] # Gone => step'[s].sel \in Adders \/ \E i \in 1..Len(page.saves) : page.saves[i].id = s]_vars

\* A proposal that was applied to its step is not rejected (comment in reject()), as long as
\* decisions are made one at a time and no query of theirs fails: both read the proposal first
\* and write it by id later, and approve() writes the step before it.
RejectedNotApplied ==
  Without({"overlap", "error"}) => \A l \in applied : log[l].st # "rejected"

=============================================================================
