---------------------------- MODULE PanelsProofs -----------------------------
(***************************************************************************)
(* Theorems of Panels, for any rows, scopes, calls and environments.       *)
(***************************************************************************)
EXTENDS Panels, FiniteSetTheorems, TLAPS

(***************************************************************************)
(* The page and its table, as operators of what they depend on             *)
(***************************************************************************)

PageOf(e) == Pages[CHOOSE page \in DOMAIN Pages : page \in e]

\* A superseded answer is not shown (RecordingsPage alone).
IsGuarded == "recordings" \in env

ListedIn(e, t, p) ==
  [r \in {x \in DOMAIN t : /\ t[x].scope = p
                           /\ "test" \in e \/ "flow" \in e \/ t[x].status # "ARCHIVED"}
     |-> t[r].status]

GivenIn(e, t, p) == IF "members" \in e THEN NoItems ELSE ListedIn(e, t, p)

Items == UNION {[R -> Statuses] : R \in SUBSET Rows}
Table == UNION {[R -> [scope : Scopes, status : Statuses]] : R \in SUBSET Rows}
Shown == [items : Items, from : Places, loading : BOOLEAN, failed : BOOLEAN, old : BOOLEAN]

(***************************************************************************)
(* The inductive invariant                                                 *)
(***************************************************************************)

Away(c) == calls[c].at # "free"
Lists(c) == Away(c) /\ calls[c].op = "list"

\* The rows of the test of a scope: one.
Alone(t, p) == \E r \in Rows : {x \in DOMAIN t : t[x].scope = p} = {r}

\* A call is one that its page makes, about a row that there is.
Fits(call, e, t) ==
  /\ call.at = "free" => call.op = "list"
  /\ call.op = "list" /\ call.at # "free" => call.scope \in Scopes
  /\ call.op = "create" => /\ PageOf(e).made # "never" /\ call.scope \in Scopes
                           /\ call.at = "ok" => call.row \in Rows /\ PageOf(e).made # "refused"
  /\ call.op = "remove" => PageOf(e).gone # "never" /\ call.row \in Rows
  /\ call.op \in {"status", "activate", "trigger"} => "test" \in e /\ call.row \in DOMAIN t
  /\ call.op = "convert" => "convert" \in e /\ call.row \in Rows
  /\ "test" \in e => DOMAIN call.items \subseteq DOMAIN t

OneTest(e, t, items) ==
  "test" \in e => DOMAIN items \subseteq DOMAIN t /\ \A p \in Scopes : Alone(t, p)

KindInv ==
  /\ TypeOK
  /\ place = NoProject => "convert" \in env
  /\ \A c \in Calls : Fits(calls[c], env, table)
  /\ OneTest(env, table, shown.items)

(***************************************************************************)
(* Pages, rows and calls                                                   *)
(***************************************************************************)

PageNames == {"recordings", "projects", "suites", "tests", "members", "secrets", "git", "flow",
              "test", "convert"}

LEMMA PageNamesAre == DOMAIN Pages = PageNames
BY DEF Pages, PageNames

\* An environment names one page.
LEMMA OnePage ==
  ASSUME NEW e \in Environments
  PROVE  \E page \in PageNames : /\ \A x \in PageNames : x \in e <=> x = page
                                 /\ PageOf(e) = Pages[page]
<1>1. PICK page \in PageNames : e \ Kinds = {page}
  BY EnvironmentsAssumption, PageNamesAre
<1>2. PageNames \cap Kinds = {}
  BY DEF PageNames, Kinds
<1>3. \A x \in PageNames : x \in e <=> x = page
  BY <1>1, <1>2
<1>4. (CHOOSE x \in PageNames : x \in e) = page
  BY <1>3
<1>5. PageOf(e) = Pages[page]
  BY <1>4, PageNamesAre DEF PageOf
<1> QED BY <1>3, <1>5

LEMMA PageFacts ==
  ASSUME NEW e \in Environments
  PROVE  /\ PageOf(e).guarded = ("recordings" \in e)
         /\ PageOf(e).made \in {"never", "add", "reload", "refused"}
         /\ PageOf(e).gone \in {"never", "take", "reload"}
         /\ "test" \in e => PageOf(e).made = "never" /\ PageOf(e).gone = "never"
         /\ "convert" \in e => PageOf(e).made = "never" /\ PageOf(e).gone = "never"
         /\ "flow" \in e => PageOf(e).made = "never" /\ PageOf(e).gone = "never"
         /\ "recordings" \in e => PageOf(e).made = "never" /\ PageOf(e).gone = "reload"
         /\ "test" \in e => "convert" \notin e /\ "flow" \notin e /\ "projects" \notin e
                            /\ "tests" \notin e /\ "recordings" \notin e
         /\ "convert" \in e => "flow" \notin e /\ "projects" \notin e /\ "tests" \notin e
                               /\ "recordings" \notin e
         /\ "recordings" \in e => "flow" \notin e /\ "projects" \notin e /\ "tests" \notin e
         /\ "members" \in e => "test" \notin e /\ "convert" \notin e /\ "recordings" \notin e
<1>1. PICK page \in PageNames : /\ \A x \in PageNames : x \in e <=> x = page
                                /\ PageOf(e) = Pages[page]
  BY OnePage
<1> DEFINE Right(p) ==
      /\ Pages[p].guarded = (p = "recordings")
      /\ Pages[p].made \in {"never", "add", "reload", "refused"}
      /\ Pages[p].gone \in {"never", "take", "reload"}
      /\ p \in {"test", "convert", "flow"} => Pages[p].made = "never" /\ Pages[p].gone = "never"
      /\ p = "recordings" => Pages[p].made = "never" /\ Pages[p].gone = "reload"
<1>2. Right(page)
  <2>1. Right("recordings")
    BY DEF Pages, RecordingsPage
  <2>2. Right("projects")
    BY DEF Pages, ProjectsListPage
  <2>3. Right("suites")
    BY DEF Pages, ProjectDetailPage
  <2>4. Right("tests")
    BY DEF Pages, TestsListPage
  <2>5. Right("members")
    BY DEF Pages, MembersPanel
  <2>6. Right("secrets")
    BY DEF Pages, SecretsPanel
  <2>7. Right("git")
    BY DEF Pages, GitIntegrationPanel
  <2>8. Right("flow")
    BY DEF Pages, FlujoPage
  <2>9. Right("test")
    BY DEF Pages, TestDetailPage
  <2>10. Right("convert")
    BY DEF Pages, ConvertModal
  <2> QED BY <2>1, <2>2, <2>3, <2>4, <2>5, <2>6, <2>7, <2>8, <2>9, <2>10 DEF PageNames
<1>3. \A x \in {"recordings", "projects", "tests", "flow", "test", "convert", "members"} :
        x \in e <=> x = page
  BY <1>1 DEF PageNames
<1> QED BY <1>1, <1>2, <1>3

LEMMA PageIs ==
  /\ Page = PageOf(env)
  /\ \A x : Is(x) <=> x \in env
  /\ \A x : Happens(x) <=> x \in env
  /\ \A p : Listed(p) = ListedIn(env, table, p) /\ Given(p) = GivenIn(env, table, p)
BY DEF Page, PageOf, Is, Happens, Listed, ListedIn, Given, GivenIn

\* Items are functions from rows to statuses.
LEMMA ItemsFacts ==
  /\ \A x \in Items : x \in [DOMAIN x -> Statuses] /\ DOMAIN x \subseteq Rows
  /\ \A R \in SUBSET Rows : [R -> Statuses] \subseteq Items
BY DEF Items

LEMMA TableFacts ==
  /\ \A x \in Table : x \in [DOMAIN x -> [scope : Scopes, status : Statuses]] /\ DOMAIN x \subseteq Rows
  /\ \A R \in SUBSET Rows : [R -> [scope : Scopes, status : Statuses]] \subseteq Table
BY DEF Table

LEMMA NoItemsIs == NoItems \in Items /\ DOMAIN NoItems = {}
<1>1. NoItems \in [{} -> Statuses] /\ DOMAIN NoItems = {}
  BY DEF NoItems
<1> QED BY <1>1, ItemsFacts

LEMMA BlankIs ==
  /\ Blank \in Shown /\ Blank.items = NoItems /\ Blank.from = None /\ Blank.loading
  /\ ~Blank.failed /\ ~Blank.old
BY NoItemsIs DEF Blank, Shown, Places

LEMMA FreeIs ==
  Free \in Call /\ Free.at = "free" /\ Free.op = "list" /\ ~Free.old /\ Free.items = NoItems
BY NoItemsIs DEF Free, Call, Places, Statuses, Ops, Items

LEMMA TypeIs ==
  TypeOK <=> /\ env \in Environments /\ table \in Table /\ place \in Places /\ shown \in Shown
             /\ chosen \in Rows \cup {None} /\ calls \in [Calls -> Call] /\ acts \in 0..MaxActs
BY DEF TypeOK, Table, Shown, Items

LEMMA AskIs ==
  ASSUME NEW op \in Ops, NEW p \in Places
  PROVE  /\ Ask(op, p) \in Call
         /\ Ask(op, p).at = "sent" /\ Ask(op, p).op = op /\ Ask(op, p).scope = p
         /\ Ask(op, p).row = None /\ Ask(op, p).to = "DRAFT" /\ Ask(op, p).back = "DRAFT"
         /\ Ask(op, p).live /\ Ask(op, p).off /\ ~Ask(op, p).old /\ Ask(op, p).items = NoItems
BY NoItemsIs DEF Ask, Free, Call, Places, Statuses, Items

LEMMA ListedIs ==
  ASSUME NEW t \in Table, NEW e, NEW p
  PROVE  /\ ListedIn(e, t, p) \in Items
         /\ DOMAIN ListedIn(e, t, p) \subseteq DOMAIN t
         /\ DOMAIN ListedIn(e, t, p) =
              {x \in DOMAIN t : /\ t[x].scope = p
                                /\ "test" \in e \/ "flow" \in e \/ t[x].status # "ARCHIVED"}
         /\ \A x \in DOMAIN ListedIn(e, t, p) : ListedIn(e, t, p)[x] = t[x].status
<1> DEFINE R == {x \in DOMAIN t : /\ t[x].scope = p
                                  /\ "test" \in e \/ "flow" \in e \/ t[x].status # "ARCHIVED"}
<1>1. \A x \in R : t[x].status \in Statuses
  BY TableFacts
<1>2. R \in SUBSET Rows
  BY TableFacts
<1>3. ListedIn(e, t, p) = [r \in R |-> t[r].status]
  BY DEF ListedIn
<1>4. ListedIn(e, t, p) \in [R -> Statuses]
  BY <1>1, <1>3
<1>5. DOMAIN ListedIn(e, t, p) = R
  BY <1>3
<1>6. R \subseteq DOMAIN t
  OBVIOUS
<1> QED BY <1>2, <1>3, <1>4, <1>5, <1>6, ItemsFacts

LEMMA GivenIs ==
  ASSUME NEW t \in Table, NEW e, NEW p
  PROVE  GivenIn(e, t, p) \in Items /\ DOMAIN GivenIn(e, t, p) \subseteq DOMAIN t
<1>1. CASE "members" \in e
  <2>1. GivenIn(e, t, p) = NoItems
    BY <1>1 DEF GivenIn
  <2>2. {} \subseteq DOMAIN t
    OBVIOUS
  <2>3. NoItems \in Items /\ DOMAIN NoItems \subseteq DOMAIN t
    BY <2>2, NoItemsIs
  <2> QED BY <2>1, <2>3, Zenon
<1>2. CASE "members" \notin e
  <2>1. GivenIn(e, t, p) = ListedIn(e, t, p)
    BY <1>2 DEF GivenIn
  <2>2. ListedIn(e, t, p) \in Items /\ DOMAIN ListedIn(e, t, p) \subseteq DOMAIN t
    BY ListedIs
  <2> QED BY <2>1, <2>2, Zenon
<1> QED BY <1>1, <1>2

\* The statement of a call is the same, but for whether it is heard, off or outdated.
Like(a, b) ==
  /\ a.at = b.at /\ a.op = b.op /\ a.scope = b.scope /\ a.row = b.row /\ a.to = b.to
  /\ a.back = b.back /\ a.items = b.items

LEMMA CallUnheard ==
  ASSUME NEW d \in Call
  PROVE  LET u == [d EXCEPT !.live = FALSE, !.off = FALSE] IN
         u \in Call /\ Like(u, d) /\ ~u.live /\ u.old = d.old
BY DEF Call, Like

LEMMA CallOutdated ==
  ASSUME NEW d \in Call
  PROVE  LET u == [d EXCEPT !.old = d.at = "ok"] IN
         u \in Call /\ Like(u, d) /\ u.live = d.live /\ u.old = (d.at = "ok")
BY DEF Call, Like

LEMMA CallSuperseded ==
  ASSUME NEW d \in Call
  PROVE  LET u == [d EXCEPT !.live = @ /\ d.op # "list", !.off = FALSE] IN
         u \in Call /\ Like(u, d) /\ u.live = (d.live /\ d.op # "list") /\ u.old = d.old
BY DEF Call, Like

LEMMA UnheardIs ==
  ASSUME NEW cs \in [Calls -> Call]
  PROVE  /\ Unheard(cs) \in [Calls -> Call]
         /\ \A c \in Calls : /\ Like(Unheard(cs)[c], cs[c]) /\ ~Unheard(cs)[c].live
                             /\ Unheard(cs)[c].old = cs[c].old
<1>1. ASSUME NEW c \in Calls
      PROVE  /\ Unheard(cs)[c] \in Call
             /\ Like(Unheard(cs)[c], cs[c]) /\ ~Unheard(cs)[c].live
             /\ Unheard(cs)[c].old = cs[c].old
  <2>1. cs[c] \in Call /\ Unheard(cs)[c] = [cs[c] EXCEPT !.live = FALSE, !.off = FALSE]
    BY DEF Unheard
  <2> QED BY <2>1, CallUnheard
<1>2. Unheard(cs) = [c \in Calls |-> Unheard(cs)[c]]
  BY DEF Unheard
<1> QED BY <1>1, <1>2

LEMMA OutdatedIs ==
  ASSUME NEW cs \in [Calls -> Call]
  PROVE  /\ Outdated(cs) \in [Calls -> Call]
         /\ \A c \in Calls : /\ Like(Outdated(cs)[c], cs[c])
                             /\ Outdated(cs)[c].live = cs[c].live
                             /\ Outdated(cs)[c].old = (cs[c].at = "ok")
<1>1. ASSUME NEW c \in Calls
      PROVE  /\ Outdated(cs)[c] \in Call
             /\ Like(Outdated(cs)[c], cs[c])
             /\ Outdated(cs)[c].live = cs[c].live
             /\ Outdated(cs)[c].old = (cs[c].at = "ok")
  <2>1. cs[c] \in Call /\ Outdated(cs)[c] = [cs[c] EXCEPT !.old = cs[c].at = "ok"]
    BY DEF Outdated
  <2> QED BY <2>1, CallOutdated
<1>2. Outdated(cs) = [c \in Calls |-> Outdated(cs)[c]]
  BY DEF Outdated
<1> QED BY <1>1, <1>2

LEMMA SupersededIs ==
  ASSUME env \in Environments, NEW cs \in [Calls -> Call]
  PROVE  /\ Superseded(cs) \in [Calls -> Call]
         /\ ~IsGuarded => Superseded(cs) = cs
         /\ \A c \in Calls : /\ Like(Superseded(cs)[c], cs[c])
                             /\ Superseded(cs)[c].old = cs[c].old
                             /\ IsGuarded => Superseded(cs)[c].live = (cs[c].live /\ cs[c].op # "list")
<1>1. Page.guarded = IsGuarded
  BY PageFacts, PageIs DEF IsGuarded
<1>2. CASE ~IsGuarded
  BY <1>1, <1>2 DEF Superseded, Like
<1>3. CASE IsGuarded
  <2>1. ASSUME NEW c \in Calls
        PROVE  /\ Superseded(cs)[c] \in Call
               /\ Like(Superseded(cs)[c], cs[c])
               /\ Superseded(cs)[c].live = (cs[c].live /\ cs[c].op # "list")
               /\ Superseded(cs)[c].old = cs[c].old
    <3>1. /\ cs[c] \in Call
          /\ Superseded(cs)[c] = [cs[c] EXCEPT !.live = @ /\ cs[c].op # "list", !.off = FALSE]
      BY <1>1, <1>3 DEF Superseded
    <3> QED BY <3>1, CallSuperseded
  <2>2. Superseded(cs) = [c \in Calls |-> Superseded(cs)[c]]
    BY <1>1, <1>3 DEF Superseded
  <2> QED BY <1>3, <2>1, <2>2
<1> QED BY <1>2, <1>3

(***************************************************************************)
(* What a step does                                                        *)
(***************************************************************************)

OnlyCall(c) == \A d \in Calls \ {c} : calls'[d] = calls[d]

LEMMA KindTypes ==
  ASSUME KindInv
  PROVE  /\ env \in Environments /\ table \in Table /\ place \in Places /\ shown \in Shown
         /\ chosen \in Rows \cup {None} /\ calls \in [Calls -> Call] /\ acts \in 0..MaxActs
         /\ \A c \in Calls : calls[c] \in Call /\ Fits(calls[c], env, table)
         /\ OneTest(env, table, shown.items)
         /\ shown.items \in Items
BY TypeIs DEF KindInv, Shown

LEMMA KindKept ==
  ASSUME KindInv, env' = env, table' \in Table, place' \in Places,
         place' = NoProject => "convert" \in env,
         shown' \in Shown, chosen' \in Rows \cup {None}, calls' \in [Calls -> Call],
         acts' \in 0..MaxActs, \A c \in Calls : Fits(calls'[c], env, table'),
         OneTest(env, table', shown'.items)
  PROVE  KindInv'
<1>1. env \in Environments
  BY KindTypes
<1>2. TypeOK'
  BY <1>1 DEF TypeOK, Table, Shown, Items
<1> QED BY <1>2 DEF KindInv

LEMMA FitsLike ==
  ASSUME NEW a \in Call, NEW b \in Call, Like(a, b), NEW e, NEW t, NEW u, Fits(b, e, t),
         "test" \in e => DOMAIN t \subseteq DOMAIN u
  PROVE  Fits(a, e, u)
BY DEF Fits, Like

LEMMA SendIs ==
  ASSUME calls \in [Calls -> Call], NEW c \in Calls, NEW call \in Call, Sends(c, call)
  PROVE  /\ calls' \in [Calls -> Call] /\ calls[c].at = "free" /\ calls'[c] = call
         /\ OnlyCall(c)
BY DEF Sends, OnlyCall

LEMMA ActIs == ASSUME acts \in 0..MaxActs, acts < MaxActs, acts' = acts + 1 PROVE acts' \in 0..MaxActs
BY BoundAssumption

\* The user who does not hurry acts when nothing is under way.
LEMMA MayActIs ==
  ASSUME KindInv, MayAct
  PROVE  /\ acts' \in 0..MaxActs
         /\ "overlap" \notin env => Quiet
BY KindTypes, ActIs, PageIs DEF MayAct

LEMMA RowIs ==
  ASSUME table \in Table, NEW r \in Rows, NEW p \in Scopes, NEW s \in Statuses
  PROVE  /\ Row(r, p, s) \in Table
         /\ DOMAIN Row(r, p, s) = DOMAIN table \cup {r}
         /\ Row(r, p, s)[r].scope = p /\ Row(r, p, s)[r].status = s
         /\ \A x \in DOMAIN table \ {r} : Row(r, p, s)[x] = table[x]
<1>1. table \in [DOMAIN table -> [scope : Scopes, status : Statuses]] /\ DOMAIN table \subseteq Rows
  BY TableFacts
<1>2. Row(r, p, s) \in [DOMAIN table \cup {r} -> [scope : Scopes, status : Statuses]]
  BY <1>1 DEF Row
<1>3. DOMAIN table \cup {r} \in SUBSET Rows
  BY <1>1
<1>4. Row(r, p, s) \in Table
  BY <1>2, <1>3, TableFacts
<1>5. /\ DOMAIN Row(r, p, s) = DOMAIN table \cup {r}
      /\ Row(r, p, s)[r] = [scope |-> p, status |-> s]
      /\ \A x \in DOMAIN table \ {r} : Row(r, p, s)[x] = table[x]
  BY DEF Row
<1> QED BY <1>4, <1>5

\* A table with another row.
RowShape(t, r, p, s) ==
  /\ t \in Table /\ DOMAIN t = DOMAIN table \cup {r} /\ t[r].scope = p /\ t[r].status = s
  /\ \A x \in DOMAIN table \ {r} : t[x] = table[x]

LEMMA RowShapeIs ==
  ASSUME table \in Table, NEW r \in Rows, NEW p \in Scopes, NEW s \in Statuses
  PROVE  RowShape(Row(r, p, s), r, p, s)
<1>1. PICK t : t = Row(r, p, s)
  OBVIOUS
<1>2. t \in Table
  BY <1>1, RowIs
<1>3. /\ DOMAIN t = DOMAIN table \cup {r}
      /\ t[r] = [scope |-> p, status |-> s]
      /\ \A x \in DOMAIN table \ {r} : t[x] = table[x]
  BY <1>1 DEF Row
<1> QED BY <1>1, <1>2, <1>3 DEF RowShape

\* The answer of the API to a call, which may be one that the page does not hear.
Behind(call) == call.op \in {"create", "remove", "status", "activate"} /\ ~call.live

AnswerEffect(c, call) ==
  /\ calls' \in [Calls -> Call]
  /\ \A d \in Calls \ {c} :
       /\ Like(calls'[d], calls[d]) /\ calls'[d].live = calls[d].live
       /\ ~Behind(call) => calls'[d].old = calls[d].old
       /\ Behind(call) => calls'[d].old = (calls[d].at = "ok")
  /\ shown' \in Shown /\ shown'.items = shown.items /\ shown'.from = shown.from
  /\ shown'.loading = shown.loading /\ shown'.failed = shown.failed
  /\ ~Behind(call) => shown'.old = shown.old
  /\ Behind(call) => shown'.old

LEMMA AnswersIs ==
  ASSUME KindInv, NEW c \in Calls, NEW call \in Call, Answers(c, call)
  PROVE  AnswerEffect(c, call) /\ calls'[c] = [call EXCEPT !.at = "ok"]
<1>1. calls \in [Calls -> Call] /\ shown \in Shown
  BY KindTypes
<1>2. [call EXCEPT !.at = "ok"] \in Call
  BY DEF Call
<1>3. CASE Behind(call)
  <2>1. calls' = [Outdated(calls) EXCEPT ![c] = [call EXCEPT !.at = "ok"]]
    BY <1>3 DEF Answers, Behind
  <2>2. shown' = [shown EXCEPT !.old = TRUE]
    BY <1>1, <1>3 DEF Answers, Behind, Shown
  <2>3. calls' \in [Calls -> Call] /\ calls'[c] = [call EXCEPT !.at = "ok"]
    BY <1>1, <1>2, <2>1, OutdatedIs
  <2>4. \A d \in Calls \ {c} : calls'[d] = Outdated(calls)[d]
    BY <1>1, <2>1, OutdatedIs
  <2>5. \A d \in Calls \ {c} : /\ Like(calls'[d], calls[d]) /\ calls'[d].live = calls[d].live
                               /\ calls'[d].old = (calls[d].at = "ok")
    BY <1>1, <2>4, OutdatedIs
  <2>6. /\ shown' \in Shown /\ shown'.items = shown.items /\ shown'.from = shown.from
        /\ shown'.loading = shown.loading /\ shown'.failed = shown.failed /\ shown'.old
    BY <1>1, <2>2 DEF Shown
  <2> QED BY <1>3, <2>3, <2>5, <2>6 DEF AnswerEffect
<1>4. CASE ~Behind(call)
  <2>1. calls' = [calls EXCEPT ![c] = [call EXCEPT !.at = "ok"]]
    BY <1>4 DEF Answers, Behind
  <2>2. shown' = shown
    BY <1>1, <1>4 DEF Answers, Behind, Shown
  <2>3. calls' \in [Calls -> Call] /\ calls'[c] = [call EXCEPT !.at = "ok"]
    BY <1>1, <1>2, <2>1
  <2>4. \A d \in Calls \ {c} : calls'[d] = calls[d]
    BY <1>1, <2>1
  <2>5. \A d \in Calls \ {c} : /\ Like(calls'[d], calls[d]) /\ calls'[d].live = calls[d].live
                               /\ calls'[d].old = calls[d].old
    BY <2>4 DEF Like
  <2> QED BY <1>1, <1>4, <2>2, <2>3, <2>5 DEF AnswerEffect
<1> QED BY <1>3, <1>4

\* What stays of a call that the API answers.
Served(c) ==
  /\ calls[c].at = "sent" /\ calls'[c].at = "ok"
  /\ calls'[c].op = calls[c].op /\ calls'[c].scope = calls[c].scope
  /\ calls'[c].to = calls[c].to /\ calls'[c].back = calls[c].back
  /\ calls'[c].live = calls[c].live /\ calls'[c].old = calls[c].old
  /\ calls[c].op # "create" => calls'[c].row = calls[c].row
  /\ calls[c].op # "list" => calls'[c].items = calls[c].items
  /\ UNCHANGED <<env, place, chosen, acts>>
  /\ AnswerEffect(c, calls'[c])

\* What the API does.
ListServed(c) ==
  /\ calls[c].op = "list" /\ UNCHANGED table
  /\ calls'[c].items = GivenIn(env, table, calls[c].scope)

OtherServed(c) == calls[c].op \in {"trigger", "convert"} /\ UNCHANGED table

RemoveServed(c) ==
  LET r == calls[c].row IN
  /\ calls[c].op = "remove" /\ r \in DOMAIN table
  /\ table' = IF "tests" \in env \/ "projects" \in env
              THEN Row(r, table[r].scope, "ARCHIVED")
              ELSE [x \in DOMAIN table \ {r} |-> table[x]]

StatusServed(c) ==
  /\ calls[c].op \in {"status", "activate"}
  /\ table' = Row(calls[c].row, table[calls[c].row].scope, calls[c].to)

CreateServed(c) ==
  /\ calls[c].op = "create"
  /\ \E r \in Rows \ DOMAIN table :
       table' = Row(r, calls[c].scope, "DRAFT") /\ calls'[c].row = r

LEMMA AnswerOk ==
  ASSUME NEW d \in Call
  PROVE  LET u == [d EXCEPT !.at = "ok"] IN
         /\ u \in Call /\ u.at = "ok" /\ u.op = d.op /\ u.scope = d.scope /\ u.row = d.row
         /\ u.to = d.to /\ u.back = d.back /\ u.live = d.live /\ u.old = d.old
         /\ u.items = d.items
         /\ Behind(u) <=> Behind(d)
BY DEF Call, Behind

LEMMA ServeIs ==
  ASSUME KindInv, NEW c \in Calls, Serve(c)
  PROVE  /\ Served(c)
         /\ \/ ListServed(c) \/ OtherServed(c) \/ RemoveServed(c) \/ StatusServed(c)
            \/ CreateServed(c)
<1> DEFINE call == calls[c]
<1>1. call \in Call /\ Fits(call, env, table) /\ table \in Table
  BY KindTypes
<1>2. call.at = "sent" /\ UNCHANGED <<env, place, chosen, acts>>
  BY DEF Serve
<1>3. ASSUME NEW d \in Call, Answers(c, d),
             d.op = call.op, d.scope = call.scope, d.to = call.to, d.back = call.back,
             d.live = call.live, d.old = call.old, call.op # "create" => d.row = call.row,
             call.op # "list" => d.items = call.items
      PROVE  Served(c) /\ calls'[c].items = d.items /\ calls'[c].row = d.row
  <2>1. AnswerEffect(c, d) /\ calls'[c] = [d EXCEPT !.at = "ok"]
    BY <1>3, AnswersIs
  <2>3. /\ calls'[c].at = "ok" /\ calls'[c].op = d.op /\ calls'[c].scope = d.scope
        /\ calls'[c].row = d.row /\ calls'[c].to = d.to /\ calls'[c].back = d.back
        /\ calls'[c].live = d.live /\ calls'[c].old = d.old /\ calls'[c].items = d.items
        /\ Behind(calls'[c]) <=> Behind(d)
    BY <2>1, AnswerOk
  <2>4. AnswerEffect(c, calls'[c])
    BY <2>1, <2>3 DEF AnswerEffect
  <2> QED BY <1>2, <1>3, <2>3, <2>4 DEF Served
<1>4. CASE call.op = "create"
  <2>1. PICK r \in Rows \ DOMAIN table :
          table' = Row(r, call.scope, "DRAFT") /\ Answers(c, [call EXCEPT !.row = r])
    BY <1>4 DEF Serve, Creates
  <2>2. /\ [call EXCEPT !.row = r] \in Call
        /\ [call EXCEPT !.row = r].row = r /\ [call EXCEPT !.row = r].op = call.op
        /\ [call EXCEPT !.row = r].scope = call.scope /\ [call EXCEPT !.row = r].to = call.to
        /\ [call EXCEPT !.row = r].back = call.back /\ [call EXCEPT !.row = r].live = call.live
        /\ [call EXCEPT !.row = r].old = call.old /\ [call EXCEPT !.row = r].items = call.items
    BY <1>1 DEF Call
  <2>3. Served(c) /\ calls'[c].row = r
    BY <1>3, <1>4, <2>1, <2>2
  <2> QED BY <1>4, <2>1, <2>3 DEF CreateServed
<1>5. CASE call.op # "create"
  <2> DEFINE items == IF call.op = "list" THEN GivenIn(env, table, call.scope) ELSE call.items
             d == [call EXCEPT !.items = items]
  <2>1. Serves(c, call)
    BY <1>5 DEF Serve
  <2>2. items \in Items
    BY <1>1, GivenIs DEF Call, Items
  <2>3. /\ d \in Call /\ d.items = items /\ d.row = call.row /\ d.op = call.op
        /\ d.scope = call.scope /\ d.to = call.to /\ d.back = call.back /\ d.live = call.live
        /\ d.old = call.old
    BY <1>1, <2>2 DEF Call, Items
  <2>4. [call EXCEPT !.items = IF call.op = "list" THEN Given(call.scope) ELSE @] = d
    BY PageIs
  <2>5. Answers(c, d)
    BY <2>1, <2>4 DEF Serves
  <2> HIDE DEF d
  <2>6. Served(c) /\ calls'[c].items = items
    BY <1>3, <1>5, <2>3, <2>5
  <2>7. \/ call.op \in {"list", "trigger", "convert"} /\ UNCHANGED table
        \/ RemoveServed(c)
        \/ StatusServed(c)
    BY <2>1, PageIs DEF Serves, RemoveServed, StatusServed
  <2> QED BY <2>6, <2>7 DEF ListServed, OtherServed
<1> QED BY <1>4, <1>5

\* What the page shows of a row that was created or removed, and of a status.
Added(items, r) == [x \in DOMAIN items \cup {r} |-> IF x = r THEN "DRAFT" ELSE items[x]]
Taken(items, r) == [x \in DOMAIN items \ {r} |-> items[x]]
AllAt(items, s) == [x \in DOMAIN items |-> s]

LEMMA ItemsMade ==
  ASSUME NEW items \in Items
  PROVE  /\ \A r \in Rows : Added(items, r) \in Items /\ DOMAIN Added(items, r) = DOMAIN items \cup {r}
         /\ \A r : Taken(items, r) \in Items /\ DOMAIN Taken(items, r) = DOMAIN items \ {r}
         /\ \A s \in Statuses : AllAt(items, s) \in Items /\ DOMAIN AllAt(items, s) = DOMAIN items
<1>1. items \in [DOMAIN items -> Statuses] /\ DOMAIN items \subseteq Rows
  BY ItemsFacts
<1>2. "DRAFT" \in Statuses
  BY DEF Statuses
<1>3. ASSUME NEW r \in Rows
      PROVE  Added(items, r) \in Items /\ DOMAIN Added(items, r) = DOMAIN items \cup {r}
  <2>1. Added(items, r) \in [DOMAIN items \cup {r} -> Statuses]
    BY <1>1, <1>2 DEF Added
  <2>2. DOMAIN items \cup {r} \in SUBSET Rows
    BY <1>1
  <2> QED BY <2>1, <2>2, ItemsFacts
<1>4. ASSUME NEW r
      PROVE  Taken(items, r) \in Items /\ DOMAIN Taken(items, r) = DOMAIN items \ {r}
  <2>1. Taken(items, r) \in [DOMAIN items \ {r} -> Statuses]
    BY <1>1 DEF Taken
  <2>2. DOMAIN items \ {r} \in SUBSET Rows
    BY <1>1
  <2> QED BY <2>1, <2>2, ItemsFacts
<1>5. ASSUME NEW s \in Statuses
      PROVE  AllAt(items, s) \in Items /\ DOMAIN AllAt(items, s) = DOMAIN items
  <2>1. AllAt(items, s) \in [DOMAIN items -> Statuses]
    BY DEF AllAt
  <2> QED BY <1>1, <2>1, ItemsFacts
<1> QED BY <1>3, <1>4, <1>5

\* The call is over, and no other changes.
Freed(c) == calls' \in [Calls -> Call] /\ calls'[c] = Free /\ OnlyCall(c)

LEMMA DoneIs ==
  ASSUME calls \in [Calls -> Call], NEW c \in Calls, Done(c)
  PROVE  Freed(c)
BY FreeIs DEF Done, Freed, OnlyCall

\* What becomes of an answer.
Ignored(c) ==
  /\ Freed(c) /\ UNCHANGED <<place, shown, chosen>>
  /\ calls[c].live => calls[c].at = "error" /\ calls[c].op \notin {"list", "status"}
  /\ calls[c].op = "activate" => calls[c].at = "error"
  /\ calls[c].op \in {"trigger", "convert"} => calls[c].at = "error"

ListShown(c) ==
  /\ calls[c].op = "list" /\ calls[c].live /\ Freed(c) /\ place' = place /\ shown' \in Shown
  /\ shown'.from = calls[c].scope /\ ~shown'.loading
  /\ calls[c].at = "ok" =>
       /\ shown'.items = calls[c].items /\ ~shown'.failed /\ shown'.old = calls[c].old
       /\ chosen' = chosen \/ ("convert" \in env /\ chosen' \in DOMAIN calls[c].items)
  /\ calls[c].at = "error" =>
       /\ shown'.failed /\ shown'.old = shown.old /\ chosen' = chosen
       /\ shown'.items = shown.items \/ (IsGuarded /\ shown'.items = NoItems)

Reloaded(c) ==
  /\ calls[c].op \in {"create", "remove"} /\ calls[c].live /\ calls[c].at = "ok"
  /\ calls' \in [Calls -> Call] /\ calls'[c] = Ask("list", place)
  /\ \A d \in Calls \ {c} :
       /\ Like(calls'[d], calls[d]) /\ calls'[d].old = calls[d].old
       /\ IsGuarded /\ calls'[d].live => calls[d].live /\ calls[d].op # "list"
       /\ ~IsGuarded => calls'[d] = calls[d]
  /\ UNCHANGED <<place, chosen>> /\ shown' \in Shown
  /\ IsGuarded => shown' = Blank
  /\ ~IsGuarded => /\ shown'.items = shown.items /\ shown'.from = shown.from
                   /\ shown'.failed = shown.failed /\ shown'.old = shown.old

\* Nothing but the items is shown otherwise.
Keeps == /\ shown' \in Shown /\ shown'.from = shown.from /\ shown'.loading = shown.loading
         /\ shown'.failed = shown.failed /\ shown'.old = shown.old

RowShown(c) ==
  /\ calls[c].op \in {"create", "remove"} /\ calls[c].live /\ calls[c].at = "ok" /\ Freed(c)
  /\ ~IsGuarded
  /\ UNCHANGED <<place, chosen>> /\ Keeps
  /\ calls[c].op = "create" => shown'.items = Added(shown.items, calls[c].row)
  /\ calls[c].op = "remove" => shown'.items = Taken(shown.items, calls[c].row)

Triggered(c) ==
  /\ calls[c].op = "activate" /\ calls[c].at = "ok"
  /\ calls' \in [Calls -> Call] /\ OnlyCall(c)
  /\ calls'[c].at = "sent" /\ calls'[c].op = "trigger" /\ calls'[c].scope = calls[c].scope
  /\ calls'[c].row = calls[c].row /\ calls'[c].to = calls[c].to
  /\ calls'[c].back = calls[c].back /\ calls'[c].live = calls[c].live
  /\ calls'[c].items = calls[c].items /\ calls'[c].old = calls[c].old

StatusShown(c) ==
  /\ UNCHANGED <<place, chosen>>
  /\ Triggered(c) \/ (calls[c].op = "status" /\ Freed(c))
  /\ \/ ~calls[c].live /\ UNCHANGED shown
     \/ calls[c].live /\ Keeps /\ shown'.items = AllAt(shown.items, ShowStatus(calls[c]))

Gone(c) ==
  /\ calls[c].op \in {"trigger", "convert"} /\ calls[c].at = "ok"
  /\ calls' \in [Calls -> Call] /\ calls'[c] = Free
  /\ \A d \in Calls \ {c} :
       Like(calls'[d], calls[d]) /\ ~calls'[d].live /\ calls'[d].old = calls[d].old
  /\ place' = None /\ shown' = Blank /\ chosen' = None

LEMMA ShowListIs ==
  ASSUME KindInv, NEW c \in Calls, calls[c].live, calls[c].op = "list",
         calls[c].at \in {"ok", "error"}, ShowList(c, calls[c])
  PROVE  ListShown(c)
<1>1. /\ calls \in [Calls -> Call] /\ calls[c] \in Call /\ shown \in Shown
      /\ Fits(calls[c], env, table)
  BY KindTypes
<1>2. Freed(c) /\ place' = place
  BY <1>1, DoneIs DEF ShowList
<1>3. Page.guarded = IsGuarded
  BY KindTypes, PageFacts, PageIs DEF IsGuarded
<1>4. calls[c].scope \in Places /\ calls[c].items \in Items /\ calls[c].old \in BOOLEAN
  BY <1>1 DEF Call, Items
<1>5. CASE calls[c].at = "ok"
  <2>1. shown' = [items |-> calls[c].items, from |-> calls[c].scope, loading |-> FALSE,
                  failed |-> FALSE, old |-> calls[c].old]
    BY <1>5 DEF ShowList
  <2>2. /\ shown' \in Shown /\ shown'.from = calls[c].scope /\ ~shown'.loading /\ ~shown'.failed
        /\ shown'.items = calls[c].items /\ shown'.old = calls[c].old
    BY <1>4, <2>1 DEF Shown
  <2>3. chosen' = chosen \/ ("convert" \in env /\ chosen' \in DOMAIN calls[c].items)
    <3>1. CASE "convert" \in env /\ Cardinality(DOMAIN calls[c].items) = 1
      <4>1. DOMAIN calls[c].items # {}
        BY <3>1, FS_EmptySet
      <4>2. chosen' = CHOOSE r \in DOMAIN calls[c].items : TRUE
        BY <1>5, <3>1, PageIs DEF ShowList
      <4>3. chosen' \in DOMAIN calls[c].items
        BY <4>1, <4>2
      <4> QED BY <3>1, <4>3
    <3>2. CASE ~("convert" \in env /\ Cardinality(DOMAIN calls[c].items) = 1)
      <4>1. chosen' = IF Is("convert") /\ Cardinality(DOMAIN calls[c].items) = 1
                      THEN CHOOSE r \in DOMAIN calls[c].items : TRUE ELSE chosen
        BY <1>5 DEF ShowList
      <4>2. ~(Is("convert") /\ Cardinality(DOMAIN calls[c].items) = 1)
        BY <3>2, PageIs
      <4>3. chosen' = chosen
        BY <4>1, <4>2, Zenon
      <4> QED BY <4>3
    <3> QED BY <3>1, <3>2
  <2> QED BY <1>2, <1>5, <2>2, <2>3 DEF ListShown
<1>6. CASE calls[c].at = "error"
  <2>1. /\ shown' = [shown EXCEPT !.loading = FALSE, !.failed = TRUE, !.from = calls[c].scope,
                                  !.items = IF IsGuarded THEN NoItems ELSE @]
        /\ chosen' = chosen
    BY <1>3, <1>6 DEF ShowList
  <2> DEFINE items == IF IsGuarded THEN NoItems ELSE shown.items
  <2>2. items \in Items /\ (items = shown.items \/ (IsGuarded /\ items = NoItems))
    <3>1. shown.items \in Items
      BY <1>1 DEF Shown
    <3>2. CASE IsGuarded
      BY <3>2, NoItemsIs
    <3>3. CASE ~IsGuarded
      BY <3>1, <3>3
    <3> QED BY <3>2, <3>3
  <2>3. shown' = [shown EXCEPT !.loading = FALSE, !.failed = TRUE, !.from = calls[c].scope,
                                !.items = items]
    BY <2>1
  <2> HIDE DEF items
  <2>4. /\ shown' \in Shown /\ shown'.from = calls[c].scope /\ ~shown'.loading /\ shown'.failed
        /\ shown'.old = shown.old /\ shown'.items = items
    BY <1>1, <1>4, <2>2, <2>3 DEF Shown
  <2>5. chosen' = chosen
    BY <2>1
  <2>6. shown'.items = shown.items \/ (IsGuarded /\ shown'.items = NoItems)
    BY <2>2, <2>4
  <2> QED BY <1>2, <1>6, <2>4, <2>5, <2>6 DEF ListShown
<1> QED BY <1>5, <1>6

LEMMA ReloadsIs ==
  ASSUME KindInv, place # None, NEW c \in Calls, calls[c].op \in {"create", "remove"}, calls[c].live,
         calls[c].at = "ok", Reloads(c), UNCHANGED <<place, chosen>>
  PROVE  Reloaded(c)
<1>1. env \in Environments /\ calls \in [Calls -> Call] /\ shown \in Shown /\ place \in Places
  BY KindTypes
<1>2. Page.guarded = IsGuarded
  BY <1>1, PageFacts, PageIs DEF IsGuarded
<1>3. Superseded(calls) \in [Calls -> Call] /\ Ask("list", place) \in Call
  BY <1>1, SupersededIs, AskIs DEF Ops
<1>4. calls' = [Superseded(calls) EXCEPT ![c] = Ask("list", place)]
  BY DEF Reloads
<1>5. calls' \in [Calls -> Call] /\ calls'[c] = Ask("list", place)
  BY <1>3, <1>4
<1>6. \A d \in Calls \ {c} : calls'[d] = Superseded(calls)[d]
  BY <1>3, <1>4
<1>7. \A d \in Calls \ {c} :
        /\ Like(calls'[d], calls[d]) /\ calls'[d].old = calls[d].old
        /\ IsGuarded /\ calls'[d].live => calls[d].live /\ calls[d].op # "list"
        /\ ~IsGuarded => calls'[d] = calls[d]
  <2>1. \A d \in Calls : /\ Like(Superseded(calls)[d], calls[d])
                         /\ Superseded(calls)[d].old = calls[d].old
                         /\ (IsGuarded /\ Superseded(calls)[d].live)
                              => calls[d].live /\ calls[d].op # "list"
    BY <1>1, SupersededIs
  <2>2. ~IsGuarded => Superseded(calls) = calls
    BY <1>1, SupersededIs
  <2> QED BY <1>6, <2>1, <2>2
<1>8. shown' \in Shown /\ (IsGuarded => shown' = Blank)
  BY <1>1, <1>2, BlankIs DEF Reloads, Shown, Is
<1>9. ~IsGuarded => /\ shown'.items = shown.items /\ shown'.from = shown.from
                    /\ shown'.failed = shown.failed /\ shown'.old = shown.old
  BY <1>1, <1>2 DEF Reloads, Shown
<1> QED BY <1>5, <1>7, <1>8, <1>9 DEF Reloaded

LEMMA ShowRowIs ==
  ASSUME KindInv, place # None, NEW c \in Calls, calls[c].op \in {"create", "remove"}, calls[c].live,
         calls[c].at \in {"ok", "error"}, ShowRow(c, calls[c])
  PROVE  Ignored(c) \/ Reloaded(c) \/ RowShown(c)
<1>1. /\ calls \in [Calls -> Call] /\ calls[c] \in Call /\ shown \in Shown /\ env \in Environments
      /\ Fits(calls[c], env, table) /\ shown.items \in Items
  BY KindTypes
<1>2. UNCHANGED <<place, chosen>>
  BY DEF ShowRow
<1>3. CASE calls[c].at = "error"
  <2>1. Done(c) /\ shown' = shown
    BY <1>3 DEF ShowRow
  <2> QED BY <1>1, <1>2, <1>3, <2>1, DoneIs DEF Ignored
<1> DEFINE how == IF calls[c].op = "create" THEN Page.made ELSE Page.gone
<1>4. CASE calls[c].at = "ok" /\ how = "reload"
  <2>1. Reloads(c)
    BY <1>4 DEF ShowRow
  <2> QED BY <1>2, <1>4, <2>1, ReloadsIs
<1>5. CASE calls[c].at = "ok" /\ how # "reload"
  <2>1. /\ Done(c)
        /\ shown' = IF how = "add"
                    THEN [shown EXCEPT !.items = Added(@, calls[c].row)]
                    ELSE [shown EXCEPT !.items = Taken(@, calls[c].row)]
    BY <1>5 DEF ShowRow, Added, Taken
  <2>2. calls[c].op = "create" => how = "add" /\ calls[c].row \in Rows
    BY <1>1, <1>5, PageIs, PageFacts DEF Fits
  <2>3. calls[c].op = "remove" => how = "take"
    BY <1>1, <1>5, PageIs, PageFacts DEF Fits
  <2>4. ~IsGuarded
    BY <1>1, <2>2, <2>3, PageIs, PageFacts DEF IsGuarded
  <2>5. calls[c].op = "create" => shown' = [shown EXCEPT !.items = Added(shown.items, calls[c].row)]
    BY <2>1, <2>2
  <2>6. calls[c].op = "remove" => shown' = [shown EXCEPT !.items = Taken(shown.items, calls[c].row)]
    BY <2>1, <2>3
  <2>7. /\ calls[c].op = "create" => Added(shown.items, calls[c].row) \in Items
        /\ Taken(shown.items, calls[c].row) \in Items
    BY <1>1, <2>2, ItemsMade
  <2>8. Keeps
    BY <1>1, <2>5, <2>6, <2>7 DEF Keeps, Shown
  <2>9. /\ calls[c].op = "create" => shown'.items = Added(shown.items, calls[c].row)
        /\ calls[c].op = "remove" => shown'.items = Taken(shown.items, calls[c].row)
    BY <1>1, <2>5, <2>6 DEF Shown
  <2> QED BY <1>1, <1>2, <1>5, <2>1, <2>4, <2>8, <2>9, DoneIs DEF RowShown
<1> QED BY <1>3, <1>4, <1>5

LEMMA ShowChangeIs ==
  ASSUME KindInv, NEW c \in Calls, calls[c].op \in {"status", "activate"},
         calls[c].at \in {"ok", "error"}, ShowChange(c, calls[c])
  PROVE  Ignored(c) \/ StatusShown(c)
<1>1. /\ calls \in [Calls -> Call] /\ calls[c] \in Call /\ shown \in Shown
      /\ shown.items \in Items
  BY KindTypes
<1>2. UNCHANGED <<place, chosen>>
  BY DEF ShowChange
<1>3. ShowStatus(calls[c]) \in Statuses
  BY <1>1 DEF ShowStatus, Call
<1>4. CASE calls[c].op = "activate" /\ calls[c].at = "error"
  <2>1. shown' = shown /\ Done(c)
    BY <1>4 DEF ShowChange, Done
  <2> QED BY <1>1, <1>2, <1>4, <2>1, DoneIs DEF Ignored
<1>5. CASE ~(calls[c].op = "activate" /\ calls[c].at = "error")
  <2>1. \/ ~calls[c].live /\ UNCHANGED shown
        \/ calls[c].live /\ Keeps /\ shown'.items = AllAt(shown.items, ShowStatus(calls[c]))
    <3>1. CASE ~calls[c].live
      BY <3>1 DEF ShowChange
    <3>2. CASE calls[c].live
      <4>1. shown' = [shown EXCEPT !.items = AllAt(shown.items, ShowStatus(calls[c]))]
        BY <1>5, <3>2 DEF ShowChange, AllAt
      <4>2. AllAt(shown.items, ShowStatus(calls[c])) \in Items
        BY <1>1, <1>3, ItemsMade
      <4> QED BY <1>1, <3>2, <4>1, <4>2 DEF Keeps, Shown
    <3> QED BY <3>1, <3>2
  <2>2. Triggered(c) \/ (calls[c].op = "status" /\ Freed(c))
    <3>1. CASE calls[c].op = "status"
      <4>1. Done(c)
        BY <3>1 DEF ShowChange, Done
      <4> QED BY <1>1, <3>1, <4>1, DoneIs
    <3>2. CASE calls[c].op = "activate"
      <4>1. /\ calls[c].at = "ok"
            /\ calls' = [calls EXCEPT ![c] = [calls[c] EXCEPT !.at = "sent", !.op = "trigger"]]
        BY <1>5, <3>2 DEF ShowChange
      <4>2. LET d == [calls[c] EXCEPT !.at = "sent", !.op = "trigger"] IN
            /\ d \in Call /\ d.at = "sent" /\ d.op = "trigger" /\ d.scope = calls[c].scope
            /\ d.row = calls[c].row /\ d.to = calls[c].to /\ d.back = calls[c].back
            /\ d.live = calls[c].live /\ d.items = calls[c].items /\ d.old = calls[c].old
        BY <1>1 DEF Call, Ops
      <4> DEFINE d == [calls[c] EXCEPT !.at = "sent", !.op = "trigger"]
      <4>3. d \in Call /\ calls' = [calls EXCEPT ![c] = d]
        BY <4>1, <4>2
      <4>5. /\ d.at = "sent" /\ d.op = "trigger" /\ d.scope = calls[c].scope
            /\ d.row = calls[c].row /\ d.to = calls[c].to /\ d.back = calls[c].back
            /\ d.live = calls[c].live /\ d.items = calls[c].items /\ d.old = calls[c].old
        BY <4>2
      <4> HIDE DEF d
      <4>4. calls' \in [Calls -> Call] /\ OnlyCall(c) /\ calls'[c] = d
        BY <1>1, <4>3 DEF OnlyCall
      <4>6. calls[c].at = "ok"
        BY <4>1
      <4> QED BY <3>2, <4>4, <4>5, <4>6 DEF Triggered
    <3> QED BY <3>1, <3>2
  <2> QED BY <1>2, <2>1, <2>2 DEF StatusShown
<1> QED BY <1>4, <1>5

LEMMA GoOnIs ==
  ASSUME KindInv, NEW c \in Calls, calls[c].op \in {"trigger", "convert"},
         calls[c].at \in {"ok", "error"}, GoOn(c, calls[c])
  PROVE  Ignored(c) \/ Gone(c)
<1>1. calls \in [Calls -> Call]
  BY KindTypes
<1>2. CASE calls[c].at = "ok"
  <2>1. /\ calls' = [Unheard(calls) EXCEPT ![c] = Free]
        /\ place' = None /\ shown' = Blank /\ chosen' = None
    BY <1>2 DEF GoOn, Left
  <2>2. calls' \in [Calls -> Call] /\ calls'[c] = Free
    BY <1>1, <2>1, UnheardIs, FreeIs
  <2>3. \A d \in Calls \ {c} : calls'[d] = Unheard(calls)[d]
    BY <1>1, <2>1, UnheardIs
  <2> QED BY <1>1, <1>2, <2>1, <2>2, <2>3, UnheardIs DEF Gone
<1>3. CASE calls[c].at = "error"
  <2>1. Done(c) /\ UNCHANGED <<place, shown, chosen>>
    BY <1>3 DEF GoOn
  <2> QED BY <1>1, <1>3, <2>1, DoneIs DEF Ignored
<1> QED BY <1>2, <1>3

\* A live call has its page (Waits).
Heard == place = None => \A c \in Calls : Away(c) => ~calls[c].live

LEMMA DeliverIs ==
  ASSUME KindInv, Heard, NEW c \in Calls, Deliver(c)
  PROVE  /\ UNCHANGED <<env, table, acts>> /\ calls[c].at \in {"ok", "error"}
         /\ \/ Ignored(c) \/ ListShown(c) \/ Reloaded(c) \/ RowShown(c) \/ StatusShown(c)
            \/ Gone(c)
<1>1. calls \in [Calls -> Call]
  BY KindTypes
<1>2. UNCHANGED <<env, table, acts>> /\ calls[c].at \in {"ok", "error"}
  BY DEF Deliver
<1>3. calls[c].live => place # None
  BY <1>2 DEF Heard, Away
<1>4. CASE /\ ~calls[c].live /\ calls[c].op \in {"list", "create", "remove"}
           /\ Done(c) /\ UNCHANGED <<place, shown, chosen>>
  <2>1. Freed(c) /\ calls[c].op \notin {"activate", "trigger", "convert"}
    BY <1>1, <1>4, DoneIs
  <2> QED BY <1>2, <1>4, <2>1 DEF Ignored
<1>5. CASE calls[c].live /\ calls[c].op = "list" /\ ShowList(c, calls[c])
  BY <1>2, <1>5, ShowListIs
<1>6. CASE calls[c].live /\ calls[c].op \in {"create", "remove"} /\ ShowRow(c, calls[c])
  BY <1>2, <1>3, <1>6, ShowRowIs
<1>7. CASE calls[c].op \in {"status", "activate"} /\ ShowChange(c, calls[c])
  BY <1>2, <1>7, ShowChangeIs
<1>8. CASE calls[c].op \in {"trigger", "convert"} /\ GoOn(c, calls[c])
  BY <1>2, <1>8, GoOnIs
<1> QED BY <1>2, <1>4, <1>5, <1>6, <1>7, <1>8 DEF Deliver

(***************************************************************************)
(* Every step keeps the kinds of calls and rows                            *)
(***************************************************************************)

LEMMA OtherCalls ==
  ASSUME KindInv, NEW c \in Calls, calls' \in [Calls -> Call],
         \A d \in Calls \ {c} : Like(calls'[d], calls[d]),
         "test" \in env => DOMAIN table \subseteq DOMAIN table',
         Fits(calls'[c], env, table')
  PROVE  \A d \in Calls : Fits(calls'[d], env, table')
<1> SUFFICES ASSUME NEW d \in Calls \ {c} PROVE Fits(calls'[d], env, table')
  OBVIOUS
<1>1. calls'[d] \in Call /\ calls[d] \in Call /\ Fits(calls[d], env, table)
  BY KindTypes
<1>2. Like(calls'[d], calls[d])
  OBVIOUS
<1> QED BY <1>1, <1>2, FitsLike

LEMMA FreeFits == ASSUME NEW e, NEW t PROVE Fits(Free, e, t)
BY FreeIs, NoItemsIs DEF Fits

\* A step that leaves the table alone and changes one call.
LEMMA UserKind ==
  ASSUME KindInv, UNCHANGED <<env, table>>, NEW c \in Calls, calls' \in [Calls -> Call],
         \A d \in Calls \ {c} : Like(calls'[d], calls[d]),
         Fits(calls'[c], env, table), place' \in Places, place' = NoProject => "convert" \in env,
         shown' \in Shown, "test" \in env => DOMAIN shown'.items \subseteq DOMAIN table,
         chosen' \in Rows \cup {None}, acts' \in 0..MaxActs
  PROVE  KindInv'
<1>1. \A d \in Calls : Fits(calls'[d], env, table')
  BY OtherCalls
<1>2. OneTest(env, table', shown'.items)
  BY KindTypes DEF OneTest
<1> QED BY <1>1, <1>2, KindKept, KindTypes

LEMMA LikeItself == \A x : Like(x, x)
BY DEF Like

LEMMA AskKind ==
  ASSUME KindInv, UNCHANGED <<env, table>>, NEW c \in Calls, NEW call \in Call, Sends(c, call),
         Fits(call, env, table), place' \in Places, place' = NoProject => "convert" \in env,
         shown' \in Shown, "test" \in env => DOMAIN shown'.items \subseteq DOMAIN table,
         chosen' \in Rows \cup {None}, acts' \in 0..MaxActs
  PROVE  KindInv'
<1>1. calls' \in [Calls -> Call] /\ calls'[c] = call /\ OnlyCall(c)
  BY KindTypes, SendIs
<1>2. \A d \in Calls \ {c} : Like(calls'[d], calls[d])
  BY <1>1, LikeItself DEF OnlyCall
<1> QED BY <1>1, <1>2, UserKind

\* A list is asked for.
LEMMA ListFits ==
  ASSUME KindInv, NEW p \in Scopes
  PROVE  Ask("list", p) \in Call /\ Fits(Ask("list", p), env, table)
BY AskIs, NoItemsIs DEF Fits, Ops, Places

LEMMA ShownDomain ==
  ASSUME KindInv
  PROVE  /\ "test" \in env => DOMAIN shown.items \subseteq DOMAIN table
         /\ shown.items \in Items /\ DOMAIN shown.items \subseteq Rows
BY KindTypes, ItemsFacts DEF OneTest

\* Where a page is, unless it is the dialog without a project.
LEMMA PlaceIs ==
  ASSUME KindInv, place # None, "convert" \notin env
  PROVE  place \in Scopes
BY KindTypes DEF KindInv, Places

LEMMA OpenKind ==
  ASSUME KindInv, NEW c \in Calls, NEW p \in Scopes, Open(c, p) \/ Choose(c, p)
  PROVE  KindInv'
<1>1. /\ Sends(c, Ask("list", p)) /\ UNCHANGED <<env, table>> /\ place' = p /\ MayAct
  BY DEF Open, Choose
<1>2. shown' = Blank \/ shown' = [shown EXCEPT !.loading = TRUE]
  BY DEF Open, Choose, Switch
<1>3. shown' \in Shown /\ ("test" \in env => DOMAIN shown'.items \subseteq DOMAIN table)
  BY <1>2, KindTypes, ShownDomain, BlankIs, NoItemsIs DEF Shown
<1>4. chosen' = chosen \/ chosen' = None
  BY DEF Open, Choose, Switch
<1>5. place' \in Places /\ place' # NoProject
  BY <1>1, NoneAssumption DEF Places
<1>6. chosen' \in Rows \cup {None} /\ acts' \in 0..MaxActs
  BY <1>1, <1>4, KindTypes, MayActIs
<1> QED BY <1>1, <1>3, <1>5, <1>6, ListFits, AskKind

LEMMA UnsetKind == ASSUME KindInv, Unset PROVE KindInv'
<1>1. /\ UNCHANGED <<env, table, chosen, calls>> /\ place' = NoProject /\ "convert" \in env
      /\ acts' \in 0..MaxActs /\ shown' = [shown EXCEPT !.items = NoItems]
  BY MayActIs, PageIs DEF Unset
<1>2. shown' \in Shown /\ shown'.items = NoItems
  BY <1>1, KindTypes, NoItemsIs DEF Shown
<1>3. OneTest(env, table', shown'.items)
  BY <1>1, <1>2, KindTypes, PageFacts DEF OneTest
<1>4. place' \in Places
  BY <1>1 DEF Places
<1>5. \A c \in Calls : Fits(calls'[c], env, table')
  BY <1>1, KindTypes
<1> QED BY <1>1, <1>2, <1>3, <1>4, <1>5, KindTypes, KindKept

LEMMA LeaveKind == ASSUME KindInv, Leave PROVE KindInv'
<1>1. /\ UNCHANGED <<env, table>> /\ calls' = Unheard(calls) /\ place' = None /\ shown' = Blank
      /\ chosen' = None /\ acts' \in 0..MaxActs
  BY MayActIs DEF Leave, Left
<1>2. calls' \in [Calls -> Call] /\ \A d \in Calls : Like(calls'[d], calls[d])
  BY <1>1, KindTypes, UnheardIs
<1>3. \A d \in Calls : Fits(calls'[d], env, table')
  <2> SUFFICES ASSUME NEW d \in Calls PROVE Fits(calls'[d], env, table')
    OBVIOUS
  <2>1. /\ calls'[d] \in Call /\ calls[d] \in Call /\ Fits(calls[d], env, table)
        /\ Like(calls'[d], calls[d])
    BY <1>2, KindTypes
  <2> QED BY <1>1, <2>1, FitsLike
<1>4. OneTest(env, table', shown'.items)
  BY <1>1, KindTypes, BlankIs, NoItemsIs DEF OneTest
<1>5. place' \in Places /\ place' # NoProject
  BY <1>1, NoneAssumption DEF Places
<1>6. shown' \in Shown /\ chosen' \in Rows \cup {None} /\ acts' \in 0..MaxActs
  BY <1>1, BlankIs
<1> QED BY <1>1, <1>2, <1>3, <1>4, <1>5, <1>6, KindTypes, KindKept

LEMMA MakeKind == ASSUME KindInv, NEW c \in Calls, Make(c) PROVE KindInv'
<1>1. /\ Sends(c, Ask("create", place)) /\ UNCHANGED <<env, table, place, shown, chosen>>
      /\ place # None /\ Page.made # "never" /\ acts' \in 0..MaxActs
  BY MayActIs DEF Make
<1>2. PageOf(env).made # "never" /\ "convert" \notin env
  BY <1>1, PageIs, PageFacts, KindTypes
<1>3. place \in Scopes
  BY <1>1, <1>2, PlaceIs
<1>4. Ask("create", place) \in Call /\ Fits(Ask("create", place), env, table)
  BY <1>2, <1>3, AskIs, NoItemsIs DEF Fits, Ops, Places
<1>5. place' = NoProject => "convert" \in env
  BY <1>1 DEF KindInv
<1> QED BY <1>1, <1>4, <1>5, KindTypes, ShownDomain, AskKind

LEMMA DropKind == ASSUME KindInv, NEW c \in Calls, NEW r \in Rows, Drop(c, r) PROVE KindInv'
<1> DEFINE call == [Ask("remove", place) EXCEPT !.row = r]
<1>1. /\ Sends(c, call) /\ UNCHANGED <<env, table, place, shown, chosen>>
      /\ Page.gone # "never" /\ acts' \in 0..MaxActs
  BY MayActIs DEF Drop
<1>2. PageOf(env).gone # "never"
  BY <1>1, PageIs
<1>3. call \in Call /\ Fits(call, env, table)
  <2>1. /\ Ask("remove", place) \in Call /\ Ask("remove", place).op = "remove"
        /\ Ask("remove", place).at = "sent" /\ Ask("remove", place).items = NoItems
    BY KindTypes, AskIs DEF Ops
  <2>2. /\ call \in Call /\ call.op = "remove" /\ call.at = "sent" /\ call.items = NoItems
        /\ call.row = r
    BY <2>1 DEF Call
  <2> QED BY <1>2, <2>2, NoItemsIs DEF Fits
<1>4. place' = NoProject => "convert" \in env
  BY <1>1 DEF KindInv
<1> HIDE DEF call
<1> QED BY <1>1, <1>3, <1>4, KindTypes, ShownDomain, AskKind

LEMMA AgainKind == ASSUME KindInv, NEW c \in Calls, Again(c) PROVE KindInv'
<1>1. /\ Sends(c, Ask("list", place)) /\ UNCHANGED <<env, table, place, chosen>>
      /\ place # None /\ acts' \in 0..MaxActs /\ shown' = [shown EXCEPT !.loading = Is("flow")]
      /\ "flow" \in env \/ "test" \in env
  BY MayActIs, PageIs DEF Again
<1>2. place \in Scopes
  BY <1>1, KindTypes, PageFacts, PlaceIs
<1>3. shown' \in Shown /\ shown'.items = shown.items
  <2>1. Is("flow") \in BOOLEAN
    BY DEF Is
  <2> QED BY <1>1, <2>1, KindTypes DEF Shown
<1>4. place' = NoProject => "convert" \in env
  BY <1>1 DEF KindInv
<1> QED BY <1>1, <1>2, <1>3, <1>4, ListFits, KindTypes, ShownDomain, AskKind

\* The call of cambiarEstado().
ChangeCall(r, to) == [Ask("status", place) EXCEPT !.row = r, !.to = to, !.back = shown.items[r]]

ChangeEffect(c, r, to) ==
  /\ Sends(c, ChangeCall(r, to)) /\ UNCHANGED <<env, table, place, chosen>>
  /\ acts' \in 0..MaxActs /\ "test" \in env /\ r \in DOMAIN shown.items
  /\ shown' \in Shown /\ shown'.items = [shown.items EXCEPT ![r] = to]
  /\ shown'.from = shown.from /\ shown'.loading = shown.loading
  /\ shown'.failed = shown.failed /\ shown'.old = shown.old
  /\ ChangeCall(r, to) \in Call /\ Fits(ChangeCall(r, to), env, table)
  /\ ChangeCall(r, to).at = "sent" /\ ChangeCall(r, to).op = "status"
  /\ ChangeCall(r, to).row = r /\ ChangeCall(r, to).to = to
  /\ ChangeCall(r, to).back = shown.items[r]
  /\ ChangeCall(r, to).live /\ ~ChangeCall(r, to).old /\ ChangeCall(r, to).scope = place

LEMMA ChangeIs ==
  ASSUME KindInv, NEW c \in Calls, NEW r \in Rows, NEW to \in Statuses, Change(c, r, to)
  PROVE  ChangeEffect(c, r, to)
<1>1. /\ Sends(c, ChangeCall(r, to))
      /\ UNCHANGED <<env, table, place, chosen>> /\ acts' \in 0..MaxActs /\ "test" \in env
      /\ r \in DOMAIN shown.items /\ shown' = [shown EXCEPT !.items[r] = to]
  BY MayActIs, PageIs DEF Change, ChangeCall
<1>2. shown.items \in [DOMAIN shown.items -> Statuses] /\ DOMAIN shown.items \subseteq Rows
  BY ShownDomain, ItemsFacts
<1>3. PICK back \in Statuses : back = shown.items[r]
  BY <1>1, <1>2
<1>4. [shown.items EXCEPT ![r] = to] \in Items
  BY <1>1, <1>2, ItemsFacts
<1>5. /\ shown' \in Shown /\ shown'.items = [shown.items EXCEPT ![r] = to]
      /\ shown'.from = shown.from /\ shown'.loading = shown.loading
      /\ shown'.failed = shown.failed /\ shown'.old = shown.old
  BY <1>1, <1>4, KindTypes DEF Shown
<1> DEFINE asked == Ask("status", place)
<1>6. /\ asked \in Call /\ asked.at = "sent" /\ asked.op = "status" /\ asked.items = NoItems
      /\ asked.live /\ ~asked.old /\ asked.scope = place
  BY KindTypes, AskIs DEF Ops
<1>7. ChangeCall(r, to) = [asked EXCEPT !.row = r, !.to = to, !.back = back]
  BY <1>3 DEF ChangeCall
<1>8. r \in DOMAIN table
  BY <1>1, ShownDomain
<1> HIDE DEF asked
<1>9. /\ ChangeCall(r, to) \in Call /\ ChangeCall(r, to).op = "status"
      /\ ChangeCall(r, to).at = "sent" /\ ChangeCall(r, to).items = NoItems
      /\ ChangeCall(r, to).row = r /\ ChangeCall(r, to).to = to
      /\ ChangeCall(r, to).back = back /\ ChangeCall(r, to).live /\ ~ChangeCall(r, to).old
      /\ ChangeCall(r, to).scope = place
  BY <1>6, <1>7 DEF Call
<1>10. Fits(ChangeCall(r, to), env, table)
  BY <1>1, <1>8, <1>9, NoItemsIs DEF Fits
<1> QED BY <1>1, <1>3, <1>5, <1>9, <1>10 DEF ChangeEffect

LEMMA ChangeKind ==
  ASSUME KindInv, NEW c \in Calls, NEW r \in Rows, NEW to \in Statuses, Change(c, r, to)
  PROVE  KindInv'
<1>1. ChangeEffect(c, r, to)
  BY ChangeIs
<1>2. "test" \in env => DOMAIN shown'.items \subseteq DOMAIN table
  BY <1>1, ShownDomain DEF ChangeEffect
<1>3. place' = NoProject => "convert" \in env
  BY <1>1 DEF KindInv, ChangeEffect
<1> QED BY <1>1, <1>2, <1>3, KindTypes, AskKind DEF ChangeEffect

\* The call of handleRun().
RunCall(r) == [Ask(IF shown.items[r] = "ACTIVE" THEN "trigger" ELSE "activate", place)
                 EXCEPT !.row = r, !.to = "ACTIVE"]

RunEffect(c, r) ==
  /\ Sends(c, RunCall(r)) /\ UNCHANGED <<env, table, place, shown, chosen>>
  /\ acts' \in 0..MaxActs /\ "test" \in env /\ r \in DOMAIN shown.items
  /\ RunCall(r) \in Call /\ Fits(RunCall(r), env, table)
  /\ RunCall(r).at = "sent" /\ RunCall(r).row = r /\ RunCall(r).to = "ACTIVE"
  /\ RunCall(r).live /\ ~RunCall(r).old /\ RunCall(r).scope = place
  /\ RunCall(r).op = IF shown.items[r] = "ACTIVE" THEN "trigger" ELSE "activate"

LEMMA RunIs ==
  ASSUME KindInv, NEW c \in Calls, NEW r \in Rows, Run(c, r)
  PROVE  RunEffect(c, r)
<1>1. /\ Sends(c, RunCall(r)) /\ UNCHANGED <<env, table, place, shown, chosen>>
      /\ acts' \in 0..MaxActs /\ "test" \in env /\ r \in DOMAIN shown.items
  BY MayActIs, PageIs DEF Run, RunCall
<1> DEFINE op == IF shown.items[r] = "ACTIVE" THEN "trigger" ELSE "activate"
           asked == Ask(op, place)
<1>2. op \in {"status", "activate", "trigger"}
  OBVIOUS
<1>3. RunCall(r) = [asked EXCEPT !.row = r, !.to = "ACTIVE"]
  BY DEF RunCall
<1> HIDE DEF op
<1>4. /\ asked \in Call /\ asked.at = "sent" /\ asked.op = op /\ asked.items = NoItems
      /\ asked.live /\ ~asked.old /\ asked.scope = place
  BY <1>2, KindTypes, AskIs DEF Ops
<1>5. r \in DOMAIN table
  BY <1>1, ShownDomain
<1> HIDE DEF asked
<1>6. /\ RunCall(r) \in Call /\ RunCall(r).op = op /\ RunCall(r).at = "sent"
      /\ RunCall(r).items = NoItems /\ RunCall(r).row = r /\ RunCall(r).to = "ACTIVE"
      /\ RunCall(r).live /\ ~RunCall(r).old /\ RunCall(r).scope = place
  BY <1>3, <1>4 DEF Call, Statuses
<1>7. Fits(RunCall(r), env, table)
  BY <1>1, <1>2, <1>5, <1>6, NoItemsIs DEF Fits
<1> QED BY <1>1, <1>6, <1>7 DEF op, RunEffect

LEMMA RunKind == ASSUME KindInv, NEW c \in Calls, NEW r \in Rows, Run(c, r) PROVE KindInv'
<1>1. RunEffect(c, r)
  BY RunIs
<1>2. place' = NoProject => "convert" \in env
  BY <1>1 DEF KindInv, RunEffect
<1> QED BY <1>1, <1>2, KindTypes, ShownDomain, AskKind DEF RunEffect

LEMMA PickKind == ASSUME KindInv, NEW r \in Rows \cup {None}, Pick(r) PROVE KindInv'
<1>1. /\ UNCHANGED <<env, table, place, shown, calls>> /\ chosen' = r /\ acts' \in 0..MaxActs
  BY MayActIs DEF Pick
<1>2. place' = NoProject => "convert" \in env
  BY <1>1 DEF KindInv
<1> QED BY <1>1, <1>2, KindTypes, KindKept

\* A conversion that is sent.
ConvertCall == [Ask("convert", place) EXCEPT !.row = chosen]

ConvertEffect(c) ==
  /\ Sends(c, ConvertCall) /\ UNCHANGED <<env, table, place, shown, chosen>>
  /\ acts' \in 0..MaxActs /\ "convert" \in env /\ chosen \in Rows
  /\ ConvertCall \in Call /\ Fits(ConvertCall, env, table)
  /\ ConvertCall.at = "sent" /\ ConvertCall.op = "convert" /\ ConvertCall.row = chosen
  /\ ConvertCall.live /\ ~ConvertCall.old /\ ConvertCall.scope = place

LEMMA ConvertIs ==
  ASSUME KindInv, NEW c \in Calls, Convert(c)
  PROVE  ConvertEffect(c)
<1>1. /\ Sends(c, ConvertCall) /\ UNCHANGED <<env, table, place, shown, chosen>>
      /\ acts' \in 0..MaxActs /\ "convert" \in env /\ chosen # None
  BY KindTypes, ActIs, PageIs DEF Convert, ConvertCall
<1>2. chosen \in Rows
  BY <1>1, KindTypes
<1> DEFINE asked == Ask("convert", place)
<1>3. /\ asked \in Call /\ asked.at = "sent" /\ asked.op = "convert" /\ asked.items = NoItems
      /\ asked.live /\ ~asked.old /\ asked.scope = place
  BY KindTypes, AskIs DEF Ops
<1>4. ConvertCall = [asked EXCEPT !.row = chosen]
  BY DEF ConvertCall
<1> HIDE DEF asked
<1>5. /\ ConvertCall \in Call /\ ConvertCall.op = "convert" /\ ConvertCall.at = "sent"
      /\ ConvertCall.items = NoItems /\ ConvertCall.row = chosen
      /\ ConvertCall.live /\ ~ConvertCall.old /\ ConvertCall.scope = place
  BY <1>2, <1>3, <1>4 DEF Call
<1>6. Fits(ConvertCall, env, table)
  BY <1>1, <1>2, <1>5, NoItemsIs, KindTypes, PageFacts DEF Fits
<1> QED BY <1>1, <1>2, <1>5, <1>6 DEF ConvertEffect

LEMMA ConvertKind == ASSUME KindInv, NEW c \in Calls, Convert(c) PROVE KindInv'
<1>1. ConvertEffect(c)
  BY ConvertIs
<1>2. place' = NoProject => "convert" \in env
  BY <1>1 DEF KindInv, ConvertEffect
<1> QED BY <1>1, <1>2, KindTypes, ShownDomain, AskKind DEF ConvertEffect

\* A row whose status changes.
LEMMA StatusRow ==
  ASSUME table \in Table, NEW r \in DOMAIN table, NEW s \in Statuses, NEW t,
         t = Row(r, table[r].scope, s)
  PROVE  /\ t \in Table /\ DOMAIN t = DOMAIN table
         /\ \A x \in DOMAIN table : t[x].scope = table[x].scope
         /\ t[r].status = s
         /\ \A x \in DOMAIN table \ {r} : t[x] = table[x]
         /\ \A e, items : OneTest(e, table, items) => OneTest(e, t, items)
<1>1. r \in Rows /\ table[r].scope \in Scopes
  BY TableFacts
<1> DEFINE p == table[r].scope
<1>6. p \in Scopes /\ t = Row(r, p, s)
  BY <1>1
<1> HIDE DEF p
<1>2. /\ t \in Table /\ DOMAIN t = DOMAIN table
      /\ t[r].scope = p /\ t[r].status = s
      /\ \A x \in DOMAIN table \ {r} : t[x] = table[x]
  <2>1. RowShape(t, r, p, s)
    BY <1>1, <1>6, RowShapeIs
  <2> QED BY <1>1, <2>1 DEF RowShape
<1>3. \A x \in DOMAIN table : t[x].scope = table[x].scope
  BY <1>2 DEF p
<1>4. \A q : {x \in DOMAIN t : t[x].scope = q} = {x \in DOMAIN table : table[x].scope = q}
  BY <1>2, <1>3
<1>5. \A e, items : OneTest(e, table, items) => OneTest(e, t, items)
  BY <1>2, <1>4 DEF OneTest, Alone
<1> QED BY <1>2, <1>3, <1>5

LEMMA LessRow ==
  ASSUME table \in Table, NEW r, NEW t, t = [x \in DOMAIN table \ {r} |-> table[x]]
  PROVE  t \in Table /\ DOMAIN t = DOMAIN table \ {r} /\ \A x \in DOMAIN t : t[x] = table[x]
<1>1. table \in [DOMAIN table -> [scope : Scopes, status : Statuses]] /\ DOMAIN table \subseteq Rows
  BY TableFacts
<1>2. t \in [DOMAIN table \ {r} -> [scope : Scopes, status : Statuses]]
  BY <1>1
<1>3. DOMAIN table \ {r} \in SUBSET Rows
  BY <1>1
<1> QED BY <1>2, <1>3, TableFacts

LEMMA ServeKind == ASSUME KindInv, NEW c \in Calls, Serve(c) PROVE KindInv'
<1>1. /\ Served(c)
      /\ \/ ListServed(c) \/ OtherServed(c) \/ RemoveServed(c) \/ StatusServed(c)
         \/ CreateServed(c)
  BY ServeIs
<1>2. /\ calls[c] \in Call /\ Fits(calls[c], env, table) /\ table \in Table /\ env \in Environments
      /\ OneTest(env, table, shown.items)
  BY KindTypes
<1>3. /\ UNCHANGED <<env, place, chosen, acts>> /\ calls' \in [Calls -> Call]
      /\ shown' \in Shown /\ shown'.items = shown.items
      /\ \A d \in Calls \ {c} : Like(calls'[d], calls[d])
  BY <1>1 DEF Served, AnswerEffect
<1>4. ASSUME table' \in Table, "test" \in env => DOMAIN table \subseteq DOMAIN table',
             Fits(calls'[c], env, table'), OneTest(env, table', shown.items)
      PROVE  KindInv'
  <2>1. \A d \in Calls : Fits(calls'[d], env, table')
    BY <1>3, <1>4, OtherCalls
  <2>2. place' = NoProject => "convert" \in env
    BY <1>3 DEF KindInv
  <2> QED BY <1>3, <1>4, <2>1, <2>2, KindKept, KindTypes
<1>5. /\ calls[c].at = "sent" /\ calls'[c].at = "ok"
      /\ calls'[c].op = calls[c].op /\ calls'[c].scope = calls[c].scope
      /\ calls[c].op # "create" => calls'[c].row = calls[c].row
      /\ calls[c].op # "list" => calls'[c].items = calls[c].items
  BY <1>1 DEF Served
<1>6. CASE ListServed(c)
  <2>1. table' = table /\ calls[c].op = "list" /\ DOMAIN calls'[c].items \subseteq DOMAIN table
    <3>1. /\ table' = table /\ calls[c].op = "list"
          /\ calls'[c].items = GivenIn(env, table, calls[c].scope)
      BY <1>6 DEF ListServed
    <3>2. DOMAIN GivenIn(env, table, calls[c].scope) \subseteq DOMAIN table
      BY <1>2, GivenIs
    <3> QED BY <3>1, <3>2
  <2>2. Fits(calls'[c], env, table')
    BY <1>2, <1>5, <2>1 DEF Fits
  <2> QED BY <1>2, <1>4, <2>1, <2>2
<1>7. CASE OtherServed(c)
  <2>1. table' = table /\ calls[c].op \in {"trigger", "convert"}
    BY <1>7 DEF OtherServed
  <2>2. Fits(calls'[c], env, table')
    BY <1>2, <1>5, <2>1 DEF Fits
  <2> QED BY <1>2, <1>4, <2>1, <2>2
<1>8. CASE RemoveServed(c)
  <2>1. calls[c].op = "remove" /\ calls[c].row \in DOMAIN table
    BY <1>8 DEF RemoveServed
  <2>2. "test" \notin env
    BY <1>2, <2>1, PageFacts DEF Fits
  <2>3. table' \in Table
    <3>1. CASE "tests" \in env \/ "projects" \in env
      <4>1. table' = Row(calls[c].row, table[calls[c].row].scope, "ARCHIVED")
        BY <1>8, <3>1 DEF RemoveServed
      <4> QED BY <1>2, <2>1, <4>1, StatusRow DEF Statuses
    <3>2. CASE ~("tests" \in env \/ "projects" \in env)
      <4>1. table' = [x \in DOMAIN table \ {calls[c].row} |-> table[x]]
        BY <1>8, <3>2 DEF RemoveServed
      <4> QED BY <1>2, <4>1, LessRow
    <3> QED BY <3>1, <3>2
  <2>4. Fits(calls'[c], env, table')
    BY <1>2, <1>5, <2>1, <2>2 DEF Fits
  <2> QED BY <1>4, <2>2, <2>3, <2>4 DEF OneTest
<1>9. CASE StatusServed(c)
  <2>1. /\ calls[c].op \in {"status", "activate"} /\ calls[c].row \in DOMAIN table
        /\ table' = Row(calls[c].row, table[calls[c].row].scope, calls[c].to)
        /\ calls[c].to \in Statuses
    BY <1>2, <1>9 DEF StatusServed, Fits, Call
  <2>2. /\ table' \in Table /\ DOMAIN table' = DOMAIN table
        /\ OneTest(env, table', shown.items)
    BY <1>2, <2>1, StatusRow
  <2>3. Fits(calls'[c], env, table')
    BY <1>2, <1>5, <2>1, <2>2 DEF Fits
  <2> QED BY <1>4, <2>2, <2>3
<1>10. CASE CreateServed(c)
  <2>1. PICK r \in Rows \ DOMAIN table :
          table' = Row(r, calls[c].scope, "DRAFT") /\ calls'[c].row = r
    BY <1>10 DEF CreateServed
  <2>2. calls[c].op = "create" /\ calls[c].scope \in Scopes
    BY <1>2, <1>10 DEF CreateServed, Fits
  <2>3. "test" \notin env
    BY <1>2, <2>2, PageFacts DEF Fits
  <2>4. table' \in Table
    <3>1. RowShape(table', r, calls[c].scope, "DRAFT")
      BY <1>2, <2>1, <2>2, RowShapeIs DEF Statuses
    <3> QED BY <3>1 DEF RowShape
  <2>5. PageOf(env).made # "refused"
    BY <1>1, <1>5, <2>2, PageIs DEF Serve
  <2>6. Fits(calls'[c], env, table')
    BY <1>2, <1>5, <2>1, <2>2, <2>3, <2>5 DEF Fits
  <2> QED BY <1>4, <2>3, <2>4, <2>6 DEF OneTest
<1> QED BY <1>1, <1>6, <1>7, <1>8, <1>9, <1>10

\* A call that is refused.
RefuseEffect(c) ==
  /\ calls[c].at = "sent" /\ calls' \in [Calls -> Call] /\ OnlyCall(c)
  /\ calls'[c].at = "error" /\ calls'[c].op = calls[c].op /\ calls'[c].scope = calls[c].scope
  /\ calls'[c].row = calls[c].row /\ calls'[c].to = calls[c].to
  /\ calls'[c].back = calls[c].back /\ calls'[c].live = calls[c].live
  /\ calls'[c].items = calls[c].items /\ calls'[c].old = calls[c].old
  /\ UNCHANGED <<env, table, place, shown, chosen, acts>>

LEMMA RefuseIs ==
  ASSUME KindInv, NEW c \in Calls, Refuse(c)
  PROVE  RefuseEffect(c)
<1>1. calls \in [Calls -> Call] /\ calls[c] \in Call
  BY KindTypes
<1>2. /\ calls[c].at = "sent" /\ UNCHANGED <<env, table, place, shown, chosen, acts>>
      /\ calls' = [calls EXCEPT ![c] = [calls[c] EXCEPT !.at = "error"]]
  BY <1>1 DEF Refuse
<1> DEFINE d == [calls[c] EXCEPT !.at = "error"]
<1>3. /\ d \in Call /\ d.at = "error" /\ d.op = calls[c].op /\ d.scope = calls[c].scope
      /\ d.row = calls[c].row /\ d.to = calls[c].to /\ d.back = calls[c].back
      /\ d.live = calls[c].live /\ d.items = calls[c].items /\ d.old = calls[c].old
  BY <1>1 DEF Call
<1>4. calls' = [calls EXCEPT ![c] = d]
  BY <1>2
<1> HIDE DEF d
<1>5. calls' \in [Calls -> Call] /\ calls'[c] = d /\ OnlyCall(c)
  BY <1>1, <1>3, <1>4 DEF OnlyCall
<1> QED BY <1>2, <1>3, <1>5 DEF RefuseEffect

LEMMA RefuseKind == ASSUME KindInv, NEW c \in Calls, Refuse(c) PROVE KindInv'
<1>1. RefuseEffect(c)
  BY RefuseIs
<1>2. Fits(calls'[c], env, table)
  BY <1>1, KindTypes DEF RefuseEffect, Fits
<1>3. \A d \in Calls \ {c} : Like(calls'[d], calls[d])
  BY <1>1, LikeItself DEF RefuseEffect, OnlyCall
<1>4. place' = NoProject => "convert" \in env
  BY <1>1 DEF RefuseEffect, KindInv
<1> QED BY <1>1, <1>2, <1>3, <1>4, KindTypes, ShownDomain, UserKind DEF RefuseEffect

LEMMA FreedLike ==
  ASSUME KindInv, NEW c \in Calls, Freed(c)
  PROVE  /\ calls' \in [Calls -> Call] /\ Fits(calls'[c], env, table)
         /\ \A d \in Calls \ {c} : Like(calls'[d], calls[d])
BY FreeFits, LikeItself DEF Freed, OnlyCall

LEMMA DeliverKind == ASSUME KindInv, Heard, NEW c \in Calls, Deliver(c) PROVE KindInv'
<1>1. /\ UNCHANGED <<env, table, acts>> /\ calls[c].at \in {"ok", "error"}
      /\ \/ Ignored(c) \/ ListShown(c) \/ Reloaded(c) \/ RowShown(c) \/ StatusShown(c)
         \/ Gone(c)
  BY DeliverIs
<1>2. /\ calls[c] \in Call /\ Fits(calls[c], env, table) /\ table \in Table /\ env \in Environments
      /\ calls \in [Calls -> Call] /\ shown \in Shown /\ place \in Places
      /\ chosen \in Rows \cup {None} /\ acts' \in 0..MaxActs
  BY <1>1, KindTypes
<1>3. ASSUME place' = place PROVE place' = NoProject => "convert" \in env
  BY <1>3 DEF KindInv
<1>4. CASE Ignored(c)
  BY <1>1, <1>2, <1>3, <1>4, FreedLike, ShownDomain, UserKind DEF Ignored
<1>5. CASE ListShown(c)
  <2>1. /\ Freed(c) /\ place' = place /\ shown' \in Shown
    BY <1>5 DEF ListShown
  <2>2. \/ shown'.items = calls[c].items /\ calls[c].at = "ok"
        \/ shown'.items = shown.items
        \/ shown'.items = NoItems
    BY <1>1, <1>5 DEF ListShown
  <2>3. "test" \in env => DOMAIN shown'.items \subseteq DOMAIN table
    BY <1>2, <2>2, ShownDomain, NoItemsIs DEF Fits
  <2>4. calls[c].items \in Items
    BY <1>2 DEF Call, Items
  <2>5. chosen' \in Rows \cup {None}
    BY <1>1, <1>2, <1>5, <2>4, ItemsFacts DEF ListShown
  <2> QED BY <1>1, <1>2, <1>3, <2>1, <2>3, <2>5, FreedLike, UserKind
<1>6. CASE Reloaded(c)
  <2>1. /\ calls' \in [Calls -> Call] /\ calls'[c] = Ask("list", place)
        /\ \A d \in Calls \ {c} : Like(calls'[d], calls[d])
        /\ UNCHANGED <<place, chosen>> /\ shown' \in Shown
        /\ calls[c].op \in {"create", "remove"} /\ calls[c].live
    BY <1>6 DEF Reloaded
  <2>2. place # None
    BY <1>1, <2>1 DEF Heard, Away
  <2>3. "convert" \notin env /\ "test" \notin env
    BY <1>2, <2>1, PageFacts DEF Fits
  <2>4. Fits(calls'[c], env, table)
    BY <2>1, <2>2, <2>3, PlaceIs, ListFits
  <2> QED BY <1>1, <1>2, <1>3, <2>1, <2>3, <2>4, UserKind
<1>7. CASE RowShown(c)
  <2>1. /\ Freed(c) /\ UNCHANGED <<place, chosen>> /\ shown' \in Shown
        /\ calls[c].op \in {"create", "remove"}
    BY <1>7 DEF RowShown, Keeps
  <2>2. "test" \notin env
    BY <1>2, <2>1, PageFacts DEF Fits
  <2> QED BY <1>1, <1>2, <1>3, <2>1, <2>2, FreedLike, UserKind
<1>8. CASE StatusShown(c)
  <2>1. UNCHANGED <<place, chosen>>
    BY <1>8 DEF StatusShown
  <2>2. shown' \in Shown /\ DOMAIN shown'.items = DOMAIN shown.items
    <3>1. CASE UNCHANGED shown
      BY <1>2, <3>1
    <3>2. CASE Keeps /\ shown'.items = AllAt(shown.items, ShowStatus(calls[c]))
      BY <3>2 DEF Keeps, AllAt
    <3> QED BY <1>8, <3>1, <3>2 DEF StatusShown
  <2>3. /\ calls' \in [Calls -> Call] /\ Fits(calls'[c], env, table)
        /\ \A d \in Calls \ {c} : Like(calls'[d], calls[d])
    <3>1. CASE Triggered(c)
      <4>1. Fits(calls'[c], env, table)
        BY <1>2, <3>1 DEF Triggered, Fits
      <4> QED BY <3>1, <4>1, LikeItself DEF Triggered, OnlyCall
    <3>2. CASE Freed(c)
      BY <3>2, FreedLike
    <3> QED BY <1>8, <3>1, <3>2 DEF StatusShown
  <2> QED BY <1>1, <1>2, <1>3, <2>1, <2>2, <2>3, ShownDomain, UserKind
<1>9. CASE Gone(c)
  <2>1. /\ calls' \in [Calls -> Call] /\ calls'[c] = Free
        /\ \A d \in Calls \ {c} : Like(calls'[d], calls[d])
        /\ place' = None /\ shown' = Blank /\ chosen' = None
    BY <1>9 DEF Gone
  <2>2. place' \in Places /\ place' # NoProject
    BY <2>1, NoneAssumption DEF Places
  <2> QED BY <1>1, <1>2, <2>1, <2>2, FreeFits, BlankIs, NoItemsIs, UserKind
<1> QED BY <1>1, <1>4, <1>5, <1>6, <1>7, <1>8, <1>9

\* What others do.
OthersEffect ==
  /\ UNCHANGED <<env, place, chosen>> /\ "others" \in env /\ acts' \in 0..MaxActs
  /\ shown' \in Shown /\ shown'.items = shown.items /\ shown'.from = shown.from
  /\ shown'.loading = shown.loading /\ shown'.failed = shown.failed /\ shown'.old
  /\ calls' \in [Calls -> Call]
  /\ \A d \in Calls : /\ Like(calls'[d], calls[d]) /\ calls'[d].live = calls[d].live
                      /\ calls'[d].old = (calls[d].at = "ok")
  /\ table' \in Table /\ DOMAIN table \subseteq DOMAIN table'
  /\ \A x \in DOMAIN table : table'[x].scope = table[x].scope
  /\ OneTest(env, table', shown.items)

LEMMA OthersIs ==
  ASSUME KindInv, NEW r \in Rows, Others(r)
  PROVE  OthersEffect
<1>1. /\ calls \in [Calls -> Call] /\ shown \in Shown /\ table \in Table
      /\ OneTest(env, table, shown.items)
  BY KindTypes
<1>2. /\ UNCHANGED <<env, place, chosen>> /\ "others" \in env /\ acts' \in 0..MaxActs
      /\ shown' = [shown EXCEPT !.old = TRUE] /\ calls' = Outdated(calls)
  BY KindTypes, ActIs, PageIs DEF Others
<1>3. /\ shown' \in Shown /\ shown'.items = shown.items /\ shown'.from = shown.from
      /\ shown'.loading = shown.loading /\ shown'.failed = shown.failed /\ shown'.old
  BY <1>1, <1>2 DEF Shown
<1>4. /\ calls' \in [Calls -> Call]
      /\ \A d \in Calls : /\ Like(calls'[d], calls[d]) /\ calls'[d].live = calls[d].live
                          /\ calls'[d].old = (calls[d].at = "ok")
  BY <1>1, <1>2, OutdatedIs
<1>5. /\ table' \in Table /\ DOMAIN table \subseteq DOMAIN table'
      /\ \A x \in DOMAIN table : table'[x].scope = table[x].scope
      /\ OneTest(env, table', shown.items)
  <2>1. CASE r \notin DOMAIN table
    <3>1. PICK p \in Scopes : table' = Row(r, p, "DRAFT") /\ "test" \notin env
      BY <2>1, PageIs DEF Others
    <3>2. "DRAFT" \in Statuses
      BY DEF Statuses
    <3>4. /\ Row(r, p, "DRAFT") \in Table
          /\ DOMAIN Row(r, p, "DRAFT") = DOMAIN table \cup {r}
          /\ \A x \in DOMAIN table \ {r} : Row(r, p, "DRAFT")[x] = table[x]
      <4>1. RowShape(Row(r, p, "DRAFT"), r, p, "DRAFT")
        BY <1>1, <3>2, RowShapeIs
      <4> QED BY <4>1 DEF RowShape
    <3>3. /\ table' \in Table /\ DOMAIN table' = DOMAIN table \cup {r}
          /\ \A x \in DOMAIN table \ {r} : table'[x] = table[x]
      BY <3>1, <3>4
    <3> QED BY <2>1, <3>1, <3>3 DEF OneTest
  <2>2. CASE r \in DOMAIN table
    <3>1. PICK s \in Statuses : table' = Row(r, table[r].scope, s)
      BY <2>2 DEF Others
    <3> QED BY <1>1, <2>2, <3>1, StatusRow
  <2> QED BY <2>1, <2>2
<1> QED BY <1>2, <1>3, <1>4, <1>5 DEF OthersEffect

LEMMA OthersKind == ASSUME KindInv, NEW r \in Rows, Others(r) PROVE KindInv'
<1>1. /\ UNCHANGED <<env, place, chosen>> /\ acts' \in 0..MaxActs
      /\ shown' \in Shown /\ shown'.items = shown.items
      /\ calls' \in [Calls -> Call] /\ \A d \in Calls : Like(calls'[d], calls[d])
      /\ table' \in Table /\ DOMAIN table \subseteq DOMAIN table'
      /\ OneTest(env, table', shown.items)
  <2>1. OthersEffect
    BY OthersIs
  <2> QED BY <2>1 DEF OthersEffect
<1>2. \A d \in Calls : Fits(calls'[d], env, table')
  <2> SUFFICES ASSUME NEW d \in Calls PROVE Fits(calls'[d], env, table')
    OBVIOUS
  <2>1. calls'[d] \in Call /\ calls[d] \in Call /\ Fits(calls[d], env, table)
    BY <1>1, KindTypes
  <2> QED BY <1>1, <2>1, FitsLike
<1>3. place' = NoProject => "convert" \in env
  BY <1>1 DEF KindInv
<1> QED BY <1>1, <1>2, <1>3, KindTypes, KindKept

LEMMA InitKind == ASSUME Init PROVE KindInv
<1>1. PICK R \in SUBSET Rows : table \in [R -> [scope : Scopes, status : {"DRAFT", "ACTIVE"}]]
  BY DEF Init
<1>2. table \in Table
  <2>1. {"DRAFT", "ACTIVE"} \subseteq Statuses
    BY DEF Statuses
  <2>2. table \in [R -> [scope : Scopes, status : Statuses]]
    BY <1>1, <2>1
  <2> QED BY <2>2, TableFacts
<1>3. /\ env \in Environments /\ place = None /\ shown = Blank /\ chosen = None
      /\ calls = [c \in Calls |-> Free] /\ acts = 0
  BY DEF Init
<1>4. calls \in [Calls -> Call] /\ \A c \in Calls : Fits(calls[c], env, table)
  BY <1>3, FreeIs, FreeFits
<1>5. OneTest(env, table, shown.items)
  BY <1>3, BlankIs, NoItemsIs, PageIs DEF Init, OneTest, Alone
<1>6. place \in Places /\ place # NoProject
  BY <1>3, NoneAssumption DEF Places
<1>7. TypeOK
  BY <1>2, <1>3, <1>4, <1>6, BlankIs, TypeIs, BoundAssumption
<1> QED BY <1>4, <1>5, <1>6, <1>7 DEF KindInv

(***************************************************************************)
(* A page that loads has a call whose answer it takes                      *)
(***************************************************************************)

\* Loading, as an operator of what it depends on.
Loads(e, sh, p) == IF "recordings" \in e THEN sh.from # p ELSE sh.loading

Awaited(call, e, p) ==
  /\ call.at # "free" /\ call.op = "list" /\ call.live
  /\ "recordings" \in e => call.scope = p

WaitInv ==
  /\ place # None /\ Loads(env, shown, place) => \E c \in Calls : Awaited(calls[c], env, place)
  /\ place = None => chosen = None /\ DOMAIN shown.items = {}
  /\ Heard
  /\ IsGuarded => \A c \in Calls : Lists(c) /\ calls[c].live => calls[c].scope = place

PageInv == KindInv /\ WaitInv

LEMMA LoadingIs == ASSUME KindInv PROVE Loading <=> Loads(env, shown, place)
<1>1. Page.guarded = ("recordings" \in env) /\ shown.loading \in BOOLEAN
  BY KindTypes, PageIs, PageFacts DEF Shown
<1>2. CASE "recordings" \in env
  BY <1>1, <1>2 DEF Loading, Loads
<1>3. CASE "recordings" \notin env
  BY <1>1, <1>3 DEF Loading, Loads
<1> QED BY <1>2, <1>3

\* A step that keeps what is awaited.
LEMMA WaitKept ==
  ASSUME WaitInv, UNCHANGED <<env, place>>, shown'.from = shown.from,
         shown'.loading = shown.loading, place = None => chosen' = None /\ DOMAIN shown'.items = {},
         \A d \in Calls : Lists(d) /\ calls[d].live =>
           /\ calls'[d].at # "free" /\ calls'[d].op = "list" /\ calls'[d].live
           /\ calls'[d].scope = calls[d].scope,
         \A d \in Calls : calls'[d].at # "free" /\ calls'[d].live =>
           /\ place # None
           /\ calls'[d].op = "list" => (Lists(d) /\ calls[d].live /\ calls'[d].scope = calls[d].scope)
                                       \/ calls'[d].scope = place
  PROVE  WaitInv'
<1>1. ASSUME place # None, Loads(env, shown', place)
      PROVE  \E c \in Calls : Awaited(calls'[c], env, place)
  <2>1. Loads(env, shown, place)
    BY <1>1 DEF Loads
  <2>2. PICK c \in Calls : Awaited(calls[c], env, place)
    BY <1>1, <2>1 DEF WaitInv
  <2>3. Awaited(calls'[c], env, place)
    BY <2>2 DEF Awaited, Lists, Away
  <2> QED BY <2>3
<1>2. Heard'
  BY DEF Heard, Away
<1>3. IsGuarded => \A c \in Calls : Lists(c)' /\ calls'[c].live => calls'[c].scope = place
  BY DEF WaitInv, Lists, Away
<1> QED BY <1>1, <1>2, <1>3 DEF WaitInv, IsGuarded

\* A call that is not a list is sent.
LEMMA SendWaits ==
  ASSUME PageInv, NEW c \in Calls, NEW call \in Call, Sends(c, call), call.op # "list",
         place # None, UNCHANGED <<env, place>>, shown'.from = shown.from,
         shown'.loading = shown.loading
  PROVE  WaitInv'
<1>1. /\ calls' \in [Calls -> Call] /\ calls[c].at = "free" /\ calls'[c] = call /\ OnlyCall(c)
      /\ WaitInv
  BY KindTypes, SendIs DEF PageInv
<1>2. \A d \in Calls : Lists(d) /\ calls[d].live => calls'[d] = calls[d]
  BY <1>1 DEF OnlyCall, Lists, Away
<1>3. \A d \in Calls : calls'[d].op = "list" => calls'[d] = calls[d]
  BY <1>1 DEF OnlyCall
<1> QED BY <1>1, <1>2, <1>3, WaitKept DEF Lists, Away

LEMMA UserWaits ==
  ASSUME PageInv, NEW c \in Calls,
         Make(c) \/ Convert(c) \/ \E r \in Rows : Drop(c, r) \/ Run(c, r)
  PROVE  WaitInv'
<1> USE DEF PageInv
<1>1. CASE Make(c)
  <2>1. Ask("create", place) \in Call /\ Ask("create", place).op = "create"
    BY KindTypes, AskIs DEF Ops
  <2> QED BY <1>1, <2>1, SendWaits DEF Make
<1>2. ASSUME NEW r \in Rows, Drop(c, r) PROVE WaitInv'
  <2> DEFINE call == [Ask("remove", place) EXCEPT !.row = r]
  <2>1. Ask("remove", place) \in Call /\ Ask("remove", place).op = "remove"
    BY KindTypes, AskIs DEF Ops
  <2>2. call \in Call /\ call.op = "remove"
    BY <2>1 DEF Call
  <2>3. Sends(c, call) /\ place # None /\ UNCHANGED <<env, place, shown>>
    BY <1>2 DEF Drop
  <2> HIDE DEF call
  <2> QED BY <2>2, <2>3, SendWaits
<1>3. ASSUME NEW r \in Rows, Run(c, r) PROVE WaitInv'
  <2>1. RunEffect(c, r)
    BY <1>3, RunIs
  <2>2. place # None
    BY <2>1 DEF WaitInv, RunEffect
  <2>3. RunCall(r).op # "list"
    BY <2>1 DEF RunEffect
  <2> QED BY <2>1, <2>2, <2>3, SendWaits DEF RunEffect
<1>4. CASE Convert(c)
  <2>1. place # None
    BY <1>4 DEF Convert, WaitInv
  <2>2. ConvertEffect(c)
    BY <1>4, ConvertIs
  <2> QED BY <2>1, <2>2, SendWaits DEF ConvertEffect
<1> QED BY <1>1, <1>2, <1>3, <1>4

LEMMA ChangeWaits ==
  ASSUME PageInv, NEW c \in Calls, NEW r \in Rows, NEW to \in Statuses, Change(c, r, to)
  PROVE  WaitInv'
<1>1. ChangeEffect(c, r, to)
  BY ChangeIs DEF PageInv
<1>2. place # None
  BY <1>1 DEF PageInv, WaitInv, ChangeEffect
<1> QED BY <1>1, <1>2, SendWaits DEF ChangeEffect

LEMMA ListWaits ==
  ASSUME PageInv, NEW c \in Calls, NEW p \in Scopes, Sends(c, Ask("list", p)), place' = p, env' = env,
         \/ \A d \in Calls : Away(d) => ~calls[d].live
         \/ ~IsGuarded
  PROVE  WaitInv'
<1>1. calls' \in [Calls -> Call] /\ calls[c].at = "free" /\ calls'[c] = Ask("list", p) /\ OnlyCall(c)
  BY KindTypes, ListFits, SendIs DEF PageInv
<1>2. /\ calls'[c].at = "sent" /\ calls'[c].op = "list" /\ calls'[c].live /\ calls'[c].scope = p
  BY <1>1, AskIs DEF Places, Ops
<1>3. p # None
  BY NoneAssumption
<1>4. Awaited(calls'[c], env, p)
  BY <1>2 DEF Awaited
<1>5. IsGuarded => \A d \in Calls : Lists(d)' /\ calls'[d].live => calls'[d].scope = p
  BY <1>1, <1>2 DEF OnlyCall, Lists, Away
<1>6. Heard'
  BY <1>3 DEF Heard
<1> QED BY <1>3, <1>4, <1>5, <1>6 DEF WaitInv, IsGuarded

LEMMA OpenWaits ==
  ASSUME PageInv, NEW c \in Calls,
         Again(c) \/ \E p \in Scopes : Open(c, p) \/ Choose(c, p)
  PROVE  WaitInv'
<1>1. ASSUME NEW p \in Scopes, Open(c, p) PROVE WaitInv'
  <2>1. Sends(c, Ask("list", p)) /\ place' = p /\ env' = env /\ place = None
    BY <1>1 DEF Open
  <2>2. \A d \in Calls : Away(d) => ~calls[d].live
    BY <2>1 DEF PageInv, WaitInv, Heard
  <2> QED BY <2>1, <2>2, ListWaits
<1>2. ASSUME NEW p \in Scopes, Choose(c, p) PROVE WaitInv'
  <2>1. Sends(c, Ask("list", p)) /\ place' = p /\ env' = env /\ "convert" \in env
    BY <1>2, PageIs DEF Choose
  <2>2. ~IsGuarded
    BY <2>1, KindTypes, PageFacts DEF PageInv, IsGuarded
  <2> QED BY <2>1, <2>2, ListWaits
<1>3. CASE Again(c)
  <2>1. /\ Sends(c, Ask("list", place)) /\ place' = place /\ env' = env /\ place # None
        /\ "flow" \in env \/ "test" \in env
    BY <1>3, PageIs DEF Again
  <2>2. ~IsGuarded /\ "convert" \notin env
    BY <2>1, KindTypes, PageFacts DEF PageInv, IsGuarded
  <2>3. place \in Scopes
    BY <2>1, <2>2, PlaceIs DEF PageInv
  <2> QED BY <2>1, <2>2, <2>3, ListWaits
<1> QED BY <1>1, <1>2, <1>3

LEMMA RestWaits ==
  ASSUME PageInv, Leave \/ Unset \/ \E r \in Rows \cup {None} : Pick(r)
  PROVE  WaitInv'
<1>1. CASE Leave
  <2>1. /\ place' = None /\ chosen' = None /\ env' = env /\ calls' = Unheard(calls)
        /\ DOMAIN shown'.items = {}
    BY <1>1, BlankIs, NoItemsIs DEF Leave, Left
  <2>2. \A c \in Calls : ~calls'[c].live
    BY <2>1, KindTypes, UnheardIs DEF PageInv
  <2> QED BY <2>1, <2>2 DEF WaitInv, Heard, IsGuarded
<1>2. CASE Unset
  <2>1. /\ UNCHANGED <<env, chosen, calls>> /\ place' = NoProject /\ place # None
        /\ shown' = [shown EXCEPT !.items = NoItems] /\ "convert" \in env
    BY <1>2, PageIs, NoneAssumption DEF Unset
  <2>2. shown'.loading = shown.loading
    BY <2>1, KindTypes DEF PageInv, Shown
  <2>3. "recordings" \notin env
    BY <2>1, KindTypes, PageFacts DEF PageInv
  <2>4. NoProject # None
    BY NoneAssumption
  <2> QED BY <2>1, <2>2, <2>3, <2>4 DEF PageInv, WaitInv, Heard, IsGuarded, Loads, Awaited, Lists, Away
<1>3. ASSUME NEW r \in Rows \cup {None}, Pick(r) PROVE WaitInv'
  <2>1. UNCHANGED <<env, place, shown, calls>> /\ place # None
    BY <1>3, NoneAssumption DEF Pick
  <2> QED BY <2>1 DEF PageInv, WaitInv, Heard, IsGuarded, Lists, Away
<1> QED BY <1>1, <1>2, <1>3

LEMMA ApiWaits ==
  ASSUME PageInv, NEW c \in Calls, Serve(c) \/ Refuse(c)
  PROVE  WaitInv'
<1>1. /\ UNCHANGED <<env, place, chosen>> /\ shown'.items = shown.items
      /\ shown'.from = shown.from /\ shown'.loading = shown.loading
      /\ \A d \in Calls : calls'[d].op = calls[d].op /\ calls'[d].live = calls[d].live
                          /\ calls'[d].scope = calls[d].scope
                          /\ (calls'[d].at = "free" <=> calls[d].at = "free")
  <2>1. CASE Serve(c)
    <3>1. Served(c)
      BY <2>1, ServeIs DEF PageInv
    <3> QED BY <3>1 DEF Served, AnswerEffect, Like
  <2>2. CASE Refuse(c)
    <3>1. RefuseEffect(c)
      BY <2>2, RefuseIs DEF PageInv
    <3> QED BY <3>1 DEF RefuseEffect, OnlyCall
  <2> QED BY <2>1, <2>2
<1> QED BY <1>1, WaitKept DEF PageInv, WaitInv, Heard, Lists, Away

LEMMA OthersWaits == ASSUME PageInv, NEW r \in Rows, Others(r) PROVE WaitInv'
<1>1. /\ UNCHANGED <<env, place, chosen>> /\ shown'.items = shown.items
      /\ shown'.from = shown.from /\ shown'.loading = shown.loading
      /\ \A d \in Calls : calls'[d].op = calls[d].op /\ calls'[d].live = calls[d].live
                          /\ calls'[d].scope = calls[d].scope /\ calls'[d].at = calls[d].at
  <2>1. OthersEffect
    BY OthersIs DEF PageInv
  <2> QED BY <2>1 DEF OthersEffect, Like
<1> QED BY <1>1, WaitKept DEF PageInv, WaitInv, Heard, Lists, Away

\* A call that is not a list is over.
LEMMA FreedWaits ==
  ASSUME PageInv, NEW c \in Calls, Freed(c) \/ Triggered(c), Away(c),
         ~(calls[c].op = "list" /\ calls[c].live), UNCHANGED <<env, place, chosen>>,
         shown'.from = shown.from, shown'.loading = shown.loading,
         place = None => DOMAIN shown'.items = {}
  PROVE  WaitInv'
<1>1. calls'[c].live /\ calls'[c].at # "free" => calls[c].live
  BY FreeIs DEF Freed, Triggered
<1>2. OnlyCall(c)
  BY DEF Freed, Triggered
<1>3. calls'[c].at # "free" => calls'[c].op # "list"
  BY FreeIs DEF Freed, Triggered
<1>4. \A d \in Calls : Lists(d) /\ calls[d].live => calls'[d] = calls[d]
  BY <1>2 DEF Lists, OnlyCall
<1> QED BY <1>1, <1>2, <1>3, <1>4, WaitKept DEF PageInv, WaitInv, Heard, Lists, Away, OnlyCall

LEMMA DeliverWaits == ASSUME PageInv, NEW c \in Calls, Deliver(c) PROVE WaitInv'
<1>1. /\ UNCHANGED <<env, table, acts>> /\ calls[c].at \in {"ok", "error"}
      /\ \/ Ignored(c) \/ ListShown(c) \/ Reloaded(c) \/ RowShown(c) \/ StatusShown(c)
         \/ Gone(c)
  BY DeliverIs DEF PageInv, WaitInv
<1>2. Away(c) /\ (calls[c].live => place # None)
  BY <1>1 DEF Away, PageInv, WaitInv, Heard
<1>3. CASE Ignored(c)
  <2>1. DOMAIN shown'.items = DOMAIN shown.items
    BY <1>3 DEF Ignored
  <2> QED BY <1>1, <1>2, <1>3, <2>1, FreedWaits DEF Ignored, PageInv, WaitInv
<1>4. CASE ListShown(c)
  <2>1. /\ Freed(c) /\ place' = place /\ ~shown'.loading /\ shown'.from = calls[c].scope
        /\ calls[c].op = "list" /\ calls[c].live
    BY <1>4 DEF ListShown
  <2>2. IsGuarded => calls[c].scope = place
    BY <1>2, <2>1 DEF PageInv, WaitInv, Lists
  <2>3. ~Loads(env, shown', place)
    BY <2>1, <2>2 DEF Loads, IsGuarded
  <2>4. place # None
    BY <1>2, <2>1
  <2>5. IsGuarded => \A d \in Calls : Lists(d)' /\ calls'[d].live => calls'[d].scope = place
    BY <2>1, FreeIs DEF PageInv, WaitInv, Lists, Away, Freed, OnlyCall
  <2> QED BY <1>1, <2>1, <2>3, <2>4, <2>5 DEF WaitInv, Heard, IsGuarded
<1>5. CASE Reloaded(c)
  <2>1. /\ calls'[c] = Ask("list", place) /\ place' = place /\ calls[c].live
    BY <1>5 DEF Reloaded
  <2>2. /\ calls'[c].at = "sent" /\ calls'[c].op = "list" /\ calls'[c].live
        /\ calls'[c].scope = place
    BY <2>1, KindTypes, AskIs DEF PageInv, Ops
  <2>3. Awaited(calls'[c], env, place)
    BY <2>2 DEF Awaited
  <2>4. place # None
    BY <1>2, <2>1
  <2>5. IsGuarded => \A d \in Calls : Lists(d)' /\ calls'[d].live => calls'[d].scope = place
    BY <1>5, <2>2 DEF Reloaded, Like, Lists, Away
  <2> QED BY <1>1, <2>1, <2>3, <2>4, <2>5 DEF WaitInv, Heard, IsGuarded
<1>6. CASE RowShown(c)
  BY <1>1, <1>2, <1>6, FreedWaits DEF RowShown, Keeps
<1>7. CASE StatusShown(c)
  <2>1. calls[c].op \in {"status", "activate"}
    BY <1>7 DEF StatusShown, Triggered
  <2>2. /\ shown'.from = shown.from /\ shown'.loading = shown.loading
        /\ DOMAIN shown'.items = DOMAIN shown.items
    BY <1>7 DEF StatusShown, Keeps, AllAt
  <2>3. Freed(c) \/ Triggered(c)
    BY <1>7 DEF StatusShown
  <2>4. UNCHANGED <<place, chosen>>
    BY <1>7 DEF StatusShown
  <2>5. place = None => DOMAIN shown'.items = {}
    BY <2>2 DEF PageInv, WaitInv
  <2> QED BY <1>1, <1>2, <2>1, <2>2, <2>3, <2>4, <2>5, FreedWaits
<1>8. CASE Gone(c)
  <2>1. place' = None /\ chosen' = None /\ DOMAIN shown'.items = {}
    BY <1>8, BlankIs, NoItemsIs DEF Gone
  <2>2. \A d \in Calls : calls'[d].at # "free" => ~calls'[d].live
    BY <1>8, FreeIs DEF Gone
  <2> QED BY <1>1, <2>1, <2>2 DEF WaitInv, Heard, Away, IsGuarded, Lists
<1> QED BY <1>1, <1>3, <1>4, <1>5, <1>6, <1>7, <1>8

LEMMA InitPage == ASSUME Init PROVE PageInv
<1>1. place = None /\ chosen = None /\ shown = Blank /\ calls = [c \in Calls |-> Free]
  BY DEF Init
<1>2. ~\E c \in Calls : Away(c)
  BY <1>1, FreeIs DEF Away
<1> QED BY <1>1, <1>2, InitKind, BlankIs, NoItemsIs DEF PageInv, WaitInv, Heard, Lists


LEMMA PageStep == ASSUME PageInv, Next PROVE PageInv'
<1>1. KindInv /\ Heard
  BY DEF PageInv, WaitInv
<1>2. ASSUME NEW c \in Calls, Serve(c) PROVE PageInv'
  BY <1>1, <1>2, ServeKind, ApiWaits DEF PageInv
<1>3. ASSUME NEW c \in Calls, Refuse(c) PROVE PageInv'
  BY <1>1, <1>3, RefuseKind, ApiWaits DEF PageInv
<1>4. ASSUME NEW c \in Calls, Deliver(c) PROVE PageInv'
  BY <1>1, <1>4, DeliverKind, DeliverWaits DEF PageInv
<1>5. ASSUME NEW c \in Calls, NEW p \in Scopes, Open(c, p) \/ Choose(c, p) PROVE PageInv'
  BY <1>1, <1>5, OpenKind, OpenWaits DEF PageInv
<1>6. ASSUME NEW c \in Calls, Again(c) PROVE PageInv'
  BY <1>1, <1>6, AgainKind, OpenWaits DEF PageInv
<1>7. ASSUME NEW c \in Calls, Make(c) PROVE PageInv'
  BY <1>1, <1>7, MakeKind, UserWaits DEF PageInv
<1>8. ASSUME NEW c \in Calls, Convert(c) PROVE PageInv'
  BY <1>1, <1>8, ConvertKind, UserWaits DEF PageInv
<1>9. ASSUME NEW c \in Calls, NEW r \in Rows, Drop(c, r) PROVE PageInv'
  BY <1>1, <1>9, DropKind, UserWaits DEF PageInv
<1>10. ASSUME NEW c \in Calls, NEW r \in Rows, Run(c, r) PROVE PageInv'
  BY <1>1, <1>10, RunKind, UserWaits DEF PageInv
<1>11. ASSUME NEW c \in Calls, NEW r \in Rows, NEW to \in Statuses, Change(c, r, to) PROVE PageInv'
  BY <1>1, <1>11, ChangeKind, ChangeWaits DEF PageInv
<1>12. ASSUME NEW r \in Rows \cup {None}, Pick(r) PROVE PageInv'
  BY <1>1, <1>12, PickKind, RestWaits DEF PageInv
<1>13. ASSUME NEW r \in Rows, Others(r) PROVE PageInv'
  BY <1>1, <1>13, OthersKind, OthersWaits DEF PageInv
<1>14. CASE Leave
  BY <1>1, <1>14, LeaveKind, RestWaits DEF PageInv
<1>15. CASE Unset
  BY <1>1, <1>15, UnsetKind, RestWaits DEF PageInv
<1> QED
  BY <1>2, <1>3, <1>4, <1>5, <1>6, <1>7, <1>8, <1>9, <1>10, <1>11, <1>12, <1>13, <1>14, <1>15
  DEF Next, User

LEMMA PageStutter == ASSUME PageInv, UNCHANGED vars PROVE PageInv'
<1>1. KindInv'
  BY DEF vars, PageInv, KindInv, TypeOK
<1>2. WaitInv'
  BY DEF vars, PageInv, WaitInv, Heard, Lists, Away, IsGuarded
<1> QED BY <1>1, <1>2 DEF PageInv

(***************************************************************************)
(* Where superseded answers are not shown, any order of the answers        *)
(***************************************************************************)

\* A list that was answered has what the table has, unless others changed it since.
Fresh(call, now) ==
  call.at = "ok" /\ call.op = "list" /\ call.live => call.old \/ call.items = now

\* What is shown was loaded for this scope and is what the table has.
Current(sh, p, now) == sh.from = p => sh.failed \/ sh.old \/ sh.items = now

\* The list will be asked for again.
Removed(call) == call.op = "remove" /\ call.live /\ call.at = "ok"

Guards(cs, sh, p, now) ==
  \/ \E c \in Calls : Removed(cs[c])
  \/ (\A c \in Calls : Fresh(cs[c], now)) /\ Current(sh, p, now)

GuardInv == IsGuarded /\ place # None => Guards(calls, shown, place, ListedIn(env, table, place))

LEMMA GuardedCalls ==
  ASSUME KindInv, IsGuarded
  PROVE  /\ \A c \in Calls : calls[c].op \in {"list", "remove"}
         /\ "convert" \notin env /\ "test" \notin env /\ "flow" \notin env /\ "projects" \notin env
         /\ "tests" \notin env /\ "members" \notin env /\ PageOf(env).made = "never"
<1>1. /\ "convert" \notin env /\ "test" \notin env /\ "flow" \notin env /\ "projects" \notin env
      /\ "tests" \notin env /\ "members" \notin env /\ PageOf(env).made = "never"
  BY KindTypes, PageFacts DEF IsGuarded
<1>2. ASSUME NEW c \in Calls PROVE calls[c].op \in {"list", "remove"}
  <2>1. calls[c] \in Call /\ Fits(calls[c], env, table)
    BY KindTypes
  <2> QED BY <1>1, <2>1 DEF Fits, Call, Ops
<1> QED BY <1>1, <1>2

LEMMA FreshLike ==
  ASSUME NEW a, NEW b, NEW now, Fresh(b, now), Like(a, b), a.live => b.live,
         a.at = "ok" /\ b.old => a.old
  PROVE  Fresh(a, now)
BY DEF Fresh, Like

LEMMA OpenGuards ==
  ASSUME PageInv, NEW c \in Calls, NEW p \in Scopes, Open(c, p)
  PROVE  Guards(calls', shown', place', ListedIn(env, table', place'))
<1>1. Sends(c, Ask("list", p)) /\ place' = p /\ shown' = Blank /\ place = None
  BY DEF Open
<1>2. calls'[c] = Ask("list", p) /\ OnlyCall(c)
  BY <1>1, KindTypes, ListFits, SendIs DEF PageInv
<1>3. calls'[c].at = "sent"
  BY <1>2, AskIs DEF Ops, Places
<1>4. \A d \in Calls : calls'[d].at = "ok" => ~calls'[d].live
  BY <1>1, <1>2, <1>3 DEF OnlyCall, PageInv, WaitInv, Heard, Away
<1>5. shown'.from # place'
  BY <1>1, BlankIs, NoneAssumption
<1> QED BY <1>4, <1>5 DEF Guards, Fresh, Current

LEMMA DropGuards ==
  ASSUME PageInv, GuardInv, IsGuarded, NEW c \in Calls, NEW r \in Rows, Drop(c, r)
  PROVE  Guards(calls', shown', place', ListedIn(env, table', place'))
<1> DEFINE call == [Ask("remove", place) EXCEPT !.row = r]
<1>1. Sends(c, call) /\ UNCHANGED <<env, table, place, shown, chosen>> /\ place # None
  BY DEF Drop
<1>2. call \in Call /\ call.at = "sent"
  <2>1. Ask("remove", place) \in Call /\ Ask("remove", place).at = "sent"
    BY KindTypes, AskIs DEF Ops, PageInv
  <2> QED BY <2>1 DEF Call
<1> HIDE DEF call
<1>3. calls'[c] = call /\ OnlyCall(c) /\ calls[c].at = "free"
  BY <1>1, <1>2, KindTypes, SendIs DEF PageInv
<1>4. Guards(calls, shown, place, ListedIn(env, table, place))
  BY <1>1 DEF GuardInv
<1>5. CASE \E d \in Calls : Removed(calls[d])
  <2>1. PICK d \in Calls : Removed(calls[d])
    BY <1>5
  <2>2. Removed(calls'[d])
    BY <1>3, <2>1 DEF Removed, OnlyCall
  <2> QED BY <2>2 DEF Guards
<1>6. CASE /\ \A d \in Calls : Fresh(calls[d], ListedIn(env, table, place))
           /\ Current(shown, place, ListedIn(env, table, place))
  <2>1. \A d \in Calls : Fresh(calls'[d], ListedIn(env, table, place))
    BY <1>2, <1>3, <1>6 DEF OnlyCall, Fresh
  <2> QED BY <1>1, <1>6, <2>1 DEF Guards
<1> QED BY <1>4, <1>5, <1>6 DEF Guards

LEMMA ServeGuards ==
  ASSUME PageInv, GuardInv, IsGuarded, place # None, NEW c \in Calls, Serve(c)
  PROVE  Guards(calls', shown', place', ListedIn(env, table', place'))
<1>1. /\ Served(c)
      /\ \/ ListServed(c) \/ OtherServed(c) \/ RemoveServed(c) \/ StatusServed(c)
         \/ CreateServed(c)
  BY ServeIs DEF PageInv
<1>2. AnswerEffect(c, calls'[c]) /\ place' = place /\ calls[c].at = "sent" /\ calls'[c].at = "ok"
      /\ calls'[c].op = calls[c].op /\ calls'[c].live = calls[c].live
      /\ calls'[c].scope = calls[c].scope
  BY <1>1 DEF Served
<1>3. calls[c].op \in {"list", "remove"}
  BY GuardedCalls DEF PageInv
<1>4. Guards(calls, shown, place, ListedIn(env, table, place))
  BY DEF GuardInv
<1>5. CASE calls[c].op = "list"
  <2>1. table' = table /\ calls'[c].items = ListedIn(env, table, calls[c].scope)
    <3>1. "members" \notin env
      BY GuardedCalls DEF PageInv
    <3> QED
      BY <1>1, <1>5, <3>1
      DEF ListServed, OtherServed, RemoveServed, StatusServed, CreateServed, GivenIn
  <2>2. calls[c].live => calls[c].scope = place
    BY <1>2, <1>5 DEF PageInv, WaitInv, Lists, Away
  <2>3. Fresh(calls'[c], ListedIn(env, table, place))
    BY <1>2, <2>1, <2>2 DEF Fresh
  <2>4. ~Behind(calls'[c])
    BY <1>2, <1>5 DEF Behind
  <2>5. /\ \A d \in Calls \ {c} : /\ Like(calls'[d], calls[d]) /\ calls'[d].live = calls[d].live
                                  /\ calls'[d].old = calls[d].old
        /\ shown'.items = shown.items /\ shown'.from = shown.from /\ shown'.failed = shown.failed
        /\ shown'.old = shown.old
    BY <1>2, <2>4 DEF AnswerEffect
  <2>6. CASE \E d \in Calls : Removed(calls[d])
    <3>1. PICK d \in Calls : Removed(calls[d])
      BY <2>6
    <3>2. Removed(calls'[d])
      BY <1>5, <2>5, <3>1 DEF Removed, Like
    <3> QED BY <3>2 DEF Guards
  <2>7. CASE /\ \A d \in Calls : Fresh(calls[d], ListedIn(env, table, place))
             /\ Current(shown, place, ListedIn(env, table, place))
    <3>1. \A d \in Calls : Fresh(calls'[d], ListedIn(env, table, place))
      BY <2>3, <2>5, <2>7, FreshLike
    <3>2. Current(shown', place, ListedIn(env, table, place))
      BY <2>5, <2>7 DEF Current
    <3> QED BY <1>2, <2>1, <3>1, <3>2 DEF Guards
  <2> QED BY <1>4, <2>6, <2>7 DEF Guards
<1>6. CASE calls[c].op = "remove" /\ calls[c].live
  <2>1. Removed(calls'[c])
    BY <1>2, <1>6 DEF Removed
  <2> QED BY <2>1 DEF Guards
<1>7. CASE calls[c].op = "remove" /\ ~calls[c].live
  <2>1. Behind(calls'[c])
    BY <1>2, <1>7 DEF Behind
  <2>2. /\ shown'.old
        /\ \A d \in Calls \ {c} : Like(calls'[d], calls[d]) /\ calls'[d].old = (calls[d].at = "ok")
    BY <1>2, <2>1 DEF AnswerEffect
  <2>3. \A d \in Calls : Fresh(calls'[d], ListedIn(env, table', place'))
    BY <1>2, <1>7, <2>2 DEF Fresh, Like
  <2>4. Current(shown', place', ListedIn(env, table', place'))
    BY <2>2 DEF Current
  <2> QED BY <2>3, <2>4 DEF Guards
<1> QED BY <1>3, <1>5, <1>6, <1>7

LEMMA RefuseGuards ==
  ASSUME PageInv, GuardInv, IsGuarded, place # None, NEW c \in Calls, Refuse(c)
  PROVE  Guards(calls', shown', place', ListedIn(env, table', place'))
<1>1. RefuseEffect(c)
  BY RefuseIs DEF PageInv
<1>2. /\ calls[c].at = "sent" /\ OnlyCall(c) /\ calls'[c].at = "error"
      /\ UNCHANGED <<env, table, place, shown, chosen, acts>>
  BY <1>1 DEF RefuseEffect
<1>3. \A d \in Calls : Removed(calls[d]) => Removed(calls'[d])
  BY <1>2 DEF Removed, OnlyCall
<1>4. \A d \in Calls : \A now : Fresh(calls[d], now) => Fresh(calls'[d], now)
  BY <1>2 DEF Fresh, OnlyCall
<1> QED BY <1>2, <1>3, <1>4 DEF Guards, GuardInv

LEMMA OthersGuards ==
  ASSUME PageInv, NEW r \in Rows, Others(r)
  PROVE  Guards(calls', shown', place', ListedIn(env, table', place'))
<1>1. OthersEffect
  BY OthersIs DEF PageInv
<1>2. shown'.old /\ \A d \in Calls : Like(calls'[d], calls[d]) /\ calls'[d].old = (calls[d].at = "ok")
  BY <1>1 DEF OthersEffect
<1> QED BY <1>2 DEF Guards, Fresh, Current, Like

LEMMA DeliverGuards ==
  ASSUME PageInv, GuardInv, IsGuarded, place' # None, NEW c \in Calls, Deliver(c)
  PROVE  Guards(calls', shown', place', ListedIn(env, table', place'))
<1> DEFINE now == ListedIn(env, table, place)
<1>1. /\ UNCHANGED <<env, table, acts>> /\ calls[c].at \in {"ok", "error"}
      /\ \/ Ignored(c) \/ ListShown(c) \/ Reloaded(c) \/ RowShown(c) \/ StatusShown(c)
         \/ Gone(c)
  BY DeliverIs DEF PageInv, WaitInv
<1>2. calls[c].op \in {"list", "remove"}
  BY GuardedCalls DEF PageInv
<1>3. Ignored(c) \/ ListShown(c) \/ Reloaded(c)
  BY <1>1, <1>2 DEF RowShown, StatusShown, Triggered, Gone
<1>4. place' = place
  BY <1>3 DEF Ignored, ListShown, Reloaded
<1>5. Guards(calls, shown, place, now)
  BY <1>4 DEF GuardInv
<1> HIDE DEF now
<1>6. ListedIn(env, table', place') = now
  BY <1>1, <1>4 DEF now
<1>7. ASSUME Freed(c), ~Removed(calls[c]),
             Current(shown, place, now) /\ Fresh(calls[c], now) => Current(shown', place, now)
      PROVE  Guards(calls', shown', place, now)
  <2>1. \A d \in Calls : Removed(calls[d]) => Removed(calls'[d])
    BY <1>7 DEF Freed, OnlyCall
  <2>2. \A d \in Calls : Fresh(calls[d], now) => Fresh(calls'[d], now)
    BY <1>7, FreeIs DEF Freed, OnlyCall, Fresh
  <2> QED BY <1>5, <1>7, <2>1, <2>2 DEF Guards
<1>8. CASE Ignored(c)
  <2>1. Freed(c) /\ ~Removed(calls[c]) /\ shown' = shown
    BY <1>8 DEF Ignored, Removed
  <2> QED BY <1>4, <1>6, <1>7, <2>1
<1>9. CASE ListShown(c)
  <2>1. Freed(c) /\ ~Removed(calls[c]) /\ calls[c].op = "list" /\ calls[c].live
    BY <1>9 DEF ListShown, Removed
  <2>2. ASSUME Fresh(calls[c], now) PROVE Current(shown', place, now)
    <3>1. CASE calls[c].at = "ok"
      BY <1>9, <2>1, <2>2, <3>1 DEF ListShown, Fresh, Current
    <3>2. CASE calls[c].at = "error"
      BY <1>9, <3>2 DEF ListShown, Current
    <3> QED BY <1>1, <3>1, <3>2
  <2> QED BY <1>4, <1>6, <1>7, <2>1, <2>2
<1>10. CASE Reloaded(c)
  <2>1. /\ calls'[c] = Ask("list", place) /\ shown' = Blank
        /\ \A d \in Calls \ {c} : Like(calls'[d], calls[d]) /\ (calls'[d].live => calls[d].op # "list")
    BY <1>10 DEF Reloaded
  <2>2. calls'[c].at = "sent"
    BY <2>1, KindTypes, AskIs DEF PageInv, Ops
  <2>3. \A d \in Calls : Fresh(calls'[d], now)
    BY <2>1, <2>2 DEF Fresh, Like
  <2>4. Current(shown', place, now)
    BY <1>4, <2>1, BlankIs DEF Current
  <2> QED BY <1>4, <1>6, <2>3, <2>4 DEF Guards
<1> QED BY <1>3, <1>8, <1>9, <1>10

LEMMA GuardStep == ASSUME PageInv, GuardInv, Next PROVE GuardInv'
<1>1. env' = env
  BY DEF Next, User, Serve, Refuse, Deliver, Open, Choose, Make, Again, Convert, Drop, Run, Change,
     Pick, Others, Leave, Unset
<1> SUFFICES ASSUME IsGuarded, place' # None
             PROVE  Guards(calls', shown', place', ListedIn(env, table', place'))
  BY <1>1 DEF GuardInv, IsGuarded
<1>2. /\ ~Is("convert") /\ ~Is("test") /\ ~Is("flow") /\ Page.made = "never"
  BY GuardedCalls, PageIs DEF PageInv
<1>3. ASSUME NEW c \in Calls, NEW p \in Scopes, Open(c, p)
      PROVE  Guards(calls', shown', place', ListedIn(env, table', place'))
  BY <1>3, OpenGuards
<1>4. ASSUME NEW c \in Calls, Serve(c)
      PROVE  Guards(calls', shown', place', ListedIn(env, table', place'))
  <2>1. place # None
    BY <1>4 DEF Serve
  <2> QED BY <1>4, <2>1, ServeGuards
<1>5. ASSUME NEW c \in Calls, Refuse(c)
      PROVE  Guards(calls', shown', place', ListedIn(env, table', place'))
  <2>1. place # None
    BY <1>5 DEF Refuse
  <2> QED BY <1>5, <2>1, RefuseGuards
<1>6. ASSUME NEW c \in Calls, Deliver(c)
      PROVE  Guards(calls', shown', place', ListedIn(env, table', place'))
  BY <1>6, DeliverGuards
<1>7. ASSUME NEW c \in Calls, NEW r \in Rows, Drop(c, r)
      PROVE  Guards(calls', shown', place', ListedIn(env, table', place'))
  BY <1>7, DropGuards
<1>8. ASSUME NEW r \in Rows, Others(r)
      PROVE  Guards(calls', shown', place', ListedIn(env, table', place'))
  BY <1>8, OthersGuards
<1>9. ~Leave
  BY DEF Leave, Left
<1> QED
  BY <1>2, <1>3, <1>4, <1>5, <1>6, <1>7, <1>8, <1>9
  DEF Next, User, Choose, Make, Again, Convert, Run, Change, Pick, Unset

(***************************************************************************)
(* Elsewhere, for a user who waits for each answer                         *)
(***************************************************************************)

Waiter == "overlap" \notin env

\* Neither guarded nor without its rows.
IsOther == ~IsGuarded /\ "members" \notin env

\* What the answer to a call will make of what is shown.
Expects(call, items, now) ==
  /\ call.op = "create" /\ call.at = "ok" => Added(items, call.row) = now
  /\ call.op = "remove" /\ call.at = "ok" => Taken(items, call.row) = now
  /\ call.op = "status" \/ (call.op = "activate" /\ call.at = "ok") =>
       AllAt(items, ShowStatus(call)) = now
  /\ call.op \in {"list", "trigger", "convert"} => items = now
  /\ call.op \in {"create", "remove", "activate"} /\ call.at # "ok" => items = now
  /\ call.op \in {"status", "activate"} => call.row \in DOMAIN items

\* What is shown is what the table has, or will be with the answers that are awaited.
Stands(cs, items, now) ==
  /\ (\A c \in Calls : cs[c].at = "free") => items = now
  /\ \A c \in Calls : cs[c].at # "free" => Expects(cs[c], items, now)

\* The page of a test shows it as it is from the first answer on; the others may wait for a list.
Settles(cs, sh, now, e) ==
  /\ \A c \in Calls : Fresh(cs[c], now)
  /\ ~sh.old => \/ sh.failed
                \/ \E c \in Calls : cs[c].at # "free" /\ cs[c].op = "list"
                \/ Stands(cs, sh.items, now)
  /\ "test" \in e /\ ~sh.old => DOMAIN sh.items = {} \/ Stands(cs, sh.items, now)

OneCall ==
  Waiter =>
    /\ \A c \in Calls : Away(c) => /\ calls[c].live /\ calls[c].scope = place /\ place # None
                                   /\ \A d \in Calls : Away(d) => d = c
    /\ "convert" \in env /\ (\E c \in Calls : Lists(c)) => chosen = None

UnguardedInv ==
  Waiter /\ IsOther /\ place # None =>
    Settles(calls, shown, ListedIn(env, table, place), env)

SettleInv == PageInv /\ GuardInv /\ OneCall /\ UnguardedInv

\* Functions with the same values.
LEMMA SameItems ==
  ASSUME NEW f \in Items, NEW g \in Items, DOMAIN f = DOMAIN g, \A x \in DOMAIN f : f[x] = g[x]
  PROVE  f = g
<1>1. f \in [DOMAIN f -> Statuses] /\ g \in [DOMAIN f -> Statuses]
  BY ItemsFacts
<1> QED BY <1>1

\* A list of a table.
Counts(e, status) == "test" \in e \/ "flow" \in e \/ status # "ARCHIVED"

ListShape(list, e, t, p) ==
  /\ list \in Items
  /\ \A x : x \in DOMAIN list <=> (x \in DOMAIN t /\ t[x].scope = p /\ Counts(e, t[x].status))
  /\ \A x \in DOMAIN list : list[x] = t[x].status

LEMMA ListShapeIs ==
  ASSUME NEW t \in Table, NEW e, NEW p
  PROVE  ListShape(ListedIn(e, t, p), e, t, p)
<1>1. PICK list : list = ListedIn(e, t, p)
  OBVIOUS
<1>2. list = [r \in {x \in DOMAIN t : t[x].scope = p /\ Counts(e, t[x].status)} |-> t[r].status]
  BY <1>1 DEF ListedIn, Counts
<1>3. \A x : x \in DOMAIN list <=> (x \in DOMAIN t /\ t[x].scope = p /\ Counts(e, t[x].status))
  BY <1>2
<1>4. \A x \in DOMAIN list : list[x] = t[x].status
  BY <1>2
<1>5. list \in [DOMAIN list -> Statuses] /\ DOMAIN list \in SUBSET Rows
  <2>1. \A x \in DOMAIN t : x \in Rows /\ t[x].status \in Statuses
    BY TableFacts
  <2> QED BY <1>2, <1>3, <2>1
<1>6. list \in Items
  BY <1>5, ItemsFacts
<1> QED BY <1>1, <1>3, <1>4, <1>6 DEF ListShape

LEMMA AddedIs ==
  ASSUME NEW items \in Items, NEW r \in Rows, NEW f \in Items, DOMAIN f = DOMAIN items \cup {r},
         f[r] = "DRAFT", \A x \in DOMAIN items \ {r} : f[x] = items[x]
  PROVE  f = Added(items, r)
<1>1. Added(items, r) \in Items
  BY ItemsMade
<1>2. DOMAIN Added(items, r) = DOMAIN items \cup {r}
  BY DEF Added
<1>3. \A x \in DOMAIN f : f[x] = Added(items, r)[x]
  BY DEF Added
<1> QED BY <1>1, <1>2, <1>3, SameItems

LEMMA TakenIs ==
  ASSUME NEW items \in Items, NEW r, NEW f \in Items, DOMAIN f = DOMAIN items \ {r},
         \A x \in DOMAIN f : f[x] = items[x]
  PROVE  f = Taken(items, r)
<1>1. Taken(items, r) \in Items
  BY ItemsMade
<1>2. DOMAIN Taken(items, r) = DOMAIN items \ {r}
  BY DEF Taken
<1>3. \A x \in DOMAIN f : f[x] = Taken(items, r)[x]
  BY DEF Taken
<1> QED BY <1>1, <1>2, <1>3, SameItems

LEMMA AllAtIs ==
  ASSUME NEW items \in Items, NEW s \in Statuses, NEW f \in Items, DOMAIN f = DOMAIN items,
         \A x \in DOMAIN f : f[x] = s
  PROVE  f = AllAt(items, s)
<1>1. AllAt(items, s) \in Items
  BY ItemsMade
<1>2. DOMAIN AllAt(items, s) = DOMAIN items
  BY DEF AllAt
<1>3. \A x \in DOMAIN f : f[x] = AllAt(items, s)[x]
  BY DEF AllAt
<1> QED BY <1>1, <1>2, <1>3, SameItems

\* What a list has when a row was created.
LEMMA ListedCreated ==
  ASSUME table \in Table, NEW e, NEW p \in Scopes, NEW r \in Rows \ DOMAIN table, NEW t,
         t = Row(r, p, "DRAFT")
  PROVE  ListedIn(e, t, p) = Added(ListedIn(e, table, p), r)
<1>1. "DRAFT" \in Statuses
  BY DEF Statuses
<1>2. RowShape(t, r, p, "DRAFT")
  BY <1>1, RowShapeIs
<1>3. PICK now, next : now = ListedIn(e, table, p) /\ next = ListedIn(e, t, p)
  OBVIOUS
<1>4. ListShape(now, e, table, p)
  BY <1>3, ListShapeIs
<1>5. t \in Table
  BY <1>2 DEF RowShape
<1>6. ListShape(next, e, t, p)
  BY <1>3, <1>5, ListShapeIs
<1>7. DOMAIN next = DOMAIN now \cup {r}
  <2>1. r \in DOMAIN next
    BY <1>2, <1>6 DEF RowShape, ListShape, Counts
  <2>2. \A x : x # r => (x \in DOMAIN next <=> x \in DOMAIN now)
    BY <1>2, <1>4, <1>6 DEF RowShape, ListShape
  <2> QED BY <2>1, <2>2
<1>8. next[r] = "DRAFT"
  BY <1>2, <1>6, <1>7 DEF RowShape, ListShape
<1>9. \A x \in DOMAIN now \ {r} : next[x] = now[x]
  BY <1>2, <1>4, <1>6, <1>7 DEF RowShape, ListShape
<1>10. now \in Items /\ next \in Items
  BY <1>4, <1>6 DEF ListShape
<1> QED BY <1>3, <1>7, <1>8, <1>9, <1>10, AddedIs

\* What a list has when a row was removed: deleted, or archived where lists leave that out.
LEMMA ListedRemoved ==
  ASSUME table \in Table, NEW e, NEW p, NEW r \in DOMAIN table, NEW t \in Table,
         \A x \in DOMAIN table \ {r} : x \in DOMAIN t /\ t[x] = table[x],
         DOMAIN t \subseteq DOMAIN table,
         r \notin DOMAIN t \/ ~Counts(e, t[r].status)
  PROVE  ListedIn(e, t, p) = Taken(ListedIn(e, table, p), r)
<1>3. PICK now, next : now = ListedIn(e, table, p) /\ next = ListedIn(e, t, p)
  OBVIOUS
<1>4. ListShape(now, e, table, p)
  BY <1>3, ListShapeIs
<1>6. ListShape(next, e, t, p)
  BY <1>3, ListShapeIs
<1>7. DOMAIN next = DOMAIN now \ {r}
  <2>1. r \notin DOMAIN next
    BY <1>6 DEF ListShape
  <2>2. \A x : x # r => (x \in DOMAIN next <=> x \in DOMAIN now)
    BY <1>4, <1>6 DEF ListShape
  <2> QED BY <2>1, <2>2
<1>9. \A x \in DOMAIN next : next[x] = now[x]
  BY <1>4, <1>6, <1>7 DEF ListShape
<1>10. now \in Items /\ next \in Items
  BY <1>4, <1>6 DEF ListShape
<1> QED BY <1>3, <1>7, <1>9, <1>10, TakenIs

\* The page of a test lists its row.
LEMMA ListedAlone ==
  ASSUME NEW t \in Table, NEW e, "test" \in e, NEW p, Alone(t, p), NEW r \in DOMAIN t, t[r].scope = p
  PROVE  DOMAIN ListedIn(e, t, p) = {r} /\ ListedIn(e, t, p)[r] = t[r].status
<1>3. PICK now : now = ListedIn(e, t, p)
  OBVIOUS
<1>4. ListShape(now, e, t, p)
  BY <1>3, ListShapeIs
<1>5. {x \in DOMAIN t : t[x].scope = p} = {r}
  BY DEF Alone
<1>6. DOMAIN now = {r} /\ now[r] = t[r].status
  BY <1>4, <1>5 DEF ListShape, Counts
<1> QED BY <1>3, <1>6

\* What a list has when the status of the only row of the scope changes.
LEMMA ListedChanged ==
  ASSUME table \in Table, NEW e, "test" \in e, NEW p, Alone(table, p), NEW r \in DOMAIN table,
         table[r].scope = p, NEW s \in Statuses, NEW t, t = Row(r, table[r].scope, s)
  PROVE  ListedIn(e, t, p) = AllAt(ListedIn(e, table, p), s)
<1>2. /\ t \in Table /\ DOMAIN t = DOMAIN table
      /\ \A x \in DOMAIN table : t[x].scope = table[x].scope
      /\ t[r].status = s
  BY StatusRow
<1>3. PICK now, next : now = ListedIn(e, table, p) /\ next = ListedIn(e, t, p)
  OBVIOUS
<1>4. Alone(t, p) /\ t[r].scope = p
  BY <1>2 DEF Alone
<1>5. DOMAIN now = {r}
  BY <1>3, ListedAlone
<1>6. DOMAIN next = {r} /\ next[r] = s
  BY <1>2, <1>3, <1>4, ListedAlone
<1>7. now \in Items /\ next \in Items
  BY <1>2, <1>3, ListShapeIs DEF ListShape
<1> QED BY <1>3, <1>5, <1>6, <1>7, AllAtIs

(***************************************************************************)
(* Who waits has one call away at most                                     *)
(***************************************************************************)

LEMMA SentOne ==
  ASSUME PageInv, Quiet, NEW c \in Calls, NEW call \in Call, Sends(c, call), call.live,
         call.scope = place', place' # None, env' = env,
         "convert" \in env /\ call.op = "list" => chosen' = None
  PROVE  OneCall'
<1>1. calls'[c] = call /\ OnlyCall(c)
  BY KindTypes, SendIs DEF PageInv
<1>2. \A d \in Calls : Away(d)' => d = c
  BY <1>1 DEF Quiet, OnlyCall, Away
<1>3. ASSUME NEW d \in Calls, Away(d)'
      PROVE  calls'[d].live /\ calls'[d].scope = place' /\ \A x \in Calls : Away(x)' => x = d
  BY <1>1, <1>2, <1>3
<1>4. ASSUME NEW d \in Calls, Lists(d)' PROVE calls'[d].op = "list" /\ d = c
  BY <1>2, <1>4 DEF Lists
<1> QED BY <1>1, <1>3, <1>4 DEF OneCall, Waiter

LEMMA NoneOne ==
  ASSUME \A d \in Calls : calls'[d].at = "free"
  PROVE  OneCall'
BY DEF OneCall, Lists, Away

LEMMA KeptOne ==
  ASSUME OneCall, UNCHANGED <<env, place, chosen>>,
         \A d \in Calls : /\ calls'[d].at = "free" <=> calls[d].at = "free"
                          /\ calls'[d].op = calls[d].op /\ calls'[d].scope = calls[d].scope
                          /\ calls'[d].live = calls[d].live
  PROVE  OneCall'
<1>1. \A d \in Calls : (Away(d)' <=> Away(d)) /\ (Lists(d)' <=> Lists(d))
  BY DEF Away, Lists
<1> QED BY <1>1 DEF OneCall, Waiter

\* The call that is away, for a user who waits.
LEMMA TheCall ==
  ASSUME OneCall, Waiter, NEW c \in Calls, Away(c)
  PROVE  /\ calls[c].live /\ calls[c].scope = place /\ place # None
         /\ \A d \in Calls \ {c} : calls[d].at = "free"
BY DEF OneCall, Away

LEMMA QuietUser ==
  ASSUME PageInv, OneCall, Waiter, NEW c \in Calls, User(c)
  PROVE  Quiet
<1>1. CASE Convert(c)
  <2>1. chosen # None /\ "convert" \in env
        /\ \A x \in Calls : calls[x].at = "free" \/ calls[x].op = "list"
    BY <1>1, PageIs DEF Convert, Waiter
  <2> QED BY <2>1 DEF OneCall, Lists, Away, Quiet
<1>2. CASE ~Convert(c)
  <2>1. MayAct
    BY <1>2 DEF User, Open, Choose, Make, Again, Drop, Run, Change
  <2> QED BY <2>1, MayActIs DEF PageInv, Waiter
<1> QED BY <1>1, <1>2

LEMMA UserOne ==
  ASSUME PageInv, OneCall, Waiter, NEW c \in Calls, User(c)
  PROVE  OneCall'
<1>1. Quiet
  BY QuietUser
<1>2. KindInv
  BY DEF PageInv
<1>3. ASSUME NEW p \in Scopes, Open(c, p) \/ Choose(c, p) PROVE OneCall'
  <2>1. Sends(c, Ask("list", p)) /\ place' = p /\ env' = env /\ chosen' = None
    BY <1>3 DEF Open, Choose, Switch, PageInv, WaitInv
  <2>2. Ask("list", p) \in Call /\ Ask("list", p).live /\ Ask("list", p).scope = p
    BY AskIs DEF Ops, Places
  <2>3. p # None
    BY NoneAssumption
  <2> QED BY <1>1, <2>1, <2>2, <2>3, SentOne
<1>4. CASE Make(c)
  <2>1. Sends(c, Ask("create", place)) /\ place' = place /\ env' = env /\ place # None
    BY <1>4 DEF Make
  <2>2. /\ Ask("create", place) \in Call /\ Ask("create", place).live
        /\ Ask("create", place).scope = place /\ Ask("create", place).op = "create"
    BY <1>2, KindTypes, AskIs DEF Ops
  <2> QED BY <1>1, <2>1, <2>2, SentOne
<1>5. CASE Again(c)
  <2>1. Sends(c, Ask("list", place)) /\ place' = place /\ env' = env /\ place # None
        /\ ("flow" \in env \/ "test" \in env)
    BY <1>5, PageIs DEF Again
  <2>2. /\ Ask("list", place) \in Call /\ Ask("list", place).live
        /\ Ask("list", place).scope = place
    BY <1>2, KindTypes, AskIs DEF Ops
  <2>3. "convert" \notin env
    BY <1>2, <2>1, KindTypes, PageFacts
  <2> QED BY <1>1, <2>1, <2>2, <2>3, SentOne
<1>6. CASE Convert(c)
  <2>1. ConvertEffect(c)
    BY <1>2, <1>6, ConvertIs
  <2>2. place # None
    BY <1>6 DEF Convert, PageInv, WaitInv
  <2> QED BY <1>1, <2>1, <2>2, SentOne DEF ConvertEffect
<1>7. ASSUME NEW r \in Rows, Drop(c, r) PROVE OneCall'
  <2> DEFINE asked == Ask("remove", place)
             call == [asked EXCEPT !.row = r]
  <2>1. Sends(c, call) /\ place' = place /\ env' = env /\ place # None
    BY <1>7 DEF Drop
  <2>2. /\ asked \in Call /\ asked.live /\ asked.scope = place /\ asked.op = "remove"
    BY <1>2, KindTypes, AskIs DEF Ops
  <2> HIDE DEF asked
  <2>3. call \in Call /\ call.live /\ call.scope = place /\ call.op = "remove"
    BY <2>2 DEF Call
  <2> HIDE DEF call
  <2> QED BY <1>1, <2>1, <2>3, SentOne
<1>8. ASSUME NEW r \in Rows, Run(c, r) PROVE OneCall'
  <2>1. RunEffect(c, r)
    BY <1>2, <1>8, RunIs
  <2>2. place # None
    BY <2>1 DEF RunEffect, PageInv, WaitInv
  <2>3. RunCall(r).op # "list"
    BY <2>1 DEF RunEffect
  <2> QED BY <1>1, <2>1, <2>2, <2>3, SentOne DEF RunEffect
<1>9. ASSUME NEW r \in Rows, NEW to \in Statuses, Change(c, r, to) PROVE OneCall'
  <2>1. ChangeEffect(c, r, to)
    BY <1>2, <1>9, ChangeIs
  <2>2. place # None
    BY <2>1 DEF ChangeEffect, PageInv, WaitInv
  <2> QED BY <1>1, <2>1, <2>2, SentOne DEF ChangeEffect
<1> QED BY <1>3, <1>4, <1>5, <1>6, <1>7, <1>8, <1>9 DEF User

LEMMA RestOne ==
  ASSUME PageInv, OneCall, Waiter, Leave \/ Unset \/ \E r \in Rows \cup {None} : Pick(r)
  PROVE  OneCall'
<1>1. Quiet
  <2>1. MayAct
    BY DEF Leave, Unset, Pick
  <2> QED BY <2>1, MayActIs DEF PageInv, Waiter
<1>2. \A d \in Calls : calls'[d].at = "free"
  <2>1. CASE Leave
    BY <1>1, <2>1, KindTypes, UnheardIs DEF Leave, Quiet, Like, PageInv
  <2>2. CASE ~Leave
    BY <1>1, <2>2 DEF Unset, Pick, Quiet
  <2> QED BY <2>1, <2>2
<1> QED BY <1>2, NoneOne

LEMMA ApiOne ==
  ASSUME PageInv, OneCall,
         (\E c \in Calls : Serve(c) \/ Refuse(c)) \/ \E r \in Rows : Others(r)
  PROVE  OneCall'
<1> DEFINE Same == /\ UNCHANGED <<env, place, chosen>>
                   /\ \A d \in Calls : /\ calls'[d].at = "free" <=> calls[d].at = "free"
                                       /\ calls'[d].op = calls[d].op
                                       /\ calls'[d].scope = calls[d].scope
                                       /\ calls'[d].live = calls[d].live
<1>1. ASSUME NEW c \in Calls, Serve(c) PROVE Same
  <2>1. Served(c)
    BY <1>1, ServeIs DEF PageInv
  <2> QED BY <2>1 DEF Served, AnswerEffect, Like
<1>2. ASSUME NEW c \in Calls, Refuse(c) PROVE Same
  <2>1. RefuseEffect(c)
    BY <1>2, RefuseIs DEF PageInv
  <2> QED BY <2>1 DEF RefuseEffect, OnlyCall
<1>3. ASSUME NEW r \in Rows, Others(r) PROVE Same
  <2>1. OthersEffect
    BY <1>3, OthersIs DEF PageInv
  <2> QED BY <2>1 DEF OthersEffect, Like
<1> QED BY <1>1, <1>2, <1>3, KeptOne

LEMMA DeliverOne ==
  ASSUME PageInv, OneCall, Waiter, NEW c \in Calls, Deliver(c)
  PROVE  OneCall'
<1>1. /\ UNCHANGED <<env, table, acts>> /\ calls[c].at \in {"ok", "error"}
      /\ \/ Ignored(c) \/ ListShown(c) \/ Reloaded(c) \/ RowShown(c) \/ StatusShown(c)
         \/ Gone(c)
  BY DeliverIs DEF PageInv, WaitInv
<1>2. /\ calls[c].live /\ calls[c].scope = place /\ place # None
      /\ \A d \in Calls \ {c} : calls[d].at = "free"
  BY <1>1, TheCall DEF Away
<1>3. CASE Freed(c)
  <2>1. \A d \in Calls : calls'[d].at = "free"
    BY <1>2, <1>3, FreeIs DEF Freed, OnlyCall
  <2> QED BY <2>1, NoneOne
<1>4. CASE Reloaded(c)
  <2>1. /\ calls[c].op \in {"create", "remove"} /\ calls'[c] = Ask("list", place) /\ place' = place
        /\ \A d \in Calls \ {c} : Like(calls'[d], calls[d])
    BY <1>4 DEF Reloaded
  <2>2. "convert" \notin env
    BY <2>1, KindTypes, PageFacts DEF PageInv, Fits
  <2>3. calls'[c].live /\ calls'[c].scope = place
    BY <2>1, KindTypes, AskIs DEF PageInv, Ops
  <2>4. \A d \in Calls : Away(d)' => d = c
    BY <1>2, <2>1 DEF Away, Like
  <2> QED BY <1>1, <1>2, <2>1, <2>2, <2>3, <2>4 DEF OneCall
<1>5. CASE StatusShown(c) /\ ~Freed(c)
  <2>1. Triggered(c) /\ place' = place
    BY <1>5 DEF StatusShown
  <2>2. /\ calls'[c].live /\ calls'[c].scope = place /\ calls'[c].op = "trigger"
        /\ \A d \in Calls : Away(d)' => d = c
    BY <1>2, <2>1 DEF Triggered, OnlyCall, Away
  <2>3. ~\E d \in Calls : Lists(d)'
    BY <2>2 DEF Lists
  <2> QED BY <1>1, <1>2, <2>1, <2>2, <2>3 DEF OneCall
<1>6. CASE Gone(c)
  <2>1. \A d \in Calls : calls'[d].at = "free"
    BY <1>2, <1>6, FreeIs DEF Gone, Like
  <2> QED BY <2>1, NoneOne
<1> QED BY <1>1, <1>3, <1>4, <1>5, <1>6 DEF Ignored, ListShown, RowShown

LEMMA EnvKept == ASSUME Next PROVE env' = env
BY DEF Next, User, Serve, Refuse, Deliver, Open, Choose, Make, Again, Convert, Drop, Run, Change,
   Pick, Others, Leave, Unset

LEMMA OneStep == ASSUME PageInv, OneCall, Next PROVE OneCall'
<1>1. CASE ~Waiter
  BY <1>1, EnvKept DEF OneCall, Waiter
<1>2. CASE Waiter
  BY <1>2, UserOne, RestOne, ApiOne, DeliverOne DEF Next
<1> QED BY <1>1, <1>2

(***************************************************************************)
(* What is shown of a page that is not guarded                             *)
(***************************************************************************)

\* Settles, with one call away, and with none.
OneSettles(call, sh, now, e) ==
  /\ Fresh(call, now)
  /\ ~sh.old => sh.failed \/ call.op = "list" \/ Expects(call, sh.items, now)
  /\ "test" \in e /\ ~sh.old => DOMAIN sh.items = {} \/ Expects(call, sh.items, now)

RestSettles(sh, now, e) ==
  /\ ~sh.old => sh.failed \/ sh.items = now
  /\ "test" \in e /\ ~sh.old => DOMAIN sh.items = {} \/ sh.items = now

LEMMA SettlesOne ==
  ASSUME NEW cs, NEW c \in Calls, cs[c].at # "free", \A d \in Calls \ {c} : cs[d].at = "free",
         NEW sh, NEW now, NEW e
  PROVE  Settles(cs, sh, now, e) <=> OneSettles(cs[c], sh, now, e)
<1>1. (\A d \in Calls : Fresh(cs[d], now)) <=> Fresh(cs[c], now)
  BY DEF Fresh
<1>2. (\E d \in Calls : cs[d].at # "free" /\ cs[d].op = "list") <=> cs[c].op = "list"
  OBVIOUS
<1>3. Stands(cs, sh.items, now) <=> Expects(cs[c], sh.items, now)
  BY DEF Stands
<1> QED BY <1>1, <1>2, <1>3 DEF Settles, OneSettles

LEMMA SettlesNone ==
  ASSUME NEW cs, \A d \in Calls : cs[d].at = "free", NEW sh, NEW now, NEW e
  PROVE  Settles(cs, sh, now, e) <=> RestSettles(sh, now, e)
<1>1. \A d \in Calls : Fresh(cs[d], now)
  BY DEF Fresh
<1>2. ~\E d \in Calls : cs[d].at # "free" /\ cs[d].op = "list"
  OBVIOUS
<1>3. Stands(cs, sh.items, now) <=> sh.items = now
  BY DEF Stands
<1> QED BY <1>1, <1>2, <1>3 DEF Settles, RestSettles

\* A call is sent when none is away.
LEMMA SentSettles ==
  ASSUME PageInv, Quiet, NEW c \in Calls, NEW call \in Call, Sends(c, call), call.at = "sent",
         NEW sh, NEW now, NEW e, OneSettles(call, sh, now, e)
  PROVE  Settles(calls', sh, now, e)
<1>1. calls'[c] = call /\ OnlyCall(c)
  BY KindTypes, SendIs DEF PageInv
<1>2. \A d \in Calls \ {c} : calls'[d].at = "free"
  BY <1>1 DEF Quiet, OnlyCall
<1>3. PICK cs : cs = calls'
  OBVIOUS
<1>4. Settles(cs, sh, now, e)
  BY <1>1, <1>2, <1>3, SettlesOne
<1> QED BY <1>3, <1>4

\* The list of no scope at all.
LEMMA ListedNowhere ==
  ASSUME NEW t \in Table, NEW e
  PROVE  ListedIn(e, t, NoProject) = NoItems
<1>1. PICK list : list = ListedIn(e, t, NoProject)
  OBVIOUS
<1>2. ListShape(list, e, t, NoProject)
  BY <1>1, ListShapeIs
<1>3. \A x \in DOMAIN t : t[x].scope \in Scopes
  BY TableFacts
<1>4. DOMAIN list = {}
  BY <1>2, <1>3, NoneAssumption DEF ListShape
<1> QED BY <1>1, <1>2, <1>4, NoItemsIs, SameItems DEF ListShape

\* What the page shows when nothing is away.
LEMMA QuietSettles ==
  ASSUME UnguardedInv, Waiter, IsOther, place # None, Quiet
  PROVE  RestSettles(shown, ListedIn(env, table, place), env)
<1>1. PICK now : now = ListedIn(env, table, place)
  OBVIOUS
<1>2. Settles(calls, shown, now, env)
  BY <1>1 DEF UnguardedInv
<1> QED BY <1>1, <1>2, SettlesNone DEF Quiet

LEMMA UserSettles ==
  ASSUME PageInv, OneCall, UnguardedInv, Waiter, IsOther, NEW c \in Calls, User(c)
  PROVE  Settles(calls', shown', ListedIn(env, table', place'), env)
<1>1. Quiet /\ KindInv
  BY QuietUser DEF PageInv
<1>2. table' = table
  BY DEF User, Open, Choose, Make, Again, Convert, Drop, Run, Change
<1>3. PICK now : now = ListedIn(env, table, place')
  OBVIOUS
<1>4. ListedIn(env, table', place') = now
  BY <1>2, <1>3
<1>5. place # None /\ place' = place => RestSettles(shown, now, env)
  BY <1>1, <1>3, QuietSettles
<1>6. ASSUME NEW call \in Call, Sends(c, call), call.at = "sent",
             OneSettles(call, shown', now, env)
      PROVE  Settles(calls', shown', now, env)
  <2>1. PICK sh : sh = shown'
    OBVIOUS
  <2>2. Settles(calls', sh, now, env)
    BY <1>1, <1>6, <2>1, SentSettles
  <2> QED BY <2>1, <2>2
<1>7. ASSUME NEW p \in Scopes, Open(c, p) \/ Choose(c, p)
      PROVE  Settles(calls', shown', now, env)
  <2>1. Sends(c, Ask("list", p))
    BY <1>7 DEF Open, Choose
  <2>2. /\ Ask("list", p) \in Call /\ Ask("list", p).at = "sent" /\ Ask("list", p).op = "list"
    BY AskIs DEF Ops, Places
  <2>3. "test" \in env => DOMAIN shown'.items = {}
    <3>1. CASE Open(c, p)
      BY <3>1, BlankIs, NoItemsIs DEF Open
    <3>2. CASE Choose(c, p)
      <4>1. "convert" \in env
        BY <3>2, PageIs DEF Choose
      <4> QED BY <1>1, <4>1, KindTypes, PageFacts
    <3> QED BY <1>7, <3>1, <3>2
  <2>4. OneSettles(Ask("list", p), shown', now, env)
    BY <2>2, <2>3 DEF OneSettles, Fresh
  <2> QED BY <1>6, <2>1, <2>2, <2>4
<1>8. CASE Again(c)
  <2>1. /\ Sends(c, Ask("list", place)) /\ place' = place /\ place # None
        /\ shown' = [shown EXCEPT !.loading = Is("flow")]
    BY <1>8 DEF Again
  <2>2. /\ Ask("list", place) \in Call /\ Ask("list", place).at = "sent"
        /\ Ask("list", place).op = "list"
    BY <1>1, KindTypes, AskIs DEF Ops
  <2>3. shown'.items = shown.items /\ shown'.old = shown.old
    BY <1>1, <2>1, KindTypes DEF Shown
  <2>4. "test" \in env /\ ~shown.old => DOMAIN shown.items = {} \/ shown.items = now
    BY <1>5, <2>1 DEF RestSettles
  <2>5. OneSettles(Ask("list", place), shown', now, env)
    BY <2>2, <2>3, <2>4 DEF OneSettles, Fresh, Expects
  <2> QED BY <1>4, <1>6, <2>1, <2>2, <2>5
<1>9. CASE Make(c)
  <2>1. /\ Sends(c, Ask("create", place)) /\ place' = place /\ place # None /\ shown' = shown
        /\ PageOf(env).made # "never"
    BY <1>9, PageIs DEF Make
  <2>2. /\ Ask("create", place) \in Call /\ Ask("create", place).at = "sent"
        /\ Ask("create", place).op = "create"
    BY <1>1, KindTypes, AskIs DEF Ops
  <2>3. "test" \notin env
    BY <1>1, <2>1, KindTypes, PageFacts
  <2>4. OneSettles(Ask("create", place), shown', now, env)
    BY <1>5, <2>1, <2>2, <2>3 DEF OneSettles, Fresh, Expects, RestSettles
  <2> QED BY <1>4, <1>6, <2>1, <2>2, <2>4
<1>10. CASE Convert(c)
  <2>1. ConvertEffect(c)
    BY <1>1, <1>10, ConvertIs
  <2>2. place # None
    BY <1>10 DEF Convert, PageInv, WaitInv
  <2>3. /\ Sends(c, ConvertCall) /\ place' = place /\ shown' = shown /\ ConvertCall \in Call
        /\ ConvertCall.at = "sent" /\ ConvertCall.op = "convert" /\ "convert" \in env
    BY <2>1 DEF ConvertEffect
  <2>4. "test" \notin env
    BY <1>1, <2>3, KindTypes, PageFacts
  <2>5. OneSettles(ConvertCall, shown', now, env)
    BY <1>5, <2>2, <2>3, <2>4 DEF OneSettles, Fresh, Expects, RestSettles
  <2> QED BY <1>4, <1>6, <2>3, <2>5
<1>11. ASSUME NEW r \in Rows, Drop(c, r) PROVE Settles(calls', shown', now, env)
  <2> DEFINE asked == Ask("remove", place)
             call == [asked EXCEPT !.row = r]
  <2>1. /\ Sends(c, call) /\ place' = place /\ shown' = shown /\ place # None
        /\ PageOf(env).gone # "never"
    BY <1>11, PageIs DEF Drop
  <2>2. /\ asked \in Call /\ asked.at = "sent" /\ asked.op = "remove"
    BY <1>1, KindTypes, AskIs DEF Ops
  <2> HIDE DEF asked
  <2>3. call \in Call /\ call.at = "sent" /\ call.op = "remove"
    BY <2>2 DEF Call
  <2> HIDE DEF call
  <2>4. "test" \notin env
    BY <1>1, <2>1, KindTypes, PageFacts
  <2>5. OneSettles(call, shown', now, env)
    BY <1>5, <2>1, <2>3, <2>4 DEF OneSettles, Fresh, Expects, RestSettles
  <2> QED BY <1>6, <2>1, <2>3, <2>5
<1>12. ASSUME NEW r \in Rows, Run(c, r) PROVE Settles(calls', shown', now, env)
  <2>1. RunEffect(c, r)
    BY <1>1, <1>12, RunIs
  <2>2. place # None
    BY <2>1 DEF RunEffect, PageInv, WaitInv
  <2>3. /\ Sends(c, RunCall(r)) /\ place' = place /\ shown' = shown /\ RunCall(r) \in Call
        /\ RunCall(r).at = "sent" /\ RunCall(r).op \in {"trigger", "activate"}
        /\ RunCall(r).row = r /\ r \in DOMAIN shown.items
    BY <2>1 DEF RunEffect
  <2>4. OneSettles(RunCall(r), shown', now, env)
    BY <1>5, <2>2, <2>3 DEF OneSettles, Fresh, Expects, RestSettles
  <2> QED BY <1>6, <2>3, <2>4
<1>13. ASSUME NEW r \in Rows, NEW to \in Statuses, Change(c, r, to)
       PROVE  Settles(calls', shown', now, env)
  <2>1. ChangeEffect(c, r, to)
    BY <1>1, <1>13, ChangeIs
  <2>2. place # None
    BY <2>1 DEF ChangeEffect, PageInv, WaitInv
  <2> DEFINE call == ChangeCall(r, to)
  <2>3. /\ Sends(c, call) /\ place' = place /\ call \in Call
        /\ call.at = "sent" /\ call.op = "status" /\ call.row = r /\ call.back = shown.items[r]
        /\ shown'.items = [shown.items EXCEPT ![r] = to] /\ shown'.old = shown.old
        /\ shown'.failed = shown.failed /\ r \in DOMAIN shown.items /\ "test" \in env
    BY <2>1 DEF ChangeEffect
  <2> HIDE DEF call
  <2>4. ASSUME ~shown.old PROVE Expects(call, shown'.items, now)
    <3>1. shown.items = now
      BY <1>5, <2>2, <2>3, <2>4 DEF RestSettles
    <3>2. table \in Table /\ OneTest(env, table, shown.items)
      BY <1>1, KindTypes
    <3>3. ListShape(now, env, table, place)
      BY <1>3, <2>3, <3>2, ListShapeIs
    <3>4. r \in DOMAIN table /\ table[r].scope = place
      BY <2>3, <3>1, <3>3 DEF ListShape
    <3>5. place \in Scopes
      BY <3>2, <3>4, TableFacts
    <3>6. Alone(table, place)
      BY <2>3, <3>2, <3>5 DEF OneTest
    <3>7. DOMAIN now = {r}
      BY <1>3, <2>3, <3>2, <3>4, <3>6, ListedAlone
    <3>8. PICK items : items = shown'.items
      OBVIOUS
    <3>9. DOMAIN items = {r}
      BY <2>3, <3>1, <3>7, <3>8
    <3>10. ShowStatus(call) = now[r]
      BY <2>3, <3>1 DEF ShowStatus
    <3>11. now \in [{r} -> Statuses]
      BY <3>3, <3>7, ItemsFacts DEF ListShape
    <3>12. AllAt(items, ShowStatus(call)) = now
      BY <3>9, <3>10, <3>11 DEF AllAt
    <3>13. Expects(call, items, now)
      BY <2>3, <3>9, <3>12 DEF Expects
    <3> QED BY <3>8, <3>13
  <2>5. OneSettles(call, shown', now, env)
    BY <2>3, <2>4 DEF OneSettles, Fresh
  <2> QED BY <1>6, <2>3, <2>5
<1> QED BY <1>4, <1>7, <1>8, <1>9, <1>10, <1>11, <1>12, <1>13 DEF User

LEMMA RestUserSettles ==
  ASSUME PageInv, OneCall, UnguardedInv, Waiter, IsOther, place' # None,
         Leave \/ Unset \/ \E r \in Rows \cup {None} : Pick(r)
  PROVE  Settles(calls', shown', ListedIn(env, table', place'), env)
<1>1. ~Leave
  BY DEF Leave, Left
<1>2. Quiet
  <2>1. MayAct
    BY DEF Leave, Unset, Pick
  <2> QED BY <2>1, MayActIs DEF PageInv, Waiter
<1>3. UNCHANGED <<table, calls>> /\ place # None
  BY <1>1, NoneAssumption DEF Unset, Pick
<1>4. PICK now : now = ListedIn(env, table', place')
  OBVIOUS
<1>5. CASE Unset
  <2>1. /\ place' = NoProject /\ shown' = [shown EXCEPT !.items = NoItems] /\ "convert" \in env
    BY <1>5, PageIs DEF Unset
  <2>2. shown'.items = NoItems
    BY <2>1, KindTypes DEF PageInv, Shown
  <2>3. now = NoItems
    BY <1>3, <1>4, <2>1, KindTypes, ListedNowhere DEF PageInv
  <2>4. PICK sh : sh = shown'
    OBVIOUS
  <2>5. RestSettles(sh, now, env)
    BY <2>2, <2>3, <2>4 DEF RestSettles
  <2>6. Settles(calls, sh, now, env)
    BY <1>2, <2>5, SettlesNone DEF Quiet
  <2> QED BY <1>3, <1>4, <2>4, <2>6
<1>6. CASE \E r \in Rows \cup {None} : Pick(r)
  <2>1. UNCHANGED <<shown, place>>
    BY <1>6 DEF Pick
  <2> QED BY <1>3, <2>1 DEF UnguardedInv
<1> QED BY <1>1, <1>5, <1>6

LEMMA ServeSettles ==
  ASSUME PageInv, OneCall, UnguardedInv, Waiter, IsOther, place # None, NEW c \in Calls, Serve(c)
  PROVE  Settles(calls', shown', ListedIn(env, table', place'), env)
<1>1. /\ Served(c)
      /\ \/ ListServed(c) \/ OtherServed(c) \/ RemoveServed(c) \/ StatusServed(c)
         \/ CreateServed(c)
  BY ServeIs DEF PageInv
<1>2. /\ AnswerEffect(c, calls'[c]) /\ place' = place /\ calls[c].at = "sent" /\ calls'[c].at = "ok"
      /\ calls'[c].op = calls[c].op /\ calls'[c].live = calls[c].live
      /\ calls'[c].scope = calls[c].scope /\ calls'[c].to = calls[c].to
      /\ calls'[c].back = calls[c].back
      /\ calls[c].op # "create" => calls'[c].row = calls[c].row
  BY <1>1 DEF Served
<1>3. /\ calls[c].live /\ calls[c].scope = place
      /\ \A d \in Calls \ {c} : calls[d].at = "free"
  BY <1>2, TheCall DEF Away
<1>4. /\ table \in Table /\ env \in Environments /\ calls[c] \in Call /\ Fits(calls[c], env, table)
      /\ OneTest(env, table, shown.items)
  BY KindTypes DEF PageInv
<1>5. ~Behind(calls'[c])
  BY <1>2, <1>3 DEF Behind
<1>6. /\ \A d \in Calls \ {c} : calls'[d].at = "free"
      /\ shown'.items = shown.items /\ shown'.failed = shown.failed /\ shown'.old = shown.old
  BY <1>2, <1>3, <1>5 DEF AnswerEffect, Like
<1>7. PICK now, next : now = ListedIn(env, table, place) /\ next = ListedIn(env, table', place)
  OBVIOUS
<1>8. Settles(calls, shown, now, env)
  BY <1>7 DEF UnguardedInv
<1>9. OneSettles(calls[c], shown, now, env)
  BY <1>2, <1>3, <1>8, SettlesOne
<1>10. ASSUME Fresh(calls'[c], next),
              Expects(calls[c], shown.items, now) => Expects(calls'[c], shown.items, next)
       PROVE  Settles(calls', shown', ListedIn(env, table', place'), env)
  <2>1. PICK cs, sh : cs = calls' /\ sh = shown'
    OBVIOUS
  <2>2. OneSettles(cs[c], sh, next, env)
    BY <1>2, <1>6, <1>9, <1>10, <2>1 DEF OneSettles
  <2>3. cs[c].at # "free" /\ \A d \in Calls \ {c} : cs[d].at = "free"
    BY <1>2, <1>6, <2>1
  <2>4. Settles(cs, sh, next, env)
    BY <2>2, <2>3, SettlesOne
  <2> QED BY <1>2, <1>7, <2>1, <2>4
<1>11. CASE ListServed(c)
  <2>1. calls[c].op = "list" /\ next = now /\ calls'[c].items = next
    BY <1>3, <1>7, <1>11 DEF ListServed, GivenIn, IsOther
  <2> QED BY <1>2, <1>10, <2>1 DEF Fresh, Expects
<1>12. CASE OtherServed(c)
  <2>1. calls[c].op \in {"trigger", "convert"} /\ next = now
    BY <1>7, <1>12 DEF OtherServed
  <2> QED BY <1>2, <1>10, <2>1 DEF Fresh, Expects
<1>13. CASE RemoveServed(c)
  <2>1. calls[c].op = "remove" /\ calls[c].row \in DOMAIN table
    BY <1>13 DEF RemoveServed
  <2>2. PICK r \in DOMAIN table : r = calls[c].row
    BY <2>1
  <2>3. r \in Rows /\ table[r].scope \in Scopes
    BY <1>4, TableFacts
  <2>4. PICK p \in Scopes : p = table[r].scope
    BY <2>3
  <2>5. \/ table' = Row(r, p, "ARCHIVED")
        \/ table' = [x \in DOMAIN table \ {r} |-> table[x]]
    BY <1>13, <2>2, <2>4 DEF RemoveServed
  <2>6. "test" \notin env /\ "flow" \notin env
    BY <1>4, <2>1, PageFacts DEF Fits
  <2>7. /\ table' \in Table /\ DOMAIN table' \subseteq DOMAIN table
        /\ \A x \in DOMAIN table \ {r} : x \in DOMAIN table' /\ table'[x] = table[x]
        /\ r \notin DOMAIN table' \/ ~Counts(env, table'[r].status)
    <3>1. CASE table' = Row(r, p, "ARCHIVED")
      <4>1. RowShape(table', r, p, "ARCHIVED")
        BY <1>4, <2>3, <3>1, RowShapeIs DEF Statuses
      <4> QED BY <2>6, <4>1 DEF RowShape, Counts
    <3>2. CASE table' = [x \in DOMAIN table \ {r} |-> table[x]]
      <4>1. /\ table' \in Table /\ DOMAIN table' = DOMAIN table \ {r}
            /\ \A x \in DOMAIN table' : table'[x] = table[x]
        BY <1>4, <3>2, LessRow
      <4> QED BY <4>1
    <3> QED BY <2>5, <3>1, <3>2
  <2>8. next = Taken(now, r)
    <3>1. PICK t \in Table : t = table'
      BY <2>7
    <3>2. ListedIn(env, t, place) = Taken(ListedIn(env, table, place), r)
      BY <1>4, <2>7, <3>1, ListedRemoved
    <3> QED BY <1>7, <3>1, <3>2
  <2> QED BY <1>2, <1>10, <2>1, <2>2, <2>8 DEF Fresh, Expects
<1>14. CASE StatusServed(c)
  <2>1. calls[c].op \in {"status", "activate"} /\ "test" \in env /\ calls[c].to \in Statuses
        /\ calls[c].back \in Statuses
    BY <1>4, <1>14 DEF StatusServed, Fits, Call
  <2>2. ASSUME Expects(calls[c], shown.items, now) PROVE Expects(calls'[c], shown.items, next)
    <3>1. calls[c].row \in DOMAIN shown.items
      BY <2>1, <2>2 DEF Expects
    <3>2. PICK r \in DOMAIN table : r = calls[c].row
      BY <1>4, <2>1 DEF Fits
    <3>3. PICK items \in Items : items = shown.items
      BY KindTypes DEF PageInv
    <3>4. now = items \/ now = AllAt(items, calls[c].back)
      BY <1>2, <2>1, <2>2, <3>3 DEF Expects, ShowStatus
    <3>5. r \in DOMAIN now /\ DOMAIN now = DOMAIN items
      BY <3>1, <3>2, <3>3, <3>4 DEF AllAt
    <3>6. ListShape(now, env, table, place)
      BY <1>4, <1>7, ListShapeIs
    <3>7. table[r].scope = place
      BY <3>5, <3>6 DEF ListShape
    <3>8. place \in Scopes
      BY <1>4, <3>7, TableFacts
    <3>9. Alone(table, place)
      BY <1>4, <2>1, <3>8 DEF OneTest
    <3>10. table' = Row(r, table[r].scope, calls[c].to)
      BY <1>14, <3>2 DEF StatusServed
    <3>11. ListedIn(env, table', place) = AllAt(ListedIn(env, table, place), calls[c].to)
      BY <1>4, <2>1, <3>7, <3>9, <3>10, ListedChanged
    <3>12. next = AllAt(now, calls[c].to)
      BY <1>7, <3>11
    <3>13. next = AllAt(items, calls[c].to)
      BY <3>5, <3>12 DEF AllAt
    <3>14. ShowStatus(calls'[c]) = calls[c].to
      BY <1>2 DEF ShowStatus
    <3> QED BY <1>2, <2>1, <3>1, <3>3, <3>13, <3>14 DEF Expects
  <2>3. Fresh(calls'[c], next)
    BY <1>2, <2>1 DEF Fresh
  <2> QED BY <1>10, <2>2, <2>3
<1>15. CASE CreateServed(c)
  <2>1. calls[c].op = "create" /\ place \in Scopes
    BY <1>3, <1>4, <1>15 DEF CreateServed, Fits
  <2>2. PICK r \in Rows \ DOMAIN table : table' = Row(r, place, "DRAFT") /\ calls'[c].row = r
    BY <1>3, <1>15 DEF CreateServed
  <2>3. ListedIn(env, table', place) = Added(ListedIn(env, table, place), r)
    BY <1>4, <2>1, <2>2, ListedCreated
  <2>4. next = Added(now, r)
    BY <1>7, <2>3
  <2> QED BY <1>2, <1>10, <2>1, <2>2, <2>4 DEF Fresh, Expects
<1> QED BY <1>1, <1>11, <1>12, <1>13, <1>14, <1>15

LEMMA RefuseSettles ==
  ASSUME PageInv, OneCall, UnguardedInv, Waiter, IsOther, place # None, NEW c \in Calls, Refuse(c)
  PROVE  Settles(calls', shown', ListedIn(env, table', place'), env)
<1>1. /\ calls[c].at = "sent" /\ OnlyCall(c) /\ calls'[c].at = "error" /\ calls'[c].op = calls[c].op
      /\ calls'[c].row = calls[c].row /\ calls'[c].to = calls[c].to
      /\ calls'[c].back = calls[c].back
      /\ UNCHANGED <<env, table, place, shown, chosen, acts>>
  BY RefuseIs DEF RefuseEffect, PageInv
<1>2. \A d \in Calls \ {c} : calls[d].at = "free" /\ calls'[d].at = "free"
  BY <1>1, TheCall DEF Away, OnlyCall
<1>3. PICK now, cs : now = ListedIn(env, table, place) /\ cs = calls'
  OBVIOUS
<1>4. Settles(calls, shown, now, env)
  BY <1>3 DEF UnguardedInv
<1>5. OneSettles(calls[c], shown, now, env)
  BY <1>1, <1>2, <1>4, SettlesOne
<1>6. ShowStatus(cs[c]) = ShowStatus(calls[c])
  BY <1>1, <1>3 DEF ShowStatus
<1>7. Expects(calls[c], shown.items, now) => Expects(cs[c], shown.items, now)
  BY <1>1, <1>3, <1>6 DEF Expects
<1>8. OneSettles(cs[c], shown, now, env)
  BY <1>1, <1>3, <1>5, <1>7 DEF OneSettles, Fresh
<1>9. cs[c].at # "free" /\ \A d \in Calls \ {c} : cs[d].at = "free"
  BY <1>1, <1>2, <1>3
<1>10. Settles(cs, shown, now, env)
  BY <1>8, <1>9, SettlesOne
<1> QED BY <1>1, <1>3, <1>10

LEMMA OthersSettles ==
  ASSUME PageInv, NEW r \in Rows, Others(r)
  PROVE  Settles(calls', shown', ListedIn(env, table', place'), env)
<1>1. shown'.old /\ \A d \in Calls : Like(calls'[d], calls[d]) /\ calls'[d].old = (calls[d].at = "ok")
  BY OthersIs DEF OthersEffect, PageInv
<1> QED BY <1>1 DEF Settles, Fresh, Like

LEMMA DeliverSettles ==
  ASSUME PageInv, OneCall, UnguardedInv, Waiter, IsOther, place' # None, NEW c \in Calls, Deliver(c)
  PROVE  Settles(calls', shown', ListedIn(env, table', place'), env)
<1>1. /\ UNCHANGED <<env, table, acts>> /\ calls[c].at \in {"ok", "error"}
      /\ \/ Ignored(c) \/ ListShown(c) \/ Reloaded(c) \/ RowShown(c) \/ StatusShown(c)
         \/ Gone(c)
  BY DeliverIs DEF PageInv, WaitInv
<1>2. /\ calls[c].live /\ calls[c].scope = place /\ place # None
      /\ \A d \in Calls \ {c} : calls[d].at = "free"
  BY <1>1, TheCall DEF Away
<1>3. /\ env \in Environments /\ calls[c] \in Call /\ Fits(calls[c], env, table)
  BY KindTypes DEF PageInv
<1>4. PICK now, cs, sh : now = ListedIn(env, table, place) /\ cs = calls' /\ sh = shown'
  OBVIOUS
<1>5. Settles(calls, shown, now, env)
  BY <1>2, <1>4 DEF UnguardedInv
<1>6. OneSettles(calls[c], shown, now, env)
  BY <1>1, <1>2, <1>5, SettlesOne
<1>7. place' = place
  BY <1>1 DEF Ignored, ListShown, Reloaded, RowShown, StatusShown, Gone
<1>8. ASSUME Settles(cs, sh, now, env) PROVE Settles(calls', shown', ListedIn(env, table', place'), env)
  BY <1>1, <1>4, <1>7, <1>8
<1>9. ASSUME Freed(c), RestSettles(sh, now, env) PROVE Settles(cs, sh, now, env)
  <2>1. \A d \in Calls : cs[d].at = "free"
    BY <1>2, <1>4, <1>9, FreeIs DEF Freed, OnlyCall
  <2> QED BY <1>9, <2>1, SettlesNone
<1>10. CASE Ignored(c)
  <2>1. Freed(c) /\ sh = shown /\ calls[c].at = "error" /\ calls[c].op \notin {"list", "status"}
    BY <1>2, <1>4, <1>10 DEF Ignored
  <2>2. calls[c].op \in {"create", "remove", "activate", "trigger", "convert"}
    BY <1>3, <2>1 DEF Call, Ops
  <2>3. Expects(calls[c], shown.items, now) => shown.items = now
    BY <2>1, <2>2 DEF Expects
  <2>4. RestSettles(sh, now, env)
    BY <1>6, <2>1, <2>2, <2>3 DEF OneSettles, RestSettles
  <2> QED BY <1>8, <1>9, <2>1, <2>4
<1>11. CASE ListShown(c)
  <2>1. Freed(c) /\ calls[c].op = "list" /\ calls[c].live
    BY <1>11 DEF ListShown
  <2>2. RestSettles(sh, now, env)
    <3>1. CASE calls[c].at = "ok"
      <4>1. sh.items = calls[c].items /\ sh.old = calls[c].old
        BY <1>4, <1>11, <3>1 DEF ListShown
      <4>2. calls[c].old \/ calls[c].items = now
        BY <1>6, <2>1, <3>1 DEF OneSettles, Fresh
      <4> QED BY <4>1, <4>2 DEF RestSettles
    <3>2. CASE calls[c].at = "error"
      <4>1. sh.failed /\ sh.items = shown.items /\ sh.old = shown.old
        BY <1>4, <1>11, <3>2 DEF ListShown, IsOther
      <4>2. Expects(calls[c], shown.items, now) => shown.items = now
        BY <2>1 DEF Expects
      <4> QED BY <1>6, <4>1, <4>2 DEF RestSettles, OneSettles
    <3> QED BY <1>1, <3>1, <3>2
  <2> QED BY <1>8, <1>9, <2>1, <2>2
<1>12. CASE Reloaded(c)
  <2>1. /\ calls[c].op \in {"create", "remove"} /\ cs[c] = Ask("list", place)
        /\ \A d \in Calls \ {c} : Like(cs[d], calls[d])
    BY <1>4, <1>12 DEF Reloaded
  <2>2. "test" \notin env
    BY <1>3, <2>1, PageFacts DEF Fits
  <2>3. cs[c].at = "sent" /\ cs[c].op = "list"
    BY <2>1, KindTypes, AskIs DEF PageInv, Ops
  <2>4. \A d \in Calls \ {c} : cs[d].at = "free"
    BY <1>2, <2>1 DEF Like
  <2>5. OneSettles(cs[c], sh, now, env)
    BY <2>2, <2>3 DEF OneSettles, Fresh
  <2>6. Settles(cs, sh, now, env)
    BY <2>3, <2>4, <2>5, SettlesOne
  <2> QED BY <1>8, <2>6
<1>13. CASE RowShown(c)
  <2>1. /\ calls[c].op \in {"create", "remove"} /\ calls[c].at = "ok" /\ Freed(c)
        /\ sh.failed = shown.failed /\ sh.old = shown.old
        /\ calls[c].op = "create" => sh.items = Added(shown.items, calls[c].row)
        /\ calls[c].op = "remove" => sh.items = Taken(shown.items, calls[c].row)
    BY <1>4, <1>13 DEF RowShown, Keeps
  <2>2. "test" \notin env
    BY <1>3, <2>1, PageFacts DEF Fits
  <2>3. Expects(calls[c], shown.items, now) => sh.items = now
    BY <2>1 DEF Expects
  <2>4. RestSettles(sh, now, env)
    BY <1>6, <2>1, <2>2, <2>3 DEF OneSettles, RestSettles
  <2> QED BY <1>8, <1>9, <2>1, <2>4
<1>14. CASE StatusShown(c)
  <2>1. /\ sh.failed = shown.failed /\ sh.old = shown.old
        /\ sh.items = AllAt(shown.items, ShowStatus(calls[c]))
    BY <1>2, <1>4, <1>14 DEF StatusShown, Keeps
  <2>2. \/ Triggered(c) /\ calls[c].op = "activate" /\ calls[c].at = "ok"
        \/ Freed(c) /\ calls[c].op = "status"
    BY <1>14 DEF StatusShown, Triggered
  <2>3. Expects(calls[c], shown.items, now) => sh.items = now
    BY <2>1, <2>2 DEF Expects
  <2>4. DOMAIN sh.items = DOMAIN shown.items
    BY <2>1 DEF AllAt
  <2>5. calls[c].op # "list"
    BY <2>2
  <2>6. CASE Freed(c)
    <3>1. RestSettles(sh, now, env)
      BY <1>6, <2>1, <2>3, <2>4, <2>5 DEF OneSettles, RestSettles
    <3> QED BY <1>8, <1>9, <2>6, <3>1
  <2>7. CASE Triggered(c)
    <3>1. cs[c].at = "sent" /\ cs[c].op = "trigger" /\ \A d \in Calls \ {c} : cs[d].at = "free"
      BY <1>2, <1>4, <2>7 DEF Triggered, OnlyCall
    <3>2. sh.items = now => Expects(cs[c], sh.items, now)
      BY <3>1 DEF Expects
    <3>3. OneSettles(cs[c], sh, now, env)
      BY <1>6, <2>1, <2>3, <2>4, <2>5, <3>1, <3>2 DEF OneSettles, Fresh
    <3>4. Settles(cs, sh, now, env)
      BY <3>1, <3>3, SettlesOne
    <3> QED BY <1>8, <3>4
  <2> QED BY <2>2, <2>6, <2>7
<1>15. ~Gone(c)
  BY DEF Gone
<1> QED BY <1>1, <1>10, <1>11, <1>12, <1>13, <1>14, <1>15

LEMMA UnguardedStep == ASSUME PageInv, OneCall, UnguardedInv, Next PROVE UnguardedInv'
<1>1. env' = env
  BY EnvKept
<1> SUFFICES ASSUME Waiter, IsOther, place' # None
             PROVE  Settles(calls', shown', ListedIn(env, table', place'), env)
  BY <1>1 DEF UnguardedInv, Waiter, IsOther, IsGuarded
<1>2. ASSUME NEW c \in Calls, Serve(c) \/ Refuse(c) \/ Deliver(c) \/ User(c)
      PROVE  Settles(calls', shown', ListedIn(env, table', place'), env)
  <2>1. Serve(c) \/ Refuse(c) => place # None
    BY DEF Serve, Refuse
  <2> QED BY <1>2, <2>1, ServeSettles, RefuseSettles, DeliverSettles, UserSettles
<1>3. ASSUME NEW r \in Rows, Others(r)
      PROVE  Settles(calls', shown', ListedIn(env, table', place'), env)
  BY <1>3, OthersSettles
<1>4. CASE Leave \/ Unset \/ \E r \in Rows \cup {None} : Pick(r)
  BY <1>4, RestUserSettles
<1> QED BY <1>2, <1>3, <1>4 DEF Next

(***************************************************************************)
(* PageSettles                                                             *)
(***************************************************************************)

LEMMA InitSettle == ASSUME Init PROVE SettleInv
<1>1. PageInv
  BY InitPage
<1>2. place = None /\ calls = [c \in Calls |-> Free]
  BY DEF Init
<1>3. \A c \in Calls : ~Away(c)
  BY <1>2, FreeIs DEF Away
<1> QED BY <1>1, <1>2, <1>3 DEF SettleInv, GuardInv, OneCall, UnguardedInv, Lists

LEMMA SettleStep == ASSUME SettleInv, Next PROVE SettleInv'
BY PageStep, GuardStep, OneStep, UnguardedStep DEF SettleInv

LEMMA SettleStutter == ASSUME SettleInv, UNCHANGED vars PROVE SettleInv'
<1>1. PageInv'
  BY PageStutter DEF SettleInv
<1>2. UNCHANGED <<env, table, place, shown, chosen, calls>>
  BY DEF vars
<1>3. GuardInv'
  BY <1>2 DEF SettleInv, GuardInv, IsGuarded
<1>4. OneCall'
  BY <1>2 DEF SettleInv, OneCall, Waiter, Away, Lists
<1>5. UnguardedInv'
  BY <1>2 DEF SettleInv, UnguardedInv, Waiter, IsOther, IsGuarded
<1> QED BY <1>1, <1>3, <1>4, <1>5 DEF SettleInv

LEMMA SettleShows == ASSUME SettleInv PROVE PageSettles
<1>1. PageInv /\ KindInv /\ WaitInv
  BY DEF SettleInv, PageInv
<1> SUFFICES ASSUME Quiet, place # None
             PROVE  /\ ~Loading
                    /\ (~Is("members") /\ ~shown.failed /\ ~shown.old /\ (Page.guarded \/ ~Happens("overlap")))
                         => shown.items = Listed(place)
  BY DEF PageSettles
<1>2. ~Loads(env, shown, place)
  BY <1>1 DEF WaitInv, Awaited, Quiet
<1>3. ~Loading
  BY <1>1, <1>2, LoadingIs
<1>4. Page.guarded = IsGuarded
  BY <1>1, KindTypes, PageIs, PageFacts DEF IsGuarded
<1>5. PICK now : now = ListedIn(env, table, place)
  OBVIOUS
<1>6. Listed(place) = now
  BY <1>5, PageIs
<1>7. CASE IsGuarded
  <2>1. Guards(calls, shown, place, now)
    BY <1>5, <1>7 DEF SettleInv, GuardInv
  <2>2. \A c \in Calls : ~Removed(calls[c])
    BY DEF Quiet, Removed
  <2>3. shown.from = place
    BY <1>2, <1>7 DEF Loads, IsGuarded
  <2> QED BY <1>3, <1>6, <2>1, <2>2, <2>3 DEF Guards, Current
<1>8. CASE ~IsGuarded
  <2>1. Is("members") \/ Happens("overlap") \/ RestSettles(shown, now, env)
    BY <1>5, <1>8, PageIs, QuietSettles DEF SettleInv, Waiter, IsOther
  <2> QED BY <1>3, <1>4, <1>6, <1>8, <2>1 DEF RestSettles
<1> QED BY <1>7, <1>8

(***************************************************************************)
(* ConvertsWhereChosen                                                     *)
(***************************************************************************)

InScope(t, r, p) == r \in DOMAIN t /\ t[r].scope = p

\* The dialog that shows a project, and no list failed: its suite is of the project, and so are
\* the suites that it shows unless it waits for them; a list that was answered has those of its
\* own project; and so does a conversion.
Chosen(t, p, sh, ch, cs) ==
  /\ ~sh.failed /\ p \in Scopes =>
       /\ ch # None => InScope(t, ch, p)
       /\ (\A c \in Calls : cs[c].op # "list" \/ cs[c].at = "free") =>
            \A r \in DOMAIN sh.items : InScope(t, r, p)
  /\ \A c \in Calls : cs[c].op = "list" /\ cs[c].at = "ok" =>
       \A r \in DOMAIN cs[c].items : InScope(t, r, cs[c].scope)
  /\ \A c \in Calls : cs[c].op = "convert" /\ cs[c].scope # NoProject /\ ~sh.failed =>
       InScope(t, cs[c].row, cs[c].scope)

ChooseInv == Waiter /\ "convert" \in env => Chosen(table, place, shown, chosen, calls)

LEMMA ConvertCalls ==
  ASSUME KindInv, "convert" \in env
  PROVE  /\ \A c \in Calls : calls[c].op \in {"list", "convert"}
         /\ \A c \in Calls : calls[c].at = "free" => calls[c].op = "list"
         /\ PageOf(env).made = "never" /\ PageOf(env).gone = "never"
         /\ "test" \notin env /\ "flow" \notin env /\ ~IsGuarded
<1>1. /\ PageOf(env).made = "never" /\ PageOf(env).gone = "never"
      /\ "test" \notin env /\ "flow" \notin env /\ ~IsGuarded
  BY KindTypes, PageFacts DEF IsGuarded
<1>2. ASSUME NEW c \in Calls
      PROVE  calls[c].op \in {"list", "convert"} /\ (calls[c].at = "free" => calls[c].op = "list")
  <2>1. calls[c] \in Call /\ Fits(calls[c], env, table)
    BY KindTypes
  <2> QED BY <1>1, <2>1 DEF Fits, Call, Ops
<1> QED BY <1>1, <1>2


LEMMA UserChosen ==
  ASSUME PageInv, OneCall, ChooseInv, Waiter, "convert" \in env, NEW c \in Calls, User(c)
  PROVE  Chosen(table', place', shown', chosen', calls')
<1>1. Quiet /\ KindInv
  BY QuietUser DEF PageInv
<1>2. /\ \A d \in Calls : calls[d].at = "free" /\ calls[d].op = "list"
      /\ PageOf(env).made = "never" /\ PageOf(env).gone = "never"
      /\ "test" \notin env /\ "flow" \notin env
  BY <1>1, ConvertCalls DEF Quiet
<1>3. Chosen(table, place, shown, chosen, calls)
  BY DEF ChooseInv
<1>4. ASSUME NEW p \in Scopes, Open(c, p) \/ Choose(c, p)
      PROVE  Chosen(table', place', shown', chosen', calls')
  <2>1. Sends(c, Ask("list", p)) /\ chosen' = None
    BY <1>4 DEF Open, Choose, Switch, PageInv, WaitInv
  <2>2. Ask("list", p) \in Call /\ Ask("list", p).at = "sent" /\ Ask("list", p).op = "list"
    BY AskIs DEF Ops, Places
  <2>3. calls'[c] = Ask("list", p) /\ OnlyCall(c)
    BY <1>1, <2>1, <2>2, KindTypes, SendIs
  <2>4. \A d \in Calls : calls'[d].op = "list" /\ calls'[d].at # "ok"
    BY <1>2, <2>2, <2>3 DEF OnlyCall
  <2>5. calls'[c].op = "list" /\ calls'[c].at # "free"
    BY <2>2, <2>3
  <2> QED BY <2>1, <2>4, <2>5 DEF Chosen
<1>5. CASE Convert(c)
  <2>1. ConvertEffect(c) /\ chosen # None
    BY <1>1, <1>5, ConvertIs DEF Convert
  <2>2. /\ UNCHANGED <<table, place, shown, chosen>> /\ calls'[c] = ConvertCall /\ OnlyCall(c)
        /\ ConvertCall.at = "sent" /\ ConvertCall.op = "convert" /\ ConvertCall.row = chosen
        /\ ConvertCall.scope = place
    BY <1>1, <2>1, KindTypes, SendIs DEF ConvertEffect
  <2>3. place # None
    BY <2>1 DEF PageInv, WaitInv
  <2>4. place # NoProject => place \in Scopes
    BY <1>1, <2>3, KindTypes DEF Places
  <2>5. ~shown.failed /\ place \in Scopes =>
          InScope(table, chosen, place) /\ \A r \in DOMAIN shown.items : InScope(table, r, place)
    BY <1>2, <1>3, <2>1 DEF Chosen
  <2>6. \A d \in Calls : calls'[d].at # "ok"
    BY <1>2, <2>2 DEF OnlyCall
  <2>7. \A d \in Calls : calls'[d].op = "convert" => d = c
    BY <1>2, <2>2 DEF OnlyCall
  <2> QED BY <2>2, <2>4, <2>5, <2>6, <2>7 DEF Chosen
<1>6. /\ ~Make(c) /\ ~Again(c) /\ \A r \in Rows : ~Drop(c, r) /\ ~Run(c, r)
      /\ \A r \in Rows, to \in Statuses : ~Change(c, r, to)
  BY <1>2, PageIs DEF Make, Again, Drop, Run, Change
<1> QED BY <1>4, <1>5, <1>6 DEF User

LEMMA RestChosen ==
  ASSUME PageInv, OneCall, ChooseInv, Waiter, "convert" \in env,
         Leave \/ Unset \/ \E r \in Rows \cup {None} : Pick(r)
  PROVE  Chosen(table', place', shown', chosen', calls')
<1>1. Quiet /\ KindInv
  <2>1. MayAct
    BY DEF Leave, Unset, Pick
  <2> QED BY <2>1, MayActIs DEF PageInv, Waiter
<1>2. \A d \in Calls : calls[d].at = "free" /\ calls[d].op = "list"
  BY <1>1, ConvertCalls DEF Quiet
<1>3. Chosen(table, place, shown, chosen, calls)
  BY DEF ChooseInv
<1>4. CASE Leave
  <2>1. place' \notin Scopes
    BY <1>4, NoneAssumption DEF Leave, Left
  <2>2. \A d \in Calls : calls'[d].at = "free" /\ calls'[d].op = "list"
    BY <1>1, <1>2, <1>4, KindTypes, UnheardIs DEF Leave, Like
  <2> QED BY <2>1, <2>2 DEF Chosen
<1>5. CASE Unset
  <2>1. place' \notin Scopes /\ calls' = calls
    BY <1>5, NoneAssumption DEF Unset
  <2> QED BY <1>2, <2>1 DEF Chosen
<1>6. ASSUME NEW r \in Rows \cup {None}, Pick(r)
      PROVE  Chosen(table', place', shown', chosen', calls')
  <2>1. /\ UNCHANGED <<table, place, shown, calls>> /\ chosen' = r
        /\ r \in DOMAIN shown.items \cup {None}
    BY <1>6 DEF Pick
  <2>2. ~shown.failed /\ place \in Scopes => \A x \in DOMAIN shown.items : InScope(table, x, place)
    BY <1>2, <1>3 DEF Chosen
  <2> QED BY <1>2, <2>1, <2>2 DEF Chosen
<1> QED BY <1>4, <1>5, <1>6

LEMMA ServeChosen ==
  ASSUME PageInv, OneCall, ChooseInv, Waiter, "convert" \in env, NEW c \in Calls, Serve(c)
  PROVE  Chosen(table', place', shown', chosen', calls')
<1>1. /\ Served(c)
      /\ \/ ListServed(c) \/ OtherServed(c) \/ RemoveServed(c) \/ StatusServed(c)
         \/ CreateServed(c)
  BY ServeIs DEF PageInv
<1>2. calls[c].op \in {"list", "convert"} /\ table \in Table
  BY ConvertCalls, KindTypes DEF PageInv
<1>3. /\ table' = table
      /\ calls[c].op = "list" => calls'[c].items = ListedIn(env, table, calls[c].scope)
  <2>1. "members" \notin env
    BY KindTypes, PageFacts DEF PageInv
  <2> QED
    BY <1>1, <1>2, <2>1
    DEF ListServed, OtherServed, RemoveServed, StatusServed, CreateServed, GivenIn
<1>4. /\ place' = place /\ chosen' = chosen /\ calls[c].at = "sent" /\ calls'[c].at = "ok"
      /\ calls'[c].op = calls[c].op /\ calls'[c].scope = calls[c].scope
      /\ calls'[c].row = calls[c].row
      /\ shown'.items = shown.items /\ shown'.failed = shown.failed
      /\ \A d \in Calls \ {c} : Like(calls'[d], calls[d])
  BY <1>1, <1>2 DEF Served, AnswerEffect
<1>5. Chosen(table, place, shown, chosen, calls)
  BY DEF ChooseInv
<1>6. calls[c].op = "list" => \A r \in DOMAIN calls'[c].items : InScope(table, r, calls[c].scope)
  <2>1. PICK list : list = ListedIn(env, table, calls[c].scope)
    OBVIOUS
  <2>2. ListShape(list, env, table, calls[c].scope)
    BY <1>2, <2>1, ListShapeIs
  <2>3. \A r \in DOMAIN list : InScope(table, r, calls[c].scope)
    BY <2>2 DEF ListShape, InScope
  <2> QED BY <1>3, <2>1, <2>3
<1>7. \A d \in Calls : /\ calls'[d].op = calls[d].op /\ calls'[d].scope = calls[d].scope
                       /\ calls'[d].row = calls[d].row
                       /\ calls'[d].at = "free" <=> calls[d].at = "free"
  BY <1>4 DEF Like
<1>8. \A d \in Calls : calls'[d].op = "list" /\ calls'[d].at = "ok" =>
        \A r \in DOMAIN calls'[d].items : InScope(table, r, calls'[d].scope)
  <2>1. ASSUME NEW d \in Calls \ {c}, calls'[d].op = "list", calls'[d].at = "ok"
        PROVE  \A r \in DOMAIN calls'[d].items : InScope(table, r, calls'[d].scope)
    BY <1>4, <1>5, <2>1 DEF Like, Chosen
  <2> QED BY <1>4, <1>6, <2>1
<1> QED BY <1>3, <1>4, <1>5, <1>7, <1>8 DEF Chosen

LEMMA RefuseChosen ==
  ASSUME PageInv, ChooseInv, Waiter, "convert" \in env, NEW c \in Calls, Refuse(c)
  PROVE  Chosen(table', place', shown', chosen', calls')
<1>1. /\ calls[c].at = "sent" /\ OnlyCall(c) /\ calls'[c].at = "error" /\ calls'[c].op = calls[c].op
      /\ calls'[c].row = calls[c].row /\ calls'[c].scope = calls[c].scope
      /\ UNCHANGED <<env, table, place, shown, chosen, acts>>
  BY RefuseIs DEF RefuseEffect, PageInv
<1>2. Chosen(table, place, shown, chosen, calls)
  BY DEF ChooseInv
<1>3. \A d \in Calls : /\ calls'[d].op = calls[d].op /\ calls'[d].scope = calls[d].scope
                       /\ calls'[d].row = calls[d].row
                       /\ calls'[d].at = "free" <=> calls[d].at = "free"
                       /\ calls'[d].at = "ok" => calls'[d] = calls[d]
  BY <1>1 DEF OnlyCall
<1> QED BY <1>1, <1>2, <1>3 DEF Chosen

LEMMA OthersChosen ==
  ASSUME PageInv, ChooseInv, Waiter, "convert" \in env, NEW r \in Rows, Others(r)
  PROVE  Chosen(table', place', shown', chosen', calls')
<1>1. /\ place' = place /\ chosen' = chosen
      /\ shown'.items = shown.items /\ shown'.failed = shown.failed
      /\ \A d \in Calls : Like(calls'[d], calls[d])
      /\ DOMAIN table \subseteq DOMAIN table'
      /\ \A x \in DOMAIN table : table'[x].scope = table[x].scope
  BY OthersIs DEF OthersEffect, PageInv
<1>2. Chosen(table, place, shown, chosen, calls)
  BY DEF ChooseInv
<1>3. \A x, p : InScope(table, x, p) => InScope(table', x, p)
  BY <1>1 DEF InScope
<1>4. \A d \in Calls : /\ calls'[d].op = calls[d].op /\ calls'[d].scope = calls[d].scope
                       /\ calls'[d].row = calls[d].row /\ calls'[d].at = calls[d].at
                       /\ calls'[d].items = calls[d].items
  BY <1>1 DEF Like
<1> QED BY <1>1, <1>2, <1>3, <1>4 DEF Chosen

LEMMA DeliverChosen ==
  ASSUME PageInv, OneCall, ChooseInv, Waiter, "convert" \in env, NEW c \in Calls, Deliver(c)
  PROVE  Chosen(table', place', shown', chosen', calls')
<1>1. /\ UNCHANGED <<env, table, acts>> /\ calls[c].at \in {"ok", "error"}
      /\ \/ Ignored(c) \/ ListShown(c) \/ Reloaded(c) \/ RowShown(c) \/ StatusShown(c)
         \/ Gone(c)
  BY DeliverIs DEF PageInv, WaitInv
<1>2. /\ calls[c].live /\ calls[c].scope = place /\ place # None
      /\ \A d \in Calls \ {c} : calls[d].at = "free"
  BY <1>1, TheCall DEF Away
<1>3. /\ calls[c].op \in {"list", "convert"}
      /\ \A d \in Calls : calls[d].at = "free" => calls[d].op = "list"
      /\ ~IsGuarded
  BY ConvertCalls DEF PageInv
<1>4. Chosen(table, place, shown, chosen, calls)
  BY DEF ChooseInv
<1>5. ASSUME Freed(c) PROVE \A d \in Calls : calls'[d].at = "free" /\ calls'[d].op = "list"
  BY <1>2, <1>3, <1>5, FreeIs DEF Freed, OnlyCall
<1>6. CASE Ignored(c)
  <2>1. Freed(c) /\ UNCHANGED <<place, shown, chosen>> /\ calls[c].op # "list"
    BY <1>2, <1>6 DEF Ignored
  <2>2. \A d \in Calls : calls[d].op # "list" \/ calls[d].at = "free"
    BY <1>2, <2>1
  <2> QED BY <1>1, <1>4, <1>5, <2>1, <2>2 DEF Chosen
<1>7. CASE ListShown(c)
  <2>1. Freed(c) /\ place' = place /\ calls[c].op = "list"
    BY <1>7 DEF ListShown
  <2>2. \A d \in Calls : calls'[d].at = "free" /\ calls'[d].op = "list"
    BY <1>5, <2>1
  <2>3. chosen = None
    BY <1>1, <2>1 DEF OneCall, Lists, Away
  <2>4. CASE calls[c].at = "ok"
    <3>1. /\ shown'.items = calls[c].items /\ (chosen' = None \/ chosen' \in DOMAIN calls[c].items)
      BY <1>7, <2>3, <2>4 DEF ListShown
    <3>2. \A r \in DOMAIN calls[c].items : InScope(table, r, place)
      BY <1>2, <1>4, <2>1, <2>4 DEF Chosen
    <3> QED BY <1>1, <2>1, <2>2, <3>1, <3>2 DEF Chosen
  <2>5. CASE calls[c].at = "error"
    <3>1. shown'.failed
      BY <1>7, <2>5 DEF ListShown
    <3> QED BY <2>2, <3>1 DEF Chosen
  <2> QED BY <1>1, <2>4, <2>5
<1>8. CASE Gone(c)
  <2>1. place' \notin Scopes
    BY <1>8, NoneAssumption DEF Gone
  <2>2. \A d \in Calls : calls'[d].at = "free" /\ calls'[d].op = "list"
    BY <1>2, <1>3, <1>8, FreeIs DEF Gone, Like
  <2> QED BY <2>1, <2>2 DEF Chosen
<1> QED BY <1>1, <1>3, <1>6, <1>7, <1>8 DEF Reloaded, RowShown, StatusShown, Triggered

LEMMA ChooseStep == ASSUME PageInv, OneCall, ChooseInv, Next PROVE ChooseInv'
<1>1. env' = env
  BY EnvKept
<1> SUFFICES ASSUME Waiter, "convert" \in env
             PROVE  Chosen(table', place', shown', chosen', calls')
  BY <1>1 DEF ChooseInv, Waiter
<1> QED BY UserChosen, RestChosen, ServeChosen, RefuseChosen, OthersChosen, DeliverChosen DEF Next

LEMMA InitChoose == ASSUME Init PROVE ChooseInv
<1>1. place \notin Scopes /\ \A c \in Calls : calls[c].at = "free" /\ calls[c].op = "list"
  BY NoneAssumption, FreeIs DEF Init
<1> QED BY <1>1 DEF ChooseInv, Chosen

LEMMA ChooseConverts ==
  ASSUME KindInv, ChooseInv
  PROVE  ConvertsWhereChosen
<1> SUFFICES ASSUME ~Happens("overlap"), ~shown.failed, NEW c \in Calls,
                    calls[c].op = "convert", calls[c].scope # NoProject
             PROVE  table[calls[c].row].scope = calls[c].scope
  BY DEF ConvertsWhereChosen
<1>1. Waiter
  BY PageIs DEF Waiter
<1>2. "convert" \in env
  BY KindTypes DEF Fits
<1> QED BY <1>1, <1>2 DEF ChooseInv, Chosen, InScope

(***************************************************************************)
(* RunsActive                                                              *)
(***************************************************************************)

\* What the page of a test shows is never outdated for a user who is alone: a test that is being
\* run is active, and one that is activated to be run will be.
RunInv ==
  Waiter /\ "others" \notin env /\ "test" \in env =>
    /\ ~shown.old /\ \A c \in Calls : ~calls[c].old
    /\ \A c \in Calls : calls[c].op = "activate" => calls[c].to = "ACTIVE"
    /\ \A c \in Calls : calls[c].op = "trigger" \/ (calls[c].op = "activate" /\ calls[c].at = "ok")
         => table[calls[c].row].status = "ACTIVE"

LEMMA TestCalls ==
  ASSUME KindInv, "test" \in env
  PROVE  /\ \A c \in Calls : calls[c].op \in {"list", "status", "activate", "trigger"}
         /\ \A c \in Calls : calls[c].at = "free" => calls[c].op = "list"
         /\ PageOf(env).made = "never" /\ PageOf(env).gone = "never"
         /\ "convert" \notin env /\ IsOther
<1>1. /\ PageOf(env).made = "never" /\ PageOf(env).gone = "never"
      /\ "convert" \notin env /\ IsOther
  BY KindTypes, PageFacts DEF IsGuarded, IsOther
<1>2. ASSUME NEW c \in Calls
      PROVE  /\ calls[c].op \in {"list", "status", "activate", "trigger"}
             /\ calls[c].at = "free" => calls[c].op = "list"
  <2>1. calls[c] \in Call /\ Fits(calls[c], env, table)
    BY KindTypes
  <2> QED BY <1>1, <2>1 DEF Fits, Call, Ops
<1> QED BY <1>1, <1>2

\* A call is sent that is right, and none other is away.
LEMMA SentRuns ==
  ASSUME PageInv, RunInv, Quiet, Waiter, "others" \notin env, "test" \in env, UNCHANGED <<env, table>>,
         NEW c \in Calls, NEW call \in Call, Sends(c, call), ~call.old, ~shown'.old,
         call.at = "sent", call.op = "activate" => call.to = "ACTIVE",
         call.op = "trigger" => table[call.row].status = "ACTIVE"
  PROVE  RunInv'
<1>1. calls'[c] = call /\ OnlyCall(c)
  BY KindTypes, SendIs DEF PageInv
<1>2. \A d \in Calls \ {c} : calls'[d].op = "list" /\ ~calls'[d].old
  BY <1>1, TestCalls DEF PageInv, Quiet, OnlyCall, RunInv
<1> QED BY <1>1, <1>2 DEF RunInv

LEMMA UserRuns ==
  ASSUME SettleInv, RunInv, Waiter, "others" \notin env, "test" \in env, NEW c \in Calls, User(c)
  PROVE  RunInv'
<1>1. Quiet /\ PageInv /\ KindInv
  BY QuietUser DEF PageInv, SettleInv
<1>2. UNCHANGED <<env, table>>
  BY DEF User, Open, Choose, Make, Again, Convert, Drop, Run, Change
<1>3. ~shown.old /\ shown \in Shown /\ shown.items \in Items
  BY <1>1, KindTypes DEF RunInv
<1>4. /\ PageOf(env).made = "never" /\ PageOf(env).gone = "never" /\ "convert" \notin env
      /\ IsOther
  BY <1>1, TestCalls
<1>5. ASSUME NEW p \in Scopes, Open(c, p) PROVE RunInv'
  <2>1. Sends(c, Ask("list", p)) /\ ~shown'.old
    BY <1>5, BlankIs DEF Open
  <2>2. /\ Ask("list", p) \in Call /\ Ask("list", p).at = "sent" /\ ~Ask("list", p).old
        /\ Ask("list", p).op = "list"
    BY AskIs DEF Ops, Places
  <2> QED BY <1>1, <1>2, <2>1, <2>2, SentRuns
<1>6. CASE Again(c)
  <2>1. Sends(c, Ask("list", place)) /\ ~shown'.old
    BY <1>3, <1>6 DEF Again, Shown
  <2>2. /\ Ask("list", place) \in Call /\ Ask("list", place).at = "sent"
        /\ ~Ask("list", place).old /\ Ask("list", place).op = "list"
    BY <1>1, KindTypes, AskIs DEF Ops
  <2> QED BY <1>1, <1>2, <2>1, <2>2, SentRuns
<1>7. ASSUME NEW r \in Rows, NEW to \in Statuses, Change(c, r, to) PROVE RunInv'
  <2>1. ChangeEffect(c, r, to)
    BY <1>1, <1>7, ChangeIs
  <2>2. ~shown'.old
    BY <1>3, <2>1 DEF ChangeEffect
  <2>3. ChangeCall(r, to).op = "status"
    BY <2>1 DEF ChangeEffect
  <2> QED BY <1>1, <1>2, <2>1, <2>2, <2>3, SentRuns DEF ChangeEffect
<1>8. ASSUME NEW r \in Rows, Run(c, r) PROVE RunInv'
  <2>1. RunEffect(c, r)
    BY <1>1, <1>8, RunIs
  <2> DEFINE call == RunCall(r)
  <2>2. /\ Sends(c, call) /\ call \in Call /\ call.at = "sent" /\ call.row = r
        /\ call.to = "ACTIVE" /\ ~call.old /\ r \in DOMAIN shown.items /\ shown' = shown
        /\ call.op = IF shown.items[r] = "ACTIVE" THEN "trigger" ELSE "activate"
    BY <2>1 DEF RunEffect
  <2> HIDE DEF call
  <2>3. place # None
    BY <1>1, <2>2 DEF PageInv, WaitInv
  <2>4. PICK now : now = ListedIn(env, table, place)
    OBVIOUS
  <2>5. RestSettles(shown, now, env)
    BY <1>1, <1>4, <2>3, <2>4, QuietSettles DEF SettleInv
  <2>6. shown.items = now
    BY <1>3, <2>2, <2>5 DEF RestSettles
  <2>7. ListShape(now, env, table, place)
    BY <1>1, <2>4, KindTypes, ListShapeIs
  <2>8. table[r].status = shown.items[r]
    BY <2>2, <2>6, <2>7 DEF ListShape
  <2>9. call.op = "trigger" => table[call.row].status = "ACTIVE"
    BY <2>2, <2>8
  <2> QED BY <1>1, <1>2, <1>3, <2>2, <2>9, SentRuns
<1>9. /\ ~Make(c) /\ ~Convert(c) /\ (\A r \in Rows : ~Drop(c, r)) /\ \A p \in Scopes : ~Choose(c, p)
  BY <1>4, PageIs DEF Make, Convert, Drop, Choose
<1> QED BY <1>5, <1>6, <1>7, <1>8, <1>9 DEF User

\* A step that leaves the calls and the table as they were, but for who hears the answers.
LEMMA RestRuns ==
  ASSUME PageInv, RunInv, Waiter, "others" \notin env, "test" \in env,
         Leave \/ Unset \/ \E r \in Rows \cup {None} : Pick(r)
  PROVE  RunInv'
<1>1. Leave
  <2>1. "convert" \notin env
    BY TestCalls DEF PageInv
  <2> QED BY <2>1, PageIs DEF Unset, Pick
<1>2. /\ UNCHANGED <<env, table>> /\ ~shown'.old
      /\ \A d \in Calls : Like(calls'[d], calls[d]) /\ calls'[d].old = calls[d].old
  BY <1>1, KindTypes, UnheardIs, BlankIs DEF Leave, Left, PageInv
<1> QED BY <1>2 DEF RunInv, Like

LEMMA ServeRuns ==
  ASSUME PageInv, OneCall, RunInv, Waiter, "others" \notin env, "test" \in env,
         NEW c \in Calls, Serve(c)
  PROVE  RunInv'
<1>1. /\ Served(c)
      /\ \/ ListServed(c) \/ OtherServed(c) \/ RemoveServed(c) \/ StatusServed(c)
         \/ CreateServed(c)
  BY ServeIs DEF PageInv
<1>2. /\ AnswerEffect(c, calls'[c]) /\ env' = env /\ calls[c].at = "sent" /\ calls'[c].at = "ok"
      /\ calls'[c].op = calls[c].op /\ calls'[c].live = calls[c].live
      /\ calls'[c].old = calls[c].old /\ calls'[c].to = calls[c].to
  BY <1>1 DEF Served
<1>3. calls[c].live /\ \A d \in Calls \ {c} : calls[d].at = "free" /\ calls[d].op = "list"
  BY <1>2, TheCall, TestCalls DEF Away, PageInv
<1>4. ~Behind(calls'[c])
  BY <1>2, <1>3 DEF Behind
<1>5. /\ shown'.old = shown.old
      /\ \A d \in Calls \ {c} : calls'[d].op = "list" /\ calls'[d].old = calls[d].old
  BY <1>2, <1>3, <1>4 DEF AnswerEffect, Like
<1>6. ~shown'.old /\ \A d \in Calls : ~calls'[d].old
  BY <1>2, <1>5 DEF RunInv
<1>7. calls[c].op \in {"list", "status", "activate", "trigger"} /\ calls[c] \in Call /\ table \in Table
      /\ Fits(calls[c], env, table)
  BY TestCalls, KindTypes DEF PageInv
<1>8. calls[c].op # "list" => calls'[c].row = calls[c].row
  BY <1>1, <1>7 DEF Served
<1>9. CASE calls[c].op = "activate"
  <2>1. table' = Row(calls[c].row, table[calls[c].row].scope, calls[c].to) /\ calls[c].to = "ACTIVE"
    BY <1>1, <1>9 DEF ListServed, OtherServed, RemoveServed, StatusServed, CreateServed, RunInv
  <2>2. PICK r \in DOMAIN table : r = calls[c].row
    BY <1>7, <1>9 DEF Fits
  <2>3. table' = Row(r, table[r].scope, "ACTIVE") /\ "ACTIVE" \in Statuses
    BY <2>1, <2>2 DEF Statuses
  <2>4. PICK t : t = table'
    OBVIOUS
  <2>5. t[r].status = "ACTIVE"
    BY <1>7, <2>3, <2>4, StatusRow
  <2> QED BY <1>2, <1>5, <1>6, <1>8, <1>9, <2>1, <2>2, <2>4, <2>5 DEF RunInv
<1>10. CASE calls[c].op = "trigger"
  <2>1. table' = table
    BY <1>1, <1>10 DEF ListServed, OtherServed, RemoveServed, StatusServed, CreateServed
  <2> QED BY <1>2, <1>5, <1>6, <1>8, <1>10, <2>1 DEF RunInv
<1>11. CASE calls[c].op \in {"list", "status"}
  BY <1>2, <1>5, <1>6, <1>11 DEF RunInv
<1> QED BY <1>7, <1>9, <1>10, <1>11

LEMMA RefuseRuns ==
  ASSUME PageInv, RunInv, Waiter, "others" \notin env, "test" \in env, NEW c \in Calls, Refuse(c)
  PROVE  RunInv'
<1>1. RefuseEffect(c)
  BY RefuseIs DEF PageInv
<1>2. \A d \in Calls : /\ calls'[d].op = calls[d].op /\ calls'[d].to = calls[d].to
                       /\ calls'[d].row = calls[d].row /\ calls'[d].old = calls[d].old
                       /\ calls'[d].at = "ok" => calls[d].at = "ok"
  BY <1>1 DEF RefuseEffect, OnlyCall
<1> QED BY <1>1, <1>2 DEF RunInv, RefuseEffect

LEMMA DeliverRuns ==
  ASSUME PageInv, OneCall, RunInv, Waiter, "others" \notin env, "test" \in env,
         NEW c \in Calls, Deliver(c)
  PROVE  RunInv'
<1>1. /\ UNCHANGED <<env, table, acts>> /\ calls[c].at \in {"ok", "error"}
      /\ \/ Ignored(c) \/ ListShown(c) \/ Reloaded(c) \/ RowShown(c) \/ StatusShown(c)
         \/ Gone(c)
  BY DeliverIs DEF PageInv, WaitInv
<1>2. /\ calls[c].live /\ \A d \in Calls \ {c} : calls[d].at = "free" /\ calls[d].op = "list"
      /\ calls[c].op \in {"list", "status", "activate", "trigger"}
  BY <1>1, TheCall, TestCalls DEF Away, PageInv
<1>3. ~shown.old /\ \A d \in Calls : ~calls[d].old
  BY DEF RunInv
<1>4. ASSUME Freed(c), ~shown'.old PROVE RunInv'
  <2>1. \A d \in Calls : calls'[d].op = "list" /\ ~calls'[d].old
    BY <1>2, <1>3, <1>4, FreeIs DEF Freed, OnlyCall
  <2> QED BY <1>4, <2>1 DEF RunInv
<1>5. CASE Ignored(c)
  BY <1>3, <1>4, <1>5 DEF Ignored
<1>6. CASE ListShown(c)
  BY <1>1, <1>3, <1>4, <1>6 DEF ListShown
<1>7. CASE StatusShown(c)
  <2>1. ~shown'.old
    BY <1>3, <1>7 DEF StatusShown, Keeps
  <2>2. CASE Triggered(c)
    <3>1. /\ calls[c].op = "activate" /\ calls[c].at = "ok" /\ OnlyCall(c)
          /\ calls'[c].op = "trigger" /\ calls'[c].row = calls[c].row
          /\ calls'[c].old = calls[c].old
      BY <2>2 DEF Triggered
    <3>2. table[calls[c].row].status = "ACTIVE"
      BY <3>1 DEF RunInv
    <3>3. \A d \in Calls : ~calls'[d].old
      BY <1>3, <3>1 DEF OnlyCall
    <3>4. \A d \in Calls \ {c} : calls'[d].op = "list"
      BY <1>2, <3>1 DEF OnlyCall
    <3> QED BY <1>1, <2>1, <3>1, <3>2, <3>3, <3>4 DEF RunInv
  <2>3. CASE Freed(c)
    BY <1>4, <2>1, <2>3
  <2> QED BY <1>7, <2>2, <2>3 DEF StatusShown
<1>8. CASE Gone(c)
  <2>1. \A d \in Calls : calls'[d].op = "list" /\ ~calls'[d].old
    BY <1>2, <1>3, <1>8, FreeIs DEF Gone, Like
  <2>2. ~shown'.old
    BY <1>8, BlankIs DEF Gone
  <2> QED BY <2>1, <2>2 DEF RunInv
<1> QED BY <1>1, <1>2, <1>5, <1>6, <1>7, <1>8 DEF Reloaded, RowShown

LEMMA RunStep == ASSUME SettleInv, RunInv, Next PROVE RunInv'
<1>1. env' = env
  BY EnvKept
<1>2. CASE ~(Waiter /\ "others" \notin env /\ "test" \in env)
  BY <1>1, <1>2 DEF RunInv, Waiter
<1>3. CASE Waiter /\ "others" \notin env /\ "test" \in env
  <2>1. \A r \in Rows : ~Others(r)
    BY <1>3, PageIs DEF Others
  <2>2. PageInv /\ OneCall
    BY DEF SettleInv
  <2> QED BY <1>3, <2>1, <2>2, UserRuns, RestRuns, ServeRuns, RefuseRuns, DeliverRuns DEF Next
<1> QED BY <1>2, <1>3

LEMMA InitRun == ASSUME Init PROVE RunInv
<1>1. shown = Blank /\ \A c \in Calls : calls[c].op = "list" /\ ~calls[c].old
  BY FreeIs DEF Init
<1> QED BY <1>1, BlankIs DEF RunInv

LEMMA RunActive ==
  ASSUME KindInv, RunInv
  PROVE  RunsActive
<1> SUFFICES ASSUME ~Happens("overlap"), ~Happens("others"), NEW c \in Calls,
                    calls[c].op = "trigger"
             PROVE  table[calls[c].row].status = "ACTIVE"
  BY DEF RunsActive
<1>1. Waiter /\ "others" \notin env
  BY PageIs DEF Waiter
<1>2. "test" \in env
  BY KindTypes DEF Fits
<1> QED BY <1>1, <1>2 DEF RunInv

(***************************************************************************)
(* The theorems                                                            *)
(***************************************************************************)

LEMMA SettleHolds == Spec => []SettleInv
<1>1. Init => SettleInv
  BY InitSettle
<1>2. SettleInv /\ [Next]_vars => SettleInv'
  BY SettleStep, SettleStutter
<1> QED BY <1>1, <1>2, PTL DEF Spec

\* Every page, call and row is of the right type: of calls that their page makes, about rows that
\* there are, with no answer awaited that no page takes (KindInv, WaitInv).
THEOREM TypeCorrect == Spec => []TypeOK
<1>1. SettleInv => TypeOK
  BY DEF SettleInv, PageInv, KindInv
<1> QED BY <1>1, SettleHolds, PTL

\* When nothing is under way, no page waits, and each shows what the table has for its scope: in
\* any order of the answers where useRecordings() drops those that were superseded, and elsewhere
\* for a user who waits for each, whatever was refused in between.
THEOREM PagesSettle == Spec => []PageSettles
<1>1. SettleInv => PageSettles
  BY SettleShows
<1> QED BY <1>1, SettleHolds, PTL

\* The dialog that turns a recording into a test puts it in the project that it shows: a suite
\* that was chosen for another project is never sent (handleProjectChange()).
THEOREM ConversionsStay == Spec => []ConvertsWhereChosen
<1>1. Init => ChooseInv
  BY InitChoose
<1>2. SettleInv /\ ChooseInv /\ [Next]_vars => ChooseInv'
  <2>1. ASSUME SettleInv, ChooseInv, UNCHANGED vars PROVE ChooseInv'
    <3>1. UNCHANGED <<env, table, place, shown, chosen, calls>>
      BY <2>1 DEF vars
    <3> QED BY <2>1, <3>1 DEF ChooseInv, Waiter
  <2> QED BY <2>1, ChooseStep DEF SettleInv
<1>3. SettleInv /\ ChooseInv => ConvertsWhereChosen
  BY ChooseConverts DEF SettleInv, PageInv
<1> QED BY <1>1, <1>2, <1>3, SettleHolds, PTL DEF Spec

\* The page of a test runs it only when it is active: handleRun() activates it first, and what the
\* page shows is then what the table has.
THEOREM OnlyActiveRun == Spec => []RunsActive
<1>1. Init => RunInv
  BY InitRun
<1>2. SettleInv /\ RunInv /\ [Next]_vars => RunInv'
  <2>1. ASSUME SettleInv, RunInv, UNCHANGED vars PROVE RunInv'
    <3>1. UNCHANGED <<env, table, place, shown, chosen, calls>>
      BY <2>1 DEF vars
    <3> QED BY <2>1, <3>1 DEF RunInv, Waiter
  <2> QED BY <2>1, RunStep
<1>3. SettleInv /\ RunInv => RunsActive
  BY RunActive DEF SettleInv, PageInv
<1> QED BY <1>1, <1>2, <1>3, SettleHolds, PTL DEF Spec

=============================================================================
