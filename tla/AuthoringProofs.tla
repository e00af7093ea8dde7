--------------------------- MODULE AuthoringProofs ---------------------------
(***************************************************************************)
(* Theorems about Authoring, for any steps, requests and circumstances:    *)
(* the state keeps its type, two edits of a test never take one version    *)
(* number, what the test was before an edit is in one of its versions, a   *)
(* proposal that was applied is not rejected where decisions come one by   *)
(* one, and what handleSave() saves is what the editor showed.             *)
(***************************************************************************)
EXTENDS Authoring, FiniteSetTheorems, SequenceTheorems, TLAPS

\* The type of the state, but for the bound of the places: that it is kept depends on how many
\* steps there are, and is shown further below.
Row      == [sel : Writers, order : Nat]
Contents == [step : [Steps -> Row \cup {Gone}], code : Calls \cup {None}]
Line     == [id : Steps, sel : Writers, order : Nat]
Sheet    == [st : {"closed", "ready", "saving"}, shown : Seq(Line), saves : Seq(Line),
             calls : Seq(Steps \cup {"reorder"}), edits : 0..MaxEdits]

Working == {"asked", "locking", "locked", "test read", "read", "thinking", "superseding",
            "creating", "deciding", "marking"}
Demand == [at : Working \cup {"new", "ok", "refused", "failed"}, op : Ops \cup {None},
           s : Steps \cup {None}, sel : Writers \cup {None}, orders : [Steps -> Nat \cup {None}],
           of : Requests \cup {None}, old : Writers \cup {None}, snap : Contents, n : Nat]

TestShape == step \in [Steps -> Row \cup {Gone}] /\ code \in Calls \cup {None}

\* What the fields of a request are where they are used.
Fits(r) ==
  req[r].at \in Working =>
    /\ r \in Adders => req[r].op = "create"
    /\ req[r].op \in {"create", "update"} => req[r].s \in Steps /\ req[r].sel \in Writers
    /\ req[r].op = "create" => req[r].orders[req[r].s] \in Nat
    /\ req[r].op \in {"approve", "reject"} \/ req[r].at \in {"deciding", "marking"} =>
         req[r].of \in Requests

\* A request that has just been made.
Asks(r, op) ==
  req'[r].at = "asked" /\ req'[r].op = op /\ \A q \in Calls \ {r} : req'[q] = req[q]

\* What handleSave() has still to call is about steps that it saves.
SaveFits ==
  /\ page.st = "saving" => page.calls # <<>>
  /\ \A j \in 1..Len(page.calls) :
       page.calls[j] # "reorder" => \E i \in 1..Len(page.saves) : page.saves[i].id = page.calls[j]

RequestShape == req \in [Calls -> Demand] /\ \A r \in Calls : Fits(r)
PageShape == page \in Sheet /\ SaveFits

Shape ==
  /\ TestShape /\ RequestShape /\ PageShape
  /\ versions \in Seq(Contents)
  /\ lock \in Calls \cup {None}
  /\ log \in [Requests -> Proposal]

USE DEF Calls, Gone

LEMMA ContentIsContents == TestShape => content \in Contents
  BY DEF TestShape, content, Contents

LEMMA NewIsDemand == NewRequest \in Demand /\ \A op \in Ops : New(op) \in Demand
  BY DEF NewRequest, New, Demand, NoOrders, NoContent, Contents, Working, Ops, Edits

LEMMA ShapeInit == Init => Shape
<1> SUFFICES ASSUME Init PROVE Shape
  OBVIOUS
<1>1. TestShape
  <2>1. PICK P \in SUBSET Steps :
          \E base \in {0, 1} : \E nth \in [P -> 0..Cardinality(P)] :
            step = [s \in Steps |-> IF s \in P THEN [sel |-> "before", order |-> base + nth[s]] ELSE Gone]
    BY DEF Init
  <2> PICK base \in {0, 1}, nth \in [P -> 0..Cardinality(P)] :
            step = [s \in Steps |-> IF s \in P THEN [sel |-> "before", order |-> base + nth[s]] ELSE Gone]
    BY <2>1
  <2>2. \A s \in P : nth[s] \in Nat
    <3>1. Cardinality(P) \in Nat
      BY AuthoringAssumption, FS_Subset, FS_CardinalityType
    <3> QED BY <3>1
  <2>3. \A s \in P : [sel |-> "before", order |-> base + nth[s]] \in Row
    BY <2>2 DEF Row, Writers
  <2> QED BY <2>3 DEF TestShape, Init
<1>2. RequestShape
  BY NewIsDemand DEF Init, RequestShape, Fits, NewRequest, Working
<1>3. PageShape
  BY AuthoringAssumption DEF Init, PageShape, SaveFits, Sheet
<1> QED
  BY <1>1, <1>2, <1>3 DEF Init, Shape, Proposal, NoProposal

-----------------------------------------------------------------------------
(* Requests                                                                *)

\* A request that goes on, ends or begins leaves all of them in shape.
LEMMA MovesShape ==
  ASSUME RequestShape, NEW r \in Calls, NEW from, NEW to \in Working, Moves(r, from, to),
         from \in Working, to \in {"deciding", "marking"} => req[r].of \in Requests
  PROVE  RequestShape'
<1>1. req[r] \in Demand /\ [req[r] EXCEPT !.at = to] \in Demand
  BY DEF RequestShape, Demand
<1>2. req' \in [Calls -> Demand] /\ req'[r] = [req[r] EXCEPT !.at = to]
      /\ \A q \in Calls \ {r} : req'[q] = req[q]
  BY <1>1 DEF RequestShape, Moves
<1>3. /\ req'[r].op = req[r].op /\ req'[r].s = req[r].s /\ req'[r].sel = req[r].sel
      /\ req'[r].orders = req[r].orders /\ req'[r].of = req[r].of /\ req'[r].at = to
  BY <1>1, <1>2 DEF Demand
<1>4. \A q \in Calls \ {r} : Fits(q)'
  BY <1>2 DEF RequestShape, Fits
<1>5. Fits(r)'
  BY <1>3 DEF RequestShape, Fits, Moves
<1> QED
  BY <1>2, <1>4, <1>5 DEF RequestShape

LEMMA EndsShape ==
  ASSUME RequestShape, NEW r \in Calls, NEW at \in {"ok", "refused", "failed"}, Ends(r, at)
  PROVE  RequestShape'
<1>1. [NewRequest EXCEPT !.at = at, !.op = req[r].op] \in Demand
  BY NewIsDemand DEF RequestShape, Demand
<1>2. req' \in [Calls -> Demand]
  BY <1>1 DEF RequestShape, Ends
<1>3. req'[r].at = at
  BY NewIsDemand DEF RequestShape, Ends, Demand
<1> QED
  BY <1>2, <1>3 DEF RequestShape, Ends, Fits, Working

LEMMA BeginsShape ==
  ASSUME RequestShape, NEW r \in Calls, NEW q \in Demand, req' = [req EXCEPT ![r] = q],
         r \in Adders => q.op = "create",
         q.op \in {"create", "update"} => q.s \in Steps /\ q.sel \in Writers,
         q.op = "create" => q.orders[q.s] \in Nat,
         q.op \in {"approve", "reject"} => q.of \in Requests,
         q.at = "asked"
  PROVE  RequestShape' /\ Asks(r, q.op)
  BY DEF RequestShape, Fits, Asks

LEMMA RepliesShape ==
  ASSUME RequestShape, PageShape, NEW r \in Calls, NEW at \in {"ok", "refused", "failed"},
         Replies(r, at), req[r].at \in Working
  PROVE  RequestShape' /\ PageShape'
<1>1. CASE r \in Requests /\ Ends(r, at)
  BY <1>1, EndsShape DEF Ends, PageShape, SaveFits
<1>2. ASSUME r \in Adders \cup {Saver}, req' = [req EXCEPT ![r] = NewRequest]
      PROVE  RequestShape'
  BY <1>2, NewIsDemand DEF RequestShape, Fits, NewRequest, Working
<1>3. CASE r \in Adders
  <2> DEFINE new == [id |-> req[r].s, sel |-> req[r].sel, order |-> req[r].orders[req[r].s]]
  <2>1. new \in Line
    BY <1>3 DEF RequestShape, Fits, Line
  <2>2. RequestShape'
    BY <1>2, <1>3, AuthoringAssumption DEF Replies
  <2>3. page' \in {page, [page EXCEPT !.shown = Append(@, new)]}
    BY <1>3, AuthoringAssumption DEF Replies
  <2>4. Append(page.shown, new) \in Seq(Line)
    BY <2>1, AppendProperties DEF PageShape, Sheet
  <2>5. page' \in Sheet /\ page'.st = page.st /\ page'.calls = page.calls /\ page'.saves = page.saves
    BY <2>3, <2>4 DEF PageShape, Sheet
  <2> QED
    BY <2>2, <2>5 DEF PageShape, SaveFits
<1>4. CASE r = Saver
  <2>1. RequestShape'
    BY <1>2, <1>4, AuthoringAssumption DEF Replies
  <2>2. CASE page' = [page EXCEPT !.calls = Tail(@)] /\ Len(page.calls) > 1
    <3>1. /\ Tail(page.calls) \in Seq(Steps \cup {"reorder"})
          /\ Len(Tail(page.calls)) = Len(page.calls) - 1
          /\ \A j \in 1..Len(Tail(page.calls)) : Tail(page.calls)[j] = page.calls[j + 1]
      BY <2>2, HeadTailProperties DEF PageShape, Sheet
    <3>2. page' \in Sheet /\ page'.calls = Tail(page.calls) /\ page'.saves = page.saves
      BY <2>2, <3>1 DEF PageShape, Sheet
    <3>3. page'.calls # <<>>
      <4>1. Len(page'.calls) # 0
        BY <2>2, <3>1, <3>2 DEF PageShape, Sheet
      <4> QED
        BY <4>1
    <3>4. \A j \in 1..Len(page'.calls) : j + 1 \in 1..Len(page.calls) /\ page'.calls[j] = page.calls[j + 1]
      BY <3>1, <3>2 DEF PageShape, Sheet
    <3>5. SaveFits'
      BY <3>2, <3>3, <3>4 DEF PageShape, SaveFits
    <3> QED
      BY <2>1, <3>2, <3>5 DEF PageShape
  <2>3. CASE page' = [page EXCEPT !.calls = <<>>, !.saves = <<>>, !.st = "ready"]
    <3>1. page' \in Sheet /\ page'.calls = <<>> /\ page'.st = "ready"
      BY <2>3, EmptySeq DEF PageShape, Sheet
    <3> QED
      <4>1. \A j : ~(j \in 1..Len(page'.calls))
        BY <3>1
      <4>2. SaveFits'
        BY <3>1, <4>1 DEF SaveFits
      <4> QED
        BY <2>1, <3>1, <4>2 DEF PageShape
  <2> QED
    BY <1>4, <2>1, <2>2, <2>3, AuthoringAssumption DEF Replies
<1> QED
  BY <1>1, <1>3, <1>4, AuthoringAssumption DEF Replies

-----------------------------------------------------------------------------
(* The steps of the API                                                    *)

\* What is asked for fits where it is used.
LEMMA AskedShape ==
  ASSUME RequestShape, NEW r \in Requests, NEW q \in Demand, Asked(r, q),
         q.op \in {"create", "update"} => q.s \in Steps /\ q.sel \in Writers,
         q.op = "create" => q.orders[q.s] \in Nat,
         q.op \in {"approve", "reject"} => q.of \in Requests
  PROVE  RequestShape' /\ Asks(r, q.op)
<1> DEFINE p == [q EXCEPT !.at = "asked"]
<1>1. p \in Demand /\ p.op = q.op /\ p.s = q.s /\ p.sel = q.sel /\ p.orders = q.orders
      /\ p.of = q.of /\ p.at = "asked"
  BY DEF Demand, Working
<1>2. req' = [req EXCEPT ![r] = p] /\ r \notin Adders
  BY AuthoringAssumption DEF Asked
<1> HIDE DEF p
<1> QED
  BY <1>1, <1>2, BeginsShape

LEMMA NewFields ==
  ASSUME NEW op \in Ops
  PROVE  /\ New(op).op = op /\ New(op) \in Demand
         /\ New(op) = [at |-> "new", op |-> op, s |-> None, sel |-> None, orders |-> NoOrders,
                       of |-> None, old |-> None, snap |-> NoContent, n |-> 0]
  BY NewIsDemand DEF New, NewRequest

LEMMA AskEditShape ==
  ASSUME TestShape, RequestShape, NEW r \in Requests, AskEdit(r)
  PROVE  RequestShape' /\ \E o \in Edits : Asks(r, o)
<1>1. MaxOrder \in Nat
  BY AuthoringAssumption, FS_CardinalityType DEF MaxOrder
<1>2. r \in Writers
  BY DEF Writers
<1>3. ASSUME NEW s \in Steps,
             Asked(r, [New("create") EXCEPT !.s = s, !.sel = r,
                         !.orders = [NoOrders EXCEPT ![s] = MaxOrder]])
      PROVE  RequestShape' /\ \E o \in Edits : Asks(r, o)
  <2> DEFINE q == [New("create") EXCEPT !.s = s, !.sel = r, !.orders = [NoOrders EXCEPT ![s] = MaxOrder]]
  <2>1. q \in Demand /\ q.op = "create" /\ q.s = s /\ q.sel = r /\ q.orders[s] = MaxOrder
    <3> DEFINE orders == [NoOrders EXCEPT ![s] = MaxOrder]
               d == New("create")
    <3>1. orders \in [Steps -> Nat \cup {None}] /\ orders[s] = MaxOrder
      BY <1>1 DEF NoOrders
    <3>2. d \in Demand /\ d.op = "create"
      BY NewFields DEF Ops, Edits
    <3> HIDE DEF orders, d
    <3>3. LET p == [d EXCEPT !.s = s, !.sel = r, !.orders = orders] IN
          p \in Demand /\ p.op = "create" /\ p.s = s /\ p.sel = r /\ p.orders[s] = MaxOrder
      BY <1>2, <3>1, <3>2 DEF Demand
    <3> QED
      BY <3>3 DEF orders, d
  <2>2. Asked(r, q)
    BY <1>3
  <2> HIDE DEF q
  <2> QED
    BY <1>1, <1>2, <2>1, <2>2, AskedShape DEF Edits
<1>4. ASSUME NEW s \in Steps, Asked(r, [New("update") EXCEPT !.s = s, !.sel = r])
      PROVE  RequestShape' /\ \E o \in Edits : Asks(r, o)
  <2> DEFINE q == [New("update") EXCEPT !.s = s, !.sel = r]
  <2>1. q \in Demand /\ q.op = "update" /\ q.s = s /\ q.sel = r
    <3> DEFINE d == New("update")
    <3>1. d \in Demand /\ d.op = "update"
      BY NewFields DEF Ops, Edits
    <3> HIDE DEF d
    <3>2. LET p == [d EXCEPT !.s = s, !.sel = r] IN
          p \in Demand /\ p.op = "update" /\ p.s = s /\ p.sel = r
      BY <1>2, <3>1 DEF Demand
    <3> QED
      BY <3>2 DEF d
  <2>2. Asked(r, q)
    BY <1>4
  <2> HIDE DEF q
  <2> QED
    BY <1>2, <2>1, <2>2, AskedShape DEF Edits
<1>5. ASSUME NEW s \in Steps, Asked(r, [New("remove") EXCEPT !.s = s])
      PROVE  RequestShape' /\ \E o \in Edits : Asks(r, o)
  <2> DEFINE q == [New("remove") EXCEPT !.s = s]
  <2>1. q \in Demand /\ q.op = "remove"
    BY NewFields DEF Demand, Ops, Edits
  <2>2. Asked(r, q)
    BY <1>5
  <2> HIDE DEF q
  <2> QED
    BY <2>1, <2>2, AskedShape DEF Edits
<1>6. ASSUME NEW s \in Present, NEW t \in Present,
             Asked(r, [New("reorder") EXCEPT !.orders = [NoOrders EXCEPT ![s] = step[t].order,
                                                                         ![t] = step[s].order]])
      PROVE  RequestShape' /\ \E o \in Edits : Asks(r, o)
  <2> DEFINE orders == [NoOrders EXCEPT ![s] = step[t].order, ![t] = step[s].order]
             q == [New("reorder") EXCEPT !.orders = orders]
  <2>1. step[s].order \in Nat /\ step[t].order \in Nat
    BY DEF Present, TestShape, Row
  <2>2. orders \in [Steps -> Nat \cup {None}]
    BY <2>1 DEF NoOrders, Present
  <2> HIDE DEF orders
  <2>3. q \in Demand /\ q.op = "reorder"
    BY <2>2, NewFields DEF Demand, Ops, Edits
  <2>4. Asked(r, q)
    BY <1>6 DEF orders
  <2> HIDE DEF q
  <2> QED
    BY <2>3, <2>4, AskedShape DEF Edits
<1>7. ASSUME Asked(r, New("code"))
      PROVE  RequestShape' /\ \E o \in Edits : Asks(r, o)
  <2>1. New("code") \in Demand /\ New("code").op = "code"
    BY NewFields DEF Ops, Edits
  <2> QED
    BY <1>7, <2>1, AskedShape DEF Edits
<1> QED
  BY <1>3, <1>4, <1>5, <1>6, <1>7 DEF AskEdit, Unused, Present

LEMMA AskHealShape ==
  ASSUME RequestShape, NEW r \in Requests, AskHeal(r)
  PROVE  RequestShape' /\ \E o \in Ops :
           /\ Asks(r, o)
           /\ o \in {"approve", "reject"} => "overlap" \in may \/ ~\E d \in Requests : Deciding(d)
<1> DEFINE May(o) == o \in {"approve", "reject"} => "overlap" \in may \/ ~\E d \in Requests : Deciding(d)
<1>1. ASSUME NEW s \in Steps, NEW op \in {"heal", "autoheal"}, Asked(r, [New(op) EXCEPT !.s = s])
      PROVE  RequestShape' /\ \E o \in Ops : Asks(r, o) /\ May(o)
  <2> DEFINE q == [New(op) EXCEPT !.s = s]
  <2>1. q \in Demand /\ q.op = op
    BY NewFields DEF Demand, Ops
  <2>2. Asked(r, q)
    BY <1>1
  <2> HIDE DEF q
  <2> QED
    BY <2>1, <2>2, AskedShape DEF Ops
<1>2. ASSUME NEW l \in Requests, NEW op \in {"approve", "reject"}, Asked(r, [New(op) EXCEPT !.of = l]),
             "overlap" \in may \/ ~\E d \in Requests : Deciding(d)
      PROVE  RequestShape' /\ \E o \in Ops : Asks(r, o) /\ May(o)
  <2> DEFINE q == [New(op) EXCEPT !.of = l]
  <2>1. q \in Demand /\ q.op = op /\ q.of = l
    BY NewFields DEF Demand, Ops
  <2>2. Asked(r, q)
    BY <1>2
  <2> HIDE DEF q
  <2> QED
    BY <1>2, <2>1, <2>2, AskedShape DEF Ops
<1> QED
  BY <1>1, <1>2 DEF AskHeal, Present

LEMMA AskGenerateShape ==
  ASSUME RequestShape, NEW r \in Requests, AskGenerate(r)
  PROVE  RequestShape' /\ \E o \in {"codegen", "document"} : Asks(r, o)
<1>1. PICK op \in {"codegen", "document"} : Asked(r, New(op))
  BY DEF AskGenerate
<1>2. New(op) \in Demand /\ New(op).op = op
  BY NewFields DEF Ops
<1> QED
  BY <1>1, <1>2, AskedShape DEF Ops

-----------------------------------------------------------------------------
(* The handlers                                                            *)

\* A request that goes on and keeps what it asks for.
LEMMA TouchShape ==
  ASSUME RequestShape, NEW r \in Calls, NEW d \in Demand,
         req' \in [Calls -> Demand], req'[r] = d, \A q \in Calls \ {r} : req'[q] = req[q],
         req[r].at \in Working, d.op = req[r].op, d.s = req[r].s, d.sel = req[r].sel,
         d.orders = req[r].orders, d.of = req[r].of,
         d.at \in {"deciding", "marking"} => d.of \in Requests
  PROVE  RequestShape'
<1>1. \A q \in Calls \ {r} : Fits(q)'
  BY DEF RequestShape, Fits
<1>2. Fits(r)'
  BY DEF RequestShape, Fits
<1> QED
  BY <1>1, <1>2 DEF RequestShape

LEMMA CheckShape ==
  ASSUME Shape, NEW r \in Calls, Check(r) \/ Lock(r)
  PROVE  Shape'
<1>1. CASE Check(r)
  <2>1. CASE Replies(r, "refused")
    BY <1>1, <2>1, RepliesShape DEF Check, Shape, TestShape, testVars, logVars, Working
  <2>2. CASE Moves(r, "asked", "locking") /\ UNCHANGED page
    BY <1>1, <2>2, MovesShape DEF Check, Shape, TestShape, PageShape, SaveFits, testVars, logVars, Working
  <2> QED
    BY <1>1, <2>1, <2>2 DEF Check
<1>2. CASE Lock(r)
  BY <1>2, MovesShape DEF Lock, Shape, TestShape, PageShape, SaveFits, testVars, logVars, Working
<1> QED
  BY <1>1, <1>2

LEMMA ReadShape ==
  ASSUME Shape, NEW r \in Calls, ReadTest(r) \/ ReadSteps(r) \/ ReadForPrompt(r)
  PROVE  Shape'
<1> DEFINE d == req[r]
<1>0. d \in Demand /\ req \in [Calls -> Demand] /\ content \in Contents /\ d.snap \in Contents
      /\ step \in [Steps -> Row \cup {Gone}] /\ code \in Calls \cup {None}
  BY ContentIsContents DEF Shape, RequestShape, TestShape, Demand
<1>1. ASSUME ReadTest(r) PROVE RequestShape'
  <2>1. [d EXCEPT !.at = "test read", !.snap.code = code] \in Demand
    BY <1>0 DEF Demand, Contents, Working
  <2>2. /\ req' = [req EXCEPT ![r] = [d EXCEPT !.at = "test read", !.snap.code = code]]
        /\ d.at = "locked"
    BY <1>1 DEF ReadTest
  <2> QED
    BY <1>0, <2>1, <2>2, TouchShape DEF Shape, Demand, Working
<1>2. ASSUME ReadSteps(r) PROVE RequestShape'
  <2>1. Len(versions) \in Nat
    BY DEF Shape
  <2>2. [d EXCEPT !.at = "read", !.snap.step = step, !.n = Len(versions)] \in Demand
    BY <1>0, <2>1 DEF Demand, Contents, Working
  <2>3. /\ req' = [req EXCEPT ![r] = [d EXCEPT !.at = "read", !.snap.step = step, !.n = Len(versions)]]
        /\ d.at = "test read"
    BY <1>2 DEF ReadSteps
  <2> QED
    BY <1>0, <2>2, <2>3, TouchShape DEF Shape, Demand, Working
<1>3. ASSUME ReadForPrompt(r) PROVE RequestShape'
  <2>1. [d EXCEPT !.at = "thinking", !.snap = content] \in Demand
    BY <1>0 DEF Demand, Working
  <2>2. /\ req' = [req EXCEPT ![r] = [d EXCEPT !.at = "thinking", !.snap = content]]
        /\ d.at = "asked"
    BY <1>3 DEF ReadForPrompt
  <2> QED
    BY <1>0, <2>1, <2>2, TouchShape DEF Shape, Demand, Working
<1>4. UNCHANGED <<step, code, page, versions, lock, log>>
  BY DEF ReadTest, ReadSteps, ReadForPrompt, testVars, logVars
<1> QED
  BY <1>1, <1>2, <1>3, <1>4 DEF Shape, TestShape, PageShape, SaveFits

LEMMA WritesShape ==
  ASSUME Shape, NEW r \in Calls, Writes(r), Possible(r), req[r].at = "read"
  PROVE  TestShape'
<1> DEFINE d == req[r]
<1>1. d \in Demand /\ Fits(r) /\ d.at \in Working
  BY DEF Shape, RequestShape, Working
<1>2. CASE d.op = "create"
  <2>1. [sel |-> d.sel, order |-> d.orders[d.s]] \in Row
    BY <1>1, <1>2 DEF Fits, Row
  <2> QED
    BY <1>2, <2>1 DEF Writes, Shape, TestShape
<1>3. CASE d.op = "update"
  <2>1. step[d.s] \in Row /\ d.sel \in Writers
    BY <1>1, <1>3 DEF Fits, Possible, Present, Shape, TestShape
  <2>2. [step[d.s] EXCEPT !.sel = d.sel] \in Row
    BY <2>1 DEF Row
  <2> QED
    BY <1>3, <2>2 DEF Writes, Shape, TestShape
<1>4. CASE d.op = "remove"
  BY <1>4 DEF Writes, Shape, TestShape
<1>5. CASE d.op = "reorder"
  <2>1. ASSUME NEW s \in Steps, d.orders[s] # None
        PROVE  [step[s] EXCEPT !.order = d.orders[s]] \in Row
    <3>1. step[s] \in Row /\ d.orders[s] \in Nat
      BY <1>1, <1>5, <2>1 DEF Possible, Present, Shape, TestShape, Demand
    <3> QED
      BY <3>1 DEF Row
  <2> QED
    BY <1>5, <2>1 DEF Writes, Shape, TestShape
<1>6. CASE d.op \notin {"create", "update", "remove", "reorder"}
  BY <1>6 DEF Writes, Shape, TestShape
<1> QED
  BY <1>2, <1>3, <1>4, <1>5, <1>6

LEMMA CommitShape ==
  ASSUME Shape, NEW r \in Calls, Commit(r)
  PROVE  Shape'
<1>1. TestShape'
  BY WritesShape DEF Commit
<1>2. RequestShape' /\ PageShape'
  BY RepliesShape DEF Commit, Shape, Working
<1>3. versions' \in Seq(Contents)
  <2>1. req[r].snap \in Contents
    BY DEF Shape, RequestShape, Demand
  <2> QED
    BY <2>1, AppendProperties DEF Commit, Snapshot, Shape
<1>4. log' \in [Requests -> Proposal] /\ lock' \in Calls \cup {None}
  BY DEF Commit, Shape, Proposal, NoProposal
<1> QED
  BY <1>1, <1>2, <1>3, <1>4 DEF Shape

LEMMA RollbackShape ==
  ASSUME Shape, NEW r \in Calls, Rollback(r)
  PROVE  Shape'
<1>1. PICK at \in {"refused", "failed"} : Replies(r, at)
  BY DEF Rollback
<1>2. req[r].at \in Working
  BY DEF Rollback, Working
<1>3. RequestShape' /\ PageShape'
  BY <1>1, <1>2, RepliesShape DEF Shape
<1> QED
  BY <1>3 DEF Rollback, Shape, TestShape, testVars, logVars

LEMMA GeneratedShape ==
  ASSUME Shape, NEW r \in Calls, Generated(r)
  PROVE  Shape'
<1>1. RequestShape' /\ UNCHANGED page
  BY EndsShape DEF Generated, Shape, Ends
<1> QED
  BY <1>1 DEF Generated, Shape, TestShape, PageShape, SaveFits, logVars

LEMMA HealShape ==
  ASSUME Shape, NEW r \in Calls, ReadStep(r) \/ Supersede(r) \/ CreateLog(r) \/ Fails(r)
  PROVE  Shape'
<1> USE DEF Shape
<1>1. CASE ReadStep(r)
  <2>1. CASE Ends(r, "refused")
    BY <1>1, <2>1, EndsShape DEF ReadStep, Ends, TestShape, PageShape, SaveFits, testVars, logVars
  <2>2. CASE ~Ends(r, "refused")
    <3> DEFINE d == req[r]
               s == req[r].s
    <3>1. s \in Present /\ d.at = "asked" /\ UNCHANGED page
          /\ req' = [req EXCEPT ![r] = [d EXCEPT !.at = "superseding", !.old = step[s].sel]]
      BY <1>1, <2>2 DEF ReadStep
    <3>2. step[s].sel \in Writers /\ d \in Demand
      BY <3>1 DEF Present, TestShape, Row, RequestShape
    <3>3. [d EXCEPT !.at = "superseding", !.old = step[s].sel] \in Demand
      BY <3>2 DEF Demand, Working
    <3>4. RequestShape'
      BY <3>1, <3>2, <3>3, TouchShape DEF RequestShape, Demand, Working
    <3> QED
      BY <1>1, <3>1, <3>4 DEF ReadStep, TestShape, PageShape, SaveFits, testVars, logVars
  <2> QED
    BY <2>1, <2>2
<1>2. CASE Supersede(r)
  <2>1. RequestShape'
    BY <1>2, MovesShape DEF Supersede, Working
  <2>2. log' \in [Requests -> Proposal]
    BY <1>2 DEF Supersede, Proposal
  <2> QED
    BY <1>2, <2>1, <2>2 DEF Supersede, TestShape, PageShape, SaveFits, testVars
<1>3. CASE CreateLog(r)
  <2>1. RequestShape' /\ UNCHANGED page
    BY <1>3, EndsShape DEF CreateLog, Ends
  <2>2. req[r].s \in Steps \cup {None} /\ req[r].old \in Writers \cup {None}
    BY DEF RequestShape, Demand
  <2>3. log' \in [Requests -> Proposal]
    BY <1>3, <2>2 DEF CreateLog, Proposal
  <2> QED
    BY <1>3, <2>1, <2>3 DEF CreateLog, TestShape, PageShape, SaveFits, testVars
<1>4. CASE Fails(r)
  BY <1>4, EndsShape DEF Fails, Ends, TestShape, PageShape, SaveFits, testVars, logVars
<1> QED
  BY <1>1, <1>2, <1>3, <1>4

LEMMA DecideShape ==
  ASSUME Shape, NEW r \in Calls, ReadLog(r) \/ Apply(r) \/ Mark(r)
  PROVE  Shape'
<1> USE DEF Shape
<1>0. /\ req[r].at \in {"deciding", "marking"} => req[r].of \in Requests
      /\ req[r].at = "asked" /\ req[r].op \in {"approve", "reject"} => req[r].of \in Requests
  BY DEF RequestShape, Fits, Working
<1>1. CASE ReadLog(r)
  <2>1. CASE Ends(r, "refused")
    BY <1>1, <2>1, EndsShape DEF ReadLog, Ends, TestShape, PageShape, SaveFits, testVars, logVars
  <2>2. CASE ~Ends(r, "refused")
    <3>1. PICK to \in {"deciding", "marking"} : Moves(r, "asked", to)
      BY <1>1, <2>2 DEF ReadLog, Moves
    <3>2. RequestShape'
      BY <1>0, <1>1, <3>1, MovesShape DEF ReadLog, Working
    <3> QED
      BY <1>1, <2>2, <3>2 DEF ReadLog, TestShape, PageShape, SaveFits, testVars, logVars
  <2> QED
    BY <2>1, <2>2
<1>2. CASE Apply(r)
  <2>1. RequestShape' /\ UNCHANGED page
    BY <1>0, <1>2, MovesShape, EndsShape DEF Apply, Ends, Moves, Working
  <2>2. TestShape'
    <3> DEFINE l == req[r].of
               s == log[l].s
    <3>1. CASE UNCHANGED step
      BY <1>2, <3>1 DEF Apply, TestShape
    <3>2. CASE s \in Present /\ step' = [step EXCEPT ![s].sel = l]
      <4>1. step[s] \in Row /\ l \in Writers
        BY <1>0, <1>2, <3>2 DEF Apply, Present, TestShape, Writers
      <4>2. [step[s] EXCEPT !.sel = l] \in Row
        BY <4>1 DEF Row
      <4> QED
        BY <1>2, <3>2, <4>2 DEF Apply, TestShape
    <3> QED
      BY <1>2, <3>1, <3>2 DEF Apply
  <2> QED
    BY <1>2, <2>1, <2>2 DEF Apply, PageShape, SaveFits
<1>3. CASE Mark(r)
  <2>1. RequestShape' /\ UNCHANGED page
    BY <1>3, EndsShape DEF Mark, Ends
  <2>2. log' \in [Requests -> Proposal]
    <3> DEFINE l == req[r].of
    <3>1. l \in Requests /\ log[l] \in Proposal
      BY <1>0, <1>3 DEF Mark
    <3>2. [log[l] EXCEPT !.st = "approved"] \in Proposal /\ [log[l] EXCEPT !.st = "rejected"] \in Proposal
      BY <3>1 DEF Proposal
    <3>3. log' \in {log, [log EXCEPT ![l].st = "approved"], [log EXCEPT ![l].st = "rejected"]}
      BY <1>3 DEF Mark
    <3> QED
      BY <3>2, <3>3
  <2> QED
    BY <1>3, <2>1, <2>2 DEF Mark, TestShape, PageShape, SaveFits, testVars
<1> QED
  BY <1>1, <1>2, <1>3

-----------------------------------------------------------------------------
(* The editor                                                              *)

LEMMA EditShape ==
  ASSUME PageShape, NEW shown \in Seq(Line), Edit(shown)
  PROVE  PageShape'
<1>1. page' = [page EXCEPT !.shown = shown, !.edits = page.edits + 1] /\ page.edits < MaxEdits
  BY DEF Edit
<1>2. page \in Sheet /\ page.edits + 1 \in 0..MaxEdits
  BY <1>1, AuthoringAssumption DEF PageShape, Sheet
<1>3. page' \in Sheet /\ page'.st = page.st /\ page'.calls = page.calls /\ page'.saves = page.saves
  BY <1>2, <1>1 DEF Sheet
<1> QED
  BY <1>2, <1>3 DEF PageShape, SaveFits

LEMMA PartOfSeq ==
  ASSUME NEW shown \in Seq(Line), NEW m \in Nat \ {0}, NEW n \in Nat, n <= Len(shown)
  PROVE  /\ SubSeq(shown, m, n) \in Seq(Line)
         /\ Len(SubSeq(shown, m, n)) = IF m <= n THEN n - m + 1 ELSE 0
<1>1. Len(shown) \in Nat
  BY LenProperties
<1>2. m..n \subseteq 1..Len(shown)
  BY <1>1
<1>3. \A k \in m..n : shown[k] \in Line
  BY <1>2, ElementOfSeq
<1> QED
  BY <1>3, SubSeqProperties

LEMMA WithoutIsSeq ==
  ASSUME NEW shown \in Seq(Line), NEW i \in 1..Len(shown)
  PROVE  Without1(shown, i) \in Seq(Line) /\ Len(Without1(shown, i)) = Len(shown) - 1
<1> DEFINE a == SubSeq(shown, 1, i - 1)
           b == SubSeq(shown, i + 1, Len(shown))
<1>1. Len(shown) \in Nat /\ i \in Nat /\ i - 1 \in Nat /\ i - 1 <= Len(shown)
  BY LenProperties
<1>2. a \in Seq(Line) /\ Len(a) = i - 1
  BY <1>1, PartOfSeq
<1>3. b \in Seq(Line) /\ Len(b) = Len(shown) - i
  BY <1>1, PartOfSeq
<1> HIDE DEF a, b
<1>4. a \o b \in Seq(Line) /\ Len(a \o b) = Len(a) + Len(b)
  BY <1>2, <1>3, ConcatProperties
<1>5. Len(a) + Len(b) = Len(shown) - 1
  BY <1>1, <1>2, <1>3
<1> QED
  BY <1>4, <1>5 DEF Without1, a, b

LEMMA TakenIsSeq ==
  ASSUME NEW shown \in Seq(Line), NEW i \in 1..Len(shown), NEW j \in 1..Len(shown)
  PROVE  Taken(shown, i, j) \in Seq(Line)
<1> DEFINE rest == Without1(shown, i)
           one == <<shown[i]>>
<1>1. rest \in Seq(Line) /\ Len(rest) = Len(shown) - 1
  BY WithoutIsSeq
<1>2. one \in Seq(Line)
  <2>1. shown[i] \in Line
    BY ElementOfSeq
  <2> QED
    BY <2>1
<1>3. Len(shown) \in Nat /\ j \in Nat \ {0} /\ j - 1 \in Nat /\ j - 1 <= Len(shown) - 1
  BY LenProperties
<1> HIDE DEF rest, one
<1>4. SubSeq(rest, 1, j - 1) \in Seq(Line) /\ SubSeq(rest, j, Len(rest)) \in Seq(Line)
  BY <1>1, <1>3, PartOfSeq, LenProperties
<1>5. SubSeq(rest, 1, j - 1) \o one \in Seq(Line)
  BY <1>2, <1>4, ConcatProperties
<1>6. (SubSeq(rest, 1, j - 1) \o one) \o SubSeq(rest, j, Len(rest)) \in Seq(Line)
  BY <1>4, <1>5, ConcatProperties
<1> QED
  BY <1>6 DEF Taken, rest, one

LEMMA EditorPageShape ==
  ASSUME Shape, Open \/ Type \/ Drag \/ RemoveLocal \/ Save
  PROVE  PageShape'
<1>0. page.shown \in Seq(Line) /\ page \in Sheet /\ SaveFits
  BY DEF Shape, PageShape, Sheet
<1>1. CASE Open
  <2>1. Cardinality(Present) \in Nat
    BY AuthoringAssumption, FS_Subset, FS_CardinalityType DEF Present
  <2>2. PICK ids \in [1..Cardinality(Present) -> Present] :
          page' = [page EXCEPT !.st = "ready",
                     !.shown = [i \in DOMAIN ids |-> [id |-> ids[i], sel |-> step[ids[i]].sel,
                                                      order |-> step[ids[i]].order]]]
    BY <1>1 DEF Open
  <2> DEFINE shown == [i \in DOMAIN ids |-> [id |-> ids[i], sel |-> step[ids[i]].sel,
                                             order |-> step[ids[i]].order]]
  <2>3. \A i \in 1..Cardinality(Present) : shown[i] \in Line
    BY DEF Present, Shape, TestShape, Row, Line
  <2>4. shown \in Seq(Line)
    BY <2>1, <2>3
  <2> HIDE DEF shown
  <2>5. page' \in Sheet /\ page'.st = "ready" /\ page'.calls = page.calls /\ page'.saves = page.saves
    BY <1>0, <2>2, <2>4 DEF Sheet, shown
  <2> QED
    BY <1>0, <2>5 DEF PageShape, SaveFits
<1>2. CASE Type
  <2>1. PICK i \in 1..Len(page.shown) : Edit([page.shown EXCEPT ![i].sel = Typed])
    BY <1>2 DEF Type
  <2>2. [page.shown[i] EXCEPT !.sel = Typed] \in Line
    <3>1. page.shown[i] \in Line
      BY <1>0, ElementOfSeq
    <3> QED
      BY <3>1 DEF Line, Writers
  <2>3. [page.shown EXCEPT ![i].sel = Typed] \in Seq(Line)
    BY <1>0, <2>2, ExceptSeq
  <2> QED
    BY <2>1, <2>3, EditShape DEF Shape
<1>3. CASE Drag
  <2>1. PICK i \in 1..Len(page.shown), j \in 1..Len(page.shown) :
          Edit([k \in DOMAIN Taken(page.shown, i, j) |->
                  [Taken(page.shown, i, j)[k] EXCEPT !.order = k]])
    BY <1>3 DEF Drag
  <2> DEFINE moved == Taken(page.shown, i, j)
             numbered == [k \in DOMAIN moved |-> [moved[k] EXCEPT !.order = k]]
  <2>2. moved \in Seq(Line)
    BY <1>0, TakenIsSeq
  <2> HIDE DEF moved
  <2>3. \A k \in 1..Len(moved) : [moved[k] EXCEPT !.order = k] \in Line
    <3>1. \A k \in 1..Len(moved) : moved[k] \in Line /\ k \in Nat
      BY <2>2, ElementOfSeq
    <3> QED
      BY <3>1 DEF Line
  <2>4. numbered \in Seq(Line)
    <3>1. DOMAIN moved = 1..Len(moved) /\ Len(moved) \in Nat
      BY <2>2, LenProperties
    <3>2. numbered \in [1..Len(moved) -> Line]
      BY <2>3, <3>1
    <3> QED
      BY <3>1, <3>2
  <2> QED
    BY <2>1, <2>4, EditShape DEF Shape, moved
<1>4. CASE RemoveLocal
  <2>1. PICK i \in 1..Len(page.shown) : Edit(Without1(page.shown, i))
    BY <1>4 DEF RemoveLocal
  <2> QED
    BY <1>0, <2>1, WithoutIsSeq, EditShape DEF Shape
<1>5. CASE Save
  <2> DEFINE ids == [i \in 1..Len(page.shown) |-> page.shown[i].id]
             calls == <<"reorder">> \o ids
  <2>1. ids \in Seq(Steps \cup {"reorder"}) /\ Len(ids) = Len(page.shown)
    <3>1. \A i \in 1..Len(page.shown) : page.shown[i] \in Line
      BY <1>0, ElementOfSeq
    <3>2. Len(page.shown) \in Nat
      BY <1>0, LenProperties
    <3>3. ids \in [1..Len(page.shown) -> Steps \cup {"reorder"}]
      BY <3>1 DEF Line
    <3> HIDE DEF ids
    <3> QED
      BY <3>2, <3>3
  <2>2. <<"reorder">> \in Seq(Steps \cup {"reorder"})
    OBVIOUS
  <2> HIDE DEF ids
  <2>3. /\ calls \in Seq(Steps \cup {"reorder"}) /\ Len(calls) = Len(page.shown) + 1
        /\ calls[1] = "reorder"
        /\ \A j \in 2..Len(calls) : calls[j] = ids[j - 1]
    BY <2>1, <2>2, ConcatProperties
  <2>4. page' = [page EXCEPT !.st = "saving", !.saves = page.shown, !.edits = page.edits + 1,
                   !.calls = calls] /\ page.edits < MaxEdits
    BY <1>5 DEF Save, ids
  <2> HIDE DEF calls
  <2>5. page' \in Sheet /\ page'.calls = calls /\ page'.saves = page.shown
    <3>1. page.edits + 1 \in 0..MaxEdits
      BY <1>0, <2>4, AuthoringAssumption DEF Sheet
    <3> QED
      BY <1>0, <2>3, <2>4, <3>1 DEF Sheet
  <2>6. calls # <<>>
    <3>1. Len(calls) # 0
      BY <1>0, <2>3
    <3> QED
      BY <3>1
  <2>7. ASSUME NEW j \in 1..Len(calls), calls[j] # "reorder"
        PROVE  \E i \in 1..Len(page.shown) : page.shown[i].id = calls[j]
    <3>1. j - 1 \in 1..Len(page.shown) /\ calls[j] = ids[j - 1]
      BY <1>0, <2>3, <2>7
    <3> QED
      BY <3>1 DEF ids
  <2> QED
    BY <2>5, <2>6, <2>7 DEF PageShape, SaveFits
<1> QED
  BY <1>1, <1>2, <1>3, <1>4, <1>5

LEMMA EditorRequestShape ==
  ASSUME Shape, SendNext \/ \E r \in Adders : Add(r)
  PROVE  RequestShape' /\ PageShape' /\ \E w \in Calls, o \in Edits : Asks(w, o) /\ req[w].at = "new"
<1>0. page.shown \in Seq(Line) /\ page \in Sheet /\ SaveFits /\ page.saves \in Seq(Line)
  BY DEF Shape, PageShape, Sheet
<1>1. ASSUME NEW r \in Adders, Add(r)
      PROVE  RequestShape' /\ PageShape' /\ \E w \in Calls, o \in Edits : Asks(w, o) /\ req[w].at = "new"
  <2>1. PICK s \in Unused :
          req' = [req EXCEPT ![r] = [New("create") EXCEPT !.at = "asked", !.s = s, !.sel = r,
                     !.orders = [NoOrders EXCEPT ![s] = NextOrder]]]
    BY <1>1 DEF Add
  <2> DEFINE orders == [NoOrders EXCEPT ![s] = NextOrder]
             d == New("create")
             q == [d EXCEPT !.at = "asked", !.s = s, !.sel = r, !.orders = orders]
  <2>2. NextOrder \in Nat /\ r \in Writers /\ s \in Steps
    BY <1>0 DEF NextOrder, Writers, Unused
  <2>3. orders \in [Steps -> Nat \cup {None}] /\ orders[s] = NextOrder
    BY <2>2 DEF NoOrders
  <2>4. d \in Demand /\ d.op = "create"
    BY NewFields DEF Ops, Edits
  <2>5. req' = [req EXCEPT ![r] = q]
    BY <2>1
  <2> HIDE DEF orders, d
  <2>6. q \in Demand /\ q.at = "asked" /\ q.op = "create" /\ q.s = s /\ q.sel = r /\ q.orders = orders
    BY <2>2, <2>3, <2>4 DEF Demand, Working
  <2> HIDE DEF q
  <2>7. RequestShape' /\ Asks(r, "create")
    BY <2>2, <2>3, <2>5, <2>6, BeginsShape DEF Shape
  <2>8. page' = [page EXCEPT !.edits = page.edits + 1] /\ page.edits < MaxEdits
    BY <1>1 DEF Add
  <2>9. page' \in Sheet /\ page'.st = page.st /\ page'.calls = page.calls /\ page'.saves = page.saves
    <3>1. page.edits \in 0..MaxEdits /\ MaxEdits \in Nat
      BY <1>0, AuthoringAssumption DEF Sheet
    <3>2. page.edits + 1 \in 0..MaxEdits
      BY <2>8, <3>1
    <3> QED
      BY <1>0, <2>8, <3>2 DEF Sheet
  <2> QED
    <3>1. PageShape'
      BY <1>0, <2>9 DEF PageShape, SaveFits
    <3>2. req[r].at = "new"
      BY <1>1 DEF Add
    <3> QED
      BY <2>7, <3>1, <3>2 DEF Edits
<1>2. ASSUME SendNext
      PROVE  RequestShape' /\ PageShape' /\ \E w \in Calls, o \in Edits : Asks(w, o) /\ req[w].at = "new"
  <2> DEFINE c == Head(page.calls)
             ids == {page.saves[i].id : i \in 1..Len(page.saves)}
             orders == [s \in Steps |-> IF s \in ids THEN page.saves[Nth(s)].order ELSE None]
  <2>1. /\ page.calls # <<>> /\ UNCHANGED page
        /\ \/ /\ c = "reorder"
              /\ req' = [req EXCEPT ![Saver] = [New("reorder") EXCEPT !.at = "asked",
                                                  !.orders = orders]]
           \/ /\ c # "reorder"
              /\ req' = [req EXCEPT ![Saver] = [New("update") EXCEPT !.at = "asked", !.s = c,
                                                  !.sel = page.saves[Nth(c)].sel]]
    BY <1>0, <1>2 DEF SendNext, SaveFits
  <2>2. c = page.calls[1] /\ 1 \in 1..Len(page.calls) /\ c \in Steps \cup {"reorder"}
    BY <1>0, <2>1, HeadTailProperties DEF Sheet
  <2>3. ASSUME NEW s, NEW i \in 1..Len(page.saves), page.saves[i].id = s
        PROVE  page.saves[Nth(s)] \in Line
    <3>1. Nth(s) \in 1..Len(page.saves)
      BY <2>3 DEF Nth
    <3> QED
      BY <1>0, <3>1
  <2>4. PageShape'
    BY <1>0, <2>1 DEF PageShape, SaveFits
  <2>5. CASE c = "reorder"
    <3> DEFINE d == New("reorder")
               q == [d EXCEPT !.at = "asked", !.orders = orders]
    <3>1. d \in Demand /\ d.op = "reorder"
      BY NewFields DEF Ops, Edits
    <3>2. orders \in [Steps -> Nat \cup {None}]
      BY <2>3 DEF Line
    <3>3. req' = [req EXCEPT ![Saver] = q]
      BY <2>1, <2>5
    <3> HIDE DEF d, orders
    <3>4. q \in Demand /\ q.at = "asked" /\ q.op = "reorder"
      BY <3>1, <3>2 DEF Demand, Working
    <3> HIDE DEF q
    <3>5. Saver \in Calls /\ Saver \notin Adders /\ RequestShape
      BY AuthoringAssumption DEF Shape
    <3>6. RequestShape' /\ Asks(Saver, q.op)
      BY <3>3, <3>4, <3>5, BeginsShape
    <3> QED
      BY <1>2, <2>4, <3>4, <3>5, <3>6 DEF Edits, SendNext
  <2>6. CASE c # "reorder"
    <3> DEFINE d == New("update")
               w == page.saves[Nth(c)].sel
               q == [d EXCEPT !.at = "asked", !.s = c, !.sel = w]
    <3>1. d \in Demand /\ d.op = "update"
      BY NewFields DEF Ops, Edits
    <3>2. w \in Writers /\ c \in Steps
      BY <1>0, <2>2, <2>3, <2>6 DEF SaveFits, Line
    <3>3. req' = [req EXCEPT ![Saver] = q]
      BY <2>1, <2>6
    <3> HIDE DEF d, w
    <3>4. q \in Demand /\ q.at = "asked" /\ q.op = "update" /\ q.s = c /\ q.sel = w
      BY <3>1, <3>2 DEF Demand, Working
    <3> HIDE DEF q
    <3>5. Saver \in Calls /\ Saver \notin Adders /\ RequestShape
      BY AuthoringAssumption DEF Shape
    <3>6. RequestShape' /\ Asks(Saver, q.op)
      BY <3>2, <3>3, <3>4, <3>5, BeginsShape
    <3> QED
      BY <1>2, <2>4, <3>4, <3>5, <3>6 DEF Edits, SendNext
  <2> QED
    BY <2>5, <2>6
<1> QED
  BY <1>1, <1>2

\* Every step keeps the shape.
LEMMA ShapeStep == Shape /\ [Next]_vars => Shape'
<1> SUFFICES ASSUME Shape, [Next]_vars PROVE Shape'
  OBVIOUS
<1>1. ASSUME NEW r \in Requests, AskEdit(r) \/ AskHeal(r) \/ AskGenerate(r)
      PROVE  Shape'
  <2>1. RequestShape'
    BY <1>1, AskEditShape, AskHealShape, AskGenerateShape DEF Shape
  <2>2. UNCHANGED <<step, code, page, versions, lock, log>>
    BY <1>1 DEF AskEdit, AskHeal, AskGenerate, Asked, testVars, logVars
  <2> QED
    BY <2>1, <2>2 DEF Shape, TestShape, PageShape, SaveFits
<1>2. ASSUME NEW r \in Calls, Handler(r)
      PROVE  Shape'
  BY <1>2, CheckShape, ReadShape, CommitShape, RollbackShape, GeneratedShape, HealShape, DecideShape
     DEF Handler
<1>3. CASE Open \/ Type \/ Drag \/ RemoveLocal \/ Save
  <2>1. PageShape'
    BY <1>3, EditorPageShape
  <2>2. UNCHANGED <<step, code, req, versions, lock, log>>
    BY <1>3 DEF Open, Type, Drag, RemoveLocal, Save, Edit, testVars, logVars
  <2> QED
    BY <2>1, <2>2 DEF Shape, TestShape, RequestShape, Fits
<1>4. CASE SendNext \/ \E r \in Adders : Add(r)
  <2>1. RequestShape' /\ PageShape'
    BY <1>4, EditorRequestShape
  <2>2. UNCHANGED <<step, code, versions, lock, log>>
    BY <1>4 DEF SendNext, Add, testVars, logVars
  <2> QED
    BY <2>1, <2>2 DEF Shape, TestShape
<1>5. CASE UNCHANGED vars
  BY <1>5 DEF vars, testVars, logVars, Shape, TestShape, RequestShape, Fits, PageShape, SaveFits
<1> QED
  BY <1>1, <1>2, <1>3, <1>4, <1>5 DEF Next, Editor

-----------------------------------------------------------------------------
(* The lock and what was read under it                                     *)

Held == {"locked", "test read", "read"}

\* A transaction that took the lock has it until it ends, and no version is added meanwhile.
Locked(r)  == req[r].at \in Held => lock = r
Counted(r) == req[r].at = "read" => req[r].n = Len(versions)
Unfailed(r) == req[r].at # "failed"

\* Where nothing is healed or generated only edits are under way, and the test is still what
\* the one that has the lock read.
Plain(r) ==
  Without({"heal", "generate"}) /\ req[r].at \in Working =>
    req[r].op \in Edits /\ req[r].at \in Held \cup {"asked", "locking"}
Fresh(r) ==
  Without({"heal", "generate"}) =>
    /\ req[r].at \in {"test read", "read"} => req[r].snap.code = code
    /\ req[r].at = "read" => req[r].snap.step = step

Alone(r) == Locked(r) /\ Counted(r) /\ Unfailed(r) /\ Plain(r) /\ Fresh(r)

Exclusive == Shape /\ \A r \in Calls : Alone(r)

LEMMA ExclusiveInit == Init => Exclusive
<1> SUFFICES ASSUME Init PROVE Exclusive
  OBVIOUS
<1>1. \A r \in Calls : req[r].at = "new"
  BY DEF Init, NewRequest
<1> QED
  BY <1>1, ShapeInit DEF Exclusive, Alone, Locked, Counted, Unfailed, Plain, Fresh, Held, Working

\* A step of one request that is not about the lock or the versions, and under which the test
\* stays as it is where nothing is healed or generated.
LEMMA QuietStep ==
  ASSUME Exclusive, NEW r \in Calls, \A q \in Calls \ {r} : req'[q] = req[q],
         req'[r].at \notin Held \cup {"failed"}, UNCHANGED <<versions, lock, may>>,
         Without({"heal", "generate"}) => UNCHANGED <<step, code>>, Plain(r)'
  PROVE  \A q \in Calls : Alone(q)'
<1>1. Alone(r)'
  BY DEF Alone, Locked, Counted, Unfailed, Fresh, Held
<1>2. ASSUME NEW q \in Calls \ {r} PROVE Alone(q)'
  BY DEF Exclusive, Alone, Locked, Counted, Unfailed, Plain, Fresh, Without
<1> QED
  BY <1>1, <1>2

LEMMA EndsQuietly ==
  ASSUME Exclusive, NEW r \in Calls, Ends(r, "ok") \/ Ends(r, "refused"),
         UNCHANGED <<versions, lock, may>>,
         Without({"heal", "generate"}) => UNCHANGED <<step, code>>
  PROVE  \A q \in Calls : Alone(q)'
<1>1. req'[r].at \in {"ok", "refused"} /\ \A q \in Calls \ {r} : req'[q] = req[q]
  <2>1. PICK at \in {"ok", "refused"} :
          req' = [req EXCEPT ![r] = [NewRequest EXCEPT !.at = at, !.op = req[r].op]]
    BY DEF Ends
  <2>2. req \in [Calls -> Demand] /\ NewRequest \in Demand
    BY NewIsDemand DEF Exclusive, Shape, RequestShape
  <2> QED
    BY <2>1, <2>2 DEF Demand
<1>2. Plain(r)'
  BY <1>1 DEF Plain, Working
<1> QED
  BY <1>1, <1>2, QuietStep DEF Held

LEMMA MovesAre ==
  ASSUME Shape, NEW r \in Calls, NEW from, NEW to \in Working, Moves(r, from, to)
  PROVE  /\ req'[r].at = to /\ req'[r].op = req[r].op /\ req'[r].n = req[r].n
         /\ req'[r].snap = req[r].snap /\ \A q \in Calls \ {r} : req'[q] = req[q]
<1>1. req[r] \in Demand /\ req' = [req EXCEPT ![r].at = to]
  BY DEF Moves, Shape, RequestShape
<1> QED
  BY <1>1 DEF Shape, RequestShape, Demand

LEMMA RepliesAre ==
  ASSUME Shape, NEW r \in Calls, NEW at \in {"ok", "refused", "failed"}, Replies(r, at)
  PROVE  req'[r].at \in {at, "new"} /\ \A q \in Calls \ {r} : req'[q] = req[q]
<1>1. CASE Ends(r, at)
  BY <1>1, NewIsDemand DEF Ends, Shape, RequestShape, Demand
<1>2. CASE req' = [req EXCEPT ![r] = NewRequest]
  BY <1>2 DEF NewRequest, Shape, RequestShape
<1> QED
  BY <1>1, <1>2 DEF Replies

LEMMA AsksAlone ==
  ASSUME Exclusive, NEW r \in Calls, NEW op, Asks(r, op), UNCHANGED <<step, code, versions, lock, may>>,
         Without({"heal", "generate"}) => op \in Edits
  PROVE  \A q \in Calls : Alone(q)'
<1>1. Plain(r)'
  BY DEF Plain, Asks, Without
<1> QED
  BY <1>1, QuietStep DEF Asks, Held

LEMMA CheckAlone ==
  ASSUME Exclusive, NEW r \in Calls, Check(r)
  PROVE  \A q \in Calls : Alone(q)'
<1>1. UNCHANGED <<step, code, versions, lock, may>>
  BY DEF Check, testVars
<1>2. CASE Replies(r, "refused")
  <2>1. req'[r].at \in {"refused", "new"} /\ \A q \in Calls \ {r} : req'[q] = req[q]
    BY <1>2, RepliesAre DEF Exclusive
  <2>2. Plain(r)'
    BY <2>1 DEF Plain, Working
  <2> QED
    BY <1>1, <2>1, <2>2, QuietStep DEF Held
<1>3. CASE Moves(r, "asked", "locking")
  <2>1. /\ req'[r].at = "locking" /\ req'[r].op \in Edits
        /\ \A q \in Calls \ {r} : req'[q] = req[q]
    BY <1>3, MovesAre DEF Exclusive, Working, Check, Editing
  <2>2. Plain(r)'
    BY <2>1 DEF Plain
  <2> QED
    BY <1>1, <2>1, <2>2, QuietStep DEF Held
<1> QED
  BY <1>2, <1>3 DEF Check

LEMMA LockAlone ==
  ASSUME Exclusive, NEW r \in Calls, Lock(r)
  PROVE  \A q \in Calls : Alone(q)'
<1>1. /\ req'[r].at = "locked" /\ req'[r].op = req[r].op
      /\ \A q \in Calls \ {r} : req'[q] = req[q]
  BY MovesAre DEF Exclusive, Working, Lock
<1>2. req[r].at = "locking" /\ lock = None /\ lock' = r /\ UNCHANGED <<step, code, versions, may>>
  BY DEF Lock, Moves, testVars
<1>3. Alone(r)'
  BY <1>1, <1>2 DEF Exclusive, Alone, Locked, Counted, Unfailed, Plain, Fresh,
       Without, Working, Held
<1>4. ASSUME NEW q \in Calls \ {r} PROVE Alone(q)'
  <2>1. req[q].at \notin Held
    BY <1>2, AuthoringAssumption DEF Exclusive, Alone, Locked
  <2> QED
    BY <1>1, <1>2, <2>1 DEF Exclusive, Alone, Locked, Counted, Unfailed, Plain, Fresh, Without, Held
<1> QED
  BY <1>3, <1>4

LEMMA ReadAlone ==
  ASSUME Exclusive, NEW r \in Calls, ReadTest(r) \/ ReadSteps(r)
  PROVE  \A q \in Calls : Alone(q)'
<1> DEFINE d == req[r]
<1>0. d \in Demand /\ req \in [Calls -> Demand] /\ d.snap \in Contents
      /\ UNCHANGED <<step, code, versions, lock, may>>
  BY DEF Exclusive, Shape, RequestShape, Demand, ReadTest, ReadSteps, testVars
<1>1. \A q \in Calls \ {r} : req'[q] = req[q]
  BY <1>0 DEF ReadTest, ReadSteps
<1>2. ASSUME ReadTest(r) PROVE Alone(r)'
  <2>1. d.at = "locked" /\ req'[r] = [d EXCEPT !.at = "test read", !.snap.code = code]
    BY <1>0, <1>2 DEF ReadTest
  <2>2. req'[r].at = "test read" /\ req'[r].op = d.op /\ req'[r].snap.code = code
    BY <1>0, <2>1 DEF Demand, Contents
  <2> QED
    BY <1>0, <2>1, <2>2 DEF Exclusive, Alone, Locked, Counted, Unfailed, Plain, Fresh,
       Without, Working, Held
<1>3. ASSUME ReadSteps(r) PROVE Alone(r)'
  <2>1. /\ d.at = "test read"
        /\ req'[r] = [d EXCEPT !.at = "read", !.snap.step = step, !.n = Len(versions)]
    BY <1>0, <1>3 DEF ReadSteps
  <2>2. req'[r].at = "read" /\ req'[r].op = d.op /\ req'[r].n = Len(versions)
    BY <1>0, <2>1 DEF Demand
  <2>3. req'[r].snap = [d.snap EXCEPT !.step = step]
    BY <1>0, <2>1 DEF Demand
  <2>4. req'[r].snap.code = d.snap.code /\ req'[r].snap.step = step
    BY <1>0, <2>3 DEF Contents
  <2> QED
    BY <1>0, <2>1, <2>2, <2>4 DEF Exclusive, Alone, Locked, Counted, Unfailed, Plain, Fresh,
       Without, Working, Held
<1>4. ASSUME NEW q \in Calls \ {r} PROVE Alone(q)'
  BY <1>0, <1>1 DEF Exclusive, Alone, Locked, Counted, Unfailed, Plain, Fresh, Without
<1> QED
  BY <1>2, <1>3, <1>4

\* The end of a transaction: the others are not in one.
LEMMA CommitAlone ==
  ASSUME Exclusive, NEW r \in Calls, Commit(r)
  PROVE  \A q \in Calls : Alone(q)'
<1>1. req'[r].at \in {"ok", "new"} /\ \A q \in Calls \ {r} : req'[q] = req[q]
  BY RepliesAre DEF Commit, Exclusive
<1>2. lock = r /\ UNCHANGED may
  BY DEF Commit, Exclusive, Alone, Locked, Held
<1>3. ASSUME NEW q \in Calls \ {r} PROVE Alone(q)'
  <2>1. req[q].at \notin Held
    BY <1>2 DEF Exclusive, Alone, Locked
  <2> QED
    BY <1>1, <1>2, <2>1 DEF Exclusive, Alone, Locked, Counted, Unfailed, Plain, Fresh, Without, Held
<1> QED
  BY <1>1, <1>3 DEF Alone, Locked, Counted, Unfailed, Plain, Fresh, Working, Held

LEMMA RollbackAlone ==
  ASSUME Exclusive, NEW r \in Calls, Rollback(r)
  PROVE  \A q \in Calls : Alone(q)'
<1>1. Replies(r, "refused")
  BY DEF Rollback, Exclusive, Alone, Counted
<1>2. req'[r].at \in {"refused", "new"} /\ \A q \in Calls \ {r} : req'[q] = req[q]
  BY <1>1, RepliesAre DEF Exclusive
<1>3. UNCHANGED <<step, code, versions, may>> /\ lock' = IF lock = r THEN None ELSE lock
  BY DEF Rollback, testVars
<1>4. ASSUME NEW q \in Calls \ {r} PROVE Alone(q)'
  BY <1>2, <1>3 DEF Exclusive, Alone, Locked, Counted, Unfailed, Plain, Fresh, Without
<1> QED
  BY <1>2, <1>4 DEF Alone, Locked, Counted, Unfailed, Plain, Fresh, Working, Held

LEMMA PromptAlone ==
  ASSUME Exclusive, NEW r \in Calls, ReadForPrompt(r) \/ Generated(r)
  PROVE  \A q \in Calls : Alone(q)'
<1>1. ~Without({"heal", "generate"})
  BY DEF ReadForPrompt, Generated, Exclusive, Alone, Plain, Working, Edits, Held
<1>2. UNCHANGED <<versions, lock, may>>
  BY DEF ReadForPrompt, Generated
<1>3. CASE ReadForPrompt(r)
  <2>1. req'[r].at = "thinking" /\ \A q \in Calls \ {r} : req'[q] = req[q]
    BY <1>3 DEF ReadForPrompt, Exclusive, Shape, RequestShape, Demand
  <2> QED
    BY <1>1, <1>2, <2>1, QuietStep DEF Plain, Without, Held
<1>4. CASE Generated(r)
  BY <1>1, <1>2, <1>4, EndsQuietly DEF Generated
<1> QED
  BY <1>3, <1>4

LEMMA HealAlone ==
  ASSUME Exclusive, NEW r \in Calls,
         ReadStep(r) \/ Supersede(r) \/ CreateLog(r) \/ ReadLog(r) \/ Apply(r) \/ Mark(r) \/ Fails(r)
  PROVE  \A q \in Calls : Alone(q)'
<1>1. UNCHANGED <<versions, lock, may>> /\ (Fails(r) => UNCHANGED <<step, code>>)
  BY DEF ReadStep, Supersede, CreateLog, ReadLog, Apply, Mark, Fails, testVars
<1>2. ~Fails(r) => ~Without({"heal", "generate"})
  BY DEF ReadStep, Supersede, CreateLog, ReadLog, Apply, Mark, Moves, Exclusive, Alone, Plain, Working,
         Edits, Held
<1>3. CASE Ends(r, "ok") \/ Ends(r, "refused")
  BY <1>1, <1>2, <1>3, EndsQuietly
<1>4. CASE ~(Ends(r, "ok") \/ Ends(r, "refused"))
  <2>1. ~Without({"heal", "generate"})
    BY <1>2, <1>4 DEF Fails
  <2>2. req[r] \in Demand /\ req \in [Calls -> Demand]
    BY DEF Exclusive, Shape, RequestShape
  <2>3. req'[r].at \in {"superseding", "creating", "deciding", "marking"}
        /\ \A q \in Calls \ {r} : req'[q] = req[q]
    <3>1. CASE ReadStep(r)
      <4>1. req' = [req EXCEPT ![r] = [req[r] EXCEPT !.at = "superseding", !.old = step[req[r].s].sel]]
        BY <1>4, <3>1 DEF ReadStep
      <4> QED
        BY <2>2, <4>1 DEF Demand
    <3>2. CASE Supersede(r) \/ ReadLog(r) \/ Apply(r)
      <4>1. PICK to \in {"creating", "deciding", "marking"} : req' = [req EXCEPT ![r].at = to]
        BY <1>4, <3>2 DEF Supersede, ReadLog, Apply, Moves
      <4> QED
        BY <2>2, <4>1 DEF Demand
    <3>3. ~(CreateLog(r) \/ Mark(r) \/ Fails(r))
      BY <1>4 DEF CreateLog, Mark, Fails
    <3> QED
      BY <3>1, <3>2, <3>3
  <2> QED
    BY <1>1, <2>1, <2>3, QuietStep DEF Plain, Without, Held
<1> QED
  BY <1>3, <1>4

LEMMA ExclusiveStep == Exclusive /\ [Next]_vars => Exclusive'
<1> SUFFICES ASSUME Exclusive, [Next]_vars PROVE \A q \in Calls : Alone(q)'
  BY ShapeStep DEF Exclusive
<1>1. ASSUME NEW r \in Requests, AskEdit(r) \/ AskHeal(r) \/ AskGenerate(r)
      PROVE  \A q \in Calls : Alone(q)'
  <2>1. UNCHANGED <<step, code, versions, lock, may>>
    BY <1>1 DEF AskEdit, AskHeal, AskGenerate, Asked, testVars
  <2>2. PICK op : Asks(r, op) /\ (Without({"heal", "generate"}) => op \in Edits)
    <3>1. CASE AskEdit(r)
      BY <3>1, AskEditShape DEF Exclusive, Shape
    <3>2. CASE AskHeal(r)
      BY <3>2, AskHealShape DEF Exclusive, Shape, AskHeal, Without
    <3>3. CASE AskGenerate(r)
      BY <3>3, AskGenerateShape DEF Exclusive, Shape, AskGenerate, Without
    <3> QED
      BY <1>1, <3>1, <3>2, <3>3
  <2> QED
    BY <2>1, <2>2, AsksAlone
<1>2. ASSUME NEW r \in Calls, Handler(r)
      PROVE  \A q \in Calls : Alone(q)'
  BY <1>2, CheckAlone, LockAlone, ReadAlone, CommitAlone, RollbackAlone, PromptAlone, HealAlone
     DEF Handler
<1>3. CASE SendNext \/ \E r \in Adders : Add(r)
  <2>1. UNCHANGED <<step, code, versions, lock, may>>
    BY <1>3 DEF SendNext, Add, testVars
  <2>2. PICK r \in Calls, op \in Edits : Asks(r, op)
    BY <1>3, EditorRequestShape DEF Exclusive
  <2> QED
    BY <2>1, <2>2, AsksAlone
<1>4. CASE UNCHANGED <<step, code, versions, lock, req, may>>
  BY <1>4 DEF Exclusive, Alone, Locked, Counted, Unfailed, Plain, Fresh, Without
<1>5. Open \/ Type \/ Drag \/ RemoveLocal \/ Save \/ UNCHANGED vars
      => UNCHANGED <<step, code, versions, lock, req, may>>
  BY DEF Open, Type, Drag, RemoveLocal, Save, Edit, vars, testVars
<1> QED
  BY <1>1, <1>2, <1>3, <1>4, <1>5 DEF Next, Editor

-----------------------------------------------------------------------------
(* Decisions on proposals                                                  *)

OneByOne == Without({"overlap", "error"})

\* Only a request that decides gets to where decisions are written, and alone if it is one by
\* one. What is about to be applied was not rejected, what is about to be rejected not applied.
Decision(r) ==
  /\ req[r].at \in {"deciding", "marking"} => Deciding(r)
  /\ req[r].at = "deciding" => req[r].op = "approve"
  /\ Deciding(r) => r \in Requests
  /\ OneByOne /\ Deciding(r) => \A q \in Calls : Deciding(q) => q = r
  /\ OneByOne /\ req[r].at = "deciding" => log[req[r].of].st # "rejected"
  /\ OneByOne /\ req[r].at = "marking" /\ req[r].op = "reject" => req[r].of \notin applied

\* A proposal is one of a request that was answered, and never comes back.
Made(l) == log[l].st # "none" \/ log[l].s # None \/ l \in applied => req[l].at = "ok"

\* What was applied while it is pending is about to be marked.
Marker(l, r) == req[r].at = "marking" /\ req[r].op = "approve" /\ req[r].of = l
Settled(l) ==
  OneByOne /\ l \in applied =>
    log[l].st # "rejected" /\ (log[l].st = "pending" => \E r \in Calls : Marker(l, r))

Decided ==
  /\ Shape /\ applied \subseteq Requests
  /\ \A r \in Calls : Decision(r)
  /\ \A l \in Requests : Made(l) /\ Settled(l)

LEMMA DecidedInit == Init => Decided
<1> SUFFICES ASSUME Init PROVE Decided
  OBVIOUS
<1>1. \A r \in Calls : req[r].at = "new"
  BY DEF Init, NewRequest
<1>2. \A l \in Requests : log[l].st = "none" /\ log[l].s = None
  BY DEF Init, NoProposal
<1>3. applied = {}
  BY DEF Init
<1> QED
  BY <1>1, <1>2, <1>3, ShapeInit DEF Decided, Decision, Deciding, Over, Made, Settled

\* A step of one request that decides nothing.
LEMMA UndecidedStep ==
  ASSUME Decided, Shape', NEW r \in Calls, \A q \in Calls \ {r} : req'[q] = req[q],
         UNCHANGED <<log, applied, may>>, req[r].at \in Working \cup {"new"},
         req'[r].at \notin {"deciding", "marking"}, OneByOne => req[r].at # "marking",
         Deciding(r)' => /\ r \in Requests
                         /\ OneByOne => \A q \in Calls : Deciding(q) => q = r
  PROVE  Decided'
<1>1. OneByOne' = OneByOne /\ \A q \in Calls \ {r} : Deciding(q)' = Deciding(q)
  BY DEF OneByOne, Without, Deciding, Over
<1>2. Decision(r)'
  BY <1>1 DEF Decision
<1>3. ASSUME NEW q \in Calls \ {r} PROVE Decision(q)'
  BY <1>1 DEF Decided, Decision
<1>4. ASSUME NEW l \in Requests PROVE Made(l)'
  <2>1. req[l].at = "ok" => l # r
    BY DEF Working
  <2> QED
    BY <2>1 DEF Decided, Made
<1>5. ASSUME NEW l \in Requests PROVE Settled(l)'
  <2>1. \A q \in Calls : OneByOne /\ Marker(l, q) => Marker(l, q)'
    BY DEF Marker
  <2> QED
    BY <1>1, <2>1 DEF Decided, Settled
<1> QED
  BY <1>2, <1>3, <1>4, <1>5 DEF Decided

LEMMA EditsDecideNothing ==
  ASSUME Decided, Shape', NEW r \in Calls,
         Check(r) \/ Lock(r) \/ ReadTest(r) \/ ReadSteps(r) \/ Rollback(r) \/ ReadForPrompt(r)
         \/ Generated(r) \/ Fails(r) \/ ReadStep(r)
  PROVE  Decided'
<1>1. UNCHANGED <<log, applied, may>>
  BY DEF Check, Lock, ReadTest, ReadSteps, Rollback, ReadForPrompt, Generated, Fails, ReadStep, logVars
<1>2. req[r] \in Demand /\ req \in [Calls -> Demand]
  BY DEF Decided, Shape, RequestShape
<1>3. req[r].at \in Working /\ (OneByOne => req[r].at # "marking")
  BY <1>2 DEF Check, Lock, ReadTest, ReadSteps, Rollback, ReadForPrompt, Generated, Fails, ReadStep, Moves,
         Over, OneByOne, Without, Working, Demand
<1>4. ASSUME NEW at \in {"ok", "refused", "failed"}, Replies(r, at) \/ Ends(r, at)
      PROVE  req'[r].at \in {at, "new"} /\ \A q \in Calls \ {r} : req'[q] = req[q]
  <2>1. CASE Replies(r, at)
    BY <2>1, RepliesAre DEF Decided
  <2>2. CASE Ends(r, at)
    BY <1>2, <2>2, NewIsDemand DEF Ends, Demand
  <2> QED
    BY <1>4, <2>1, <2>2
<1>5. CASE \E at \in {"ok", "refused", "failed"} : Replies(r, at) \/ Ends(r, at)
  <2>1. req'[r].at \in {"ok", "refused", "failed", "new"} /\ \A q \in Calls \ {r} : req'[q] = req[q]
    BY <1>4, <1>5
  <2> QED
    BY <1>1, <1>3, <2>1, UndecidedStep DEF Deciding, Over
<1>6. CASE ~\E at \in {"ok", "refused", "failed"} : Replies(r, at) \/ Ends(r, at)
  <2>1. /\ req'[r].at \in {"locking", "locked", "test read", "read", "thinking", "superseding"}
        /\ req'[r].op = req[r].op /\ \A q \in Calls \ {r} : req'[q] = req[q]
    <3>1. CASE Check(r) \/ Lock(r)
      <4>1. PICK from \in Working, to \in {"locking", "locked"} : Moves(r, from, to)
        BY <1>6, <3>1 DEF Check, Lock, Moves, Working
      <4> QED
        BY <4>1, MovesAre DEF Decided, Working
    <3>2. CASE ReadTest(r)
      BY <1>2, <3>2 DEF ReadTest, Demand
    <3>3. CASE ReadSteps(r)
      BY <1>2, <3>3 DEF ReadSteps, Demand
    <3>4. CASE ReadForPrompt(r)
      BY <1>2, <3>4 DEF ReadForPrompt, Demand
    <3>5. CASE ReadStep(r)
      <4>1. req' = [req EXCEPT ![r] = [req[r] EXCEPT !.at = "superseding", !.old = step[req[r].s].sel]]
        BY <1>6, <3>5 DEF ReadStep
      <4> QED
        BY <1>2, <4>1 DEF Demand
    <3>6. ~(Rollback(r) \/ Generated(r) \/ Fails(r))
      BY <1>6 DEF Rollback, Generated, Fails
    <3> QED
      BY <3>1, <3>2, <3>3, <3>4, <3>5, <3>6
  <2>2. Deciding(r)' => Deciding(r)
    BY <1>3, <2>1 DEF Deciding, Over, Working
  <2> QED
    BY <1>1, <1>3, <2>1, <2>2, UndecidedStep DEF Decided, Decision
<1> QED
  BY <1>5, <1>6

LEMMA AsksDecideNothing ==
  ASSUME Decided, Shape', NEW r \in Calls, NEW op, Asks(r, op), UNCHANGED <<log, applied, may>>,
         req[r].at = "new",
         op \in {"approve", "reject"} =>
           r \in Requests /\ ("overlap" \in may \/ ~\E q \in Requests : Deciding(q))
  PROVE  Decided'
<1>1. Deciding(r)' => op \in {"approve", "reject"}
  BY DEF Asks, Deciding
<1>2. OneByOne /\ op \in {"approve", "reject"} => \A q \in Calls : ~Deciding(q)
  BY DEF OneByOne, Without, Decided, Decision
<1> QED
  BY <1>1, <1>2, UndecidedStep DEF Asks

\* The steps of a proposal.
LEMMA SupersedeDecided ==
  ASSUME Decided, Shape', NEW r \in Calls, Supersede(r)
  PROVE  Decided'
<1>1. /\ req'[r].at = "creating" /\ req'[r].op = req[r].op /\ req[r].at = "superseding"
      /\ \A q \in Calls \ {r} : req'[q] = req[q]
  BY MovesAre DEF Supersede, Decided, Working, Moves
<1>2. Deciding(r)' = Deciding(r) /\ \A q \in Calls \ {r} : Deciding(q)' = Deciding(q)
  BY <1>1 DEF Deciding, Over
<1>3. UNCHANGED <<applied, may>> /\ OneByOne' = OneByOne
  BY DEF Supersede, OneByOne, Without
<1>4. ASSUME NEW l \in Requests
      PROVE  /\ log'[l].s = log[l].s
             /\ \/ log'[l].st = log[l].st
                \/ log[l].st = "pending" /\ log'[l].st = "superseded"
  <2>1. /\ log[l] \in Proposal
        /\ \/ log'[l] = log[l]
           \/ log[l].st = "pending" /\ log'[l] = [log[l] EXCEPT !.st = "superseded"]
    BY DEF Supersede, Pending, Decided, Shape
  <2> QED
    BY <2>1 DEF Proposal
<1>5. \A q \in Calls : Decision(q)'
  <2>1. \A q \in Calls : req[q].at = "deciding" => req[q].of \in Requests
    BY DEF Decided, Shape, RequestShape, Fits, Working
  <2>2. ASSUME NEW q \in Calls \ {r} PROVE Decision(q)'
    BY <1>1, <1>2, <1>3, <1>4, <2>1, <2>2 DEF Decided, Decision
  <2>3. Decision(r)'
    BY <1>1, <1>2, <1>3 DEF Decided, Decision
  <2> QED
    BY <2>2, <2>3
<1>6. \A l \in Requests : Made(l)'
  BY <1>1, <1>2, <1>3, <1>4 DEF Decided, Made
<1>7. \A l \in Requests : Settled(l)'
  <2>1. \A l \in Requests, q \in Calls : Marker(l, q) => Marker(l, q)'
    BY <1>1, <1>2 DEF Marker
  <2> QED
    BY <1>3, <1>4, <2>1 DEF Decided, Settled
<1> QED
  BY <1>3, <1>5, <1>6, <1>7 DEF Decided

LEMMA CreateDecided ==
  ASSUME Decided, Shape', NEW r \in Calls, CreateLog(r)
  PROVE  Decided'
<1>1. CASE Ends(r, "refused") /\ UNCHANGED log
  <2>1. req'[r].at = "refused" /\ \A q \in Calls \ {r} : req'[q] = req[q]
    BY <1>1, NewIsDemand DEF Ends, Demand, Decided, Shape, RequestShape
  <2>2. UNCHANGED <<log, applied, may>> /\ req[r].at = "creating"
    BY <1>1 DEF CreateLog
  <2> QED
    BY <2>1, <2>2, UndecidedStep DEF Deciding, Over, Working
<1>2. CASE log' = [log EXCEPT ![r] = [st |-> "pending", s |-> req[r].s, old |-> req[r].old]] /\ Ends(r, "ok")
  <2>1. req'[r].at = "ok" /\ \A q \in Calls \ {r} : req'[q] = req[q]
    BY <1>2, NewIsDemand DEF Ends, Demand, Decided, Shape, RequestShape
  <2>2. UNCHANGED <<applied, may>> /\ OneByOne' = OneByOne /\ req[r].at = "creating"
    BY DEF CreateLog, OneByOne, Without
  <2>3. \A l \in Requests : IF l = r THEN log'[l].st = "pending" ELSE log'[l] = log[l]
    BY <1>2 DEF Decided, Shape
  <2>4. ~Deciding(r)' /\ \A q \in Calls \ {r} : Deciding(q)' = Deciding(q)
    BY <2>1 DEF Deciding, Over
  <2>5. \A q \in Calls : Decision(q)'
    <3>1. \A q \in Calls : req[q].at = "deciding" => req[q].of \in Requests
      BY DEF Decided, Shape, RequestShape, Fits, Working
    <3> QED
      BY <2>1, <2>2, <2>3, <2>4, <3>1 DEF Decided, Decision
  <2>6. \A l \in Requests : Made(l)'
    BY <2>1, <2>2, <2>3 DEF Decided, Made
  <2>7. \A l \in Requests : Settled(l)'
    <3>1. r \notin Requests \/ r \notin applied
      BY <2>2 DEF Decided, Made
    <3>2. \A l \in Requests, q \in Calls : Marker(l, q) => Marker(l, q)'
      BY <2>1, <2>2 DEF Marker
    <3> QED
      BY <2>2, <2>3, <3>1, <3>2 DEF Decided, Settled
  <2> QED
    BY <2>2, <2>5, <2>6, <2>7 DEF Decided
<1> QED
  BY <1>1, <1>2 DEF CreateLog

\* The steps of a decision.
LEMMA ReadLogDecided ==
  ASSUME Decided, Shape', NEW r \in Calls, ReadLog(r)
  PROVE  Decided'
<1>1. UNCHANGED <<log, applied, may>> /\ OneByOne' = OneByOne /\ req[r].at = "asked"
      /\ req[r].op \in {"approve", "reject"}
  BY DEF ReadLog, OneByOne, Without, logVars
<1>2. CASE Ends(r, "refused")
  <2>1. req'[r].at = "refused" /\ \A q \in Calls \ {r} : req'[q] = req[q]
    BY <1>2, NewIsDemand DEF Ends, Demand, Decided, Shape, RequestShape
  <2> QED
    BY <1>1, <2>1, UndecidedStep DEF Deciding, Over, Working
<1>3. CASE ~Ends(r, "refused")
  <2>1. /\ req' = [req EXCEPT ![r].at = IF req[r].op = "approve" THEN "deciding" ELSE "marking"]
        /\ log[req[r].of].st = "pending"
    BY <1>3 DEF ReadLog
  <2>2. req[r] \in Demand /\ req \in [Calls -> Demand] /\ req[r].of \in Requests
    BY <1>1 DEF Decided, Shape, RequestShape, Fits, Working
  <2>3. /\ req'[r].at = IF req[r].op = "approve" THEN "deciding" ELSE "marking"
        /\ req'[r].op = req[r].op /\ req'[r].of = req[r].of
        /\ \A q \in Calls \ {r} : req'[q] = req[q]
    BY <2>1, <2>2 DEF Demand
  <2>4. Deciding(r) /\ \A q \in Calls : Deciding(q)' = Deciding(q)
    BY <1>1, <2>3 DEF Deciding, Over
  <2>5. OneByOne => req[r].of \notin applied
    <3>1. ASSUME OneByOne, NEW q \in Calls, Marker(req[r].of, q) PROVE FALSE
      <4>1. Deciding(q) /\ q # r
        BY <1>1, <3>1 DEF Marker, Decided, Decision
      <4> QED
        BY <2>4, <3>1, <4>1 DEF Decided, Decision
    <3> QED
      BY <2>1, <2>2, <3>1 DEF Decided, Settled
  <2>6. \A q \in Calls : Decision(q)'
    BY <1>1, <2>1, <2>3, <2>4, <2>5 DEF Decided, Decision
  <2>7. \A l \in Requests : Made(l)'
    BY <1>1, <2>3 DEF Decided, Made
  <2>8. \A l \in Requests : Settled(l)'
    <3>1. \A l \in Requests, q \in Calls : Marker(l, q) => Marker(l, q)'
      BY <1>1, <2>3 DEF Marker
    <3> QED
      BY <1>1, <3>1 DEF Decided, Settled
  <2> QED
    BY <1>1, <2>6, <2>7, <2>8 DEF Decided
<1> QED
  BY <1>2, <1>3

LEMMA ApplyDecided ==
  ASSUME Decided, Shape', NEW r \in Calls, Apply(r)
  PROVE  Decided'
<1>1. UNCHANGED <<log, may>> /\ OneByOne' = OneByOne /\ req[r].at = "deciding"
  BY DEF Apply, OneByOne, Without
<1>2. req[r] \in Demand /\ req \in [Calls -> Demand] /\ req[r].of \in Requests
  BY <1>1 DEF Decided, Shape, RequestShape, Fits, Working
<1> PICK l \in Requests : l = req[r].of
  BY <1>2
<1>3. CASE Ends(r, "refused") /\ UNCHANGED applied
  <2>1. req'[r].at = "refused" /\ \A q \in Calls \ {r} : req'[q] = req[q]
    BY <1>2, <1>3, NewIsDemand DEF Ends, Demand
  <2> QED
    BY <1>1, <1>3, <2>1, UndecidedStep DEF Deciding, Over, Working
<1>4. CASE log[l].s \in Present /\ applied' = applied \cup {l} /\ Moves(r, "deciding", "marking")
  <2>1. /\ req'[r].at = "marking" /\ req'[r].op = "approve" /\ req'[r].of = l
        /\ \A q \in Calls \ {r} : req'[q] = req[q]
    <3>1. req[r].op = "approve"
      BY <1>1 DEF Decided, Decision
    <3> QED
      BY <1>2, <1>4, <3>1 DEF Moves, Demand
  <2>2. Deciding(r) /\ \A q \in Calls : Deciding(q)' = Deciding(q)
    <3>1. Deciding(r) /\ req[r].op = "approve"
      BY <1>1 DEF Decided, Decision
    <3> QED
      BY <1>1, <2>1, <3>1 DEF Deciding, Over
  <2>3. \A q \in Calls : OneByOne /\ Deciding(q) => q = r
    BY <2>2 DEF Decided, Decision
  <2>4. log[l].s # None
    BY <1>4, AuthoringAssumption DEF Present
  <2>5. \A q \in Calls : Decision(q)'
    BY <1>1, <2>1, <2>2, <2>3 DEF Decided, Decision
  <2>6. \A k \in Requests : Made(k)'
    BY <1>1, <1>2, <1>4, <2>1, <2>4 DEF Decided, Made
  <2>7. \A k \in Requests : Settled(k)'
    <3>1. Marker(l, r)' /\ (OneByOne => log[l].st # "rejected")
      BY <1>1, <2>1 DEF Marker, Decided, Decision
    <3>2. \A k \in Requests, q \in Calls : Marker(k, q) => Marker(k, q)'
      BY <1>1, <2>1 DEF Marker
    <3>3. Settled(l)'
      BY <1>1, <3>1 DEF Settled
    <3>4. ASSUME NEW k \in Requests \ {l} PROVE Settled(k)'
      BY <1>1, <1>4, <3>2 DEF Decided, Settled
    <3> QED
      BY <3>3, <3>4
  <2> QED
    BY <1>2, <1>4, <2>5, <2>6, <2>7 DEF Decided
<1> QED
  BY <1>3, <1>4 DEF Apply

LEMMA MarkDecided ==
  ASSUME Decided, Shape', NEW r \in Calls, Mark(r)
  PROVE  Decided'
<1> DEFINE l == req[r].of
           st == IF req[r].op = "approve" THEN "approved" ELSE "rejected"
<1>1. UNCHANGED <<applied, may>> /\ OneByOne' = OneByOne /\ req[r].at = "marking"
  BY DEF Mark, OneByOne, Without
<1>2. req[r] \in Demand /\ req \in [Calls -> Demand] /\ l \in Requests
  BY <1>1 DEF Decided, Shape, RequestShape, Fits, Working
<1>3. PICK at \in {"ok", "refused"} : Ends(r, at)
  BY DEF Mark
<1>4. req'[r].at = at /\ \A q \in Calls \ {r} : req'[q] = req[q]
  BY <1>2, <1>3, NewIsDemand DEF Ends, Demand
<1>5. ~Deciding(r)' /\ \A q \in Calls \ {r} : Deciding(q)' = Deciding(q)
  BY <1>4 DEF Deciding, Over
<1>6. Deciding(r) /\ \A q \in Calls : OneByOne /\ Deciding(q) => q = r
  BY <1>1 DEF Decided, Decision
<1>7. \A k \in Requests :
        /\ log'[k].s = log[k].s
        /\ IF k = l /\ log[l].st # "none" THEN log'[k].st = st ELSE log'[k].st = log[k].st
  <2>1. \A k \in Requests : log[k] \in Proposal
    BY DEF Decided, Shape, Proposal
  <2>2. log' = IF log[l].st # "none" THEN [log EXCEPT ![l].st = st] ELSE log
    BY DEF Mark
  <2>3. CASE log[l].st = "none"
    BY <2>2, <2>3
  <2>4. CASE log[l].st # "none"
    <3>1. \A k \in Requests : log'[k] = IF k = l THEN [log[l] EXCEPT !.st = st] ELSE log[k]
      BY <1>2, <2>2, <2>4 DEF Decided, Shape
    <3>2. [log[l] EXCEPT !.st = st].st = st /\ [log[l] EXCEPT !.st = st].s = log[l].s
      BY <1>2, <2>1 DEF Proposal
    <3> QED
      BY <2>4, <3>1, <3>2
  <2> QED
    BY <2>3, <2>4
<1>8. \A q \in Calls : Decision(q)'
  <2>1. ASSUME OneByOne, NEW q \in Calls \ {r} PROVE req[q].at \notin {"deciding", "marking"}
    BY <1>6, <2>1 DEF Decided, Decision
  <2> QED
    BY <1>1, <1>4, <1>5, <1>6, <2>1 DEF Decided, Decision
<1>9. \A k \in Requests : Made(k)'
  BY <1>1, <1>4, <1>7 DEF Decided, Made
<1>10. \A k \in Requests : Settled(k)'
  <2>1. ASSUME OneByOne, NEW k \in Requests, k \in applied, log[k].st = "pending"
        PROVE  k = l /\ req[r].op = "approve"
    <3>1. PICK q \in Calls : Marker(k, q)
      BY <2>1 DEF Decided, Settled
    <3>2. Deciding(q)
      BY <3>1 DEF Marker, Decided, Decision
    <3> QED
      BY <1>6, <2>1, <3>1, <3>2 DEF Marker
  <2>2. OneByOne /\ l \in applied => req[r].op = "approve"
    BY <1>1, <1>6 DEF Decided, Decision, Deciding
  <2> QED
    BY <1>1, <1>7, <2>1, <2>2 DEF Decided, Settled
<1> QED
  BY <1>1, <1>8, <1>9, <1>10 DEF Decided

\* A commit takes the proposals of a step that it removes with it.
LEMMA CommitDecided ==
  ASSUME Decided, Shape', NEW r \in Calls, Commit(r)
  PROVE  Decided'
<1>1. req'[r].at \in {"ok", "new"} /\ \A q \in Calls \ {r} : req'[q] = req[q]
  BY RepliesAre DEF Commit, Decided
<1>2. UNCHANGED <<applied, may>> /\ OneByOne' = OneByOne /\ req[r].at = "read"
  BY DEF Commit, OneByOne, Without
<1>3. ~Deciding(r)' /\ \A q \in Calls \ {r} : Deciding(q)' = Deciding(q)
  BY <1>1 DEF Deciding, Over
<1>4. ASSUME NEW l \in Requests
      PROVE  log'[l] = log[l] \/ (log'[l].st = "none" /\ log'[l].s = None)
  <2> DEFINE Goes(k) == log[k].s # None /\ step'[log[k].s] = Gone
  <2>1. log' = [k \in Requests |-> IF Goes(k) THEN NoProposal ELSE log[k]]
    BY DEF Commit
  <2> HIDE DEF Goes
  <2>2. log'[l] = log[l] \/ log'[l] = NoProposal
    BY <2>1
  <2> QED
    BY <2>2 DEF NoProposal
<1>5. \A q \in Calls : Decision(q)'
  <2>1. \A q \in Calls : req[q].at = "deciding" => req[q].of \in Requests
    BY DEF Decided, Shape, RequestShape, Fits, Working
  <2> QED
    BY <1>1, <1>2, <1>3, <1>4, <2>1 DEF Decided, Decision
<1>6. \A l \in Requests : Made(l)'
  BY <1>1, <1>2, <1>4 DEF Decided, Made
<1>7. \A l \in Requests : Settled(l)'
  <2>1. \A l \in Requests, q \in Calls : Marker(l, q) => Marker(l, q)'
    BY <1>1, <1>2 DEF Marker
  <2> QED
    BY <1>2, <1>4, <2>1 DEF Decided, Settled
<1> QED
  BY <1>2, <1>5, <1>6, <1>7 DEF Decided

LEMMA DecidedStep == Decided /\ [Next]_vars => Decided'
<1> SUFFICES ASSUME Decided, [Next]_vars PROVE Decided'
  OBVIOUS
<1>0. Shape'
  BY ShapeStep DEF Decided
<1>1. ASSUME NEW r \in Requests, AskEdit(r) \/ AskHeal(r) \/ AskGenerate(r)
      PROVE  Decided'
  <2>1. UNCHANGED <<log, applied, may>> /\ req[r].at = "new"
    BY <1>1 DEF AskEdit, AskHeal, AskGenerate, Asked, logVars
  <2>2. PICK op : /\ Asks(r, op)
                  /\ op \in {"approve", "reject"} =>
                       "overlap" \in may \/ ~\E d \in Requests : Deciding(d)
    <3>1. CASE AskEdit(r)
      BY <3>1, AskEditShape DEF Decided, Shape, Edits
    <3>2. CASE AskHeal(r)
      BY <3>2, AskHealShape DEF Decided, Shape
    <3>3. CASE AskGenerate(r)
      BY <3>3, AskGenerateShape DEF Decided, Shape
    <3> QED
      BY <1>1, <3>1, <3>2, <3>3
  <2> QED
    BY <1>0, <2>1, <2>2, AsksDecideNothing
<1>2. ASSUME NEW r \in Calls, Handler(r)
      PROVE  Decided'
  BY <1>0, <1>2, EditsDecideNothing, SupersedeDecided, CreateDecided, ReadLogDecided, ApplyDecided,
     MarkDecided, CommitDecided DEF Handler
<1>3. CASE SendNext \/ \E r \in Adders : Add(r)
  <2>1. UNCHANGED <<log, applied, may>>
    BY <1>3 DEF SendNext, Add, logVars
  <2>2. PICK r \in Calls, op \in Edits : Asks(r, op) /\ req[r].at = "new"
    BY <1>3, EditorRequestShape DEF Decided
  <2> QED
    BY <1>0, <2>1, <2>2, AsksDecideNothing DEF Edits
<1>4. CASE UNCHANGED <<req, log, applied, may>>
  BY <1>0, <1>4 DEF Decided, Decision, Deciding, Over, Made, Settled, Marker, OneByOne, Without
<1>5. Open \/ Type \/ Drag \/ RemoveLocal \/ Save \/ UNCHANGED vars
      => UNCHANGED <<req, log, applied, may>>
  BY DEF Open, Type, Drag, RemoveLocal, Save, Edit, vars, logVars
<1> QED
  BY <1>1, <1>2, <1>3, <1>4, <1>5 DEF Next, Editor

-----------------------------------------------------------------------------
(* Which steps there are and which were                                    *)

\* The test has the step or one of its versions has it.
Known(s) == step[s] # Gone \/ \E n \in 1..Len(versions) : versions[n].step[s] # Gone

Ever     == {s \in Steps : Known(s)}

\* The identity is the one that a request is going to give.
Creates(r, s) == req[r].op = "create" /\ req[r].s = s
Reserves(r) ==
  \A s \in Steps : Creates(r, s) => ~Known(s) /\ \A q \in Calls \ {r} : ~Creates(q, s)

\* What a transaction read has the steps that the test has.
Mirrors(r) ==
  req[r].at = "read" => \A s \in Steps : req[r].snap.step[s] = Gone <=> step[s] = Gone

\* No step is shown twice, and none that never was.
ShowsOnce ==
  \A i, j \in 1..Len(page.shown) :
    page.shown[i].id \in Ever /\ (i # j => page.shown[i].id # page.shown[j].id)

IdentityInv == (\A r \in Calls : Reserves(r) /\ Mirrors(r)) /\ ShowsOnce

\* The places are as the type of the state has them.
Rows   == [Steps -> StepRow \cup {Gone}]
Places == [Steps -> 0..MaxOrder \cup {None}]

Low(lines) == \A i \in 1..Len(lines) : lines[i].order <= MaxOrder

BoundInv ==
  /\ step \in Rows /\ docs \in Rows
  /\ \A n \in 1..Len(versions) : versions[n].step \in Rows
  /\ \A r \in Calls : req[r].snap.step \in Rows /\ req[r].orders \in Places
  /\ Low(page.shown) /\ Low(page.saves)
  /\ applied \subseteq Requests /\ may \subseteq Circumstances

PlacedInv == Exclusive /\ IdentityInv /\ BoundInv

\* What a step does to the request that makes it: one is made, goes on or ends.
Begun(r) ==
  /\ req'[r].at = "asked" /\ req'[r].snap = NoContent /\ req'[r].orders \in Places
  /\ req'[r].op = "create" => req'[r].s \in Unused /\ UNCHANGED <<step, versions>>
GoesOn(r) ==
  /\ req'[r].at \in Working
  /\ req'[r].op = req[r].op /\ req'[r].s = req[r].s /\ req'[r].sel = req[r].sel
  /\ req'[r].orders = req[r].orders
  /\ req'[r].snap.step \in {req[r].snap.step, step}
  /\ req'[r].at = "read" => req'[r].snap.step = step /\ UNCHANGED <<step, versions>>
Ended(r) ==
  /\ req'[r].at \in {"ok", "refused", "failed", "new"} /\ req'[r].s = None
  /\ req'[r].orders = NoOrders /\ req'[r].snap = NoContent

Lone(r) == \A q \in Calls \ {r} : req'[q] = req[q]

LEMMA NothingIsPlaced == MaxOrder \in Nat /\ NoContent.step \in Rows /\ NoOrders \in Places
<1>1. MaxOrder \in Nat
  BY AuthoringAssumption, FS_CardinalityType DEF MaxOrder
<1> QED
  BY <1>1 DEF NoContent, NoOrders, Rows, Places

LEMMA EndsEnds ==
  ASSUME Shape, NEW r \in Calls, NEW at \in {"ok", "refused", "failed"}, Ends(r, at)
  PROVE  Lone(r) /\ Ended(r)
<1>1. req' = [req EXCEPT ![r] = [NewRequest EXCEPT !.at = at, !.op = req[r].op]]
  BY DEF Ends
<1> QED
  BY <1>1 DEF Shape, RequestShape, NewRequest, Lone, Ended

LEMMA RepliesEnd ==
  ASSUME Shape, NEW r \in Calls, NEW at \in {"ok", "refused", "failed"}, Replies(r, at)
  PROVE  Lone(r) /\ Ended(r)
<1>1. CASE Ends(r, at)
  BY <1>1, EndsEnds
<1>2. CASE req' = [req EXCEPT ![r] = NewRequest]
  BY <1>2 DEF Shape, RequestShape, NewRequest, Lone, Ended
<1> QED
  BY <1>1, <1>2 DEF Replies

LEMMA MovesGoOn ==
  ASSUME Shape, NEW r \in Calls, NEW from, NEW to \in Working \ {"read"}, Moves(r, from, to)
  PROVE  Lone(r) /\ GoesOn(r)
<1>1. req[r] \in Demand /\ req \in [Calls -> Demand] /\ req' = [req EXCEPT ![r] = [req[r] EXCEPT !.at = to]]
  BY DEF Moves, Shape, RequestShape
<1>2. Lone(r) /\ req'[r] = [req[r] EXCEPT !.at = to]
  BY <1>1 DEF Lone
<1>3. /\ req'[r].at = to /\ req'[r].op = req[r].op /\ req'[r].s = req[r].s
      /\ req'[r].sel = req[r].sel /\ req'[r].orders = req[r].orders /\ req'[r].snap = req[r].snap
  BY <1>1, <1>2 DEF Demand
<1> QED
  BY <1>2, <1>3 DEF GoesOn

LEMMA AskedBegins ==
  ASSUME Shape, NEW r \in Requests, NEW q \in Demand, Asked(r, q), q.snap = NoContent,
         q.orders \in Places, q.op = "create" => q.s \in Unused
  PROVE  Lone(r) /\ Begun(r)
<1> DEFINE p == [q EXCEPT !.at = "asked"]
<1>1. p.at = "asked" /\ p.op = q.op /\ p.s = q.s /\ p.orders = q.orders /\ p.snap = q.snap
  BY DEF Demand
<1>2. req \in [Calls -> Demand] /\ req' = [req EXCEPT ![r] = p] /\ UNCHANGED <<step, versions>>
  BY DEF Asked, testVars, Shape, RequestShape
<1> HIDE DEF p
<1>3. Lone(r) /\ req'[r] = p
  BY <1>2 DEF Lone
<1> QED
  BY <1>1, <1>2, <1>3 DEF Begun

\* What is asked for begins with places that the type of the state has.
LEMMA AskEditBegins ==
  ASSUME PlacedInv, NEW r \in Requests, AskEdit(r)
  PROVE  Lone(r) /\ Begun(r)
<1> USE DEF PlacedInv, Exclusive
<1>0. /\ \A op \in Edits : /\ New(op) \in Demand /\ New(op).op = op /\ New(op).orders = NoOrders
                           /\ New(op).snap = NoContent
      /\ MaxOrder \in Nat /\ NoOrders \in Places /\ r \in Writers
  BY NewFields, NothingIsPlaced DEF Ops, Writers
<1>1. ASSUME NEW s \in Unused,
             Asked(r, [New("create") EXCEPT !.s = s, !.sel = r,
                         !.orders = [NoOrders EXCEPT ![s] = MaxOrder]])
      PROVE  Lone(r) /\ Begun(r)
  <2> DEFINE orders == [NoOrders EXCEPT ![s] = MaxOrder]
             d == New("create")
             q == [d EXCEPT !.s = s, !.sel = r, !.orders = orders]
  <2>1. orders \in Places /\ s \in Steps
    BY <1>0 DEF Places, Unused
  <2>2. d \in Demand /\ d.snap = NoContent
    BY <1>0 DEF Edits
  <2>3. Asked(r, q)
    BY <1>1
  <2> HIDE DEF orders, d
  <2>4. q \in Demand /\ q.snap = NoContent /\ q.orders = orders /\ q.s = s
    <3>1. orders \in [Steps -> Nat \cup {None}]
      BY <1>0, <2>1 DEF Places
    <3> QED
      BY <1>0, <2>1, <2>2, <3>1 DEF Demand
  <2> HIDE DEF q
  <2> QED
    BY <2>1, <2>3, <2>4, AskedBegins
<1>2. ASSUME NEW s \in Present, NEW op \in {"update", "remove"}, NEW sel \in Writers \cup {None},
             Asked(r, [New(op) EXCEPT !.s = s, !.sel = sel])
      PROVE  Lone(r) /\ Begun(r)
  <2> DEFINE d == New(op)
             q == [d EXCEPT !.s = s, !.sel = sel]
  <2>1. d \in Demand /\ d.op = op /\ d.snap = NoContent /\ d.orders = NoOrders
    BY <1>0 DEF Edits
  <2>2. Asked(r, q)
    BY <1>2
  <2> HIDE DEF d
  <2>3. q \in Demand /\ q.snap = NoContent /\ q.orders = NoOrders /\ q.op = op
    BY <2>1 DEF Demand, Present
  <2> HIDE DEF q
  <2> QED
    BY <1>0, <2>2, <2>3, AskedBegins
<1>3. ASSUME NEW s \in Present, Asked(r, [New("remove") EXCEPT !.s = s])
      PROVE  Lone(r) /\ Begun(r)
  <2> DEFINE d == New("remove")
             q == [d EXCEPT !.s = s]
  <2>1. d \in Demand /\ d.op = "remove" /\ d.snap = NoContent /\ d.orders = NoOrders
    BY <1>0 DEF Edits
  <2>2. Asked(r, q)
    BY <1>3
  <2> HIDE DEF d
  <2>3. q \in Demand /\ q.snap = NoContent /\ q.orders = NoOrders /\ q.op = "remove"
    BY <2>1 DEF Demand, Present
  <2> HIDE DEF q
  <2> QED
    BY <1>0, <2>2, <2>3, AskedBegins
<1>4. ASSUME NEW s \in Present, NEW t \in Present,
             Asked(r, [New("reorder") EXCEPT !.orders = [NoOrders EXCEPT ![s] = step[t].order,
                                                                         ![t] = step[s].order]])
      PROVE  Lone(r) /\ Begun(r)
  <2> DEFINE orders == [NoOrders EXCEPT ![s] = step[t].order, ![t] = step[s].order]
             d == New("reorder")
             q == [d EXCEPT !.orders = orders]
  <2>1. step[s].order \in 0..MaxOrder /\ step[t].order \in 0..MaxOrder
    BY DEF Present, BoundInv, Rows, StepRow
  <2>2. orders \in Places
    BY <1>0, <2>1 DEF Places, Present
  <2>3. d \in Demand /\ d.op = "reorder" /\ d.snap = NoContent
    BY <1>0 DEF Edits
  <2>4. Asked(r, q)
    BY <1>4
  <2> HIDE DEF orders, d
  <2>5. q \in Demand /\ q.snap = NoContent /\ q.orders = orders /\ q.op = "reorder"
    <3>1. orders \in [Steps -> Nat \cup {None}]
      BY <1>0, <2>2 DEF Places
    <3> QED
      BY <2>3, <3>1 DEF Demand
  <2> HIDE DEF q
  <2> QED
    BY <2>2, <2>4, <2>5, AskedBegins
<1>5. ASSUME Asked(r, New("code"))
      PROVE  Lone(r) /\ Begun(r)
  <2>1. New("code") \in Demand /\ New("code").op = "code" /\ New("code").snap = NoContent
        /\ New("code").orders \in Places
    BY <1>0 DEF Edits
  <2> QED
    BY <1>5, <2>1, AskedBegins
<1> QED
  BY <1>0, <1>1, <1>2, <1>3, <1>4, <1>5 DEF AskEdit

LEMMA AskHealBegins ==
  ASSUME PlacedInv, NEW r \in Requests, AskHeal(r) \/ AskGenerate(r)
  PROVE  Lone(r) /\ Begun(r)
<1> USE DEF PlacedInv, Exclusive
<1>0. /\ \A op \in Ops : /\ New(op) \in Demand /\ New(op).op = op /\ New(op).orders = NoOrders
                         /\ New(op).snap = NoContent
      /\ NoOrders \in Places
  BY NewFields, NothingIsPlaced
<1>1. ASSUME NEW op \in Ops \ Edits, NEW q \in {New(op)} \cup {[New(op) EXCEPT !.s = s] : s \in Steps}
                                              \cup {[New(op) EXCEPT !.of = l] : l \in Requests},
             Asked(r, q)
      PROVE  Lone(r) /\ Begun(r)
  <2> DEFINE d == New(op)
  <2>1. d \in Demand /\ d.op = op /\ d.orders = NoOrders /\ d.snap = NoContent
    BY <1>0
  <2>2. q = d \/ (\E s \in Steps : q = [d EXCEPT !.s = s]) \/ \E l \in Requests : q = [d EXCEPT !.of = l]
    OBVIOUS
  <2> HIDE DEF d
  <2>3. q \in Demand /\ q.op = op /\ q.orders = NoOrders /\ q.snap = NoContent
    BY <2>1, <2>2 DEF Demand
  <2> QED
    BY <1>0, <1>1, <2>3, AskedBegins DEF Edits
<1>2. {"heal", "autoheal", "approve", "reject", "codegen", "document"} \subseteq Ops \ Edits
  BY DEF Ops, Edits
<1>3. CASE AskHeal(r)
  <2>1. CASE \E s \in Present, op \in {"heal", "autoheal"} : Asked(r, [New(op) EXCEPT !.s = s])
    BY <1>1, <1>2, <2>1 DEF Present
  <2>2. CASE \E l \in Requests, op \in {"approve", "reject"} : Asked(r, [New(op) EXCEPT !.of = l])
    BY <1>1, <1>2, <2>2
  <2> QED
    BY <1>3, <2>1, <2>2 DEF AskHeal
<1>4. CASE AskGenerate(r)
  BY <1>1, <1>2, <1>4 DEF AskGenerate
<1> QED
  BY <1>3, <1>4

\* What is shown are different steps, so there is a place after the last one as long as there
\* is an identity that was not given.
LEMMA ShownAreFew ==
  ASSUME NEW S, IsFiniteSet(S), NEW lines \in Seq(Line),
         \A i \in 1..Len(lines) : lines[i].id \in S,
         \A i, j \in 1..Len(lines) : i # j => lines[i].id # lines[j].id
  PROVE  Len(lines) <= Cardinality(S)
<1> DEFINE id == [i \in 1..Len(lines) |-> lines[i].id]
<1>1. Len(lines) \in Nat
  BY LenProperties
<1>2. id \in Injection(1..Len(lines), S)
  BY DEF Injection, IsInjective
<1>3. Cardinality(1..Len(lines)) <= Cardinality(S)
  BY <1>2, FS_Injection
<1>4. Cardinality(1..Len(lines)) = Len(lines)
  <2>1. \A n \in Nat : Cardinality(1..n) = n
    BY FS_Interval
  <2> QED
    BY <1>1, <2>1
<1> QED
  BY <1>3, <1>4

LEMMA PlaceAfterLast ==
  ASSUME PlacedInv
  PROVE  /\ Len(page.shown) \in 0..MaxOrder
         /\ \A s \in Unused : NextOrder \in 0..MaxOrder
<1>1. page.shown \in Seq(Line) /\ Len(page.shown) \in Nat
  BY LenProperties DEF PlacedInv, Exclusive, Shape, PageShape, Sheet
<1>2. \A i \in 1..Len(page.shown) : page.shown[i].id \in Steps
  <2>1. \A i \in 1..Len(page.shown) : page.shown[i] \in Line
    BY <1>1, ElementOfSeq
  <2> QED
    BY <2>1 DEF Line
<1>3. \A i, j \in 1..Len(page.shown) : i # j => page.shown[i].id # page.shown[j].id
  BY DEF PlacedInv, IdentityInv, ShowsOnce
<1>4. Len(page.shown) <= MaxOrder
  BY <1>1, <1>2, <1>3, ShownAreFew, AuthoringAssumption DEF MaxOrder
<1>5. ASSUME NEW s \in Unused PROVE Len(page.shown) + 1 <= MaxOrder
  <2>1. s \in Steps /\ ~Known(s)
    BY DEF Unused, Known
  <2>2. \A i \in 1..Len(page.shown) : page.shown[i].id \in Steps \ {s}
    BY <1>2, <2>1 DEF PlacedInv, IdentityInv, ShowsOnce, Ever
  <2>3. IsFiniteSet(Steps \ {s}) /\ Cardinality(Steps \ {s}) = MaxOrder - 1
    BY <2>1, AuthoringAssumption, FS_RemoveElement DEF MaxOrder
  <2>4. Len(page.shown) <= Cardinality(Steps \ {s})
    BY <1>1, <1>3, <2>2, <2>3, ShownAreFew
  <2> QED
    BY <1>1, <2>3, <2>4, NothingIsPlaced
<1> QED
  BY <1>1, <1>4, <1>5, NothingIsPlaced DEF NextOrder

LEMMA EditorBegins ==
  ASSUME PlacedInv, SendNext \/ \E r \in Adders : Add(r)
  PROVE  \E r \in Calls : Lone(r) /\ Begun(r)
<1> USE DEF PlacedInv, Exclusive
<1>0. /\ \A op \in Edits : /\ New(op) \in Demand /\ New(op).op = op /\ New(op).orders = NoOrders
                           /\ New(op).snap = NoContent
      /\ NoOrders \in Places /\ MaxOrder \in Nat /\ req \in [Calls -> Demand]
      /\ page.saves \in Seq(Line)
  BY NewFields, NothingIsPlaced DEF Ops, Shape, RequestShape, PageShape, Sheet
<1>1. ASSUME NEW r \in Adders, Add(r) PROVE Lone(r) /\ Begun(r)
  <2>1. PICK s \in Unused :
          req' = [req EXCEPT ![r] = [New("create") EXCEPT !.at = "asked", !.s = s, !.sel = r,
                     !.orders = [NoOrders EXCEPT ![s] = NextOrder]]]
    BY <1>1 DEF Add
  <2> DEFINE orders == [NoOrders EXCEPT ![s] = NextOrder]
             d == New("create")
             q == [d EXCEPT !.at = "asked", !.s = s, !.sel = r, !.orders = orders]
  <2>2. orders \in Places
    BY <1>0, PlaceAfterLast DEF Places
  <2>3. d \in Demand /\ d.snap = NoContent
    BY <1>0 DEF Edits
  <2>4. req' = [req EXCEPT ![r] = q] /\ UNCHANGED <<step, versions>>
    BY <1>1, <2>1 DEF Add, testVars
  <2> HIDE DEF orders, d
  <2>5. q.at = "asked" /\ q.snap = NoContent /\ q.orders = orders /\ q.s = s
    BY <2>3 DEF Demand
  <2> HIDE DEF q
  <2>6. Lone(r) /\ req'[r] = q
    BY <1>0, <2>4 DEF Lone
  <2> QED
    BY <2>2, <2>4, <2>5, <2>6 DEF Begun
<1>2. ASSUME SendNext PROVE Lone(Saver) /\ Begun(Saver)
  <2> DEFINE c == Head(page.calls)
             ids == {page.saves[i].id : i \in 1..Len(page.saves)}
             orders == [s \in Steps |-> IF s \in ids THEN page.saves[Nth(s)].order ELSE None]
  <2>1. \/ req' = [req EXCEPT ![Saver] = [New("reorder") EXCEPT !.at = "asked", !.orders = orders]]
        \/ req' = [req EXCEPT ![Saver] = [New("update") EXCEPT !.at = "asked", !.s = c,
                                                  !.sel = page.saves[Nth(c)].sel]]
    BY <1>2 DEF SendNext
  <2>2. orders \in Places
    <3>1. ASSUME NEW s, s \in ids PROVE page.saves[Nth(s)].order \in 0..MaxOrder
      <4>1. Nth(s) \in 1..Len(page.saves)
        BY <3>1 DEF Nth
      <4>2. page.saves[Nth(s)] \in Line /\ page.saves[Nth(s)].order <= MaxOrder
        BY <1>0, <4>1 DEF BoundInv, Low
      <4> QED
        BY <1>0, <4>2 DEF Line
    <3> QED
      BY <3>1 DEF Places
  <2> HIDE DEF orders
  <2>3. CASE req' = [req EXCEPT ![Saver] = [New("reorder") EXCEPT !.at = "asked", !.orders = orders]]
    <3> DEFINE d == New("reorder")
               q == [d EXCEPT !.at = "asked", !.orders = orders]
    <3>1. d \in Demand /\ d.op = "reorder" /\ d.snap = NoContent
      BY <1>0 DEF Edits
    <3>2. req' = [req EXCEPT ![Saver] = q]
      BY <2>3
    <3> HIDE DEF d
    <3>3. q.at = "asked" /\ q.snap = NoContent /\ q.orders = orders /\ q.op = "reorder"
      BY <3>1 DEF Demand
    <3> HIDE DEF q
    <3>4. Lone(Saver) /\ req'[Saver] = q
      BY <1>0, <3>2 DEF Lone
    <3> QED
      BY <2>2, <3>3, <3>4 DEF Begun
  <2>4. CASE req' = [req EXCEPT ![Saver] = [New("update") EXCEPT !.at = "asked", !.s = c,
                                                  !.sel = page.saves[Nth(c)].sel]]
    <3> DEFINE d == New("update")
               w == page.saves[Nth(c)].sel
               q == [d EXCEPT !.at = "asked", !.s = c, !.sel = w]
    <3>1. d \in Demand /\ d.op = "update" /\ d.snap = NoContent /\ d.orders = NoOrders
      BY <1>0 DEF Edits
    <3>2. req' = [req EXCEPT ![Saver] = q]
      BY <2>4
    <3> HIDE DEF d, w, c
    <3>3. q.at = "asked" /\ q.snap = NoContent /\ q.orders = NoOrders /\ q.op = "update"
      BY <3>1 DEF Demand
    <3> HIDE DEF q
    <3>4. Lone(Saver) /\ req'[Saver] = q
      BY <1>0, <3>2 DEF Lone
    <3> QED
      BY <1>0, <3>3, <3>4 DEF Begun
  <2> QED
    BY <2>1, <2>3, <2>4
<1> QED
  BY <1>1, <1>2

LEMMA HandlerActs ==
  ASSUME Exclusive, NEW r \in Calls, Handler(r)
  PROVE  Lone(r) /\ (GoesOn(r) \/ Ended(r))
<1> DEFINE d == req[r]
<1>0. Shape /\ d \in Demand /\ d.snap \in Contents /\ req \in [Calls -> Demand]
  BY DEF Exclusive, Shape, RequestShape, Demand
<1>1. ASSUME NEW at \in {"ok", "refused", "failed"}, Ends(r, at) \/ Replies(r, at)
      PROVE  Lone(r) /\ Ended(r)
  BY <1>0, <1>1, EndsEnds, RepliesEnd
<1>2. ASSUME NEW from, NEW to \in Working \ {"read"}, Moves(r, from, to)
      PROVE  Lone(r) /\ GoesOn(r)
  BY <1>0, <1>2, MovesGoOn
<1>3. CASE Check(r) \/ Lock(r)
  BY <1>1, <1>2, <1>3 DEF Check, Lock, Working
<1>4. CASE ReadTest(r)
  <2>1. Lone(r) /\ req'[r] = [d EXCEPT !.at = "test read", !.snap.code = code]
    BY <1>0, <1>4 DEF ReadTest, Lone
  <2>2. /\ req'[r].at = "test read" /\ req'[r].op = d.op /\ req'[r].s = d.s /\ req'[r].sel = d.sel
        /\ req'[r].orders = d.orders /\ req'[r].snap.step = d.snap.step
    BY <1>0, <2>1 DEF Demand, Contents
  <2> QED
    BY <2>1, <2>2 DEF GoesOn, Working
<1>5. CASE ReadSteps(r)
  <2>1. Lone(r) /\ req'[r] = [d EXCEPT !.at = "read", !.snap.step = step, !.n = Len(versions)]
        /\ UNCHANGED <<step, versions>>
    BY <1>0, <1>5 DEF ReadSteps, Lone, testVars
  <2>2. /\ req'[r].op = d.op /\ req'[r].s = d.s /\ req'[r].sel = d.sel
        /\ req'[r].orders = d.orders /\ req'[r].snap = [d.snap EXCEPT !.step = step]
    BY <1>0, <2>1 DEF Demand
  <2>3. req'[r].snap.step = step
    BY <1>0, <2>2 DEF Contents
  <2> QED
    BY <2>1, <2>2, <2>3 DEF GoesOn, Working
<1>6. CASE ReadForPrompt(r)
  <2>1. Lone(r) /\ req'[r] = [d EXCEPT !.at = "thinking", !.snap = content]
    BY <1>0, <1>6 DEF ReadForPrompt, Lone
  <2>2. /\ req'[r].at = "thinking" /\ req'[r].op = d.op /\ req'[r].s = d.s /\ req'[r].sel = d.sel
        /\ req'[r].orders = d.orders /\ req'[r].snap = content
    BY <1>0, <2>1 DEF Demand
  <2>3. content.step = step
    BY DEF content
  <2> QED
    BY <2>1, <2>2, <2>3 DEF GoesOn, Working
<1>7. CASE Commit(r) \/ Rollback(r) \/ Generated(r) \/ Fails(r) \/ CreateLog(r) \/ Mark(r)
  BY <1>1, <1>7 DEF Commit, Rollback, Generated, Fails, CreateLog, Mark
<1>8. CASE ReadStep(r)
  <2>1. CASE Ends(r, "refused")
    BY <1>1, <2>1
  <2>2. CASE req' = [req EXCEPT ![r] = [d EXCEPT !.at = "superseding", !.old = step[d.s].sel]]
    <3>1. Lone(r) /\ req'[r] = [d EXCEPT !.at = "superseding", !.old = step[d.s].sel]
      BY <1>0, <2>2 DEF Lone
    <3>2. /\ req'[r].at = "superseding" /\ req'[r].op = d.op /\ req'[r].s = d.s /\ req'[r].sel = d.sel
          /\ req'[r].orders = d.orders /\ req'[r].snap = d.snap
      BY <1>0, <3>1 DEF Demand
    <3> QED
      BY <3>1, <3>2 DEF GoesOn, Working
  <2> QED
    BY <1>8, <2>1, <2>2 DEF ReadStep
<1>9. CASE Supersede(r) \/ ReadLog(r) \/ Apply(r)
  BY <1>1, <1>2, <1>9 DEF Supersede, ReadLog, Apply, Working, Moves
<1> QED
  BY <1>3, <1>4, <1>5, <1>6, <1>7, <1>8, <1>9 DEF Handler

\* Every step is a step of one request, or of none.
LEMMA RequestStep ==
  ASSUME PlacedInv, [Next]_vars
  PROVE  UNCHANGED req \/ \E r \in Calls : Lone(r) /\ (Begun(r) \/ GoesOn(r) \/ Ended(r))
<1>1. CASE \E r \in Requests : AskEdit(r) \/ AskHeal(r) \/ AskGenerate(r)
  BY <1>1, AskEditBegins, AskHealBegins
<1>2. CASE \E r \in Calls : Handler(r)
  BY <1>2, HandlerActs DEF PlacedInv
<1>3. CASE SendNext \/ \E r \in Adders : Add(r)
  BY <1>3, EditorBegins
<1>4. CASE Open \/ Type \/ Drag \/ RemoveLocal \/ Save \/ UNCHANGED vars
  BY <1>4 DEF Open, Type, Drag, RemoveLocal, Save, Edit, vars
<1> QED
  BY <1>1, <1>2, <1>3, <1>4 DEF Next, Editor

LEMMA RowIsThere == None \notin StepRow /\ \A f \in Rows, s \in Present : step = f => f[s] \in StepRow
<1>1. StepRow \subseteq [sel : Writers, order : Nat]
  BY NothingIsPlaced DEF StepRow
<1> QED
  BY <1>1, NoneIsNoRow DEF Rows, Present

\* What an edit writes: no step is there afterwards that was not, but for the new one.
LEMMA WritesPlaces ==
  ASSUME PlacedInv, NEW r \in Calls, Commit(r)
  PROVE  /\ step' \in Rows
         /\ \A s \in Steps : step'[s] # Gone => step[s] # Gone \/ Creates(r, s)
<1> DEFINE d == req[r]
<1>0. /\ d \in Demand /\ Fits(r) /\ d.at \in Working /\ d.orders \in Places /\ step \in Rows
      /\ Writes(r) /\ Possible(r) /\ None \notin StepRow /\ \A s \in Present : step[s] \in StepRow
  BY RowIsThere DEF PlacedInv, Exclusive, Shape, RequestShape, BoundInv, Working, Commit
<1>1. CASE d.op = "create"
  <2> DEFINE row == [sel |-> d.sel, order |-> d.orders[d.s]]
  <2>1. step' = [step EXCEPT ![d.s] = row] /\ d.s \in Steps
    BY <1>0, <1>1 DEF Writes, Fits
  <2>2. row \in StepRow
    <3>1. d.sel \in Writers /\ d.orders[d.s] \in Nat /\ d.orders[d.s] \in 0..MaxOrder \cup {None}
      BY <1>0, <1>1, <2>1 DEF Fits, Places
    <3> QED
      BY <3>1, AuthoringAssumption DEF StepRow
  <2> HIDE DEF row
  <2> QED
    BY <1>0, <1>1, <2>1, <2>2 DEF Rows, Creates
<1>2. CASE d.op = "update"
  <2> DEFINE row == [step[d.s] EXCEPT !.sel = d.sel]
  <2>1. step' = [step EXCEPT ![d.s] = row] /\ d.s \in Present /\ d.s \in Steps
    BY <1>0, <1>2 DEF Writes, Possible, Fits
  <2>2. row \in StepRow
    BY <1>0, <1>2, <2>1 DEF Fits, StepRow
  <2> HIDE DEF row
  <2> QED
    BY <1>0, <2>1, <2>2 DEF Rows, Present
<1>3. CASE d.op = "remove"
  BY <1>0, <1>3 DEF Writes, Rows
<1>4. CASE d.op = "reorder"
  <2>1. step' = [s \in Steps |-> IF d.orders[s] = None THEN step[s]
                                 ELSE [step[s] EXCEPT !.order = d.orders[s]]]
    BY <1>0, <1>4 DEF Writes
  <2>2. ASSUME NEW s \in Steps, d.orders[s] # None
        PROVE  [step[s] EXCEPT !.order = d.orders[s]] \in StepRow /\ step[s] # Gone
    <3>1. step[s] \in StepRow /\ d.orders[s] \in 0..MaxOrder /\ s \in Present
      BY <1>0, <1>4, <2>2 DEF Possible, Places
    <3> QED
      BY <3>1 DEF StepRow, Present
  <2>3. ASSUME NEW s \in Steps
        PROVE  step'[s] \in StepRow \cup {Gone} /\ (step'[s] # Gone => step[s] # Gone)
    BY <1>0, <2>1, <2>2 DEF Rows
  <2> QED
    BY <2>1, <2>3 DEF Rows
<1>5. CASE d.op \notin {"create", "update", "remove", "reorder"}
  BY <1>0, <1>5 DEF Writes
<1> QED
  BY <1>1, <1>2, <1>3, <1>4, <1>5

LEMMA ApplyKeeps ==
  ASSUME PlacedInv, NEW r \in Calls, Apply(r)
  PROVE  /\ step' \in Rows /\ UNCHANGED versions
         /\ \A s \in Steps : step'[s] # Gone <=> step[s] # Gone
<1> DEFINE l == req[r].of
           s == log[l].s
<1>0. step \in Rows /\ None \notin StepRow /\ \A t \in Present : step[t] \in StepRow
  BY RowIsThere DEF PlacedInv, BoundInv
<1>1. CASE UNCHANGED step
  BY <1>0, <1>1 DEF Apply
<1>2. CASE s \in Present /\ step' = [step EXCEPT ![s].sel = l]
  <2> DEFINE row == [step[s] EXCEPT !.sel = l]
  <2>1. l \in Writers
    <3>1. l \in Requests
      BY DEF Apply, PlacedInv, Exclusive, Shape, RequestShape, Fits, Working
    <3> QED
      BY <3>1 DEF Writers
  <2>2. row \in StepRow /\ s \in Steps
    BY <1>0, <1>2, <2>1 DEF StepRow, Present
  <2>3. step' = [step EXCEPT ![s] = row]
    BY <1>2
  <2> HIDE DEF row, s, l
  <2> QED
    BY <1>0, <1>2, <2>2, <2>3 DEF Apply, Rows, Present
<1> QED
  BY <1>1, <1>2 DEF Apply

LEMMA TestStep ==
  ASSUME PlacedInv, [Next]_vars
  PROVE  \/ UNCHANGED <<step, versions>>
         \/ \E r \in Calls : Apply(r) \/ Commit(r)
<1>1. CASE \E r \in Requests : AskEdit(r) \/ AskHeal(r) \/ AskGenerate(r)
  BY <1>1 DEF AskEdit, AskHeal, AskGenerate, Asked, testVars
<1>2. CASE \E r \in Calls : Handler(r)
  <2>1. PICK r \in Calls : Handler(r)
    BY <1>2
  <2> QED
    BY <2>1 DEF Handler, Check, Lock, ReadTest, ReadSteps, Rollback, ReadForPrompt, Generated, Fails,
         ReadStep, Supersede, CreateLog, ReadLog, Mark, testVars
<1>3. CASE SendNext \/ \E r \in Adders : Add(r)
  BY <1>3 DEF SendNext, Add, testVars
<1>4. CASE Open \/ Type \/ Drag \/ RemoveLocal \/ Save \/ UNCHANGED vars
  BY <1>4 DEF Open, Type, Drag, RemoveLocal, Save, Edit, vars, testVars
<1> QED
  BY <1>1, <1>2, <1>3, <1>4 DEF Next, Editor

\* What a version has stays in it, and what is removed is in the version made before.
LEMMA CommitKnows ==
  ASSUME PlacedInv, NEW r \in Calls, Commit(r), NEW s \in Steps
  PROVE  /\ Known(s) => Known(s)'
         /\ Known(s)' => Known(s) \/ Creates(r, s)
<1>1. /\ versions \in Seq(Contents) /\ req[r].snap \in Contents
      /\ versions' = Append(versions, req[r].snap)
  BY DEF PlacedInv, Exclusive, Shape, RequestShape, Demand, Commit, Snapshot
<1>2. /\ Len(versions) \in Nat /\ Len(versions') = Len(versions) + 1
      /\ versions'[Len(versions) + 1] = req[r].snap
      /\ \A n \in 1..Len(versions) : versions'[n] = versions[n]
  BY <1>1, AppendProperties, LenProperties
<1>3. req[r].snap.step[s] = Gone <=> step[s] = Gone
  BY DEF PlacedInv, IdentityInv, Mirrors, Commit
<1>4. ASSUME Known(s) PROVE Known(s)'
  <2>1. CASE step[s] # Gone
    <3>1. Len(versions) + 1 \in 1..Len(versions') /\ versions'[Len(versions) + 1].step[s] # Gone
      BY <1>2, <1>3, <2>1
    <3> QED
      BY <3>1 DEF Known
  <2>2. ASSUME NEW n \in 1..Len(versions), versions[n].step[s] # Gone PROVE Known(s)'
    <3>1. n \in 1..Len(versions') /\ versions'[n].step[s] # Gone
      BY <1>2, <2>2
    <3> QED
      BY <3>1 DEF Known
  <2> QED
    BY <1>4, <2>1, <2>2 DEF Known
<1>5. ASSUME Known(s)', ~Creates(r, s) PROVE Known(s)
  <2>1. CASE step'[s] # Gone
    BY <1>5, <2>1, WritesPlaces DEF Known
  <2>2. ASSUME NEW n \in 1..Len(versions'), versions'[n].step[s] # Gone PROVE Known(s)
    <3>1. CASE n = Len(versions) + 1
      BY <1>2, <1>3, <2>2, <3>1 DEF Known
    <3>2. CASE n \in 1..Len(versions)
      BY <1>2, <2>2, <3>2 DEF Known
    <3> QED
      BY <1>2, <3>1, <3>2
  <2> QED
    BY <1>5, <2>1, <2>2 DEF Known
<1> QED
  BY <1>4, <1>5

LEMMA KnownStep ==
  ASSUME PlacedInv, [Next]_vars, NEW s \in Steps
  PROVE  /\ Known(s) => Known(s)'
         /\ Known(s)' => Known(s) \/ \E r \in Calls : Commit(r) /\ Creates(r, s)
<1>1. CASE UNCHANGED <<step, versions>>
  BY <1>1 DEF Known
<1>2. ASSUME NEW r \in Calls, Apply(r) PROVE Known(s) <=> Known(s)'
  BY <1>2, ApplyKeeps DEF Known
<1>3. ASSUME NEW r \in Calls, Commit(r)
      PROVE  (Known(s) => Known(s)') /\ (Known(s)' => Known(s) \/ Creates(r, s))
  BY <1>3, CommitKnows
<1> QED
  BY <1>1, <1>2, <1>3, TestStep

\* What a part of a sequence has, one line taken out of it, and one taken to another place.
LEMMA PartLines ==
  ASSUME NEW shown \in Seq(Line), NEW m \in Nat \ {0}, NEW n \in Nat, n <= Len(shown)
  PROVE  \A k \in 1..(n - m + 1) : SubSeq(shown, m, n)[k] = shown[m + k - 1]
<1>1. Len(shown) \in Nat
  BY LenProperties
<1>2. m..n \subseteq 1..Len(shown)
  BY <1>1
<1>3. \A k \in m..n : shown[k] \in Line
  BY <1>2, ElementOfSeq
<1> QED
  BY <1>3, SubSeqProperties

LEMMA WithoutLines ==
  ASSUME NEW shown \in Seq(Line), NEW i \in 1..Len(shown)
  PROVE  \A k \in 1..(Len(shown) - 1) : Without1(shown, i)[k] = shown[IF k < i THEN k ELSE k + 1]
<1> DEFINE a == SubSeq(shown, 1, i - 1)
           b == SubSeq(shown, i + 1, Len(shown))
<1>1. Len(shown) \in Nat /\ i \in Nat \ {0} /\ i - 1 \in Nat /\ i - 1 <= Len(shown) /\ i + 1 \in Nat \ {0}
  BY LenProperties
<1>2. a \in Seq(Line) /\ Len(a) = i - 1 /\ \A k \in 1..(i - 1) : a[k] = shown[k]
  <2>1. \A k \in 1..(i - 1 - 1 + 1) : a[k] = shown[1 + k - 1]
    BY <1>1, PartLines
  <2>2. a \in Seq(Line) /\ Len(a) = i - 1
    BY <1>1, PartOfSeq
  <2> QED
    BY <1>1, <2>1, <2>2
<1>3. b \in Seq(Line) /\ Len(b) = Len(shown) - i /\ \A k \in 1..(Len(shown) - i) : b[k] = shown[i + k]
  <2>1. \A k \in 1..(Len(shown) - (i + 1) + 1) : b[k] = shown[(i + 1) + k - 1]
    BY <1>1, PartLines
  <2>2. b \in Seq(Line) /\ Len(b) = Len(shown) - i
    BY <1>1, PartOfSeq
  <2> QED
    BY <1>1, <2>1, <2>2
<1> HIDE DEF a, b
<1>4. \A k \in 1..(Len(a) + Len(b)) : (a \o b)[k] = IF k <= Len(a) THEN a[k] ELSE b[k - Len(a)]
  <2>1. a \in Seq(Line) /\ b \in Seq(Line)
    BY <1>2, <1>3
  <2> QED
    BY <2>1, ConcatProperties
<1>5. ASSUME NEW k \in 1..(Len(shown) - 1) PROVE (a \o b)[k] = shown[IF k < i THEN k ELSE k + 1]
  <2>1. (a \o b)[k] = IF k <= i - 1 THEN a[k] ELSE b[k - (i - 1)]
    BY <1>1, <1>2, <1>3, <1>4
  <2>2. CASE k < i
    BY <1>1, <1>2, <2>1, <2>2
  <2>3. CASE ~(k < i)
    <3>1. k - (i - 1) \in 1..(Len(shown) - i) /\ i + (k - (i - 1)) = k + 1 /\ ~(k <= i - 1)
      BY <1>1, <2>3
    <3> QED
      BY <1>3, <2>1, <2>3, <3>1
  <2> QED
    BY <2>2, <2>3
<1> QED
  BY <1>5 DEF Without1, a, b

LEMMA TakenLines ==
  ASSUME NEW shown \in Seq(Line), NEW i \in 1..Len(shown), NEW j \in 1..Len(shown)
  PROVE  /\ Taken(shown, i, j) \in Seq(Line) /\ Len(Taken(shown, i, j)) = Len(shown)
         /\ \A k \in 1..Len(shown) :
              Taken(shown, i, j)[k] = IF k = j THEN shown[i]
                                      ELSE Without1(shown, i)[IF k < j THEN k ELSE k - 1]
<1> DEFINE rest == Without1(shown, i)
           one == <<shown[i]>>
           a == SubSeq(rest, 1, j - 1)
           b == SubSeq(rest, j, Len(rest))
<1>1. rest \in Seq(Line) /\ Len(rest) = Len(shown) - 1
  BY WithoutIsSeq
<1>2. one \in Seq(Line) /\ Len(one) = 1 /\ one[1] = shown[i]
  <2>1. shown[i] \in Line
    BY ElementOfSeq
  <2> QED
    BY <2>1
<1>3. Len(shown) \in Nat /\ j \in Nat \ {0} /\ j - 1 \in Nat /\ j - 1 <= Len(shown) - 1
      /\ Len(shown) - 1 \in Nat
  BY LenProperties
<1> HIDE DEF rest, one
<1>4. a \in Seq(Line) /\ Len(a) = j - 1 /\ \A k \in 1..(j - 1) : a[k] = rest[k]
  <2>1. \A k \in 1..(j - 1 - 1 + 1) : a[k] = rest[1 + k - 1]
    BY <1>1, <1>3, PartLines
  <2>2. a \in Seq(Line) /\ Len(a) = j - 1
    BY <1>1, <1>3, PartOfSeq
  <2> QED
    BY <1>3, <2>1, <2>2
<1>5. b \in Seq(Line) /\ Len(b) = Len(shown) - j /\ \A k \in 1..(Len(shown) - j) : b[k] = rest[j + k - 1]
  <2>1. \A k \in 1..(Len(rest) - j + 1) : b[k] = rest[j + k - 1]
    BY <1>1, <1>3, PartLines
  <2>2. b \in Seq(Line) /\ Len(b) = Len(shown) - j
    BY <1>1, <1>3, PartOfSeq
  <2> QED
    BY <1>1, <1>3, <2>1, <2>2
<1> HIDE DEF a, b
<1>6. /\ a \o one \in Seq(Line) /\ Len(a \o one) = j
      /\ \A k \in 1..j : (a \o one)[k] = IF k <= j - 1 THEN a[k] ELSE one[k - (j - 1)]
  <2>1. a \in Seq(Line) /\ one \in Seq(Line)
    BY <1>2, <1>4
  <2>2. /\ a \o one \in Seq(Line) /\ Len(a \o one) = Len(a) + Len(one)
        /\ \A k \in 1..(Len(a) + Len(one)) : (a \o one)[k] = IF k <= Len(a) THEN a[k] ELSE one[k - Len(a)]
    BY <2>1, ConcatProperties
  <2> QED
    BY <1>2, <1>3, <1>4, <2>2
<1> DEFINE c == a \o one
<1> HIDE DEF c
<1>7. /\ c \o b \in Seq(Line) /\ Len(c \o b) = Len(shown)
      /\ \A k \in 1..Len(shown) : (c \o b)[k] = IF k <= j THEN c[k] ELSE b[k - j]
  <2>1. c \in Seq(Line) /\ b \in Seq(Line) /\ Len(c) = j
    BY <1>5, <1>6 DEF c
  <2>2. /\ c \o b \in Seq(Line) /\ Len(c \o b) = Len(c) + Len(b)
        /\ \A k \in 1..(Len(c) + Len(b)) : (c \o b)[k] = IF k <= Len(c) THEN c[k] ELSE b[k - Len(c)]
    BY <2>1, ConcatProperties
  <2> QED
    BY <1>3, <1>5, <2>1, <2>2
<1>8. ASSUME NEW k \in 1..Len(shown)
      PROVE  (c \o b)[k] = IF k = j THEN shown[i] ELSE rest[IF k < j THEN k ELSE k - 1]
  <2>1. (c \o b)[k] = IF k <= j THEN c[k] ELSE b[k - j]
    BY <1>7
  <2>2. CASE k < j
    <3>1. k \in 1..j /\ k <= j - 1 /\ k \in 1..(j - 1) /\ k <= j /\ k # j
      BY <1>3, <2>2
    <3>2. c[k] = a[k] /\ a[k] = rest[k]
      BY <1>4, <1>6, <3>1 DEF c
    <3> QED
      BY <2>1, <2>2, <3>1, <3>2
  <2>3. CASE k = j
    <3>1. j \in 1..j /\ ~(j <= j - 1) /\ j - (j - 1) = 1
      BY <1>3
    <3>2. c[j] = shown[i]
      BY <1>2, <1>6, <3>1 DEF c
    <3> QED
      BY <1>3, <2>1, <2>3, <3>2
  <2>4. CASE k > j
    <3>1. ~(k <= j) /\ k # j /\ ~(k < j) /\ k - j \in 1..(Len(shown) - j) /\ j + (k - j) - 1 = k - 1
      BY <1>3, <2>4
    <3> QED
      BY <1>5, <2>1, <3>1
  <2>5. k < j \/ k = j \/ k > j
    BY <1>3
  <2> QED
    BY ONLY <2>2, <2>3, <2>4, <2>5
<1> QED
  BY <1>7, <1>8 DEF Taken, rest, one, a, b, c

\* The lines are those that were shown, each once, with f telling where each was.
Rearranges(f, lines) ==
  /\ f \in [1..Len(lines) -> 1..Len(page.shown)]
  /\ \A k \in 1..Len(lines) : lines[k].id = page.shown[f[k]].id
  /\ \A k, m \in 1..Len(lines) : k # m => f[k] # f[m]

Onto(f, n) == \A m \in 1..Len(page.shown) : \E k \in 1..n : f[k] = m

LEMMA RemovedRearranges ==
  ASSUME page.shown \in Seq(Line), NEW i \in 1..Len(page.shown)
  PROVE  \E f : /\ Rearranges(f, Without1(page.shown, i))
               /\ \A k \in 1..Len(Without1(page.shown, i)) : Without1(page.shown, i)[k] = page.shown[f[k]]
<1> DEFINE lines == Without1(page.shown, i)
           n == Len(page.shown)
           f == [k \in 1..(n - 1) |-> IF k < i THEN k ELSE k + 1]
<1>1. n \in Nat /\ Len(lines) = n - 1
  BY WithoutIsSeq, LenProperties
<1>2. \A k \in 1..(n - 1) : lines[k] = page.shown[f[k]]
  BY WithoutLines
<1> HIDE DEF lines
<1>3. f \in [1..(n - 1) -> 1..n] /\ \A k, m \in 1..(n - 1) : k # m => f[k] # f[m]
  BY <1>1
<1> HIDE DEF f
<1>4. Rearranges(f, lines) /\ \A k \in 1..Len(lines) : lines[k] = page.shown[f[k]]
  BY <1>1, <1>2, <1>3 DEF Rearranges
<1> QED
  BY <1>4 DEF lines

LEMMA TakenRearranges ==
  ASSUME page.shown \in Seq(Line), NEW i \in 1..Len(page.shown), NEW j \in 1..Len(page.shown)
  PROVE  \E f : Rearranges(f, Taken(page.shown, i, j)) /\ Onto(f, Len(page.shown))
<1> DEFINE lines == Taken(page.shown, i, j)
           rest == Without1(page.shown, i)
           n == Len(page.shown)
           g(k) == IF k < j THEN k ELSE k - 1
           h(k) == IF k < i THEN k ELSE k + 1
           f == [k \in 1..n |-> IF k = j THEN i ELSE h(g(k))]
<1>1. n \in Nat /\ Len(lines) = n
  BY TakenLines, LenProperties
<1>2. ASSUME NEW k \in 1..n PROVE lines[k] = page.shown[f[k]]
  <2>1. lines[k] = IF k = j THEN page.shown[i] ELSE rest[g(k)]
    BY TakenLines
  <2>2. \A m \in 1..(n - 1) : rest[m] = page.shown[h(m)]
    BY WithoutLines
  <2>3. k # j => g(k) \in 1..(n - 1)
    BY <1>1
  <2> HIDE DEF lines, rest, g, h
  <2> QED
    BY <2>1, <2>2, <2>3
<1> HIDE DEF lines, rest
<1>3. f \in [1..n -> 1..n]
  BY <1>1
<1>4. \A k, m \in 1..n : k # m => f[k] # f[m]
  BY <1>1
<1>5. ASSUME NEW m \in 1..n PROVE \E k \in 1..n : f[k] = m
  <2>1. CASE m = i
    BY <2>1
  <2>2. CASE m # i
    <3> DEFINE l == IF m < i THEN m ELSE m - 1
               k == IF l < j THEN l ELSE l + 1
    <3>1. k \in 1..n /\ f[k] = m
      BY <1>1, <2>2
    <3> QED
      BY <3>1
  <2> QED
    BY <2>1, <2>2
<1> HIDE DEF f
<1>6. Rearranges(f, lines) /\ Onto(f, n)
  BY <1>1, <1>2, <1>3, <1>4, <1>5 DEF Rearranges, Onto
<1> QED
  BY <1>6 DEF lines

\* What the editor's own steps leave to show.
Lines == page.shown \in Seq(Line) /\ page'.shown \in Seq(Line)

LEMMA TypeShows ==
  ASSUME Shape, Type
  PROVE  /\ Len(page'.shown) = Len(page.shown)
         /\ \A k \in 1..Len(page.shown) : /\ page'.shown[k].id = page.shown[k].id
                                          /\ page'.shown[k].order = page.shown[k].order
<1>1. page.shown \in Seq(Line) /\ page \in Sheet
  BY DEF Shape, PageShape, Sheet
<1>2. PICK i \in 1..Len(page.shown) : Edit([page.shown EXCEPT ![i].sel = Typed])
  BY DEF Type
<1> DEFINE line == [page.shown[i] EXCEPT !.sel = Typed]
           lines == [page.shown EXCEPT ![i] = line]
<1>3. page.shown[i] \in Line
  BY <1>1, ElementOfSeq
<1>4. line \in Line /\ line.id = page.shown[i].id /\ line.order = page.shown[i].order
  BY <1>3 DEF Line, Writers
<1>5. page'.shown = lines
  BY <1>1, <1>2 DEF Edit, Sheet
<1> HIDE DEF line
<1>6. /\ Len(lines) = Len(page.shown)
      /\ \A k \in 1..Len(page.shown) : lines[k] = IF k = i THEN line ELSE page.shown[k]
  BY <1>1, <1>4, ExceptSeq
<1> HIDE DEF lines
<1> QED
  BY <1>4, <1>5, <1>6

LEMMA DragShows ==
  ASSUME Shape, Drag
  PROVE  /\ Len(page'.shown) = Len(page.shown)
         /\ \A k \in 1..Len(page.shown) : page'.shown[k].order = k
         /\ \E f : Rearranges(f, page'.shown) /\ Onto(f, Len(page.shown))
<1>1. page.shown \in Seq(Line) /\ page \in Sheet
  BY DEF Shape, PageShape, Sheet
<1>2. PICK i \in 1..Len(page.shown), j \in 1..Len(page.shown) :
        Edit([k \in DOMAIN Taken(page.shown, i, j) |->
                [Taken(page.shown, i, j)[k] EXCEPT !.order = k]])
  BY DEF Drag
<1> DEFINE moved == Taken(page.shown, i, j)
           lines == [k \in DOMAIN moved |-> [moved[k] EXCEPT !.order = k]]
           n == Len(page.shown)
<1>3. moved \in Seq(Line) /\ Len(moved) = n /\ \E f : Rearranges(f, moved) /\ Onto(f, n)
  BY <1>1, TakenLines, TakenRearranges
<1>4. page'.shown = lines
  BY <1>1, <1>2 DEF Edit, Sheet
<1> HIDE DEF moved
<1>5. n \in Nat /\ DOMAIN moved = 1..n /\ \A k \in 1..n : moved[k] \in Line
  BY <1>1, <1>3, LenProperties, ElementOfSeq
<1>6. Len(lines) = n
  BY <1>5
<1>7. \A k \in 1..n : lines[k].order = k /\ lines[k].id = moved[k].id
  BY <1>5 DEF Line
<1> HIDE DEF lines
<1>8. PICK f : Rearranges(f, moved) /\ Onto(f, n)
  BY <1>3
<1>9. Rearranges(f, lines)
  BY <1>3, <1>6, <1>7, <1>8 DEF Rearranges
<1> QED
  BY <1>4, <1>6, <1>7, <1>8, <1>9

LEMMA RemoveShows ==
  ASSUME Shape, RemoveLocal
  PROVE  \E f : /\ Rearranges(f, page'.shown)
                /\ \A k \in 1..Len(page'.shown) : page'.shown[k] = page.shown[f[k]]
<1>1. page.shown \in Seq(Line) /\ page \in Sheet
  BY DEF Shape, PageShape, Sheet
<1>2. PICK i \in 1..Len(page.shown) : Edit(Without1(page.shown, i))
  BY DEF RemoveLocal
<1>3. page'.shown = Without1(page.shown, i)
  BY <1>1, <1>2 DEF Edit, Sheet
<1> QED
  BY <1>1, <1>3, RemovedRearranges

LEMMA OpenShows ==
  ASSUME Shape, Open
  PROVE  /\ Len(page'.shown) = Cardinality(Present) /\ Len(page'.shown) \in Nat
         /\ \A i \in 1..Len(page'.shown) : /\ page'.shown[i].id \in Present
                                           /\ page'.shown[i].order = step[page'.shown[i].id].order
         /\ \A i, j \in 1..Len(page'.shown) : i # j => page'.shown[i].id # page'.shown[j].id
         /\ Sorted(page'.shown)
<1>1. page \in Sheet
  BY DEF Shape, PageShape
<1>2. PICK ids \in [1..Cardinality(Present) -> Present] :
        /\ \A i, j \in DOMAIN ids : i # j => ids[i] # ids[j]
        /\ Sorted([i \in DOMAIN ids |-> [id |-> ids[i], sel |-> step[ids[i]].sel,
                                         order |-> step[ids[i]].order]])
        /\ page' = [page EXCEPT !.st = "ready",
                      !.shown = [i \in DOMAIN ids |-> [id |-> ids[i], sel |-> step[ids[i]].sel,
                                                       order |-> step[ids[i]].order]]]
  BY DEF Open
<1> DEFINE n == Cardinality(Present)
           shown == [i \in DOMAIN ids |-> [id |-> ids[i], sel |-> step[ids[i]].sel,
                                           order |-> step[ids[i]].order]]
<1>3. n \in Nat
  BY AuthoringAssumption, FS_Subset, FS_CardinalityType DEF Present
<1>4. DOMAIN ids = 1..n /\ Len(shown) = n
  BY <1>2, <1>3
<1>5. page'.shown = shown /\ Sorted(shown)
  BY <1>1, <1>2 DEF Sheet
<1>6. \A i \in 1..n : shown[i].id = ids[i] /\ shown[i].order = step[ids[i]].order /\ ids[i] \in Present
  BY <1>2, <1>4
<1> HIDE DEF shown
<1> QED
  BY <1>2, <1>3, <1>4, <1>5, <1>6

\* The reply to addStep() shows the new step.
LEMMA AddedShows ==
  ASSUME Shape, NEW r \in Adders, Replies(r, "ok"), req[r].at \in Working
  PROVE  /\ page.shown \in Seq(Line) /\ Len(page.shown) \in Nat
         /\ Len(page'.shown) = Len(page.shown) + 1
         /\ \A k \in 1..Len(page.shown) : page'.shown[k] = page.shown[k]
         /\ page'.shown[Len(page.shown) + 1] = [id |-> req[r].s, sel |-> req[r].sel,
                                                order |-> req[r].orders[req[r].s]]
         /\ req[r].op = "create" /\ req[r].s \in Steps
         /\ page' = [page EXCEPT !.shown = page'.shown]
<1> DEFINE new == [id |-> req[r].s, sel |-> req[r].sel, order |-> req[r].orders[req[r].s]]
<1>1. page.shown \in Seq(Line) /\ page \in Sheet /\ Len(page.shown) \in Nat
  BY LenProperties DEF Shape, PageShape, Sheet
<1>2. new \in Line /\ req[r].op = "create" /\ req[r].s \in Steps
  BY DEF Shape, RequestShape, Fits, Line
<1>3. page' = [page EXCEPT !.shown = Append(page.shown, new)]
  BY AuthoringAssumption DEF Replies
<1> HIDE DEF new
<1>4. page'.shown = Append(page.shown, new)
  BY <1>1, <1>3 DEF Sheet
<1>5. /\ Len(page'.shown) = Len(page.shown) + 1
      /\ \A k \in 1..Len(page.shown) : page'.shown[k] = page.shown[k]
      /\ page'.shown[Len(page.shown) + 1] = new
  BY <1>1, <1>2, <1>4, AppendProperties
<1> QED
  BY <1>1, <1>2, <1>3, <1>4, <1>5 DEF new

LEMMA RepliesKeepShown ==
  ASSUME Shape, NEW r \in Calls, NEW at, Replies(r, at), r \in Adders => at # "ok"
  PROVE  page'.shown = page.shown /\ page'.saves \in {page.saves, <<>>}
<1>1. page \in Sheet
  BY DEF Shape, PageShape
<1>2. page' \in {page, [page EXCEPT !.calls = Tail(@)],
                [page EXCEPT !.calls = <<>>, !.saves = <<>>, !.st = "ready"]}
  BY DEF Replies, Ends
<1> QED
  BY <1>1, <1>2 DEF Sheet

\* What is shown changes with a step of the editor or with a step that was added.
LEMMA ShownStep ==
  ASSUME PlacedInv, [Next]_vars
  PROVE  \/ page'.shown = page.shown /\ page'.saves \in {page.saves, page.shown, <<>>}
         \/ /\ Open \/ Type \/ Drag \/ RemoveLocal
            /\ UNCHANGED <<step, versions>> /\ page'.saves = page.saves
         \/ \E r \in Adders : Commit(r)
<1>0. Shape /\ page \in Sheet
  BY DEF PlacedInv, Exclusive, Shape, PageShape
<1>1. CASE \E r \in Requests : AskEdit(r) \/ AskHeal(r) \/ AskGenerate(r)
  BY <1>1 DEF AskEdit, AskHeal, AskGenerate, Asked
<1>2. ASSUME NEW r \in Calls, Handler(r), ~(r \in Adders /\ Commit(r))
      PROVE  page'.shown = page.shown /\ page'.saves \in {page.saves, page.shown, <<>>}
  <2>1. CASE UNCHANGED page
    BY <2>1
  <2>2. ASSUME NEW at, Replies(r, at), r \in Adders => at # "ok"
        PROVE  page'.shown = page.shown /\ page'.saves \in {page.saves, page.shown, <<>>}
    BY <1>0, <2>2, RepliesKeepShown
  <2>3. CASE Commit(r) \/ Rollback(r) \/ Check(r)
    BY <1>2, <2>1, <2>2, <2>3 DEF Commit, Rollback, Check
  <2> QED
    BY <1>2, <2>1, <2>3 DEF Handler, Lock, ReadTest, ReadSteps, ReadForPrompt, Generated, Fails, Ends,
         ReadStep, Supersede, CreateLog, ReadLog, Apply, Mark
<1>3. CASE SendNext \/ \E r \in Adders : Add(r)
  BY <1>0, <1>3 DEF SendNext, Add, Sheet
<1>4. CASE Open \/ Type \/ Drag \/ RemoveLocal
  BY <1>0, <1>4 DEF Open, Type, Drag, RemoveLocal, Edit, testVars, Sheet
<1>5. CASE Save \/ UNCHANGED vars
  BY <1>0, <1>5 DEF Save, vars, Sheet
<1> QED
  BY <1>1, <1>2, <1>3, <1>4, <1>5 DEF Next, Editor

LEMMA IdentityInit == Init => IdentityInv /\ BoundInv
<1> SUFFICES ASSUME Init PROVE IdentityInv /\ BoundInv
  OBVIOUS
<1>1. \A r \in Calls : req[r] = NewRequest
  BY DEF Init
<1>2. /\ NewRequest.op = None /\ NewRequest.at = "new" /\ NewRequest.snap = NoContent
      /\ NewRequest.orders = NoOrders /\ NewRequest.s = None
  BY DEF NewRequest
<1>3. page.shown = <<>> /\ page.saves = <<>> /\ versions = <<>>
  BY DEF Init
<1>4. IdentityInv
  BY <1>1, <1>2, <1>3, AuthoringAssumption DEF IdentityInv, Reserves, Mirrors, Creates, ShowsOnce
<1>5. step \in Rows
  <2>1. PICK P \in SUBSET Steps, base \in {0, 1} : \E nth \in [P -> 0..Cardinality(P)] :
          /\ Cardinality(P) < Cardinality(Steps) /\ \A s \in P : nth[s] < Cardinality(P)
          /\ step = [s \in Steps |-> IF s \in P THEN [sel |-> "before", order |-> base + nth[s]] ELSE Gone]
    BY DEF Init
  <2> PICK nth \in [P -> 0..Cardinality(P)] :
          /\ \A s \in P : nth[s] < Cardinality(P)
          /\ step = [s \in Steps |-> IF s \in P THEN [sel |-> "before", order |-> base + nth[s]] ELSE Gone]
    BY <2>1
  <2>2. Cardinality(P) \in Nat /\ Cardinality(P) <= MaxOrder /\ MaxOrder \in Nat
    BY AuthoringAssumption, FS_Subset, FS_CardinalityType DEF MaxOrder
  <2>3. \A s \in P : base + nth[s] \in 0..MaxOrder
    BY <2>2
  <2>4. \A s \in P : [sel |-> "before", order |-> base + nth[s]] \in StepRow
    BY <2>3 DEF StepRow, Writers
  <2> QED
    BY <2>4 DEF Rows
<1>6. BoundInv
  <2>1. docs = NoContent.step /\ applied = {} /\ may \in Environments
    BY DEF Init, NoContent
  <2> QED
    BY <1>1, <1>2, <1>3, <1>5, <2>1, NothingIsPlaced, AuthoringAssumption DEF BoundInv, Low
<1> QED
  BY <1>4, <1>6

\* An identity that is to be given stays unknown until it is.
LEMMA ReservesStep ==
  ASSUME PlacedInv, [Next]_vars, NEW q \in Calls
  PROVE  Reserves(q)'
<1> SUFFICES ASSUME NEW s \in Steps, Creates(q, s)'
             PROVE  ~Known(s)' /\ \A p \in Calls \ {q} : ~Creates(p, s)'
  BY DEF Reserves
<1>0. /\ \A r \in Calls : Reserves(r)
      /\ s # None /\ (Known(s)' => Known(s) \/ \E r \in Calls : Commit(r) /\ Creates(r, s))
  BY KnownStep, AuthoringAssumption DEF PlacedInv, IdentityInv
<1>1. ASSUME NEW p \in Calls, Commit(p) PROVE ~Creates(p, s)'
  <2>1. Ended(p)
    BY <1>1, RepliesEnd DEF Commit, PlacedInv, Exclusive
  <2> QED
    BY <1>0, <2>1 DEF Ended, Creates
<1>2. CASE \A p \in Calls : Creates(p, s)' => Creates(p, s)
  <2>1. ~Known(s) /\ \A p \in Calls \ {q} : ~Creates(p, s)
    BY <1>0, <1>2 DEF Reserves
  <2>2. ~Known(s)'
    BY <1>0, <1>1, <2>1
  <2> QED
    BY <1>2, <2>1, <2>2
<1>3. ASSUME NEW p \in Calls, Creates(p, s)', ~Creates(p, s)
      PROVE  ~Known(s)' /\ \A r \in Calls \ {q} : ~Creates(r, s)'
  <2>1. PICK r \in Calls : Lone(r) /\ (Begun(r) \/ GoesOn(r) \/ Ended(r))
    BY <1>3, RequestStep DEF Creates
  <2>2. p = r
    BY <1>3, <2>1 DEF Lone, Creates
  <2>3. s \in Unused /\ UNCHANGED <<step, versions>>
    BY <1>0, <1>3, <2>1, <2>2 DEF Begun, GoesOn, Ended, Creates
  <2>4. ~Known(s)' /\ \A t \in Calls : ~Creates(t, s)
    BY <2>3 DEF Unused, Known, Creates
  <2> QED
    BY <2>1, <2>2, <2>4 DEF Lone, Creates
<1> QED
  BY <1>2, <1>3

LEMMA MirrorsStep ==
  ASSUME PlacedInv, [Next]_vars, NEW q \in Calls
  PROVE  Mirrors(q)'
<1> SUFFICES ASSUME req'[q].at = "read", NEW s \in Steps
             PROVE  req'[q].snap.step[s] = Gone <=> step'[s] = Gone
  BY DEF Mirrors
<1>1. CASE req'[q] # req[q]
  <2>1. PICK r \in Calls : Lone(r) /\ (Begun(r) \/ GoesOn(r) \/ Ended(r))
    BY <1>1, RequestStep
  <2>2. q = r /\ GoesOn(q)
    BY <1>1, <2>1 DEF Lone, Begun, Ended
  <2> QED
    BY <2>2 DEF GoesOn
<1>2. CASE req'[q] = req[q]
  <2>1. req[q].snap.step[s] = Gone <=> step[s] = Gone
    BY <1>2 DEF PlacedInv, IdentityInv, Mirrors
  <2>2. step'[s] # Gone <=> step[s] # Gone
    <3>1. ASSUME NEW r \in Calls, Commit(r) PROVE FALSE
      <4>1. lock = r /\ lock = q
        BY <1>2, <3>1 DEF PlacedInv, Exclusive, Alone, Locked, Held, Commit
      <4>2. Ended(q)
        BY <3>1, <4>1, RepliesEnd DEF Commit, PlacedInv, Exclusive
      <4> QED
        BY <4>2 DEF Ended
    <3> QED
      BY <3>1, TestStep, ApplyKeeps
  <2> QED
    BY <1>2, <2>1, <2>2
<1> QED
  BY <1>1, <1>2

LEMMA ShowsOnceStep ==
  ASSUME PlacedInv, [Next]_vars
  PROVE  ShowsOnce'
<1>0. /\ Shape /\ page.shown \in Seq(Line) /\ page.shown \in [1..Len(page.shown) -> Line]
      /\ ShowsOnce /\ Ever \subseteq Ever'
  BY KnownStep, LenProperties DEF PlacedInv, Exclusive, Shape, PageShape, Sheet, IdentityInv, Ever
<1>1. \A i, j \in 1..Len(page.shown) : i # j => page.shown[i].id # page.shown[j].id
  BY <1>0 DEF ShowsOnce
<1>2. \A i \in 1..Len(page.shown) : page.shown[i].id \in Ever'
  BY <1>0 DEF ShowsOnce
<1>3. CASE page'.shown = page.shown
  BY <1>1, <1>2, <1>3 DEF ShowsOnce
<1>4. ASSUME NEW f, Rearranges(f, page'.shown) PROVE ShowsOnce'
  <2>1. \A k \in 1..Len(page'.shown) :
          f[k] \in 1..Len(page.shown) /\ page'.shown[k].id = page.shown[f[k]].id
    BY <1>4 DEF Rearranges
  <2>2. ASSUME NEW k \in 1..Len(page'.shown), NEW m \in 1..Len(page'.shown), k # m
        PROVE  page'.shown[k].id # page'.shown[m].id
    <3>1. f[k] # f[m]
      BY <1>4, <2>2 DEF Rearranges
    <3>2. page.shown[f[k]].id # page.shown[f[m]].id
      BY <1>1, <2>1, <3>1
    <3> QED
      BY <2>1, <3>2
  <2>3. \A k \in 1..Len(page'.shown) : page'.shown[k].id \in Ever'
    BY <1>2, <2>1
  <2> QED
    BY <2>2, <2>3 DEF ShowsOnce
<1>5. CASE Open
  <2>1. /\ \A i \in 1..Len(page'.shown) : page'.shown[i].id \in Present
        /\ \A i, j \in 1..Len(page'.shown) : i # j => page'.shown[i].id # page'.shown[j].id
    BY <1>0, <1>5, OpenShows
  <2>2. UNCHANGED step
    BY <1>5 DEF Open, testVars
  <2>3. \A s \in Present : s \in Ever'
    BY <2>2 DEF Present, Known, Ever
  <2> QED
    BY <2>1, <2>3 DEF ShowsOnce
<1>6. CASE Type
  <2>1. /\ Len(page'.shown) = Len(page.shown)
        /\ \A k \in 1..Len(page.shown) : page'.shown[k].id = page.shown[k].id
    BY <1>0, <1>6, TypeShows
  <2> QED
    BY <1>1, <1>2, <2>1 DEF ShowsOnce
<1>7. CASE Drag \/ RemoveLocal
  BY <1>0, <1>4, <1>7, DragShows, RemoveShows
<1>8. ASSUME NEW r \in Adders, Commit(r) PROVE ShowsOnce'
  <2> DEFINE n == Len(page.shown)
  <2>1. /\ n \in Nat /\ Len(page'.shown) = n + 1
        /\ \A k \in 1..n : page'.shown[k] = page.shown[k]
        /\ page'.shown[n + 1].id = req[r].s
        /\ Creates(r, req[r].s) /\ req[r].s \in Steps
    <3>1. r \in Calls /\ req[r].at \in Working /\ Replies(r, "ok")
      BY <1>8 DEF Commit, Working
    <3> QED
      <4>1. /\ n \in Nat /\ Len(page'.shown) = n + 1
            /\ \A k \in 1..n : page'.shown[k] = page.shown[k]
        BY <1>0, <3>1, AddedShows
      <4>2. page'.shown[n + 1] = [id |-> req[r].s, sel |-> req[r].sel,
                                  order |-> req[r].orders[req[r].s]]
        BY <1>0, <3>1, AddedShows
      <4>3. req[r].op = "create" /\ req[r].s \in Steps
        BY <1>0, <3>1, AddedShows
      <4> QED
        BY <4>1, <4>2, <4>3 DEF Creates
  <2>2. req[r].s \notin Ever
    BY <2>1 DEF PlacedInv, IdentityInv, Reserves, Ever
  <2>3. req[r].s \in Ever'
    <3>1. step'[req[r].s] # Gone
      <4> DEFINE row == [sel |-> req[r].sel, order |-> req[r].orders[req[r].s]]
      <4>1. step' = [step EXCEPT ![req[r].s] = row]
        BY <1>8, <2>1 DEF Commit, Writes, Creates
      <4>2. row \in [sel : Writers, order : Nat]
        BY <1>8, <2>1 DEF Commit, Creates, PlacedInv, Exclusive, Shape, RequestShape, Fits, Working
      <4>3. step \in Rows
        BY DEF PlacedInv, BoundInv
      <4> HIDE DEF row
      <4>4. step'[req[r].s] = row
        BY <2>1, <4>1, <4>3 DEF Rows
      <4> QED
        BY <4>2, <4>4, NoneIsNoRow
    <3> QED
      <4>1. PICK s \in Steps : s = req[r].s
        BY <2>1
      <4>2. Known(s)'
        BY <3>1, <4>1 DEF Known
      <4> QED
        BY <4>1, <4>2 DEF Ever
  <2>4. ASSUME NEW k \in 1..(n + 1)
        PROVE  /\ page'.shown[k].id \in Ever'
               /\ \A m \in 1..(n + 1) : k # m => page'.shown[k].id # page'.shown[m].id
    <3>1. \A m \in 1..n : page'.shown[m].id # req[r].s
      <4>1. \A m \in 1..n : page.shown[m].id \in Ever
        BY <1>0 DEF ShowsOnce
      <4> QED
        BY <2>1, <2>2, <4>1
    <3>2. page'.shown[k].id \in Ever'
      BY <1>2, <2>1, <2>3
    <3>3. \A m \in 1..n, o \in 1..n : m # o => page'.shown[m].id # page'.shown[o].id
      BY <1>1, <2>1
    <3>4. CASE k = n + 1
      BY <2>1, <3>1, <3>2, <3>4
    <3>5. CASE k \in 1..n
      <4>1. ASSUME NEW m \in 1..(n + 1), k # m PROVE page'.shown[k].id # page'.shown[m].id
        <5>1. m \in 1..n \/ m = n + 1
          BY <2>1
        <5> QED
          BY <2>1, <3>1, <3>3, <3>5, <4>1, <5>1
      <4> QED
        BY <3>2, <4>1
    <3> QED
      BY <2>1, <3>4, <3>5
  <2> QED
    BY <2>1, <2>4 DEF ShowsOnce
<1> QED
  BY <1>3, <1>5, <1>6, <1>7, <1>8, ShownStep

LEMMA BoundsOfTest ==
  ASSUME PlacedInv, [Next]_vars
  PROVE  step' \in Rows /\ \A n \in 1..Len(versions') : versions'[n].step \in Rows
<1>0. /\ step \in Rows /\ \A n \in 1..Len(versions) : versions[n].step \in Rows
      /\ \A r \in Calls : req[r].snap.step \in Rows
  BY DEF PlacedInv, BoundInv
<1>1. CASE UNCHANGED <<step, versions>>
  BY <1>0, <1>1
<1>2. ASSUME NEW r \in Calls, Apply(r)
      PROVE  step' \in Rows /\ \A n \in 1..Len(versions') : versions'[n].step \in Rows
  BY <1>0, <1>2, ApplyKeeps
<1>3. ASSUME NEW r \in Calls, Commit(r)
      PROVE  step' \in Rows /\ \A n \in 1..Len(versions') : versions'[n].step \in Rows
  <2>1. /\ versions \in Seq(Contents) /\ req[r].snap \in Contents
        /\ versions' = Append(versions, req[r].snap)
    BY <1>3 DEF PlacedInv, Exclusive, Shape, RequestShape, Demand, Commit, Snapshot
  <2>2. /\ Len(versions) \in Nat /\ Len(versions') = Len(versions) + 1
        /\ versions'[Len(versions) + 1] = req[r].snap
        /\ \A n \in 1..Len(versions) : versions'[n] = versions[n]
    BY <2>1, AppendProperties, LenProperties
  <2>3. \A n \in 1..Len(versions') : n \in 1..Len(versions) \/ n = Len(versions) + 1
    BY <2>2
  <2>4. \A n \in 1..Len(versions') : versions'[n].step \in Rows
    BY <1>0, <2>2, <2>3
  <2> QED
    BY <1>3, <2>4, WritesPlaces
<1> QED
  BY <1>1, <1>2, <1>3, TestStep

\* What else a handler writes: documentation about steps that it read, and proposals.
LEMMA HandlersWrite ==
  ASSUME PlacedInv, [Next]_vars
  PROVE  /\ docs' \in Rows /\ applied' \subseteq Requests /\ UNCHANGED may
<1>0. docs \in Rows /\ applied \subseteq Requests /\ \A r \in Calls : req[r].snap.step \in Rows
  BY DEF PlacedInv, BoundInv
<1>1. CASE \E r \in Requests : AskEdit(r) \/ AskHeal(r) \/ AskGenerate(r)
  BY <1>0, <1>1 DEF AskEdit, AskHeal, AskGenerate, Asked, testVars, logVars
<1>2. ASSUME NEW r \in Calls, Handler(r)
      PROVE  docs' \in Rows /\ applied' \subseteq Requests /\ UNCHANGED may
  <2>1. CASE Generated(r)
    BY <1>0, <2>1 DEF Generated, logVars
  <2>2. CASE Apply(r)
    <3>1. req[r].of \in Requests
      BY <2>2 DEF Apply, PlacedInv, Exclusive, Shape, RequestShape, Fits, Working
    <3> QED
      BY <1>0, <2>2, <3>1 DEF Apply
  <2>3. CASE Commit(r)
    BY <1>0, <2>3 DEF Commit
  <2>4. CASE ~(Generated(r) \/ Apply(r) \/ Commit(r))
    BY <1>0, <1>2, <2>4 DEF Handler, Check, Lock, ReadTest, ReadSteps, Rollback, ReadForPrompt, Fails,
         ReadStep, Supersede, CreateLog, ReadLog, Mark, testVars, logVars
  <2> QED
    BY <2>1, <2>2, <2>3, <2>4
<1>3. CASE SendNext \/ \E r \in Adders : Add(r)
  BY <1>0, <1>3 DEF SendNext, Add, testVars, logVars
<1>4. CASE Open \/ Type \/ Drag \/ RemoveLocal \/ Save \/ UNCHANGED vars
  BY <1>0, <1>4 DEF Open, Type, Drag, RemoveLocal, Save, Edit, vars, testVars, logVars
<1> QED
  BY <1>1, <1>2, <1>3, <1>4 DEF Next, Editor

LEMMA BoundsOfRequests ==
  ASSUME PlacedInv, [Next]_vars, NEW q \in Calls
  PROVE  req'[q].snap.step \in Rows /\ req'[q].orders \in Places
<1>0. step \in Rows /\ req[q].snap.step \in Rows /\ req[q].orders \in Places
  BY DEF PlacedInv, BoundInv
<1>1. CASE req'[q] = req[q]
  BY <1>0, <1>1
<1>2. CASE req'[q] # req[q]
  <2>1. Begun(q) \/ GoesOn(q) \/ Ended(q)
    BY <1>2, RequestStep DEF Lone
  <2> QED
    BY <1>0, <2>1, NothingIsPlaced DEF Begun, GoesOn, Ended
<1> QED
  BY <1>1, <1>2

LEMMA BoundsOfPage ==
  ASSUME PlacedInv, [Next]_vars
  PROVE  Low(page'.shown) /\ Low(page'.saves)
<1>0. /\ Shape /\ page.shown \in Seq(Line) /\ Low(page.shown) /\ Low(page.saves) /\ step \in Rows
      /\ MaxOrder \in Nat /\ Len(page.shown) \in 0..MaxOrder
  BY NothingIsPlaced, PlaceAfterLast DEF PlacedInv, Exclusive, Shape, PageShape, Sheet, BoundInv
<1>1. Low(<<>>)
  BY DEF Low
<1>2. CASE page'.shown = page.shown /\ page'.saves \in {page.saves, page.shown, <<>>}
  BY <1>0, <1>1, <1>2
<1>3. CASE Type
  <2>1. page'.saves = page.saves
    BY <1>0, <1>3 DEF Type, Edit, Shape, PageShape, Sheet
  <2>2. /\ Len(page'.shown) = Len(page.shown)
        /\ \A k \in 1..Len(page.shown) : page'.shown[k].order = page.shown[k].order
    BY <1>0, <1>3, TypeShows
  <2> QED
    BY <1>0, <2>1, <2>2 DEF Low
<1>4. CASE Drag
  <2>1. page'.saves = page.saves
    BY <1>0, <1>4 DEF Drag, Edit, Shape, PageShape, Sheet
  <2>2. /\ Len(page'.shown) = Len(page.shown)
        /\ \A k \in 1..Len(page.shown) : page'.shown[k].order = k
    BY <1>0, <1>4, DragShows
  <2> QED
    BY <1>0, <2>1, <2>2 DEF Low
<1>5. CASE RemoveLocal
  <2>1. page'.saves = page.saves
    BY <1>0, <1>5 DEF RemoveLocal, Edit, Shape, PageShape, Sheet
  <2>2. PICK f : /\ Rearranges(f, page'.shown)
                 /\ \A k \in 1..Len(page'.shown) : page'.shown[k] = page.shown[f[k]]
    BY <1>0, <1>5, RemoveShows
  <2>3. \A k \in 1..Len(page'.shown) : f[k] \in 1..Len(page.shown)
    BY <2>2 DEF Rearranges
  <2> QED
    BY <1>0, <2>1, <2>2, <2>3 DEF Low
<1>6. CASE Open
  <2>1. page'.saves = page.saves
    BY <1>0, <1>6 DEF Open, Shape, PageShape, Sheet
  <2>2. \A i \in 1..Len(page'.shown) : /\ page'.shown[i].id \in Present
                                       /\ page'.shown[i].order = step[page'.shown[i].id].order
    BY <1>0, <1>6, OpenShows
  <2>3. \A s \in Present : step[s].order <= MaxOrder
    BY <1>0 DEF Present, Rows, StepRow
  <2> QED
    BY <1>0, <2>1, <2>2, <2>3 DEF Low
<1>7. ASSUME NEW r \in Adders, Commit(r) PROVE Low(page'.shown) /\ Low(page'.saves)
  <2> DEFINE n == Len(page.shown)
  <2>0. r \in Calls /\ req[r].at \in Working /\ Replies(r, "ok")
    BY <1>7 DEF Commit, Working
  <2>1. n \in Nat /\ Len(page'.shown) = n + 1 /\ \A k \in 1..n : page'.shown[k] = page.shown[k]
    BY <1>0, <2>0, AddedShows
  <2>2. page'.shown[n + 1] = [id |-> req[r].s, sel |-> req[r].sel, order |-> req[r].orders[req[r].s]]
    BY <1>0, <2>0, AddedShows
  <2>3. page' = [page EXCEPT !.shown = page'.shown] /\ req[r].op = "create" /\ req[r].s \in Steps
    BY <1>0, <2>0, AddedShows
  <2>4. req[r].orders[req[r].s] <= MaxOrder
    <3>1. req[r].orders[req[r].s] \in Nat
      BY <1>0, <2>0, <2>3 DEF Shape, RequestShape, Fits
    <3>2. req[r].orders[req[r].s] \in 0..MaxOrder \cup {None}
      BY <2>0, <2>3 DEF PlacedInv, BoundInv, Places
    <3> QED
      BY <1>0, <3>1, <3>2, AuthoringAssumption
  <2>5. page'.saves = page.saves
    BY <1>0, <2>3 DEF Shape, PageShape, Sheet
  <2>6. page'.shown[n + 1].order <= MaxOrder
    BY <2>2, <2>4
  <2>7. \A k \in 1..(n + 1) : k \in 1..n \/ k = n + 1
    BY <2>1
  <2> QED
    BY <1>0, <2>1, <2>5, <2>6, <2>7 DEF Low
<1> QED
  BY <1>2, <1>3, <1>4, <1>5, <1>6, <1>7, ShownStep

\* The inductive invariant of the type of the state.
LEMMA PlacedStep == PlacedInv /\ [Next]_vars => PlacedInv'
<1> SUFFICES ASSUME PlacedInv, [Next]_vars PROVE PlacedInv'
  OBVIOUS
<1>1. Exclusive'
  BY ExclusiveStep DEF PlacedInv
<1>2. IdentityInv'
  BY ReservesStep, MirrorsStep, ShowsOnceStep DEF IdentityInv
<1>3. BoundInv'
  <2>1. Low(page.shown)' /\ Low(page.saves)'
    BY BoundsOfPage DEF Low
  <2>2. may' \subseteq Circumstances
    BY HandlersWrite DEF PlacedInv, BoundInv
  <2> QED
    BY <2>1, <2>2, BoundsOfTest, HandlersWrite, BoundsOfRequests DEF BoundInv
<1> QED
  BY <1>1, <1>2, <1>3 DEF PlacedInv

\* A sequence of lines at places that the type has is one of lines that the page shows.
LEMMA LowIsShown ==
  ASSUME NEW lines \in Seq(Line), Low(lines)
  PROVE  lines \in Seq(Shown)
<1>1. Len(lines) \in Nat /\ lines \in [1..Len(lines) -> Line] /\ DOMAIN lines = 1..Len(lines)
  BY LenProperties
<1>2. \A i \in 1..Len(lines) : lines[i] \in Shown
  BY <1>1, NothingIsPlaced DEF Low, Line, Shown
<1>3. lines \in [1..Len(lines) -> Shown]
  BY <1>1, <1>2
<1> QED
  BY <1>1, <1>3

LEMMA PlacedHasType == PlacedInv => TypeOK
<1> SUFFICES ASSUME PlacedInv PROVE TypeOK
  OBVIOUS
<1> USE DEF PlacedInv, Exclusive, Shape
<1>1. \A c \in Contents : c.step \in Rows => c \in Content
  BY DEF Contents, Content, Rows
<1>2. content \in Content
  BY DEF content, Content, TestShape, BoundInv, Rows
<1>3. versions \in Seq(Content)
  <2>1. Len(versions) \in Nat /\ versions \in [1..Len(versions) -> Contents]
        /\ DOMAIN versions = 1..Len(versions)
    BY LenProperties
  <2>2. versions \in [1..Len(versions) -> Content]
    BY <1>1, <2>1 DEF BoundInv
  <2> QED
    BY <2>1, <2>2
<1>4. req \in [Calls -> Request]
  <2>1. ASSUME NEW r \in Calls PROVE req[r] \in Request
    <3>1. req[r] \in Demand /\ req[r].orders \in Places
      BY DEF RequestShape, BoundInv
    <3>2. req[r].snap \in Content
      BY <1>1, <3>1 DEF BoundInv, Demand
    <3> QED
      BY <3>1, <3>2 DEF Demand, Request, Working, Places
  <2> QED
    BY <2>1 DEF RequestShape
<1>5. page \in Page
  <2>1. page \in Sheet
    BY DEF PageShape
  <2>2. page.shown \in Seq(Shown) /\ page.saves \in Seq(Shown)
    BY <2>1, LowIsShown DEF Sheet, BoundInv
  <2> QED
    BY <2>1, <2>2 DEF Sheet, Page
<1> QED
  BY <1>2, <1>3, <1>4, <1>5 DEF TypeOK, BoundInv, Rows

-----------------------------------------------------------------------------
(* What handleSave() has done                                              *)

\* Only the editor edits the test, one addition at a time, and removes nothing.
Calm == Without({"edit", "heal", "local", "hasty"})

\* The API is only asked for code and documentation.
Idle(r) ==
  req[r].at \in Working => req[r].op \in {"codegen", "document"} /\ req[r].at \in {"asked", "thinking"}

InEdit == Held \cup {"asked", "locking"}

\* One step is added at a time, at the place after the last one that is shown.
Addition(a) ==
  req[a].at # "new" =>
    /\ page.st # "closed"
    /\ \A b \in Adders : req[b].at # "new" => b = a
    /\ req[a].at \in InEdit /\ req[a].sel \in Adders
    /\ req[a].orders[req[a].s] = Len(page.shown) + 1

\* Until the page is opened the steps are where they were, each at a place of its own.
Unopened ==
  page.st = "closed" =>
    /\ page.shown = <<>>
    /\ \A s \in Present : step[s].order <= Cardinality(Present)
    /\ \A s, t \in Present : s # t => step[s].order # step[t].order

Rising(lines) == \A i, j \in 1..Len(lines) : i < j => lines[i].order < lines[j].order
Has(lines, s) == \E i \in 1..Len(lines) : lines[i].id = s

Opened ==
  /\ Rising(page.shown) /\ \A i \in 1..Len(page.shown) : page.shown[i].order <= Len(page.shown)
  /\ page.st # "closed" => \A s \in Present : Has(page.shown, s)

\* How many calls of handleSave() were answered: the first is reorder(), the others are the
\* updates, in the order of the steps.
Answered  == (Len(page.saves) - Len(page.calls)) + 1
Called(k) == IF k = 0 THEN "reorder" ELSE page.saves[k].id

Reordered ==
  \A i \in 1..Len(page.saves) :
    page.saves[i].id \in Present /\ step[page.saves[i].id].order = page.saves[i].order

Saving ==
  page.st = "saving" =>
    /\ Len(page.calls) \in 1..(Len(page.saves) + 1)
    /\ \A j \in 1..Len(page.calls) : page.calls[j] = Called(Answered + j - 1)
    /\ Rising(page.saves)
    /\ \A i, j \in 1..Len(page.saves) : i # j => page.saves[i].id # page.saves[j].id
    /\ \A s \in Present : step[s].sel \in Adders \/ Has(page.saves, s)
    /\ Answered > 0 => Reordered
    /\ \A i \in 1..(Answered - 1) : step[page.saves[i].id].sel = page.saves[i].sel

\* The request under way is the call that is next.
Sent ==
  req[Saver].at # "new" =>
    /\ page.st = "saving" /\ req[Saver].at \in InEdit
    /\ req[Saver].op = IF Answered = 0 THEN "reorder" ELSE "update"
    /\ Answered = 0 =>
         \A i \in 1..Len(page.saves) : req[Saver].orders[page.saves[i].id] = page.saves[i].order
    /\ Answered > 0 =>
         req[Saver].s = page.saves[Answered].id /\ req[Saver].sel = page.saves[Answered].sel

EditorInv ==
  Calm => /\ \A r \in Requests : Idle(r)
          /\ \A a \in Adders : Addition(a)
          /\ Unopened /\ Opened /\ Saving /\ Sent

CalmInv == PlacedInv /\ EditorInv

LEMMA ApiHandler ==
  ASSUME CalmInv, Calm, NEW r \in Requests, Handler(r)
  PROVE  UNCHANGED <<step, versions, page>> /\ Lone(r) /\ Idle(r)'
<1>1. Idle(r) /\ Shape /\ r \in Calls
  BY DEF CalmInv, EditorInv, PlacedInv, Exclusive
<1>2. ReadForPrompt(r) \/ Generated(r) \/ Fails(r)
  BY <1>1 DEF Handler, Idle, Working, Edits, Check, Lock, ReadTest, ReadSteps, Commit, Rollback, Editing,
       ReadStep, Supersede, CreateLog, ReadLog, Apply, Mark, Moves
<1>3. UNCHANGED <<step, versions, page>>
  BY <1>2 DEF ReadForPrompt, Generated, Fails, Ends, testVars
<1>4. CASE ReadForPrompt(r)
  <2>1. req[r] \in Demand /\ Lone(r) /\ req'[r] = [req[r] EXCEPT !.at = "thinking", !.snap = content]
    BY <1>1, <1>4 DEF ReadForPrompt, Shape, RequestShape, Lone
  <2>2. req'[r].at = "thinking" /\ req'[r].op = req[r].op
    BY <2>1 DEF Demand
  <2>3. req[r].op \in {"codegen", "document"}
    BY <1>4 DEF ReadForPrompt
  <2> QED
    BY <1>3, <2>1, <2>2, <2>3 DEF Idle
<1>5. CASE Generated(r) \/ Fails(r)
  <2>1. Lone(r) /\ Ended(r)
    BY <1>1, <1>5, EndsEnds DEF Generated, Fails
  <2> QED
    BY <1>3, <2>1 DEF Ended, Idle, Working
<1> QED
  BY <1>2, <1>4, <1>5

\* What a request of the editor does: it goes on, is refused or is done.
LEMMA EditorHandler ==
  ASSUME CalmInv, Calm, NEW r \in Adders \cup {Saver}, Handler(r)
  PROVE  /\ req[r].at \in Working /\ req[r].op \in {"create", "reorder", "update"}
         /\ Lone(r)
         /\ \/ GoesOn(r) /\ UNCHANGED <<step, versions, page>>
            \/ \E at \in {"refused", "failed"} : Replies(r, at) /\ Ended(r) /\ UNCHANGED <<step, versions>>
            \/ Commit(r) /\ Ended(r)
         /\ req'[r].at \in InEdit \cup {"new"}
<1>0. Shape /\ r \in Calls /\ Exclusive
  BY DEF CalmInv, PlacedInv, Exclusive
<1>1. req[r].at # "new"
  BY DEF Handler, Check, Lock, ReadTest, ReadSteps, Commit, Rollback, ReadForPrompt, Generated, Fails,
       Over, ReadStep, Supersede, CreateLog, ReadLog, Apply, Mark, Moves
<1>2. req[r].at \in InEdit /\ req[r].op \in {"create", "reorder", "update"}
  <2>1. CASE r \in Adders
    <3>1. req[r].at \in InEdit
      BY <1>1, <2>1 DEF CalmInv, EditorInv, Addition
    <3> QED
      BY <1>0, <2>1, <3>1 DEF Shape, RequestShape, Fits, InEdit, Held, Working
  <2>2. CASE r = Saver
    BY <1>1, <2>2 DEF CalmInv, EditorInv, Sent
  <2> QED
    BY <2>1, <2>2
<1>3. InEdit \subseteq Working
  BY DEF InEdit, Held, Working
<1>4. Check(r) \/ Lock(r) \/ ReadTest(r) \/ ReadSteps(r) \/ Commit(r) \/ Rollback(r)
  BY <1>2 DEF Handler, ReadForPrompt, Generated, Fails, Edits, ReadStep, Supersede, CreateLog,
       ReadLog, Apply, Mark, Moves, InEdit, Held
<1>5. Lone(r) /\ (GoesOn(r) \/ Ended(r))
  BY <1>0, HandlerActs
<1>6. \A at \in {"ok", "refused", "failed"} : Replies(r, at) => Ended(r) /\ req'[r].at = "new"
  <2>1. \A at \in {"ok", "refused", "failed"} : Replies(r, at) => Ended(r)
    BY <1>0, RepliesEnd
  <2>2. \A at \in {"ok", "refused", "failed"} : Replies(r, at) => req' = [req EXCEPT ![r] = NewRequest]
    BY AuthoringAssumption DEF Replies
  <2> QED
    BY <1>0, <2>1, <2>2 DEF NewRequest, Shape, RequestShape
<1>7. CASE Check(r) \/ Lock(r) \/ ReadTest(r) \/ ReadSteps(r)
  <2>1. UNCHANGED <<step, versions>>
    BY <1>7 DEF Check, Lock, ReadTest, ReadSteps, testVars
  <2>2. CASE Replies(r, "refused")
    BY <1>2, <1>3, <1>5, <1>6, <2>1, <2>2
  <2>3. CASE UNCHANGED page /\ ~Replies(r, "refused")
    <3>1. req'[r].at \in {"locking", "locked", "test read", "read"}
      <4>1. CASE Check(r) \/ Lock(r)
        BY <1>0, <2>3, <4>1, MovesAre DEF Check, Lock, Working
      <4>2. CASE ReadTest(r)
        <5>1. req'[r] = [req[r] EXCEPT !.at = "test read", !.snap.code = code] /\ req[r] \in Demand
          BY <1>0, <4>2 DEF ReadTest, Shape, RequestShape
        <5> QED
          BY <5>1 DEF Demand
      <4>3. CASE ReadSteps(r)
        <5>1. req'[r] = [req[r] EXCEPT !.at = "read", !.snap.step = step, !.n = Len(versions)]
              /\ req[r] \in Demand
          BY <1>0, <4>3 DEF ReadSteps, Shape, RequestShape
        <5> QED
          BY <5>1 DEF Demand
      <4> QED
        BY <1>7, <4>1, <4>2, <4>3
    <3>2. GoesOn(r) /\ req'[r].at \in InEdit
      BY <1>5, <3>1 DEF Ended, InEdit, Held
    <3> QED
      BY <1>2, <1>3, <1>5, <2>1, <2>3, <3>2
  <2> QED
    BY <1>7, <2>2, <2>3 DEF Check, Lock, ReadTest, ReadSteps
<1>8. CASE Rollback(r)
  BY <1>2, <1>3, <1>5, <1>6, <1>8 DEF Rollback, testVars
<1>9. CASE Commit(r)
  BY <1>2, <1>3, <1>5, <1>6, <1>9 DEF Commit
<1> QED
  BY <1>4, <1>7, <1>8, <1>9

LEMMA LeftToCall ==
  ASSUME NEW n \in Nat, NEW m \in 1..(n + 1)
  PROVE  (n - m) + 1 \in 0..n /\ \A i \in 1..(((n - m) + 1) - 1) : i \in 1..n /\ (n - m) + 1 > 0
OBVIOUS

LEMMA PageKept ==
  ASSUME Unopened, Opened, Saving, UNCHANGED <<step, page>>
  PROVE  Unopened' /\ Opened' /\ Saving' /\ Answered' = Answered
<1>1. Present' = Present /\ Answered' = Answered /\ \A k : Called(k)' = Called(k)
  BY DEF Present, Answered, Called
<1>2. Unopened' /\ Opened'
  BY <1>1 DEF Unopened, Opened
<1>3. Reordered => Reordered'
  BY <1>1 DEF Reordered
<1>4. Saving'
  BY <1>1, <1>3 DEF Saving
<1> QED
  BY <1>1, <1>2, <1>4

LEMMA SentKept ==
  ASSUME Sent, req'[Saver] = req[Saver], page'.st = page.st, page'.saves = page.saves,
         page'.calls = page.calls
  PROVE  Sent'
<1>1. Answered' = Answered
  BY DEF Answered
<1> QED
  BY <1>1 DEF Sent

\* The steps that leave the test and the page as they are.
LEMMA QuietEditor ==
  ASSUME CalmInv, Calm, UNCHANGED <<step, page>>, \A q \in Adders \cup {Saver} : req'[q] = req[q],
         \A r \in Requests : Idle(r)'
  PROVE  EditorInv'
<1>1. EditorInv /\ Unopened' /\ Opened' /\ Saving' /\ Sent'
  BY PageKept, SentKept DEF CalmInv, EditorInv
<1>2. \A a \in Adders : Addition(a)'
  BY <1>1 DEF EditorInv, Addition
<1> QED
  BY <1>1, <1>2 DEF EditorInv

LEMMA GoesOnEditor ==
  ASSUME CalmInv, Calm, NEW r \in Adders \cup {Saver}, GoesOn(r), Lone(r), req'[r].at \in InEdit,
         req[r].at \in Working, UNCHANGED <<step, page>>
  PROVE  EditorInv'
<1>1. EditorInv /\ Unopened' /\ Opened' /\ Saving' /\ Answered' = Answered
  BY PageKept DEF CalmInv, EditorInv
<1>2. \A q \in Requests : Idle(q)'
  BY <1>1, AuthoringAssumption DEF EditorInv, Lone, Idle
<1>3. req[r].at # "new" /\ \A b \in Adders : req'[b].at # "new" => req[b].at # "new"
  BY DEF Lone, Working
<1>4. ASSUME NEW a \in Adders PROVE Addition(a)'
  <2>1. CASE a = r
    BY <1>1, <1>3, <2>1 DEF EditorInv, Addition, GoesOn
  <2>2. CASE a # r
    <3>1. req'[a] = req[a]
      BY <2>2 DEF Lone
    <3> QED
      BY <1>1, <1>3, <3>1 DEF EditorInv, Addition
  <2> QED
    BY <2>1, <2>2
<1>5. Sent'
  <2>1. CASE r = Saver
    BY <1>1, <1>3, <2>1 DEF EditorInv, Sent, GoesOn
  <2>2. CASE r # Saver
    <3>1. req'[Saver] = req[Saver]
      BY <2>2 DEF Lone
    <3> QED
      BY <1>1, <3>1, SentKept DEF EditorInv
  <2> QED
    BY <2>1, <2>2
<1> QED
  BY <1>1, <1>2, <1>4, <1>5 DEF EditorInv

\* A request of the editor that is refused: what is saved is given up, an addition is not shown.
LEMMA RefusedEditor ==
  ASSUME CalmInv, Calm, NEW r \in Adders \cup {Saver}, NEW at \in {"refused", "failed"},
         Replies(r, at), Lone(r), req'[r].at = "new", req[r].at \in Working, UNCHANGED step
  PROVE  EditorInv'
<1>1. EditorInv /\ page \in Sheet
  BY DEF CalmInv, EditorInv, PlacedInv, Exclusive, Shape, PageShape
<1>2. \A q \in Requests : Idle(q)'
  BY <1>1, AuthoringAssumption DEF EditorInv, Lone, Idle
<1>3. \A b \in Adders : req'[b].at # "new" => req'[b] = req[b]
  BY DEF Lone
<1>4. CASE r \in Adders
  <2>1. UNCHANGED page /\ req'[Saver] = req[Saver]
    BY <1>4, AuthoringAssumption DEF Replies, Lone
  <2>2. Unopened' /\ Opened' /\ Saving' /\ Sent'
    BY <1>1, <2>1, PageKept, SentKept DEF EditorInv
  <2>3. \A a \in Adders : Addition(a)'
    BY <1>1, <1>3, <2>1 DEF EditorInv, Addition
  <2> QED
    BY <1>2, <2>2, <2>3 DEF EditorInv
<1>5. CASE r = Saver
  <2>1. page' = [page EXCEPT !.calls = <<>>, !.saves = <<>>, !.st = "ready"]
    BY <1>5, AuthoringAssumption DEF Replies
  <2>2. page'.shown = page.shown /\ page'.st = "ready" /\ page.st = "saving"
    BY <1>1, <1>5, <2>1 DEF Sheet, EditorInv, Sent, Working
  <2>3. Unopened' /\ Opened' /\ Saving'
    BY <1>1, <2>2 DEF EditorInv, Unopened, Opened, Saving, Present
  <2>4. Sent'
    BY <1>5 DEF Sent
  <2>5. \A a \in Adders : Addition(a)'
    BY <1>1, <1>3, <2>2 DEF EditorInv, Addition
  <2> QED
    BY <1>2, <2>3, <2>4, <2>5 DEF EditorInv
<1> QED
  BY <1>4, <1>5

\* What an addition writes and shows.
LEMMA AddedEditor ==
  ASSUME CalmInv, Calm, NEW r \in Adders, Commit(r), Lone(r), req'[r].at = "new"
  PROVE  EditorInv'
<1> DEFINE d == req[r]
           n == Len(page.shown)
           row == [sel |-> d.sel, order |-> d.orders[d.s]]
<1>1. EditorInv /\ Shape /\ page \in Sheet /\ step \in Rows /\ r \in Calls /\ d.at \in Working
      /\ Replies(r, "ok")
  BY DEF CalmInv, EditorInv, PlacedInv, Exclusive, Shape, PageShape, BoundInv, Commit, Working
<1>2. n \in Nat /\ Len(page'.shown) = n + 1 /\ \A k \in 1..n : page'.shown[k] = page.shown[k]
  BY <1>1, AddedShows
<1>3. page'.shown[n + 1] = [id |-> d.s, sel |-> d.sel, order |-> d.orders[d.s]]
  BY <1>1, AddedShows
<1>4. page' = [page EXCEPT !.shown = page'.shown] /\ d.op = "create" /\ d.s \in Steps
  BY <1>1, AddedShows
<1>5. page'.st = page.st /\ page'.saves = page.saves /\ page'.calls = page.calls
  BY <1>1, <1>4 DEF Sheet
<1>6. /\ page.st # "closed" /\ d.sel \in Adders /\ d.orders[d.s] = n + 1
      /\ \A b \in Adders : req[b].at # "new" => b = r
  BY <1>1 DEF EditorInv, Addition, Working
<1>7. step' = [step EXCEPT ![d.s] = row]
  BY <1>4 DEF Commit, Writes
<1>8. row.sel = d.sel /\ row.order = d.orders[d.s]
  OBVIOUS
<1> HIDE DEF row
<1>9. step' = [s \in Steps |-> IF s = d.s THEN row ELSE step[s]]
  BY <1>1, <1>7 DEF Rows
<1>10. step[d.s] = Gone /\ d.s \notin Present
  BY <1>4 DEF CalmInv, PlacedInv, IdentityInv, Reserves, Creates, Known, Present
<1>11. Present' \subseteq Present \cup {d.s} /\ Present \subseteq Present'
  BY <1>4, <1>9, <1>10 DEF Present
<1>12. \A q \in Requests : Idle(q)'
  BY <1>1, AuthoringAssumption DEF EditorInv, Lone, Idle
<1>13. \A a \in Adders : Addition(a)'
  BY <1>6 DEF Lone, Addition
<1>14. Sent'
  <2>1. req'[Saver] = req[Saver]
    BY AuthoringAssumption DEF Lone
  <2> QED
    BY <1>1, <1>5, <2>1, SentKept DEF EditorInv
<1>15. Unopened'
  BY <1>5, <1>6 DEF Unopened
<1>16. Opened'
  <2>1. page'.shown[n + 1].id = d.s /\ page'.shown[n + 1].order = n + 1
    BY <1>3, <1>6
  <2>2. \A k \in 1..(n + 1) : k \in 1..n \/ k = n + 1
    BY <1>2
  <2>3. \A k \in 1..n : page.shown[k].order \in Nat /\ page.shown[k].order <= n
    <3>1. \A k \in 1..n : page.shown[k] \in Line
      BY <1>1, ElementOfSeq DEF Sheet
    <3> QED
      BY <1>1, <3>1 DEF EditorInv, Opened, Line
  <2>4. ASSUME NEW i \in 1..(n + 1), NEW j \in 1..(n + 1), i < j
        PROVE  page'.shown[i].order < page'.shown[j].order
    <3>1. i \in 1..n
      BY <1>2, <2>4
    <3>2. CASE j \in 1..n
      BY <1>1, <1>2, <2>4, <3>1, <3>2 DEF EditorInv, Opened, Rising
    <3>3. CASE j = n + 1
      BY <1>2, <2>1, <2>3, <3>1, <3>3
    <3> QED
      BY <2>2, <3>2, <3>3
  <2>5. ASSUME NEW i \in 1..(n + 1) PROVE page'.shown[i].order <= n + 1
    BY <1>2, <2>1, <2>2, <2>3
  <2>6. ASSUME NEW s \in Present' PROVE Has(page'.shown, s)
    <3>1. CASE s = d.s
      BY <1>2, <2>1, <3>1 DEF Has
    <3>2. CASE s \in Present
      <4>1. PICK k \in 1..n : page.shown[k].id = s
        BY <1>1, <1>6, <3>2 DEF EditorInv, Opened, Has
      <4>2. k \in 1..(n + 1) /\ page'.shown[k].id = s
        BY <1>2, <4>1
      <4> QED
        BY <1>2, <4>2 DEF Has
    <3> QED
      BY <1>11, <3>1, <3>2
  <2> QED
    BY <1>2, <2>4, <2>5, <2>6 DEF Opened, Rising
<1>17. Saving'
  <2>1. Answered' = Answered /\ \A k : Called(k)' = Called(k)
    BY <1>5 DEF Answered, Called
  <2>2. ASSUME NEW s \in Present', page.st = "saving" PROVE step'[s].sel \in Adders \/ Has(page.saves, s)
    BY <1>1, <1>6, <1>8, <1>9, <1>11, <2>2 DEF EditorInv, Saving, Present
  <2>3. ASSUME page.st = "saving", Answered > 0, NEW i \in 1..Len(page.saves)
        PROVE  /\ page.saves[i].id \in Present' /\ step'[page.saves[i].id].order = page.saves[i].order
               /\ step'[page.saves[i].id].sel = step[page.saves[i].id].sel
    <3>1. page.saves[i].id \in Present /\ step[page.saves[i].id].order = page.saves[i].order
      BY <1>1, <2>3 DEF EditorInv, Saving, Reordered
    <3>2. step'[page.saves[i].id] = step[page.saves[i].id]
      BY <1>9, <1>10, <3>1 DEF Present
    <3> QED
      BY <1>11, <3>1, <3>2
  <2>4. ASSUME page.st = "saving", Answered > 0 PROVE Reordered'
    BY <1>5, <2>3, <2>4 DEF Reordered
  <2>5. ASSUME page.st = "saving", NEW i \in 1..(Answered - 1)
        PROVE  step'[page.saves[i].id].sel = page.saves[i].sel
    <3>1. Answered > 0 /\ i \in 1..Len(page.saves)
      <4>1. Len(page.saves) \in Nat
        BY <1>1, LenProperties DEF Sheet
      <4>2. Len(page.calls) \in 1..(Len(page.saves) + 1)
        BY <1>1, <2>5 DEF EditorInv, Saving
      <4> QED
        BY <2>5, <4>1, <4>2, LeftToCall DEF Answered
    <3> QED
      BY <1>1, <2>3, <2>5, <3>1 DEF EditorInv, Saving
  <2> QED
    BY <1>1, <1>5, <2>1, <2>2, <2>4, <2>5 DEF EditorInv, Saving
<1> QED
  BY <1>12, <1>13, <1>14, <1>15, <1>16, <1>17 DEF EditorInv

\* What the calls of handleSave() write: reorder() puts every step at its place, an update
\* writes the selector of one.
LEMMA SaverWrites ==
  ASSUME CalmInv, Calm, Commit(Saver)
  PROVE  /\ page.st = "saving" /\ Answered \in 0..Len(page.saves) /\ Len(page.saves) \in Nat
         /\ \A i \in 1..Len(page.saves) :
              /\ page.saves[i].id \in Present'
              /\ step'[page.saves[i].id].order = page.saves[i].order
              /\ i <= Answered => step'[page.saves[i].id].sel = page.saves[i].sel
         /\ \A s \in Present' : s \in Present /\ (step'[s].sel \in Adders \/ Has(page.saves, s))
         /\ Present \subseteq Present'
<1> DEFINE d == req[Saver]
           n == Len(page.saves)
<1>1. /\ EditorInv /\ Shape /\ page \in Sheet /\ step \in Rows /\ Saver \in Calls /\ d.at = "read"
      /\ d \in Demand /\ Fits(Saver) /\ Writes(Saver) /\ Possible(Saver) /\ None \notin StepRow
      /\ step' \in Rows /\ \A s \in Present : step[s] \in StepRow
  BY WritesPlaces, RowIsThere
     DEF CalmInv, EditorInv, PlacedInv, Exclusive, Shape, PageShape, BoundInv, Commit, RequestShape
<1>2. n \in Nat /\ \A i \in 1..n : page.saves[i] \in Line
  BY <1>1, LenProperties, ElementOfSeq DEF Sheet
<1>3. page.st = "saving" /\ d.op = IF Answered = 0 THEN "reorder" ELSE "update"
  BY <1>1 DEF EditorInv, Sent
<1>4. Len(page.calls) \in 1..(n + 1) /\ Answered \in 0..n
  <2>1. Len(page.calls) \in 1..(n + 1)
    BY <1>1, <1>3 DEF EditorInv, Saving
  <2> QED
    BY <1>2, <2>1, LeftToCall DEF Answered
<1>5. /\ \A i, j \in 1..n : i # j => page.saves[i].id # page.saves[j].id
      /\ \A s \in Present : step[s].sel \in Adders \/ Has(page.saves, s)
      /\ Answered > 0 => Reordered
      /\ \A i \in 1..(Answered - 1) : step[page.saves[i].id].sel = page.saves[i].sel
  BY <1>1, <1>3 DEF EditorInv, Saving
<1>6. CASE Answered = 0
  <2>1. /\ d.op = "reorder" /\ \A i \in 1..n : d.orders[page.saves[i].id] = page.saves[i].order
        /\ step' = [s \in Steps |-> IF d.orders[s] = None THEN step[s]
                                    ELSE [step[s] EXCEPT !.order = d.orders[s]]]
    BY <1>1, <1>3, <1>6 DEF EditorInv, Sent, Writes
  <2>2. ASSUME NEW s \in Steps, d.orders[s] # None
        PROVE  /\ s \in Present /\ step'[s] # Gone
               /\ step'[s].order = d.orders[s] /\ step'[s].sel = step[s].sel
    <3>1. s \in Present /\ step[s] \in StepRow /\ d.orders[s] \in Nat
      BY <1>1, <2>1, <2>2 DEF Possible, Demand
    <3>2. step'[s] = [step[s] EXCEPT !.order = d.orders[s]]
      BY <2>1, <2>2
    <3>3. d.orders[s] \in 0..MaxOrder
      BY <2>2 DEF CalmInv, PlacedInv, BoundInv, Places
    <3>4. step'[s] \in StepRow
      BY <3>1, <3>2, <3>3 DEF StepRow
    <3> QED
      BY <1>1, <3>1, <3>2, <3>4 DEF StepRow
  <2>3. \A s \in Steps : d.orders[s] = None => step'[s] = step[s]
    BY <2>1
  <2>4. ASSUME NEW i \in 1..n
        PROVE  page.saves[i].id \in Present' /\ step'[page.saves[i].id].order = page.saves[i].order
    <3>1. page.saves[i].id \in Steps /\ page.saves[i].order \in Nat /\ page.saves[i].order # None
      BY <1>2, AuthoringAssumption DEF Line
    <3>2. d.orders[page.saves[i].id] = page.saves[i].order
      BY <2>1
    <3> QED
      BY <2>2, <3>1, <3>2 DEF Present
  <2>5. ASSUME NEW s \in Steps
        PROVE  (s \in Present <=> s \in Present') /\ (s \in Present => step'[s].sel = step[s].sel)
    BY <2>2, <2>3 DEF Present
  <2>6. Present \subseteq Steps /\ Present' \subseteq Steps
    BY DEF Present
  <2> QED
    BY <1>2, <1>3, <1>4, <1>5, <1>6, <2>4, <2>5, <2>6
<1>7. CASE Answered > 0
  <2> DEFINE c == page.saves[Answered].id
             row == [step[c] EXCEPT !.sel = page.saves[Answered].sel]
  <2>1. d.op = "update" /\ d.s = c /\ d.sel = page.saves[Answered].sel
    BY <1>1, <1>3, <1>4, <1>7 DEF EditorInv, Sent
  <2>2. c \in Present /\ step[c] \in StepRow /\ Answered \in 1..n /\ page.saves[Answered].sel \in Writers
    BY <1>1, <1>2, <1>4, <1>7, <2>1 DEF Possible, Line
  <2>3. step' = [step EXCEPT ![c] = row]
    BY <1>1, <2>1 DEF Writes
  <2>4. row \in StepRow /\ row.order = step[c].order /\ row.sel = page.saves[Answered].sel
    BY <2>2 DEF StepRow
  <2> HIDE DEF row
  <2>5. /\ step'[c] = row /\ \A s \in Steps : s # c => step'[s] = step[s]
        /\ Present' = Present /\ Present \subseteq Steps /\ row # Gone
    BY <1>1, <2>2, <2>3, <2>4 DEF Rows, Present
  <2>6. ASSUME NEW i \in 1..n
        PROVE  /\ page.saves[i].id \in Present' /\ step'[page.saves[i].id].order = page.saves[i].order
               /\ i <= Answered => step'[page.saves[i].id].sel = page.saves[i].sel
    <3>1. page.saves[i].id \in Present /\ step[page.saves[i].id].order = page.saves[i].order
      BY <1>5, <1>7 DEF Reordered
    <3>2. CASE i = Answered
      BY <2>4, <2>5, <3>1, <3>2
    <3>3. CASE i # Answered
      <4>1. page.saves[i].id # c
        BY <1>5, <2>2, <3>3
      <4>2. step'[page.saves[i].id] = step[page.saves[i].id]
        BY <2>5, <3>1, <4>1
      <4>3. i <= Answered => i \in 1..(Answered - 1)
        BY <2>2, <3>3
      <4> QED
        BY <1>5, <2>5, <3>1, <4>2, <4>3
    <3> QED
      BY <3>2, <3>3
  <2>7. ASSUME NEW s \in Present' PROVE s \in Present /\ (step'[s].sel \in Adders \/ Has(page.saves, s))
    <3>1. CASE s = c
      BY <2>2, <3>1 DEF Has
    <3>2. CASE s # c
      BY <1>5, <2>5, <3>2
    <3> QED
      BY <2>5, <3>1, <3>2
  <2> QED
    BY <1>2, <1>3, <1>4, <2>5, <2>6, <2>7
<1> QED
  BY <1>4, <1>6, <1>7

LEMMA SavedEditor ==
  ASSUME CalmInv, Calm, Commit(Saver), Lone(Saver), req'[Saver].at = "new"
  PROVE  EditorInv'
<1> DEFINE n == Len(page.saves)
           m == Len(page.calls)
<1>1. EditorInv /\ page \in Sheet /\ page.calls \in Seq(Steps \cup {"reorder"})
  BY DEF CalmInv, EditorInv, PlacedInv, Exclusive, Shape, PageShape, Sheet
<1>2. /\ page.st = "saving" /\ Answered \in 0..n /\ n \in Nat
      /\ \A i \in 1..n : /\ page.saves[i].id \in Present'
                         /\ step'[page.saves[i].id].order = page.saves[i].order
                         /\ i <= Answered => step'[page.saves[i].id].sel = page.saves[i].sel
      /\ \A s \in Present' : s \in Present /\ (step'[s].sel \in Adders \/ Has(page.saves, s))
  BY SaverWrites
<1>3. m \in 1..(n + 1) /\ \A j \in 1..m : page.calls[j] = Called(Answered + j - 1)
  BY <1>1, <1>2 DEF EditorInv, Saving
<1>4. \A q \in Requests : Idle(q)'
  BY <1>1, AuthoringAssumption DEF EditorInv, Lone, Idle
<1>5. \/ m > 1 /\ page' = [page EXCEPT !.calls = Tail(@)]
      \/ page' = [page EXCEPT !.calls = <<>>, !.saves = <<>>, !.st = "ready"]
  BY AuthoringAssumption DEF Commit, Replies
<1>6. page'.shown = page.shown /\ page'.st \in {"saving", "ready"}
  BY <1>1, <1>2, <1>5 DEF Sheet
<1>7. \A a \in Adders : Addition(a)'
  <2>1. \A a \in Adders : req'[a] = req[a]
    BY AuthoringAssumption DEF Lone
  <2> QED
    BY <1>1, <1>6, <2>1 DEF EditorInv, Addition
<1>8. Unopened' /\ Opened' /\ Sent'
  <2>1. Unopened' /\ Sent'
    BY <1>6 DEF Unopened, Sent
  <2>2. \A s \in Present' : Has(page.shown, s)
    BY <1>1, <1>2 DEF EditorInv, Opened
  <2> QED
    BY <1>1, <1>6, <2>1, <2>2 DEF EditorInv, Opened
<1>9. Saving'
  <2>1. CASE page' = [page EXCEPT !.calls = <<>>, !.saves = <<>>, !.st = "ready"]
    BY <1>1, <2>1 DEF Saving, Sheet
  <2>2. CASE m > 1 /\ page' = [page EXCEPT !.calls = Tail(@)]
    <3>1. page'.calls = Tail(page.calls) /\ page'.saves = page.saves /\ page'.st = "saving"
      BY <1>1, <1>2, <2>2 DEF Sheet
    <3>2. /\ Len(page'.calls) = m - 1
          /\ \A j \in 1..(m - 1) : page'.calls[j] = page.calls[j + 1]
      <4>1. page.calls # <<>>
        BY <2>2
      <4> QED
        BY <1>1, <3>1, <4>1, HeadTailProperties
    <3>3. Answered' = Answered + 1 /\ \A k : Called(k)' = Called(k)
      <4>1. Answered' = (n - (m - 1)) + 1 /\ Answered = (n - m) + 1
        BY <3>1, <3>2 DEF Answered
      <4> QED
        BY <1>2, <1>3, <3>1, <4>1 DEF Called
    <3>4. Len(page'.calls) \in 1..(n + 1)
      BY <1>2, <1>3, <2>2, <3>2
    <3>5. ASSUME NEW j \in 1..(m - 1) PROVE page'.calls[j] = Called(Answered + j - 1)'
      <4>1. j + 1 \in 1..m /\ Answered + (j + 1) - 1 = Answered' + j - 1
        BY <1>2, <1>3, <3>3
      <4>2. page'.calls[j] = Called(Answered + (j + 1) - 1)
        BY <1>3, <3>2, <4>1
      <4> QED
        BY <3>1, <4>1, <4>2 DEF Called
    <3>6. Reordered'
      BY <1>2, <3>1 DEF Reordered
    <3>7. ASSUME NEW i \in 1..(Answered' - 1) PROVE step'[page'.saves[i].id].sel = page'.saves[i].sel
      BY <1>2, <3>1, <3>3
    <3> QED
      BY <1>1, <1>2, <3>1, <3>2, <3>3, <3>4, <3>5, <3>6, <3>7 DEF EditorInv, Saving
  <2> QED
    BY <1>5, <2>1, <2>2
<1> QED
  BY <1>4, <1>7, <1>8, <1>9 DEF EditorInv

LEMMA SavingKept ==
  ASSUME Saving, UNCHANGED step, page'.st = page.st, page'.saves = page.saves, page'.calls = page.calls
  PROVE  Saving'
<1>1. Present' = Present /\ Answered' = Answered /\ \A k : Called(k)' = Called(k)
  BY DEF Present, Answered, Called
<1>2. Reordered => Reordered'
  BY <1>1 DEF Reordered
<1> QED
  BY <1>1, <1>2 DEF Saving

\* The editor is where each step is, and the next place is the one after the last.
LEMMA EditedEditor ==
  ASSUME CalmInv, Calm, UNCHANGED <<step, req>>, page'.st = page.st, page.st # "closed",
         page'.saves = page.saves, page'.calls = page.calls, Len(page'.shown) = Len(page.shown), Opened'
  PROVE  EditorInv'
<1>1. EditorInv
  BY DEF CalmInv
<1>2. Unopened' /\ Saving' /\ Sent'
  BY <1>1, SavingKept, SentKept DEF EditorInv, Unopened
<1>3. \A q \in Requests : Idle(q)'
  BY <1>1 DEF EditorInv, Idle
<1>4. \A a \in Adders : Addition(a)'
  BY <1>1 DEF EditorInv, Addition
<1> QED
  BY <1>2, <1>3, <1>4 DEF EditorInv

LEMMA TypeEditor ==
  ASSUME CalmInv, Calm, Type
  PROVE  EditorInv'
<1>1. EditorInv /\ Shape /\ page \in Sheet
  BY DEF CalmInv, EditorInv, PlacedInv, Exclusive, Shape, PageShape
<1>2. /\ Len(page'.shown) = Len(page.shown)
      /\ \A k \in 1..Len(page.shown) : /\ page'.shown[k].id = page.shown[k].id
                                       /\ page'.shown[k].order = page.shown[k].order
  BY <1>1, TypeShows
<1>3. /\ UNCHANGED <<step, req>> /\ page'.st = page.st /\ page.st # "closed"
      /\ page'.saves = page.saves /\ page'.calls = page.calls
  BY <1>1 DEF Type, Edit, Sheet, testVars
<1>4. Present' = Present
  BY <1>3 DEF Present
<1>5. Opened'
  <2>1. Rising(page'.shown) /\ \A i \in 1..Len(page'.shown) : page'.shown[i].order <= Len(page'.shown)
    BY <1>1, <1>2 DEF EditorInv, Opened, Rising
  <2>2. \A s \in Present' : Has(page'.shown, s)
    BY <1>1, <1>2, <1>3, <1>4 DEF EditorInv, Opened, Has
  <2> QED
    BY <2>1, <2>2 DEF Opened
<1> QED
  BY <1>2, <1>3, <1>5, EditedEditor

LEMMA DragEditor ==
  ASSUME CalmInv, Calm, Drag
  PROVE  EditorInv'
<1> DEFINE n == Len(page.shown)
<1>1. EditorInv /\ Shape /\ page \in Sheet /\ n \in Nat
  BY LenProperties DEF CalmInv, EditorInv, PlacedInv, Exclusive, Shape, PageShape, Sheet
<1>2. Len(page'.shown) = n /\ \A k \in 1..n : page'.shown[k].order = k
  BY <1>1, DragShows
<1>3. PICK f : Rearranges(f, page'.shown) /\ Onto(f, n)
  BY <1>1, DragShows
<1>4. /\ UNCHANGED <<step, req>> /\ page'.st = page.st /\ page.st # "closed"
      /\ page'.saves = page.saves /\ page'.calls = page.calls
  BY <1>1 DEF Drag, Edit, Sheet, testVars
<1>5. Present' = Present
  BY <1>4 DEF Present
<1>6. Opened'
  <2>1. Rising(page'.shown) /\ \A i \in 1..n : page'.shown[i].order <= n
    BY <1>1, <1>2 DEF Rising
  <2>2. ASSUME NEW s \in Present PROVE Has(page'.shown, s)
    <3>1. PICK m \in 1..n : page.shown[m].id = s
      BY <1>1, <1>4 DEF EditorInv, Opened, Has
    <3>2. PICK k \in 1..n : f[k] = m
      BY <1>3 DEF Onto
    <3>3. page'.shown[k].id = s
      BY <1>2, <1>3, <3>1, <3>2 DEF Rearranges
    <3> QED
      BY <1>2, <3>3 DEF Has
  <2> QED
    BY <1>2, <1>5, <2>1, <2>2 DEF Opened
<1> QED
  BY <1>2, <1>4, <1>6, EditedEditor

\* getOne() lists each step once, at a place of its own.
LEMMA OpenEditor ==
  ASSUME CalmInv, Calm, Open
  PROVE  EditorInv'
<1> DEFINE n == Len(page'.shown)
           id == [i \in 1..n |-> page'.shown[i].id]
<1>1. EditorInv /\ Shape /\ page \in Sheet
  BY DEF CalmInv, EditorInv, PlacedInv, Exclusive, Shape, PageShape
<1>2. /\ n = Cardinality(Present) /\ n \in Nat
      /\ \A i \in 1..n : page'.shown[i].id \in Present
                         /\ page'.shown[i].order = step[page'.shown[i].id].order
      /\ \A i, j \in 1..n : i # j => page'.shown[i].id # page'.shown[j].id
      /\ Sorted(page'.shown)
  BY <1>1, OpenShows
<1>3. /\ UNCHANGED <<step, req>> /\ page.st = "closed" /\ page'.st = "ready"
      /\ page'.saves = page.saves /\ page'.calls = page.calls
  BY <1>1 DEF Open, Sheet, testVars
<1>4. /\ \A s \in Present : step[s].order \in Nat /\ step[s].order <= n
      /\ \A s, t \in Present : s # t => step[s].order # step[t].order
  <2>1. \A s \in Present : step[s].order \in Nat
    BY <1>1 DEF Shape, TestShape, Row, Present
  <2> QED
    BY <1>1, <1>2, <1>3, <2>1 DEF EditorInv, Unopened
<1>5. ASSUME NEW s \in Present PROVE \E i \in 1..n : page'.shown[i].id = s
  <2>1. IsFiniteSet(Present)
    BY AuthoringAssumption, FS_Subset DEF Present
  <2>2. id \in Injection(1..n, Present)
    BY <1>2 DEF Injection, IsInjective
  <2>3. Cardinality(1..n) = n
    <3>1. \A m \in Nat : Cardinality(1..m) = m
      BY FS_Interval
    <3> QED
      BY <1>2, <3>1
  <2>4. id \in Surjection(1..n, Present)
    BY <1>2, <2>1, <2>2, <2>3, FS_Injection
  <2>5. \E i \in 1..n : id[i] = s
    BY <2>4 DEF Surjection
  <2> QED
    BY <2>5
<1> HIDE DEF n
<1>6. Opened'
  <2>1. ASSUME NEW i \in 1..n, NEW j \in 1..n, i < j
        PROVE  page'.shown[i].order < page'.shown[j].order
    <3>1. page'.shown[i].order <= page'.shown[j].order
      BY <1>2, <2>1 DEF Sorted, n
    <3>2. page'.shown[i].order # page'.shown[j].order
      BY <1>2, <1>4, <2>1
    <3>3. page'.shown[i].order \in Nat /\ page'.shown[j].order \in Nat
      BY <1>2, <1>4
    <3> QED
      BY <3>1, <3>2, <3>3
  <2>2. \A i \in 1..n : page'.shown[i].order <= n
    BY <1>2, <1>4
  <2>3. Present' = Present
    BY <1>3 DEF Present
  <2> QED
    BY <1>5, <2>1, <2>2, <2>3 DEF Opened, Rising, Has, n
<1>7. \A q \in Requests : Idle(q)'
  BY <1>1, <1>3 DEF EditorInv, Idle
<1>8. \A a \in Adders : Addition(a)'
  BY <1>1, <1>3 DEF EditorInv, Addition
<1>9. Saving' /\ Sent' /\ Unopened'
  BY <1>1, <1>3 DEF EditorInv, Saving, Sent, Unopened
<1> QED
  BY <1>6, <1>7, <1>8, <1>9 DEF EditorInv

\* addStep() asks for the place after the last one.
LEMMA AddEditor ==
  ASSUME CalmInv, Calm, NEW r \in Adders, Add(r)
  PROVE  EditorInv'
<1>1. EditorInv /\ Shape /\ page \in Sheet /\ req \in [Calls -> Demand] /\ page.shown \in Seq(Line)
  BY DEF CalmInv, EditorInv, PlacedInv, Exclusive, Shape, PageShape, RequestShape, Sheet
<1>2. /\ page' = [page EXCEPT !.edits = page.edits + 1] /\ UNCHANGED step /\ page.st # "closed"
      /\ \A a \in Adders : req[a].at = "new"
  BY DEF Add, testVars, Calm, Without
<1>3. /\ page'.st = page.st /\ page'.shown = page.shown
      /\ page'.saves = page.saves /\ page'.calls = page.calls
  BY <1>1, <1>2 DEF Sheet
<1>4. PICK s \in Unused :
        req' = [req EXCEPT ![r] = [New("create") EXCEPT !.at = "asked", !.s = s, !.sel = r,
                   !.orders = [NoOrders EXCEPT ![s] = NextOrder]]]
  BY DEF Add
<1>5. Lone(r) /\ req'[r].at = "asked" /\ req'[r].sel = r /\ req'[r].orders[req'[r].s] = NextOrder
  <2> DEFINE orders == [NoOrders EXCEPT ![s] = NextOrder]
             d == New("create")
             q == [d EXCEPT !.at = "asked", !.s = s, !.sel = r, !.orders = orders]
  <2>1. d \in Demand
    BY NewFields DEF Ops, Edits
  <2>2. orders[s] = NextOrder
    BY DEF NoOrders, Unused
  <2>3. req' = [req EXCEPT ![r] = q]
    BY <1>4
  <2> HIDE DEF orders, d
  <2>4. q.at = "asked" /\ q.sel = r /\ q.s = s /\ q.orders = orders
    BY <2>1 DEF Demand
  <2> HIDE DEF q
  <2> QED
    BY <1>1, <2>2, <2>3, <2>4 DEF Lone
<1>6. \A q \in Requests : Idle(q)'
  BY <1>1, <1>5, AuthoringAssumption DEF EditorInv, Lone, Idle
<1>7. \A a \in Adders : Addition(a)'
  <2>1. \A a \in Adders : req'[a].at # "new" => a = r
    BY <1>2, <1>5 DEF Lone
  <2> QED
    BY <1>2, <1>3, <1>5, <2>1 DEF Addition, InEdit, NextOrder
<1>8. Unopened' /\ Saving' /\ Sent'
  <2>1. req'[Saver] = req[Saver]
    BY <1>5, AuthoringAssumption DEF Lone
  <2> QED
    BY <1>1, <1>2, <1>3, <2>1, SavingKept, SentKept DEF EditorInv, Unopened
<1>9. Opened'
  <2>1. Present' = Present
    BY <1>2 DEF Present
  <2> QED
    BY <1>1, <1>3, <2>1 DEF EditorInv, Opened
<1> QED
  BY <1>6, <1>7, <1>8, <1>9 DEF EditorInv

\* handleSave() sets out with everything to call: reorder() and an update for each step.
LEMMA SaveEditor ==
  ASSUME CalmInv, Calm, Save
  PROVE  EditorInv'
<1> DEFINE n == Len(page.shown)
           one == <<"reorder">>
           ids == [i \in 1..n |-> page.shown[i].id]
<1>1. /\ EditorInv /\ page \in Sheet /\ n \in Nat /\ ShowsOnce
      /\ page.shown \in Seq(Line) /\ \A i \in 1..n : page.shown[i] \in Line
  BY LenProperties, ElementOfSeq
     DEF CalmInv, EditorInv, PlacedInv, IdentityInv, Exclusive, Shape, PageShape, Sheet
<1>2. /\ UNCHANGED <<step, req>> /\ page.st = "ready"
      /\ page'.st = "saving" /\ page'.shown = page.shown /\ page'.saves = page.shown
      /\ page'.calls = one \o ids
  BY <1>1 DEF Save, Sheet, testVars
<1>3. Present' = Present /\ Len(page'.saves) = n
  BY <1>2 DEF Present
<1>4. Len(page'.calls) = n + 1 /\ page'.calls[1] = "reorder"
      /\ \A j \in 2..(n + 1) : page'.calls[j] = page.shown[j - 1].id
  <2>1. Len(one) = 1 /\ one[1] = "reorder" /\ Len(ids) = n /\ \A k \in 1..n : ids[k] = page.shown[k].id
    BY <1>1
  <2>2. one \in Seq(Steps \cup {"reorder"}) /\ ids \in Seq(Steps \cup {"reorder"})
    BY <1>1 DEF Line
  <2> HIDE DEF one, ids
  <2>3. Len(one \o ids) = Len(one) + Len(ids)
    BY <2>2, ConcatProperties
  <2>4. \A j \in 1..(Len(one) + Len(ids)) :
          (one \o ids)[j] = IF j <= Len(one) THEN one[j] ELSE ids[j - Len(one)]
    BY <2>2, ConcatProperties
  <2> QED
    BY <1>1, <1>2, <2>1, <2>3, <2>4
<1>5. Answered' = 0
  BY <1>1, <1>3, <1>4 DEF Answered
<1>6. ASSUME NEW j \in 1..(n + 1) PROVE page'.calls[j] = Called(Answered + j - 1)'
  <2>1. CASE j = 1
    BY <1>4, <1>5, <2>1 DEF Called
  <2>2. CASE j \in 2..(n + 1)
    <3>1. Answered' + j - 1 = j - 1 /\ j - 1 # 0
      BY <1>1, <1>5, <2>2
    <3> QED
      BY <1>2, <1>4, <2>2, <3>1 DEF Called
  <2> QED
    BY <1>1, <2>1, <2>2
<1>7. Saving'
  <2>1. Rising(page'.saves) /\ \A i, j \in 1..n : i # j => page'.saves[i].id # page'.saves[j].id
    BY <1>1, <1>2 DEF EditorInv, Opened, ShowsOnce
  <2>2. \A s \in Present' : Has(page'.saves, s)
    BY <1>1, <1>2, <1>3 DEF EditorInv, Opened
  <2>3. ~(Answered' > 0) /\ 1..(Answered' - 1) = {}
    BY <1>5
  <2>4. Len(page'.calls) \in 1..(Len(page'.saves) + 1)
    BY <1>1, <1>3, <1>4
  <2> QED
    BY <1>3, <1>4, <1>6, <2>1, <2>2, <2>3, <2>4 DEF Saving
<1>8. Sent' /\ Unopened'
  BY <1>1, <1>2 DEF EditorInv, Sent, Unopened
<1>9. Opened'
  BY <1>1, <1>2, <1>3 DEF EditorInv, Opened
<1>10. \A q \in Requests : Idle(q)'
  BY <1>1, <1>2 DEF EditorInv, Idle
<1>11. \A a \in Adders : Addition(a)'
  BY <1>1, <1>2 DEF EditorInv, Addition
<1> QED
  BY <1>7, <1>8, <1>9, <1>10, <1>11 DEF EditorInv

\* The call that is made is the one that is next.
LEMMA SendEditor ==
  ASSUME CalmInv, Calm, SendNext
  PROVE  EditorInv'
<1> DEFINE n == Len(page.saves)
           c == Head(page.calls)
           ids == {page.saves[i].id : i \in 1..n}
           orders == [s \in Steps |-> IF s \in ids THEN page.saves[Nth(s)].order ELSE None]
<1>1. /\ EditorInv /\ Shape /\ page \in Sheet /\ req \in [Calls -> Demand] /\ Saver \in Calls
      /\ n \in Nat /\ \A i \in 1..n : page.saves[i] \in Line
  BY LenProperties, ElementOfSeq
     DEF CalmInv, EditorInv, PlacedInv, Exclusive, Shape, PageShape, RequestShape, Sheet
<1>2. UNCHANGED <<step, page>> /\ page.st = "saving"
  BY DEF SendNext, testVars
<1>3. /\ Len(page.calls) \in 1..(n + 1) /\ page.calls[1] = Called(Answered + 1 - 1)
      /\ \A i, j \in 1..n : i # j => page.saves[i].id # page.saves[j].id
  BY <1>1, <1>2 DEF EditorInv, Saving
<1>4. Answered \in 0..n
  BY <1>1, <1>3, LeftToCall DEF Answered
<1>5. c = Called(Answered)
  <2>1. page.calls # <<>> /\ Answered + 1 - 1 = Answered
    BY <1>3, <1>4
  <2> QED
    BY <1>1, <1>3, <2>1 DEF Sheet
<1>6. \A i \in 1..n : Nth(page.saves[i].id) = i
  BY <1>3 DEF Nth
<1>7. Answered = 0 <=> c = "reorder"
  <2>1. \A i \in 1..n : page.saves[i].id # "reorder"
    BY <1>1, AuthoringAssumption DEF Line
  <2>2. Answered = 0 \/ Answered \in 1..n
    BY <1>1, <1>4
  <2> QED
    BY <1>5, <2>1, <2>2 DEF Called
<1>8. /\ Lone(Saver) /\ req'[Saver].at = "asked"
      /\ req'[Saver].op = (IF Answered = 0 THEN "reorder" ELSE "update")
      /\ Answered = 0 => \A i \in 1..n : req'[Saver].orders[page.saves[i].id] = page.saves[i].order
      /\ Answered > 0 => req'[Saver].s = page.saves[Answered].id
                         /\ req'[Saver].sel = page.saves[Answered].sel
  <2>1. CASE Answered = 0
    <3> DEFINE d == New("reorder")
               q == [d EXCEPT !.at = "asked", !.orders = orders]
    <3>1. d \in Demand /\ d.op = "reorder"
      BY NewFields DEF Ops, Edits
    <3>2. req' = [req EXCEPT ![Saver] = q]
      BY <1>7, <2>1 DEF SendNext
    <3>3. \A i \in 1..n : orders[page.saves[i].id] = page.saves[i].order
      <4>1. \A i \in 1..n : page.saves[i].id \in Steps /\ page.saves[i].id \in ids
        BY <1>1 DEF Line
      <4> QED
        BY <1>6, <4>1
    <3> HIDE DEF d, orders
    <3>4. q.at = "asked" /\ q.op = "reorder" /\ q.orders = orders
      BY <3>1 DEF Demand
    <3> HIDE DEF q
    <3>5. Lone(Saver) /\ req'[Saver] = q
      BY <1>1, <3>2 DEF Lone
    <3> QED
      BY <2>1, <3>3, <3>4, <3>5
  <2>2. CASE Answered > 0
    <3> DEFINE d == New("update")
               w == page.saves[Nth(c)].sel
               q == [d EXCEPT !.at = "asked", !.s = c, !.sel = w]
    <3>1. d \in Demand /\ d.op = "update"
      BY NewFields DEF Ops, Edits
    <3>2. req' = [req EXCEPT ![Saver] = q]
      <4>1. c # "reorder"
        BY <1>1, <1>4, <1>7, <2>2
      <4> QED
        BY <4>1 DEF SendNext
    <3>3. c = page.saves[Answered].id /\ w = page.saves[Answered].sel
      <4>1. Answered \in 1..n /\ Answered # 0
        BY <1>1, <1>4, <2>2
      <4> QED
        BY <1>5, <1>6, <4>1 DEF Called
    <3> HIDE DEF d, w
    <3>4. q.at = "asked" /\ q.op = "update" /\ q.s = c /\ q.sel = w
      BY <3>1 DEF Demand
    <3> HIDE DEF q
    <3>5. Lone(Saver) /\ req'[Saver] = q
      BY <1>1, <3>2 DEF Lone
    <3> QED
      BY <1>4, <2>2, <3>3, <3>4, <3>5
  <2> QED
    BY <1>1, <1>4, <2>1, <2>2
<1>9. Unopened' /\ Opened' /\ Saving' /\ Answered' = Answered
  BY <1>1, <1>2, PageKept DEF EditorInv
<1>10. Sent'
  BY <1>2, <1>8, <1>9 DEF Sent, InEdit
<1>11. \A q \in Requests : Idle(q)'
  BY <1>1, <1>8, AuthoringAssumption DEF EditorInv, Lone, Idle
<1>12. ASSUME NEW a \in Adders PROVE Addition(a)'
  <2>1. \A b \in Adders : req'[b] = req[b]
    BY <1>8, AuthoringAssumption DEF Lone
  <2> QED
    BY <1>1, <1>2, <2>1 DEF EditorInv, Addition
<1> QED
  BY <1>9, <1>10, <1>11, <1>12 DEF EditorInv

\* A test of which each step has a place of its own.
LEMMA EditorInit == Init => EditorInv
<1> SUFFICES ASSUME Init PROVE EditorInv
  OBVIOUS
<1>1. \A r \in Calls : req[r].at = "new"
  BY DEF Init, NewRequest
<1>2. page.st = "closed" /\ page.shown = <<>>
  BY DEF Init
<1>3. (\A r \in Requests : Idle(r)) /\ (\A a \in Adders : Addition(a)) /\ Sent
  BY <1>1 DEF Idle, Working, Addition, Sent
<1>5. Saving /\ Opened
  BY <1>2 DEF Saving, Opened, Rising
<1>4. Unopened
  <2>1. PICK P \in SUBSET Steps, base \in {0, 1} : \E nth \in [P -> 0..Cardinality(P)] :
          /\ \A s, t \in P : s # t => nth[s] # nth[t]
          /\ \A s \in P : nth[s] < Cardinality(P)
          /\ step = [s \in Steps |-> IF s \in P THEN [sel |-> "before", order |-> base + nth[s]] ELSE Gone]
    BY DEF Init
  <2> PICK nth \in [P -> 0..Cardinality(P)] :
          /\ \A s, t \in P : s # t => nth[s] # nth[t]
          /\ \A s \in P : nth[s] < Cardinality(P)
          /\ step = [s \in Steps |-> IF s \in P THEN [sel |-> "before", order |-> base + nth[s]] ELSE Gone]
    BY <2>1
  <2>2. Cardinality(P) \in Nat
    BY AuthoringAssumption, FS_Subset, FS_CardinalityType
  <2>3. \A s \in P : nth[s] \in Nat /\ base + nth[s] <= Cardinality(P) /\ base + nth[s] \in Nat
    BY <2>2
  <2>4. \A s \in P : [sel |-> "before", order |-> base + nth[s]] # Gone
    BY <2>3, NoneIsNoRow DEF Writers
  <2>5. Present = P
    BY <2>4 DEF Present
  <2>6. \A s \in P : step[s].order = base + nth[s]
    OBVIOUS
  <2>7. \A s, t \in P : s # t => step[s].order # step[t].order
    BY <2>3, <2>6
  <2> QED
    BY <1>2, <2>3, <2>5, <2>6, <2>7 DEF Unopened
<1> QED
  BY <1>3, <1>4, <1>5 DEF EditorInv

LEMMA HandlerEditor ==
  ASSUME CalmInv, Calm, NEW r \in Calls, Handler(r)
  PROVE  EditorInv'
<1>1. CASE r \in Requests
  <2>1. UNCHANGED <<step, page>> /\ Lone(r) /\ Idle(r)'
    BY <1>1, ApiHandler
  <2>2. \A q \in Adders \cup {Saver} : req'[q] = req[q]
    BY <1>1, <2>1, AuthoringAssumption DEF Lone
  <2>3. \A q \in Requests : Idle(q)'
    BY <2>1 DEF Lone, CalmInv, EditorInv, Idle
  <2> QED
    BY <2>1, <2>2, <2>3, QuietEditor
<1>2. CASE r \in Adders \cup {Saver}
  <2>1. /\ req[r].at \in Working /\ Lone(r) /\ req'[r].at \in InEdit \cup {"new"}
        /\ \/ GoesOn(r) /\ UNCHANGED <<step, versions, page>>
           \/ \E at \in {"refused", "failed"} : Replies(r, at) /\ Ended(r) /\ UNCHANGED <<step, versions>>
           \/ Commit(r) /\ Ended(r)
    BY <1>2, EditorHandler
  <2>2. Ended(r) => req'[r].at = "new"
    BY <2>1 DEF Ended, InEdit, Held
  <2>3. GoesOn(r) => req'[r].at \in InEdit
    BY <2>1 DEF GoesOn, Working
  <2>4. CASE GoesOn(r) /\ UNCHANGED <<step, versions, page>>
    BY <1>2, <2>1, <2>3, <2>4, GoesOnEditor
  <2>5. CASE \E at \in {"refused", "failed"} : Replies(r, at) /\ Ended(r) /\ UNCHANGED <<step, versions>>
    BY <1>2, <2>1, <2>2, <2>5, RefusedEditor
  <2>6. CASE Commit(r) /\ Ended(r)
    BY <1>2, <2>1, <2>2, <2>6, AddedEditor, SavedEditor
  <2> QED
    BY <2>1, <2>4, <2>5, <2>6
<1> QED
  BY <1>1, <1>2

LEMMA EditorStep == CalmInv /\ [Next]_vars => CalmInv'
<1> SUFFICES ASSUME CalmInv, [Next]_vars PROVE CalmInv'
  OBVIOUS
<1>1. PlacedInv' /\ UNCHANGED may
  BY PlacedStep, HandlersWrite DEF CalmInv
<1>2. CASE ~Calm
  BY <1>1, <1>2 DEF CalmInv, EditorInv, Calm, Without
<1>3. CASE Calm
  <2>1. ASSUME NEW r \in Requests, AskEdit(r) \/ AskHeal(r) \/ AskGenerate(r) PROVE EditorInv'
    <3>1. AskGenerate(r)
      BY <1>3, <2>1 DEF Calm, Without, AskEdit, AskHeal
    <3>2. UNCHANGED <<step, page>>
      BY <3>1 DEF AskGenerate, Asked, testVars
    <3>3. \E o \in {"codegen", "document"} : Asks(r, o)
      BY <3>1, AskGenerateShape DEF CalmInv, PlacedInv, Exclusive, Shape
    <3>4. \A q \in Requests : Idle(q)'
      BY <1>3, <3>3 DEF CalmInv, EditorInv, Asks, Idle
    <3>5. \A q \in Adders \cup {Saver} : req'[q] = req[q]
      BY <3>3, AuthoringAssumption DEF Asks
    <3> QED
      BY <1>3, <3>2, <3>4, <3>5, QuietEditor
  <2>2. CASE UNCHANGED vars
    <3>1. UNCHANGED <<step, page>> /\ \A q \in Adders \cup {Saver} : req'[q] = req[q]
      BY <2>2 DEF vars, testVars
    <3>2. \A q \in Requests : Idle(q)'
      BY <1>3, <2>2 DEF vars, CalmInv, EditorInv, Idle
    <3> QED
      BY <1>1, <1>3, <3>1, <3>2, QuietEditor DEF CalmInv
  <2>3. ~RemoveLocal
    BY <1>3 DEF Calm, Without, RemoveLocal
  <2>4. ASSUME NEW r \in Calls, Handler(r) PROVE EditorInv'
    BY <1>3, <2>4, HandlerEditor
  <2>5. ASSUME NEW r \in Adders, Add(r) PROVE EditorInv'
    BY <1>3, <2>5, AddEditor
  <2>6. CASE Open \/ Type \/ Drag
    BY <1>1, <1>3, <2>6, OpenEditor, TypeEditor, DragEditor DEF CalmInv
  <2>7. CASE Save \/ SendNext
    BY <1>1, <1>3, <2>7, SaveEditor, SendEditor DEF CalmInv
  <2> QED
    BY <1>1, <2>1, <2>2, <2>3, <2>4, <2>5, <2>6, <2>7 DEF CalmInv, Next, Editor
<1> QED
  BY <1>2, <1>3

\* The step with which handleSave() ends well is the last of its calls.
LEMMA SavedLast ==
  ASSUME CalmInv, Calm, [Next]_vars, page.st = "saving", page'.st = "ready",
         Len(versions') > Len(versions)
  PROVE  Commit(Saver) /\ Answered = Len(page.saves)
<1>1. EditorInv /\ Shape /\ page \in Sheet /\ Len(versions) \in Nat
  BY LenProperties DEF CalmInv, EditorInv, PlacedInv, Exclusive, Shape, PageShape
<1>2. PICK r \in Calls : Apply(r) \/ Commit(r)
  BY <1>1, TestStep DEF CalmInv
<1>3. ~Apply(r)
  BY <1>1, <1>2, ApplyKeeps DEF CalmInv
<1>4. Commit(r) /\ Handler(r)
  BY <1>2, <1>3 DEF Handler
<1>5. r \notin Requests
  BY <1>1, <1>4, ApiHandler
<1>6. r \notin Adders
  <2>1. ASSUME r \in Adders PROVE FALSE
    <3>1. page' = [page EXCEPT !.shown = page'.shown]
      BY <1>1, <1>4, <2>1, AddedShows DEF Commit, Working
    <3> QED
      BY <1>1, <3>1 DEF Sheet
  <2> QED
    BY <2>1
<1>7. Commit(Saver) /\ page' # [page EXCEPT !.calls = Tail(@)]
  BY <1>1, <1>4, <1>5, <1>6 DEF Sheet
<1>8. ~(Len(page.calls) > 1)
  BY <1>7, AuthoringAssumption DEF Commit, Replies
<1>9. Len(page.calls) \in 1..(Len(page.saves) + 1) /\ Len(page.saves) \in Nat
  BY <1>1, LenProperties DEF EditorInv, Saving, Sheet
<1>10. Len(page.calls) = 1
  <2>1. PICK n \in Nat : Len(page.saves) = n
    BY <1>9
  <2>2. PICK m \in 1..(n + 1) : Len(page.calls) = m
    BY <1>9, <2>1
  <2> QED
    BY <1>8, <2>2
<1> QED
  BY <1>7, <1>9, <1>10 DEF Answered

-----------------------------------------------------------------------------
(* Theorems                                                                *)

\* Each transaction that edits a test has it for itself from its lock to its end, and what it
\* read then is what the test and its versions still are.
THEOREM ExclusiveInvariant == Spec => []Exclusive
<1>1. Init => Exclusive
  BY ExclusiveInit
<1>2. Exclusive /\ [Next]_vars => Exclusive'
  BY ExclusiveStep
<1> QED
  BY <1>1, <1>2, PTL DEF Spec

\* No edit of a test is refused because another one took its version number: the lock that
\* snapshot() takes is held until the transaction ends.
THEOREM EditsTakeOwnNumbers == Spec => []EditsDoNotCollide
<1>1. Exclusive => EditsDoNotCollide
  BY DEF Exclusive, Alone, Unfailed, EditsDoNotCollide
<1> QED
  BY <1>1, ExclusiveInvariant, PTL

\* What the test was before a step is one of its versions when the step changes it, where
\* nothing is healed or generated: the snapshot is taken under the lock, so no other edit
\* comes between the snapshot and what is written after it.
THEOREM StatesAreKept == Spec => EveryStateKept
<1> DEFINE Kept == Without({"heal", "generate"}) /\ content' # content
                   => \E n \in 1..Len(versions') : versions'[n] = content
<1>1. ASSUME Exclusive, Next PROVE Kept
  <2> SUFFICES ASSUME Without({"heal", "generate"}), step' # step \/ code' # code
               PROVE  \E n \in 1..Len(versions') : versions'[n] = content
    BY DEF content
  <2>1. PICK r \in Calls : Commit(r)
    <3>1. ~\E r \in Requests : AskEdit(r) \/ AskHeal(r) \/ AskGenerate(r)
      BY DEF AskEdit, AskHeal, AskGenerate, Asked, testVars
    <3>2. ~Editor
      BY DEF Editor, Open, Type, Drag, RemoveLocal, Save, Edit, SendNext, Add, testVars
    <3>3. PICK r \in Calls : Handler(r)
      BY <1>1, <3>1, <3>2 DEF Next
    <3>4. ~(Check(r) \/ Lock(r) \/ ReadTest(r) \/ ReadSteps(r) \/ Rollback(r) \/ ReadForPrompt(r)
            \/ Fails(r) \/ ReadStep(r) \/ Supersede(r) \/ CreateLog(r) \/ ReadLog(r) \/ Mark(r))
      BY DEF Check, Lock, ReadTest, ReadSteps, Rollback, ReadForPrompt, Fails, ReadStep, Supersede,
             CreateLog, ReadLog, Mark, testVars
    <3>5. ~(Generated(r) \/ Apply(r))
      BY <1>1 DEF Generated, Apply, Exclusive, Alone, Plain, Working, Edits, Held
    <3> QED
      BY <3>3, <3>4, <3>5 DEF Handler
  <2>2. req[r].snap \in Contents /\ versions \in Seq(Contents)
    BY <1>1 DEF Exclusive, Shape, RequestShape, Demand
  <2>3. req[r].snap.code = code /\ req[r].snap.step = step
    BY <1>1, <2>1 DEF Commit, Exclusive, Alone, Fresh
  <2>4. req[r].snap = content
    BY <2>2, <2>3 DEF Contents, content
  <2>5. versions' = Append(versions, content)
    BY <2>1, <2>4 DEF Commit, Snapshot
  <2>6. Len(versions') = Len(versions) + 1 /\ versions'[Len(versions) + 1] = content
        /\ Len(versions) \in Nat
    BY <2>2, <2>4, <2>5, AppendProperties, LenProperties
  <2> QED
    BY <2>6
<1>2. Exclusive /\ [Next]_vars => [Kept]_vars
  BY <1>1
<1> QED
  BY <1>2, ExclusiveInvariant, PTL DEF Spec, EveryStateKept

\* A proposal that was applied is not rejected, where decisions are made one at a time and no
\* query fails: a decision under way knows of every proposal that was applied and not yet
\* marked, for it is its own.
THEOREM AppliedStayApproved == Spec => []RejectedNotApplied
<1>1. Decided => RejectedNotApplied
  BY DEF Decided, Settled, OneByOne, RejectedNotApplied
<1> QED
  BY <1>1, DecidedInit, DecidedStep, PTL DEF Spec

\* The state has the type that TypeOK gives it: every place, of a row, of what the editor shows
\* or of a request, is within the number of identities, for what is shown are different steps
\* and an addition takes an identity that no row and no version has.
THEOREM TypeCorrect == Spec => []TypeOK
<1>1. Init => PlacedInv
  BY ExclusiveInit, IdentityInit DEF PlacedInv
<1> QED
  BY <1>1, PlacedStep, PlacedHasType, PTL DEF Spec

\* When handleSave() ends well the test is what the editor showed when it was pressed, where
\* only the editor edits the test, one addition at a time, and removes nothing: until then each
\* of its calls has written what is saved, whatever is typed, dragged, added or generated
\* meanwhile and however many steps there are.
THEOREM SavesStick == Spec => SaveSticks
<1>1. Init => CalmInv
  BY ExclusiveInit, IdentityInit, EditorInit DEF PlacedInv, CalmInv
<1> DEFINE Kept ==
      Calm /\ page.st = "saving" /\ page'.st = "ready" /\ Len(versions') > Len(versions)
      => /\ \A i, j \in 1..Len(page.saves) :
              i < j => step'[page.saves[i].id].order < step'[page.saves[j].id].order
         /\ \A i \in 1..Len(page.saves) : step'[page.saves[i].id].sel = page.saves[i].sel
         /\ \A s \in Steps :
              step'[s] # Gone => step'[s].sel \in Adders \/ \E i \in 1..Len(page.saves) : page.saves[i].id = s
<1>2. CalmInv /\ [Next]_vars => Kept
  <2> SUFFICES ASSUME CalmInv, [Next]_vars, Calm, page.st = "saving", page'.st = "ready",
                      Len(versions') > Len(versions)
               PROVE  Kept
    OBVIOUS
  <2>1. Commit(Saver) /\ Answered = Len(page.saves)
    BY SavedLast
  <2>2. /\ Len(page.saves) \in Nat
        /\ \A i \in 1..Len(page.saves) :
             /\ step'[page.saves[i].id].order = page.saves[i].order
             /\ i <= Answered => step'[page.saves[i].id].sel = page.saves[i].sel
        /\ \A s \in Present' : step'[s].sel \in Adders \/ Has(page.saves, s)
    BY <2>1, SaverWrites
  <2>3. Rising(page.saves)
    BY DEF CalmInv, EditorInv, Saving
  <2>4. \A i, j \in 1..Len(page.saves) :
          i < j => step'[page.saves[i].id].order < step'[page.saves[j].id].order
    BY <2>2, <2>3 DEF Rising
  <2>5. \A i \in 1..Len(page.saves) : step'[page.saves[i].id].sel = page.saves[i].sel
    BY <2>1, <2>2
  <2>6. \A s \in Steps : step'[s] # Gone => s \in Present'
    BY DEF Present
  <2>7. \A s \in Steps :
          step'[s] # Gone => step'[s].sel \in Adders \/ \E i \in 1..Len(page.saves) : page.saves[i].id = s
    BY <2>2, <2>6 DEF Has
  <2> QED
    BY <2>4, <2>5, <2>7
<1>3. CalmInv /\ [Next]_vars => CalmInv'
  BY EditorStep
<1>4. CalmInv /\ [Next]_vars => [Kept]_vars
  BY <1>2
<1> QED
  BY <1>1, <1>3, <1>4, PTL DEF Spec, SaveSticks, Calm

=============================================================================
