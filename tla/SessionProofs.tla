---------------------------- MODULE SessionProofs ----------------------------
(***************************************************************************)
(* Theorems of Session, for any number of tabs, calls and events and any   *)
(* faults.                                                                 *)
(*                                                                         *)
(* The argument: a tab has one refresh under way at a time (Requests), the *)
(* API lets a token pass only while it is live, and a live token was never *)
(* exchanged; so the tabs that may still exchange one and those that did   *)
(* are never more than there are tabs (Exchanges). And when the tab is     *)
(* alone and nobody leaves in the middle, what it holds is what the API    *)
(* takes, or the answer with the next one is on its way (Holds).           *)
(***************************************************************************)
EXTENDS Session, FiniteSetTheorems, TLAPS

(***************************************************************************)
(* The inductive invariant                                                 *)
(***************************************************************************)

Refreshes == {"boot", "inner"}

Idle(b, x) == call[b][x].pc = "idle"

\* Which requests a tab may have under way: a page that is loaded makes none but its
\* refresh, and that one awaits the one of the interceptor, if there is one.
Requests(b) ==
  /\ tab[b].page \in {"closed", "reloading"} => \A x \in Slots : Idle(b, x)
  /\ tab[b].page = "loading" => \A x \in Slots \ Refreshes : Idle(b, x)
  /\ ~Idle(b, "boot") => tab[b].page = "loading"
  /\ ~Idle(b, "inner") => tab[b].refreshing /\ call[b]["boot"].pc \in {"idle", "waiting"}

\* The tokens that requests and answers carry were issued.
Bodies(b) ==
  \A x \in Slots :
    /\ call[b][x].tok <= issued /\ call[b][x].new <= issued
    /\ x \in Refreshes /\ call[b][x].pc \in {"sent", "checked", "denied", "waiting"} =>
         call[b][x].tok # 0
    /\ x \in Refreshes /\ call[b][x].pc = "granted" => call[b][x].new # 0
    /\ "lost" \notin faults => call[b][x].pc # "failed"

OneTab ==
  "tabs" \notin faults =>
    \A b, c \in Tabs : b = c \/ tab[b].page = "closed" \/ tab[c].page = "closed"

TabInv == OneTab /\ \A b \in Tabs : Requests(b) /\ Bodies(b)

\* The tabs for which the API has found token t good and not exchanged it yet.
Exchanging(t) ==
  {b \in Tabs : \E x \in Refreshes : call[b][x].pc = "checked" /\ call[b][x].tok = t}

Limit == IF "tabs" \in faults THEN Cardinality(Tabs) ELSE 1

Exchanges(t) ==
  /\ exchanged[t] + Cardinality(Exchanging(t)) <= Limit
  /\ token[t] = "live" => exchanged[t] = 0

ExchangeInv == \A t \in 1..issued : Exchanges(t)

\* One tab, tokens that do not expire, and nobody who leaves in the middle.
Quiet == Without({"tabs", "expire", "reload", "overlap"})

Good(t) == t # 0 /\ token[t] = "live"

\* What the tab holds, from the load to the sign-out.
Holds(b) ==
  /\ tab[b].page # "app" => tab[b].access = "none"
  /\ tab[b].page = "login" => stored = 0 /\ \A x \in Slots : Idle(b, x)
  /\ ~Idle(b, "exit") => \A x \in Slots \ {"exit"} : Idle(b, x)
  /\ tab[b].page = "reloading" => stored = 0 \/ Good(stored)
  /\ tab[b].page = "loading" =>
       /\ Idle(b, "inner")
       /\ call[b]["boot"].pc \in {"sent", "checked", "granted", "failed"}
       /\ call[b]["boot"].pc \in {"sent", "checked"} =>
            call[b]["boot"].tok = stored /\ Good(stored)
       /\ call[b]["boot"].pc = "granted" => Good(call[b]["boot"].new)
  /\ tab[b].page = "app" /\ Idle(b, "exit") =>
       /\ stored # 0
       /\ call[b]["inner"].pc \in {"idle", "sent", "checked", "granted", "failed"}
       /\ call[b]["inner"].pc \in {"idle", "sent", "checked"} => Good(stored)
       /\ call[b]["inner"].pc \in {"sent", "checked"} => call[b]["inner"].tok = stored
       /\ call[b]["inner"].pc = "granted" => Good(call[b]["inner"].new)

HoldInv ==
  Quiet =>
    /\ adrift = {}
    /\ (\A b \in Tabs : tab[b].page = "closed") => stored = 0 \/ Good(stored)
    /\ \A b \in Tabs : Holds(b)


(***************************************************************************)
(* What a step does to the requests                                        *)
(***************************************************************************)

LEMMA SlotNames ==
  /\ "boot" \in Slots /\ "inner" \in Slots /\ "exit" \in Slots /\ Calls \subseteq Slots
  /\ Refreshes \subseteq Slots /\ "exit" \notin Refreshes /\ Calls \cap Refreshes = {}
  /\ "exit" \notin Calls /\ "boot" \in Refreshes /\ "inner" \in Refreshes
  /\ \A x \in Slots : x \in Calls \/ x \in Refreshes \/ x = "exit"
BY CallsAssumption DEF Slots, Refreshes

LEMMA NoCallType == NoCall \in Call /\ NoCall.pc = "idle" /\ NoCall.tok = 0 /\ NoCall.new = 0
BY DEF NoCall, Call

LEMMA SendsEffect ==
  ASSUME TypeOK, NEW b \in Tabs, NEW x \in Slots, NEW r \in Call, Sends(b, x, r)
  PROVE  /\ call' \in [Tabs -> [Slots -> Call]]
         /\ call'[b][x] = r
         /\ \A y \in Slots \ {x} : call'[b][y] = call[b][y]
         /\ \A c \in Tabs \ {b} : call'[c] = call[c]
BY DEF Sends, TypeOK

\* The step is about tab b: the others are as they were.
OnlyTab(b) ==
  /\ UNCHANGED faults
  /\ \A c \in Tabs \ {b} : tab'[c] = tab[c] /\ call'[c] = call[c]

LEMMA LocalTab ==
  ASSUME TabInv, NEW b \in Tabs, OnlyTab(b), issued \in Nat, issued' \in Nat, issued' >= issued,
         TypeOK, Requests(b)', Bodies(b)',
         tab[b].page = "closed" =>
           \/ tab'[b].page = "closed"
           \/ "tabs" \in faults
           \/ \A c \in Tabs : tab[c].page = "closed"
  PROVE  TabInv'
<1>1. ASSUME NEW c \in Tabs, c # b PROVE Requests(c)' /\ Bodies(c)'
  <2>1. tab'[c] = tab[c] /\ call'[c] = call[c] /\ Requests(c) /\ Bodies(c)
    BY <1>1 DEF OnlyTab, TabInv
  <2>2. Requests(c)'
    BY <2>1 DEF Requests, Idle
  <2>3. \A x \in Slots : call[c][x].tok \in Nat /\ call[c][x].new \in Nat
    BY DEF TypeOK, Call
  <2>4. Bodies(c)'
    BY <2>1, <2>3 DEF Bodies, OnlyTab
  <2> QED
    BY <2>2, <2>4
<1>2. OneTab'
  BY DEF OneTab, TabInv, OnlyTab
<1> QED
  BY <1>1, <1>2 DEF TabInv

\* A request of tab b that goes on, is answered or taken up, with the page as it was.
LEMMA SlotMoves ==
  ASSUME TypeOK, TabInv, NEW b \in Tabs, NEW x \in Slots, NEW r \in Call, Sends(b, x, r),
         UNCHANGED <<tab, faults>>, issued' \in Nat, issued' >= issued,
         r.tok <= issued', r.new <= issued',
         x \in Refreshes /\ r.pc \in {"sent", "checked", "denied", "waiting"} => r.tok # 0,
         x \in Refreshes /\ r.pc = "granted" => r.new # 0,
         "lost" \notin faults => r.pc # "failed",
         \/ r.pc = "idle"
         \/ ~Idle(b, x)
         \/ x \notin Refreshes /\ tab[b].page = "app",
         x = "boot" => call[b]["boot"].pc # "waiting"
  PROVE  TabInv' /\ call' \in [Tabs -> [Slots -> Call]]
<1>1. /\ call' \in [Tabs -> [Slots -> Call]]
      /\ call'[b][x] = r
      /\ \A y \in Slots \ {x} : call'[b][y] = call[b][y]
      /\ \A c \in Tabs \ {b} : call'[c] = call[c]
  BY SendsEffect
<1>2. Requests(b) /\ Bodies(b) /\ issued \in Nat
  BY DEF TabInv, TypeOK
<1>3. Requests(b)'
  BY <1>1, <1>2, SlotNames DEF Requests, Idle
<1>4. \A y \in Slots : call[b][y].tok \in Nat /\ call[b][y].new \in Nat
  BY DEF TypeOK, Call
<1>5. Bodies(b)'
  BY <1>1, <1>2, <1>4 DEF Bodies
<1> QED
  BY <1>1, <1>2, <1>3, <1>5, LocalTab DEF OnlyTab

\* issueTokens() keeps the tables of tokens.
LEMMA IssueType ==
  ASSUME TypeOK, NEW revoked, Issue(revoked)
  PROVE  /\ issued' = issued + 1 /\ issued' \in Nat /\ issued \in Nat
         /\ token' \in [1..issued' -> {"live", "revoked", "expired"}]
         /\ exchanged' \in [1..issued' -> Nat]
         /\ token'[issued + 1] = "live" /\ exchanged'[issued + 1] = 0
         /\ adrift \subseteq 1..issued'
         /\ \A t \in 1..issued :
              /\ t \in 1..issued' /\ t # issued + 1
              /\ t \in revoked => token'[t] = "revoked" /\ exchanged'[t] = exchanged[t] + 1
              /\ t \notin revoked => token'[t] = token[t] /\ exchanged'[t] = exchanged[t]
<1>1. issued \in Nat /\ issued' = issued + 1
  BY DEF Issue, TypeOK
<1>2. \A t \in 1..issued : t \in 1..(issued + 1) /\ t # issued + 1
  BY <1>1
<1>3. \A t \in 1..(issued + 1) : t # issued + 1 => t \in 1..issued
  BY <1>1
<1>4. issued + 1 \in 1..(issued + 1)
  BY <1>1
<1>5. token' \in [1..(issued + 1) -> {"live", "revoked", "expired"}]
  BY <1>3 DEF Issue, TypeOK
<1>6. exchanged' \in [1..(issued + 1) -> Nat]
  BY <1>3 DEF Issue, TypeOK
<1>7. adrift \subseteq 1..(issued + 1)
  BY <1>2 DEF TypeOK
<1> QED
  BY <1>1, <1>2, <1>4, <1>5, <1>6, <1>7 DEF Issue

(***************************************************************************)
(* Types and requests                                                      *)
(***************************************************************************)

LEMMA InitTab == Init => TypeOK /\ TabInv
<1> SUFFICES ASSUME Init PROVE TypeOK /\ TabInv
  OBVIOUS
<1>1. \A b \in Tabs : \A x \in Slots : call[b][x] = NoCall
  BY DEF Init, NoCalls
<1>2. TypeOK
  BY NoCallType, EnvironmentsAssumption, EventsAssumption DEF Init, TypeOK, NoCalls, Tab
<1>3. \A b \in Tabs : Requests(b) /\ Bodies(b)
  BY <1>1, NoCallType, SlotNames DEF Init, Requests, Bodies, Idle
<1>4. OneTab
  BY DEF Init, OneTab
<1> QED
  BY <1>2, <1>3, <1>4 DEF TabInv

\* Requests, and what the API does with them.
LEMMA RequestTab ==
  ASSUME TypeOK, TabInv, NEW b \in Tabs,
         \/ \E c \in Calls : Send(b, c) \/ Serve(b, c) \/ Settled(b, c)
         \/ \E x \in Refreshes : Check(b, x) \/ Exchange(b, x) \/ ExchangeHalf(b, x)
         \/ \E x \in Slots : Lost(b, x)
         \/ SignOut(b) \/ Revoke(b)
  PROVE  TypeOK' /\ TabInv'
<1>0. /\ \A x \in Slots : call[b][x] \in Call
      /\ Requests(b) /\ Bodies(b) /\ issued \in Nat /\ stored \in Nat /\ tab[b] \in Tab
  BY DEF TypeOK, TabInv
<1>t. ASSUME call' \in [Tabs -> [Slots -> Call]],
             token' \in [1..issued -> {"live", "revoked", "expired"}],
             UNCHANGED <<issued, exchanged, stored, tab, left, adrift, faults>>
      PROVE  TypeOK'
  BY <1>t DEF TypeOK
<1>m. ASSUME NEW x \in Slots, ~Idle(b, x),
             NEW l \in {"sent", "checked", "granted", "denied", "failed"}, Steps(b, x, l),
             token' \in [1..issued -> {"live", "revoked", "expired"}],
             UNCHANGED <<issued, exchanged, stored, tab, left, adrift, faults>>,
             l = "failed" => "lost" \in faults,
             x \in Refreshes /\ l \in {"sent", "checked", "denied"} => call[b][x].tok # 0,
             x \in Refreshes /\ l = "granted" => call[b][x].new # 0,
             call[b][x].pc # "waiting"
      PROVE  TypeOK' /\ TabInv'
  <2> DEFINE r == [call[b][x] EXCEPT !.pc = l]
  <2>1. r \in Call /\ r.pc = l /\ r.tok = call[b][x].tok /\ r.new = call[b][x].new
    BY <1>0, <1>m DEF Call
  <2>2. Sends(b, x, r)
    BY <1>m DEF Steps
  <2>3. r.tok <= issued /\ r.new <= issued
    BY <1>0, <2>1 DEF Bodies
  <2> HIDE DEF r
  <2>4. TabInv' /\ call' \in [Tabs -> [Slots -> Call]]
    BY <1>0, <1>m, <2>1, <2>2, <2>3, SlotMoves
  <2> QED
    BY <1>m, <1>t, <2>4
<1>1. ASSUME NEW c \in Calls, Send(b, c)
      PROVE  TypeOK' /\ TabInv'
  <2> DEFINE r == [NoCall EXCEPT !.pc = "sent", !.auth = tab[b].access]
  <2>1. r \in Call /\ r.pc = "sent" /\ r.tok = 0 /\ r.new = 0
    BY <1>0 DEF NoCall, Call, Tab
  <2>2. /\ Sends(b, c, r) /\ tab[b].page = "app" /\ c \in Slots /\ c \notin Refreshes
        /\ UNCHANGED <<token, issued, exchanged, stored, tab, left, adrift, faults>>
    BY <1>1, SlotNames DEF Send
  <2> HIDE DEF r
  <2>3. TabInv' /\ call' \in [Tabs -> [Slots -> Call]]
    BY <1>0, <2>1, <2>2, SlotMoves, SlotNames
  <2> QED
    BY <1>t, <2>2, <2>3 DEF TypeOK
<1>2. ASSUME NEW c \in Calls, Serve(b, c)
      PROVE  TypeOK' /\ TabInv'
  BY <1>2, <1>m, SlotNames DEF Serve, Idle, TypeOK
<1>3. ASSUME NEW c \in Calls, Settled(b, c)
      PROVE  TypeOK' /\ TabInv'
  <2>1. /\ Sends(b, c, NoCall) /\ c \in Slots /\ c \notin Refreshes /\ c # "boot"
        /\ UNCHANGED <<token, issued, exchanged, stored, tab, left, adrift, faults>>
    BY <1>3, SlotNames DEF Settled
  <2>2. TabInv' /\ call' \in [Tabs -> [Slots -> Call]]
    BY <1>0, <2>1, SlotMoves, NoCallType
  <2> QED
    BY <1>t, <2>1, <2>2 DEF TypeOK
<1>4. ASSUME NEW x \in Refreshes, Check(b, x)
      PROVE  TypeOK' /\ TabInv'
  <2>1. PICK l \in {"checked", "denied"} : Steps(b, x, l)
    BY <1>4 DEF Check
  <2>2. x \in Slots /\ call[b][x].pc = "sent" /\ call[b][x].tok # 0
    BY <1>0, <1>4, SlotNames DEF Check, Bodies
  <2> QED
    BY <1>4, <1>m, <2>1, <2>2 DEF Check, Idle, TypeOK
<1>5. ASSUME NEW x \in Refreshes, Exchange(b, x)
      PROVE  TypeOK' /\ TabInv'
  <2> DEFINE r == [call[b][x] EXCEPT !.pc = "granted", !.new = issued + 1]
             t == call[b][x].tok
  <2>1. /\ x \in Slots /\ call[b][x].pc = "checked" /\ Issue({t}) /\ Sends(b, x, r)
        /\ UNCHANGED <<stored, tab, left, adrift, faults>>
    BY <1>5, SlotNames DEF Exchange
  <2>2. /\ issued' = issued + 1 /\ issued' \in Nat
        /\ token' \in [1..issued' -> {"live", "revoked", "expired"}]
        /\ exchanged' \in [1..issued' -> Nat] /\ adrift \subseteq 1..issued'
    BY <2>1, IssueType
  <2>3. r \in Call /\ r.pc = "granted" /\ r.tok = t /\ r.new = issued + 1
    <3>1. issued + 1 \in Nat /\ call[b][x] \in Call
      BY <1>0, <2>1
    <3> QED
      BY <3>1 DEF Call
  <2>4. r.tok <= issued' /\ r.new <= issued' /\ r.new # 0 /\ issued' >= issued
    <3>1. t <= issued /\ t \in Nat
      BY <1>0, <2>1 DEF Bodies, Call
    <3> QED
      BY <1>0, <2>2, <2>3, <3>1
  <2> HIDE DEF r
  <2>5. TabInv' /\ call' \in [Tabs -> [Slots -> Call]]
    BY <1>0, <2>1, <2>2, <2>3, <2>4, SlotMoves DEF Idle
  <2>6. stored' \in 0..issued'
    BY <2>1, <2>2 DEF TypeOK
  <2> QED
    BY <2>1, <2>2, <2>5, <2>6 DEF TypeOK
<1>6. ASSUME NEW x \in Refreshes, ExchangeHalf(b, x)
      PROVE  TypeOK' /\ TabInv'
  BY <1>6, <1>m, SlotNames DEF ExchangeHalf, Idle, TypeOK
<1>7. ASSUME NEW x \in Slots, Lost(b, x)
      PROVE  TypeOK' /\ TabInv'
  BY <1>7, <1>m DEF Lost, Idle, TypeOK
<1>8. CASE SignOut(b)
  <2>1. PICK l \in {"sent", "granted"} :
          Sends(b, "exit", [NoCall EXCEPT !.pc = l, !.tok = stored])
    BY <1>8 DEF SignOut
  <2> DEFINE r == [NoCall EXCEPT !.pc = l, !.tok = stored]
  <2>2. r \in Call /\ r.pc = l /\ r.tok = stored /\ r.new = 0 /\ Sends(b, "exit", r)
    BY <1>0, <2>1 DEF NoCall, Call
  <2>3. r.tok <= issued
    BY <2>2 DEF TypeOK
  <2>4. /\ tab[b].page = "app" /\ "exit" \in Slots /\ "exit" \notin Refreshes
        /\ UNCHANGED <<token, issued, exchanged, stored, tab, left, adrift, faults>>
    BY <1>8, SlotNames DEF SignOut
  <2> HIDE DEF r
  <2>5. TabInv' /\ call' \in [Tabs -> [Slots -> Call]]
    BY <1>0, <2>2, <2>3, <2>4, SlotMoves
  <2> QED
    BY <1>t, <2>4, <2>5 DEF TypeOK
<1>9. CASE Revoke(b)
  BY <1>9, <1>m, SlotNames DEF Revoke, Idle, TypeOK
<1> QED
  BY <1>1, <1>2, <1>3, <1>4, <1>5, <1>6, <1>7, <1>8, <1>9

\* What the interceptor does on a 401 that it does not give up on.
LEMMA DeniedEffect ==
  ASSUME TypeOK, NEW b \in Tabs, NEW x \in Slots \ {"exit"}, Denied(b, x), stored # 0
  PROVE  /\ call[b][x].pc = "denied" /\ ~call[b][x].retried
         /\ UNCHANGED <<token, issued, exchanged, stored, left, adrift, faults>>
         /\ tab' \in [Tabs -> Tab] /\ call' \in [Tabs -> [Slots -> Call]]
         /\ tab'[b].page = tab[b].page /\ tab'[b].access = tab[b].access
         /\ tab'[b].refreshing
         /\ \A c \in Tabs \ {b} : tab'[c] = tab[c] /\ call'[c] = call[c]
         /\ \A y \in Slots \ {x, "inner"} : call'[b][y] = call[b][y]
         /\ call'[b][x].pc = "waiting" /\ call'[b][x].tok = call[b][x].tok
         /\ call'[b][x].new = call[b][x].new
         /\ x # "inner" /\ tab[b].refreshing => call'[b]["inner"] = call[b]["inner"]
         /\ x # "inner" /\ ~tab[b].refreshing =>
              /\ call'[b]["inner"].pc = "sent" /\ call'[b]["inner"].tok = stored
              /\ call'[b]["inner"].new = 0
<1> DEFINE r == [call[b][x] EXCEPT !.pc = "waiting", !.retried = TRUE]
           n == [NoCall EXCEPT !.pc = "sent", !.tok = stored]
<1>0. call[b] \in [Slots -> Call] /\ tab[b] \in Tab /\ stored \in Nat /\ "inner" \in Slots
      /\ call[b][x] \in Call
  BY SlotNames DEF TypeOK
<1>1. r \in Call /\ r.pc = "waiting" /\ r.tok = call[b][x].tok /\ r.new = call[b][x].new
  BY <1>0 DEF Call
<1>2. n \in Call /\ n.pc = "sent" /\ n.tok = stored /\ n.new = 0
  BY <1>0 DEF NoCall, Call
<1>3. /\ call[b][x].pc = "denied" /\ ~call[b][x].retried
      /\ UNCHANGED <<token, issued, exchanged, stored, left, adrift, faults>>
      /\ tab' = [tab EXCEPT ![b].refreshing = TRUE]
  BY DEF Denied
<1>4. /\ tab' \in [Tabs -> Tab]
      /\ tab'[b].page = tab[b].page /\ tab'[b].access = tab[b].access /\ tab'[b].refreshing
      /\ \A c \in Tabs \ {b} : tab'[c] = tab[c]
  BY <1>0, <1>3 DEF TypeOK, Tab
<1>5. CASE x = "inner"
  <2>1. call' = [call EXCEPT ![b] = [call[b] EXCEPT !["inner"] = r]]
    <3> DEFINE g == [call EXCEPT ![b][x].pc = "waiting", ![b][x].retried = TRUE]
    <3>1. call' = [g EXCEPT ![b]["inner"] = r]
      BY <1>5 DEF Denied
    <3>2. g = [call EXCEPT ![b] = [call[b] EXCEPT ![x] = r]]
      BY <1>0 DEF TypeOK, Call
    <3> HIDE DEF g, r
    <3>3. call' = [g EXCEPT ![b] = [g[b] EXCEPT !["inner"] = r]]
      BY <3>1
    <3> QED
      BY <1>0, <1>5, <3>2, <3>3 DEF TypeOK
  <2> HIDE DEF r
  <2>2. /\ call' \in [Tabs -> [Slots -> Call]] /\ call'[b]["inner"] = r
        /\ \A y \in Slots \ {"inner"} : call'[b][y] = call[b][y]
        /\ \A c \in Tabs \ {b} : call'[c] = call[c]
    BY <1>0, <1>1, <2>1 DEF TypeOK
  <2> QED
    BY <1>1, <1>3, <1>4, <1>5, <2>2
<1>6. CASE x # "inner"
  <2> DEFINE i == IF tab[b].refreshing THEN call[b]["inner"] ELSE n
  <2>1. call' = [call EXCEPT ![b] = [call[b] EXCEPT ![x] = r, !["inner"] = i]]
    BY <1>0, <1>6 DEF Denied, TypeOK, Call
  <2>2. i \in Call
    BY <1>0, <1>2
  <2>3. tab[b].refreshing => i = call[b]["inner"]
    OBVIOUS
  <2>4. ~tab[b].refreshing => i = n
    OBVIOUS
  <2> HIDE DEF r, n, i
  <2>5. /\ call' \in [Tabs -> [Slots -> Call]] /\ call'[b]["inner"] = i /\ call'[b][x] = r
        /\ \A y \in Slots \ {x, "inner"} : call'[b][y] = call[b][y]
        /\ \A c \in Tabs \ {b} : call'[c] = call[c]
    BY <1>0, <1>1, <1>6, <2>1, <2>2 DEF TypeOK
  <2> QED
    BY <1>1, <1>2, <1>3, <1>4, <1>6, <2>3, <2>4, <2>5
<1> QED
  BY <1>5, <1>6

\* What the answer to the refresh of the interceptor sets going.
LEMMA RefreshedEffect ==
  ASSUME TypeOK, NEW b \in Tabs, Refreshed(b)
  PROVE  /\ call[b]["inner"].pc = "granted" /\ stored' = call[b]["inner"].new
         /\ UNCHANGED <<token, issued, exchanged, left, adrift, faults>>
         /\ tab' \in [Tabs -> Tab] /\ call' \in [Tabs -> [Slots -> Call]]
         /\ tab'[b].page = tab[b].page /\ tab'[b].access = "good"
         /\ \A c \in Tabs \ {b} : tab'[c] = tab[c] /\ call'[c] = call[c]
         /\ call'[b]["inner"] = NoCall
         /\ \A y \in Slots \ {"inner"} :
              /\ call'[b][y].tok = call[b][y].tok /\ call'[b][y].new = call[b][y].new
              /\ call[b][y].pc # "waiting" => call'[b][y].pc = call[b][y].pc
              /\ call[b][y].pc = "waiting" => call'[b][y].pc = "sent"
<1>0. call[b] \in [Slots -> Call] /\ tab[b] \in Tab
  BY DEF TypeOK
<1>1. /\ call[b]["inner"].pc = "granted" /\ stored' = call[b]["inner"].new
      /\ UNCHANGED <<token, issued, exchanged, left, adrift, faults>>
      /\ tab' = [tab EXCEPT ![b].access = "good", ![b].refreshing = FALSE]
      /\ call' = [call EXCEPT ![b] = Resent(b)]
  BY DEF Refreshed
<1>2. /\ tab' \in [Tabs -> Tab] /\ tab'[b].page = tab[b].page /\ tab'[b].access = "good"
      /\ \A c \in Tabs \ {b} : tab'[c] = tab[c]
  BY <1>0, <1>1 DEF TypeOK, Tab
<1>3. \A y \in Slots :
        Resent(b)[y] = IF y = "inner" THEN NoCall
                       ELSE IF call[b][y].pc = "waiting"
                            THEN [call[b][y] EXCEPT !.pc = "sent", !.auth = "good"]
                            ELSE call[b][y]
  BY DEF Resent
<1>a. ASSUME NEW y \in Slots
      PROVE  LET r == [call[b][y] EXCEPT !.pc = "sent", !.auth = "good"]
             IN  r \in Call /\ r.pc = "sent" /\ r.tok = call[b][y].tok /\ r.new = call[b][y].new
  <2>1. call[b][y] \in Call
    BY <1>0
  <2> QED
    BY <2>1 DEF Call
<1>4. \A y \in Slots : Resent(b)[y] \in Call
  BY <1>0, <1>3, <1>a, NoCallType
<1>5. Resent(b) \in [Slots -> Call]
  BY <1>4 DEF Resent
<1>6. /\ call' \in [Tabs -> [Slots -> Call]] /\ call'[b] = Resent(b)
      /\ \A c \in Tabs \ {b} : call'[c] = call[c]
  BY <1>1, <1>5 DEF TypeOK
<1>7. ASSUME NEW y \in Slots, y # "inner"
      PROVE
        /\ call'[b][y].tok = call[b][y].tok /\ call'[b][y].new = call[b][y].new
        /\ call[b][y].pc # "waiting" => call'[b][y].pc = call[b][y].pc
        /\ call[b][y].pc = "waiting" => call'[b][y].pc = "sent"
  <2> DEFINE r == [call[b][y] EXCEPT !.pc = "sent", !.auth = "good"]
  <2>1. r.pc = "sent" /\ r.tok = call[b][y].tok /\ r.new = call[b][y].new
    BY <1>a
  <2>2. call'[b][y] = IF call[b][y].pc = "waiting" THEN r ELSE call[b][y]
    BY <1>3, <1>6, <1>7
  <2> HIDE DEF r
  <2> QED
    BY <2>1, <2>2
<1> QED
  BY <1>1, <1>2, <1>3, <1>6, <1>7, SlotNames

\* A page that goes.
LEMMA GoneEffect ==
  ASSUME TypeOK, NEW b \in Tabs, Gone(b)
  PROVE  /\ tab' \in [Tabs -> Tab] /\ call' \in [Tabs -> [Slots -> Call]]
         /\ tab'[b].page = "reloading" /\ tab'[b].access = "none"
         /\ \A x \in Slots : call'[b][x] = NoCall
         /\ \A c \in Tabs \ {b} : tab'[c] = tab[c] /\ call'[c] = call[c]
         /\ adrift' \subseteq 1..issued
<1>1. adrift' \subseteq 1..issued
  BY DEF Gone, Asked, TypeOK
<1> QED
  BY <1>1, NoCallType DEF Gone, TypeOK, Tab, NoCalls

LEMMA GoneTab ==
  ASSUME TypeOK, TabInv, NEW b \in Tabs, Gone(b), UNCHANGED <<issued, faults>>,
         tab[b].page # "closed"
  PROVE  TabInv'
<1>1. issued \in Nat
  BY DEF TypeOK
<1>2. Requests(b)' /\ Bodies(b)'
  BY <1>1, GoneEffect, NoCallType, SlotNames DEF Requests, Bodies, Idle
<1> QED
  BY <1>1, <1>2, GoneEffect, LocalTab DEF OnlyTab

\* What the user does, and the answers that change the page.
LEMMA PageTab ==
  ASSUME TypeOK, TabInv, NEW b \in Tabs,
         \/ Open(b) \/ SignIn(b) \/ AccessExpires(b) \/ Reload(b)
         \/ Load(b) \/ Booted(b) \/ BootFailed(b) \/ SignedOut(b)
  PROVE  TypeOK' /\ TabInv'
<1>0. /\ \A x \in Slots : call[b][x] \in Call
      /\ call[b] \in [Slots -> Call] /\ tab[b] \in Tab
      /\ Requests(b) /\ Bodies(b) /\ issued \in Nat /\ stored \in Nat /\ stored <= issued
  BY DEF TypeOK, TabInv
<1>v. Event => left' \in 0..MaxEvents
  BY EventsAssumption DEF Event, TypeOK
<1>b. \A x \in Slots : call[b][x].tok \in Nat /\ call[b][x].new \in Nat
  BY <1>0 DEF Call
<1>1. CASE Open(b)
  <2>1. /\ tab' \in [Tabs -> Tab] /\ tab'[b].page = "reloading"
        /\ \A c \in Tabs \ {b} : tab'[c] = tab[c]
        /\ UNCHANGED <<token, issued, exchanged, stored, call, adrift, faults>> /\ Event
        /\ tab[b].page = "closed"
        /\ "tabs" \in faults \/ \A c \in Tabs : tab[c].page = "closed"
    BY <1>0, <1>1 DEF Open, TypeOK, Tab
  <2>2. Requests(b)' /\ Bodies(b)'
    BY <1>0, <2>1, SlotNames DEF Requests, Bodies, Idle
  <2>3. TabInv'
    BY <1>0, <2>1, <2>2, LocalTab DEF OnlyTab
  <2> QED
    BY <1>v, <2>1, <2>3 DEF TypeOK
<1>2. CASE SignIn(b)
  <2>1. /\ Event /\ Issue({}) /\ stored' = issued + 1 /\ UNCHANGED <<call, adrift, faults>>
        /\ tab[b].page = "login"
        /\ call[b] = NoCalls
        /\ tab' = [tab EXCEPT ![b].page = "app", ![b].access = "good"]
    BY <1>2 DEF SignIn
  <2>2. /\ tab' \in [Tabs -> Tab] /\ tab'[b].page = "app"
        /\ \A c \in Tabs \ {b} : tab'[c] = tab[c]
    BY <1>0, <2>1 DEF TypeOK, Tab
  <2>3. /\ issued' = issued + 1 /\ issued' \in Nat
        /\ token' \in [1..issued' -> {"live", "revoked", "expired"}]
        /\ exchanged' \in [1..issued' -> Nat] /\ adrift \subseteq 1..issued'
    BY <2>1, IssueType
  <2>4. Requests(b)'
    BY <2>1, <2>2, NoCallType, SlotNames DEF Requests, Idle, NoCalls
  <2>5. Bodies(b)'
    BY <1>0, <1>b, <2>1, <2>3 DEF Bodies
  <2>6. TabInv'
    BY <1>0, <2>1, <2>2, <2>3, <2>4, <2>5, LocalTab DEF OnlyTab
  <2>7. stored' \in 0..issued'
    BY <1>0, <2>1, <2>3
  <2> QED
    BY <1>v, <2>1, <2>2, <2>3, <2>6, <2>7 DEF TypeOK
<1>3. CASE AccessExpires(b)
  <2>1. /\ tab' \in [Tabs -> Tab] /\ tab'[b].page = tab[b].page
        /\ tab'[b].refreshing = tab[b].refreshing
        /\ \A c \in Tabs \ {b} : tab'[c] = tab[c]
        /\ UNCHANGED <<token, issued, exchanged, stored, call, adrift, faults>> /\ Event
    BY <1>0, <1>3 DEF AccessExpires, TypeOK, Tab
  <2>2. Requests(b)' /\ Bodies(b)'
    BY <1>0, <2>1 DEF Requests, Bodies, Idle
  <2>3. TabInv'
    BY <1>0, <2>1, <2>2, LocalTab DEF OnlyTab
  <2> QED
    BY <1>v, <2>1, <2>3 DEF TypeOK
<1>4. CASE Reload(b)
  <2>1. /\ Gone(b) /\ Event /\ UNCHANGED <<token, issued, exchanged, stored, faults>>
        /\ tab[b].page \in {"loading", "app"}
    BY <1>4 DEF Reload
  <2>2. TabInv'
    BY <2>1, GoneTab
  <2> QED
    BY <1>v, <2>1, <2>2, GoneEffect DEF TypeOK
<1>5. CASE Load(b)
  <2>0. UNCHANGED <<token, issued, exchanged, stored, left, adrift, faults>> /\ tab[b].page = "reloading"
    BY <1>5 DEF Load
  <2>1. CASE stored = 0
    <3>1. /\ tab' \in [Tabs -> Tab] /\ tab'[b].page = "login" /\ UNCHANGED call
          /\ tab'[b].refreshing = tab[b].refreshing
          /\ \A c \in Tabs \ {b} : tab'[c] = tab[c]
      <4>1. tab' = [tab EXCEPT ![b].page = "login"] /\ UNCHANGED call
        BY <1>5, <2>1 DEF Load
      <4> QED
        BY <1>0, <4>1 DEF TypeOK, Tab
    <3>2. Requests(b)' /\ Bodies(b)'
      BY <1>0, <2>0, <3>1, SlotNames DEF Requests, Bodies, Idle
    <3>3. TabInv'
      BY <1>0, <2>0, <3>1, <3>2, LocalTab DEF OnlyTab
    <3> QED
      BY <2>0, <3>1, <3>3 DEF TypeOK
  <2>2. CASE stored # 0
    <3> DEFINE r == [NoCall EXCEPT !.pc = "sent", !.tok = stored]
    <3>1. r \in Call /\ r.pc = "sent" /\ r.tok = stored /\ r.new = 0
      BY <1>0 DEF NoCall, Call
    <3>2. Sends(b, "boot", r)
      BY <1>5, <2>2 DEF Load, Sends
    <3> HIDE DEF r
    <3>3. /\ call' \in [Tabs -> [Slots -> Call]] /\ call'[b]["boot"] = r
          /\ \A y \in Slots \ {"boot"} : call'[b][y] = call[b][y]
          /\ \A c \in Tabs \ {b} : call'[c] = call[c]
      BY <3>1, <3>2, SendsEffect, SlotNames
    <3>4. /\ tab' \in [Tabs -> Tab] /\ tab'[b].page = "loading"
          /\ tab'[b].refreshing = tab[b].refreshing
          /\ \A c \in Tabs \ {b} : tab'[c] = tab[c]
      <4>1. tab' = [tab EXCEPT ![b].page = "loading"]
        BY <1>5, <2>2 DEF Load
      <4> QED
        BY <1>0, <4>1 DEF TypeOK, Tab
    <3>5. Requests(b)'
      BY <1>0, <2>0, <3>1, <3>3, <3>4, SlotNames DEF Requests, Idle
    <3>6. Bodies(b)'
      BY <1>0, <1>b, <2>0, <2>2, <3>1, <3>3 DEF Bodies
    <3>7. TabInv'
      BY <1>0, <2>0, <3>3, <3>4, <3>5, <3>6, LocalTab DEF OnlyTab
    <3> QED
      BY <2>0, <3>3, <3>4, <3>7 DEF TypeOK
  <2> QED
    BY <2>1, <2>2
<1>6. CASE Booted(b) \/ BootFailed(b)
  <2>0. /\ call[b]["boot"].pc \in {"granted", "failed", "denied"}
        /\ Sends(b, "boot", NoCall) /\ UNCHANGED <<token, issued, exchanged, left, adrift, faults>>
        /\ stored' = 0 \/ stored' = call[b]["boot"].new
    BY <1>6 DEF Booted, BootFailed
  <2>1. /\ call' \in [Tabs -> [Slots -> Call]] /\ call'[b]["boot"] = NoCall
        /\ \A y \in Slots \ {"boot"} : call'[b][y] = call[b][y]
        /\ \A c \in Tabs \ {b} : call'[c] = call[c]
    BY <2>0, SendsEffect, SlotNames, NoCallType
  <2>2. /\ tab' \in [Tabs -> Tab] /\ tab'[b].page \in {"app", "login"}
        /\ tab'[b].refreshing = tab[b].refreshing
        /\ \A c \in Tabs \ {b} : tab'[c] = tab[c]
    <3>1. CASE Booted(b)
      <4>1. tab' = [tab EXCEPT ![b].access = "good", ![b].page = "app"]
        BY <3>1 DEF Booted
      <4> QED
        BY <1>0, <4>1 DEF TypeOK, Tab
    <3>2. CASE BootFailed(b)
      <4>1. PICK p \in {"login", "app"} : tab' = [tab EXCEPT ![b].page = p]
        BY <3>2 DEF BootFailed
      <4> QED
        BY <1>0, <4>1 DEF TypeOK, Tab
    <3> QED
      BY <1>6, <3>1, <3>2
  <2>3. tab[b].page = "loading" /\ Idle(b, "inner")
    BY <1>0, <2>0 DEF Requests, Idle
  <2>4. Requests(b)'
    BY <2>1, <2>2, <2>3, NoCallType, SlotNames DEF Requests, Idle
  <2>5. Bodies(b)'
    BY <1>0, <2>0, <2>1, NoCallType DEF Bodies
  <2>6. TabInv'
    BY <1>0, <2>0, <2>1, <2>2, <2>3, <2>4, <2>5, LocalTab DEF OnlyTab
  <2>7. stored' \in 0..issued'
    BY <1>0, <1>b, <2>0, SlotNames DEF Bodies
  <2> QED
    BY <2>0, <2>1, <2>2, <2>6, <2>7 DEF TypeOK
<1>7. CASE SignedOut(b)
  <2>0. /\ call[b]["exit"].pc \in {"granted", "failed"} /\ stored' = 0
        /\ Sends(b, "exit", NoCall) /\ UNCHANGED <<token, issued, exchanged, left, adrift, faults>>
    BY <1>7 DEF SignedOut
  <2>1. /\ call' \in [Tabs -> [Slots -> Call]] /\ call'[b]["exit"] = NoCall
        /\ \A y \in Slots \ {"exit"} : call'[b][y] = call[b][y]
        /\ \A c \in Tabs \ {b} : call'[c] = call[c]
    BY <2>0, SendsEffect, SlotNames, NoCallType
  <2>2. /\ tab' \in [Tabs -> Tab] /\ tab'[b].page = "login"
        /\ tab'[b].refreshing = tab[b].refreshing
        /\ \A c \in Tabs \ {b} : tab'[c] = tab[c]
    BY <1>0, <1>7 DEF SignedOut, TypeOK, Tab
  <2>3. tab[b].page \notin {"closed", "reloading", "loading"}
    BY <1>0, <2>0, SlotNames DEF Requests, Idle
  <2>4. Requests(b)'
    BY <1>0, <2>1, <2>2, <2>3, NoCallType, SlotNames DEF Requests, Idle
  <2>5. Bodies(b)'
    BY <1>0, <2>0, <2>1, NoCallType DEF Bodies
  <2>6. TabInv'
    BY <1>0, <2>0, <2>1, <2>2, <2>3, <2>4, <2>5, LocalTab DEF OnlyTab
  <2> QED
    BY <1>0, <2>0, <2>1, <2>2, <2>6 DEF TypeOK
<1> QED
  BY <1>1, <1>2, <1>3, <1>4, <1>5, <1>6, <1>7

\* The interceptor.
LEMMA InterceptorTab ==
  ASSUME TypeOK, TabInv, NEW b \in Tabs,
         \/ \E x \in Slots \ {"exit"} : Denied(b, x)
         \/ Refreshed(b) \/ RefreshFailed(b) \/ SignInRefused(b)
  PROVE  TypeOK' /\ TabInv'
<1>0. /\ \A x \in Slots : call[b][x] \in Call
      /\ Requests(b) /\ Bodies(b) /\ issued \in Nat /\ stored \in Nat /\ stored <= issued
  BY DEF TypeOK, TabInv
<1>b. \A x \in Slots : call[b][x].tok \in Nat /\ call[b][x].new \in Nat
  BY <1>0 DEF Call
<1>1. ASSUME Leave(b), UNCHANGED <<token, issued, exchanged, faults>>,
             left' \in 0..MaxEvents, tab[b].page # "closed"
      PROVE  TypeOK' /\ TabInv'
  BY <1>0, <1>1, GoneEffect, GoneTab DEF Leave, TypeOK
<1>2. ASSUME NEW x \in Slots \ {"exit"}, Denied(b, x)
      PROVE  TypeOK' /\ TabInv'
  <2>0. ~Idle(b, x) /\ tab[b].page \notin {"closed", "reloading"}
    BY <1>0, <1>2 DEF Denied, Idle, Requests
  <2>1. CASE stored = 0
    BY <1>1, <1>2, <2>0, <2>1 DEF Denied, TypeOK
  <2>2. CASE stored # 0
    <3>1. /\ call[b][x].pc = "denied"
          /\ UNCHANGED <<token, issued, exchanged, stored, left, adrift, faults>>
          /\ tab' \in [Tabs -> Tab] /\ call' \in [Tabs -> [Slots -> Call]]
          /\ tab'[b].page = tab[b].page /\ tab'[b].refreshing
          /\ \A c \in Tabs \ {b} : tab'[c] = tab[c] /\ call'[c] = call[c]
          /\ \A y \in Slots \ {x, "inner"} : call'[b][y] = call[b][y]
          /\ call'[b][x].pc = "waiting" /\ call'[b][x].tok = call[b][x].tok
          /\ call'[b][x].new = call[b][x].new
      BY <1>2, <2>2, DeniedEffect
    <3>2. \/ x = "inner"
          \/ call'[b]["inner"] = call[b]["inner"]
          \/ /\ call'[b]["inner"].pc = "sent" /\ call'[b]["inner"].tok = stored
             /\ call'[b]["inner"].new = 0
      BY <1>2, <2>2, DeniedEffect
    <3>3. Requests(b)'
      <4>1. CASE x = "boot"
        BY <1>0, <2>0, <3>1, <3>2, <4>1, SlotNames DEF Requests, Idle
      <4>2. CASE x = "inner"
        BY <1>0, <2>0, <3>1, <4>2, SlotNames DEF Requests, Idle
      <4>3. CASE x \in Calls
        <5>1. tab[b].page # "loading" /\ Idle(b, "boot")
          BY <1>0, <2>0, <4>3, SlotNames DEF Requests
        <5> QED
          BY <1>0, <2>0, <3>1, <3>2, <4>3, <5>1, SlotNames DEF Requests, Idle
      <4> QED
        BY <4>1, <4>2, <4>3 DEF Slots
    <3>4. Bodies(b)'
      <4>1. ASSUME NEW y \in Slots, y # "inner" \/ x = "inner"
            PROVE  /\ call'[b][y].tok = call[b][y].tok /\ call'[b][y].new = call[b][y].new
                   /\ \/ call'[b][y].pc = call[b][y].pc
                      \/ call[b][y].pc = "denied" /\ call'[b][y].pc = "waiting"
        BY <3>1, <4>1
      <4>2. \A y \in Slots :
              /\ call'[b][y].tok <= issued /\ call'[b][y].new <= issued
              /\ y \in Refreshes /\ call'[b][y].pc \in {"sent", "checked", "denied", "waiting"}
                   => call'[b][y].tok # 0
              /\ y \in Refreshes /\ call'[b][y].pc = "granted" => call'[b][y].new # 0
              /\ "lost" \notin faults => call'[b][y].pc # "failed"
        BY <1>0, <2>2, <3>2, <4>1 DEF Bodies
      <4> QED
        BY <3>1, <4>2 DEF Bodies
    <3>5. TabInv'
      BY <1>0, <2>0, <3>1, <3>3, <3>4, LocalTab DEF OnlyTab
    <3> QED
      BY <3>1, <3>5 DEF TypeOK
  <2> QED
    BY <2>1, <2>2
<1>3. CASE Refreshed(b)
  <2>1. /\ call[b]["inner"].pc = "granted" /\ stored' = call[b]["inner"].new
        /\ UNCHANGED <<token, issued, exchanged, left, adrift, faults>>
        /\ tab' \in [Tabs -> Tab] /\ call' \in [Tabs -> [Slots -> Call]]
        /\ tab'[b].page = tab[b].page
        /\ \A c \in Tabs \ {b} : tab'[c] = tab[c] /\ call'[c] = call[c]
        /\ call'[b]["inner"] = NoCall
        /\ \A y \in Slots \ {"inner"} :
              /\ call'[b][y].tok = call[b][y].tok /\ call'[b][y].new = call[b][y].new
              /\ call[b][y].pc # "waiting" => call'[b][y].pc = call[b][y].pc
              /\ call[b][y].pc = "waiting" => call'[b][y].pc = "sent"
    BY <1>3, RefreshedEffect
  <2>2. tab[b].page \notin {"closed", "reloading"}
    BY <1>0, <2>1, SlotNames DEF Requests, Idle
  <2>3. Requests(b)'
    BY <1>0, <2>1, <2>2, SlotNames, NoCallType DEF Requests, Idle
  <2>4. Bodies(b)'
    BY <1>0, <2>1, NoCallType DEF Bodies
  <2>5. TabInv'
    BY <1>0, <2>1, <2>2, <2>3, <2>4, LocalTab DEF OnlyTab
  <2>6. stored' \in 0..issued'
    BY <1>0, <1>b, <2>1, SlotNames DEF Bodies
  <2> QED
    BY <2>1, <2>5, <2>6 DEF TypeOK
<1>4. CASE RefreshFailed(b)
  <2>1. tab[b].page # "closed"
    BY <1>0, <1>4, SlotNames DEF RefreshFailed, Requests, Idle
  <2> QED
    BY <1>1, <1>4, <2>1 DEF RefreshFailed, TypeOK
<1>5. CASE SignInRefused(b)
  <2>0. /\ tab[b].page = "login" /\ \A x \in Slots : Idle(b, x)
        /\ UNCHANGED <<token, issued, exchanged, faults>> /\ left' \in 0..MaxEvents
    BY <1>5, NoCallType, EventsAssumption DEF SignInRefused, NoCalls, Idle, Event, TypeOK
  <2>1. CASE stored = 0
    BY <1>1, <1>5, <2>0, <2>1 DEF SignInRefused
  <2>2. CASE stored # 0
    <3> DEFINE r == [NoCall EXCEPT !.pc = "sent", !.tok = stored]
    <3>1. r \in Call /\ r.pc = "sent" /\ r.tok = stored /\ r.new = 0
      BY <1>0 DEF NoCall, Call
    <3>2. /\ Sends(b, "inner", r) /\ UNCHANGED <<stored, adrift>>
          /\ tab' = [tab EXCEPT ![b].refreshing = TRUE]
      BY <1>5, <2>2 DEF SignInRefused
    <3> HIDE DEF r
    <3>3. /\ call' \in [Tabs -> [Slots -> Call]] /\ call'[b]["inner"] = r
          /\ \A y \in Slots \ {"inner"} : call'[b][y] = call[b][y]
          /\ \A c \in Tabs \ {b} : call'[c] = call[c]
      BY <3>1, <3>2, SendsEffect, SlotNames
    <3>4. /\ tab' \in [Tabs -> Tab] /\ tab'[b].page = "login" /\ tab'[b].refreshing
          /\ \A c \in Tabs \ {b} : tab'[c] = tab[c]
      BY <2>0, <3>2 DEF TypeOK, Tab
    <3>5. Requests(b)'
      BY <2>0, <3>3, <3>4, SlotNames DEF Requests, Idle
    <3>6. Bodies(b)'
      BY <1>0, <1>b, <2>0, <2>2, <3>1, <3>3 DEF Bodies
    <3>7. TabInv'
      BY <1>0, <2>0, <3>3, <3>4, <3>5, <3>6, LocalTab DEF OnlyTab
    <3> QED
      BY <2>0, <3>2, <3>3, <3>4, <3>7 DEF TypeOK
  <2> QED
    BY <2>1, <2>2
<1> QED
  BY <1>2, <1>3, <1>4, <1>5

\* The steps, one tab at a time.
LEMMA Steps1 ==
  ASSUME Next
  PROVE  \/ \E b \in Tabs :
              \/ \E c \in Calls : Send(b, c) \/ Serve(b, c) \/ Settled(b, c)
              \/ \E x \in Refreshes : Check(b, x) \/ Exchange(b, x) \/ ExchangeHalf(b, x)
              \/ \E x \in Slots : Lost(b, x)
              \/ SignOut(b) \/ Revoke(b)
         \/ \E b \in Tabs :
              \/ Open(b) \/ SignIn(b) \/ AccessExpires(b) \/ Reload(b)
              \/ Load(b) \/ Booted(b) \/ BootFailed(b) \/ SignedOut(b)
         \/ \E b \in Tabs :
              \/ \E x \in Slots \ {"exit"} : Denied(b, x)
              \/ Refreshed(b) \/ RefreshFailed(b) \/ SignInRefused(b)
         \/ \E t \in 1..issued : TokenExpires(t) \/ Stray(t)
<1>1. ASSUME NEW b \in Tabs, NEW x \in Slots, Progress(b, x)
      PROVE  \/ Load(b) \/ Booted(b) \/ BootFailed(b)
             \/ Refreshed(b) \/ RefreshFailed(b) \/ SignInRefused(b)
             \/ Revoke(b) \/ SignedOut(b)
             \/ \E c \in Calls : Serve(b, c) \/ Settled(b, c)
             \/ \E y \in Refreshes : Check(b, y) \/ Exchange(b, y)
             \/ \E y \in Slots \ {"exit"} : Denied(b, y)
  BY <1>1 DEF Progress, Refreshes
<1>2. ASSUME NEW b \in Tabs, User(b)
      PROVE  \/ Open(b) \/ SignIn(b) \/ SignInRefused(b) \/ SignOut(b) \/ Reload(b)
             \/ AccessExpires(b)
             \/ \E c \in Calls : Send(b, c)
  BY <1>2 DEF User
<1>3. \/ \E b \in Tabs : User(b)
      \/ \E b \in Tabs, x \in Slots : Progress(b, x) \/ Lost(b, x)
      \/ \E b \in Tabs, x \in Refreshes : ExchangeHalf(b, x)
      \/ \E t \in 1..issued : TokenExpires(t) \/ Stray(t)
  BY DEF Next, Refreshes
<1> QED
  BY <1>1, <1>2, <1>3

LEMMA NextTab == TypeOK /\ TabInv /\ [Next]_vars => TypeOK' /\ TabInv'
<1> SUFFICES ASSUME TypeOK, TabInv, [Next]_vars PROVE TypeOK' /\ TabInv'
  OBVIOUS
<1>1. ASSUME UNCHANGED <<issued, tab, call, faults>> PROVE TabInv'
  BY <1>1 DEF TabInv, OneTab, Requests, Bodies, Idle
<1>2. CASE UNCHANGED vars
  BY <1>1, <1>2 DEF vars, TypeOK
<1>3. ASSUME NEW t \in 1..issued, TokenExpires(t) \/ Stray(t)
      PROVE  TypeOK' /\ TabInv'
  <2>1. /\ UNCHANGED <<issued, exchanged, stored, tab, call, left, faults>>
        /\ token' \in [1..issued -> {"live", "revoked", "expired"}]
        /\ adrift' \subseteq 1..issued
    BY <1>3 DEF TokenExpires, Stray, TypeOK
  <2> QED
    BY <1>1, <2>1 DEF TypeOK
<1> QED
  BY <1>2, <1>3, Steps1, RequestTab, PageTab, InterceptorTab

\* The state of the session has its type, for any number of tabs and calls: whatever is
\* answered in whatever order, a browser holds only tokens that were issued.
THEOREM TypeCorrect == Spec => []TypeOK
<1> QED
  BY InitTab, NextTab, PTL DEF Spec

(***************************************************************************)
(* A token is exchanged once                                               *)
(***************************************************************************)

\* The other tabs that may be in the middle of a refresh leave room for this one.
LEMMA Room ==
  ASSUME TypeOK, TabInv, NEW b \in Tabs, tab[b].page # "closed",
         NEW S, S \subseteq Tabs \ {b}, \A c \in S : \E x \in Refreshes : ~Idle(c, x)
  PROVE  IsFiniteSet(S) /\ Cardinality(S) \in Nat /\ Cardinality(S) + 1 <= Limit
<1>1. IsFiniteSet(S)
  BY TabsAssumption, FS_Subset
<1>2. Cardinality(S) \in Nat
  BY <1>1, FS_CardinalityType
<1>3. CASE "tabs" \in faults
  <2>1. S \cup {b} \subseteq Tabs /\ b \notin S
    OBVIOUS
  <2>2. Cardinality(S \cup {b}) = Cardinality(S) + 1
    BY <1>1, <2>1, FS_AddElement
  <2>3. Cardinality(S \cup {b}) <= Cardinality(Tabs)
    BY <2>1, TabsAssumption, FS_Subset
  <2> QED
    BY <1>1, <1>2, <1>3, <2>2, <2>3 DEF Limit
<1>4. CASE "tabs" \notin faults
  <2>1. ASSUME NEW c \in S PROVE FALSE
    <3>1. tab[c].page = "closed" /\ Requests(c)
      BY <1>4 DEF TabInv, OneTab
    <3> QED
      BY <3>1, SlotNames DEF Requests
  <2>2. Cardinality(S) = 0
    BY <2>1, FS_EmptySet
  <2> QED
    BY <1>1, <1>2, <1>4, <2>2 DEF Limit
<1> QED
  BY <1>3, <1>4

LEMMA ExchangingFinite ==
  \A t : /\ IsFiniteSet(Exchanging(t)) /\ Cardinality(Exchanging(t)) \in Nat
         /\ \A S \in SUBSET Exchanging(t) :
              /\ IsFiniteSet(S) /\ Cardinality(S) \in Nat
              /\ Cardinality(S) <= Cardinality(Exchanging(t))
<1> TAKE t
<1>1. IsFiniteSet(Exchanging(t))
  BY TabsAssumption, FS_Subset DEF Exchanging
<1> QED
  BY <1>1, FS_Subset, FS_CardinalityType

LEMMA LimitType == Limit \in Nat
BY TabsAssumption, FS_CardinalityType DEF Limit

\* A step by which the API starts no exchange and makes none.
LEMMA NoExchange ==
  ASSUME TypeOK, ExchangeInv, UNCHANGED <<issued, exchanged, faults>>,
         \A t \in 1..issued : token'[t] = "live" => token[t] = "live",
         \A b \in Tabs, x \in Refreshes :
           call'[b][x].pc = "checked" => call[b][x].pc = "checked" /\ call'[b][x].tok = call[b][x].tok
  PROVE  ExchangeInv'
<1>1. ASSUME NEW t \in 1..issued PROVE Exchanges(t)'
  <2>1. Exchanging(t)' \subseteq Exchanging(t)
    BY DEF Exchanging
  <2>2. Cardinality(Exchanging(t)') \in Nat /\ Cardinality(Exchanging(t)) \in Nat
        /\ Cardinality(Exchanging(t)') <= Cardinality(Exchanging(t))
    BY <2>1, ExchangingFinite
  <2>3. Exchanges(t) /\ exchanged[t] \in Nat /\ Limit' = Limit /\ Limit \in Nat
    BY LimitType DEF ExchangeInv, TypeOK, Limit
  <2> QED
    BY <2>2, <2>3 DEF Exchanges
<1> QED
  BY <1>1 DEF ExchangeInv

\* A token that the API creates is new: nobody exchanges it yet.
LEMMA NewToken ==
  ASSUME TypeOK, TabInv, NEW S, S \subseteq Exchanging(issued + 1)
  PROVE  S = {}
<1>1. ASSUME NEW b \in Exchanging(issued + 1) PROVE FALSE
  <2>1. PICK x \in Refreshes : call[b][x].tok = issued + 1
    BY <1>1 DEF Exchanging
  <2>2. call[b][x].tok <= issued /\ issued \in Nat
    BY <1>1, SlotNames DEF TabInv, Bodies, Exchanging, TypeOK
  <2> QED
    BY <2>1, <2>2
<1> QED
  BY <1>1

LEMMA CheckOnce ==
  ASSUME TypeOK, TabInv, ExchangeInv, NEW b \in Tabs, NEW x \in Refreshes, Check(b, x)
  PROVE  ExchangeInv'
<1>1. PICK l \in {"checked", "denied"} :
        /\ Steps(b, x, l)
        /\ l = "checked" => token[call[b][x].tok] = "live"
  BY DEF Check
<1> DEFINE r == [call[b][x] EXCEPT !.pc = l]
<1>2. r \in Call /\ r.pc = l /\ r.tok = call[b][x].tok /\ Sends(b, x, r) /\ x \in Slots
  <2>1. call[b][x] \in Call /\ x \in Slots
    BY SlotNames DEF TypeOK
  <2> QED
    BY <1>1, <2>1 DEF Call, Steps
<1> HIDE DEF r
<1>3. /\ call'[b][x] = r
      /\ \A y \in Slots \ {x} : call'[b][y] = call[b][y]
      /\ \A c \in Tabs \ {b} : call'[c] = call[c]
  BY <1>2, SendsEffect
<1>4. UNCHANGED <<token, issued, exchanged, tab, faults>> /\ call[b][x].pc = "sent"
  BY DEF Check
<1>5. CASE l = "denied"
  BY <1>2, <1>3, <1>4, <1>5, NoExchange, SlotNames
<1>6. CASE l = "checked"
  <2>1. ASSUME NEW t \in 1..issued PROVE Exchanges(t)'
    <3>0. Exchanges(t) /\ exchanged[t] \in Nat /\ Limit' = Limit /\ Limit \in Nat
          /\ exchanged' = exchanged /\ token' = token
      BY <1>4, LimitType DEF ExchangeInv, TypeOK, Limit
    <3>1. CASE t = call[b][x].tok
      <4> DEFINE S == Exchanging(t) \ {b}
      <4>1. S \subseteq Tabs \ {b} /\ \A c \in S : \E y \in Refreshes : ~Idle(c, y)
        BY DEF Exchanging, Idle
      <4>2. tab[b].page # "closed"
        BY <1>2, <1>4 DEF TabInv, Requests, Idle
      <4>3. IsFiniteSet(S) /\ Cardinality(S) \in Nat /\ Cardinality(S) + 1 <= Limit
        BY <4>1, <4>2, Room
      <4>4. Exchanging(t)' \subseteq S \cup {b}
        BY <1>3 DEF Exchanging
      <4>5. b \notin S
        OBVIOUS
      <4> HIDE DEF S
      <4>6. Cardinality(S \cup {b}) = Cardinality(S) + 1 /\ IsFiniteSet(S \cup {b})
        BY <4>3, <4>5, FS_AddElement
      <4>7. Cardinality(Exchanging(t)') <= Cardinality(S \cup {b})
            /\ IsFiniteSet(Exchanging(t)')
        BY <4>4, <4>6, FS_Subset
      <4>8. Cardinality(Exchanging(t)') \in Nat
        BY <4>7, FS_CardinalityType
      <4>9. exchanged[t] = 0
        BY <1>1, <1>6, <3>0, <3>1 DEF Exchanges
      <4> QED
        BY <3>0, <4>3, <4>6, <4>7, <4>8, <4>9 DEF Exchanges
    <3>2. CASE t # call[b][x].tok
      <4>1. Exchanging(t)' \subseteq Exchanging(t)
        BY <1>2, <1>3, <3>2, SlotNames DEF Exchanging
      <4>2. Cardinality(Exchanging(t)') \in Nat /\ Cardinality(Exchanging(t)) \in Nat
            /\ Cardinality(Exchanging(t)') <= Cardinality(Exchanging(t))
        BY <4>1, ExchangingFinite
      <4> QED
        BY <3>0, <4>2 DEF Exchanges
    <3> QED
      BY <3>1, <3>2
  <2> QED
    BY <1>4, <2>1 DEF ExchangeInv
<1> QED
  BY <1>5, <1>6

LEMMA ExchangeOnce ==
  ASSUME TypeOK, TabInv, ExchangeInv, NEW b \in Tabs, NEW x \in Refreshes, Exchange(b, x)
  PROVE  ExchangeInv'
<1> DEFINE r == [call[b][x] EXCEPT !.pc = "granted", !.new = issued + 1]
           t == call[b][x].tok
<1>0. call[b][x] \in Call /\ x \in Slots /\ issued \in Nat /\ Bodies(b) /\ Requests(b)
  BY SlotNames DEF TypeOK, TabInv
<1>1. /\ call[b][x].pc = "checked" /\ Issue({t}) /\ Sends(b, x, r)
      /\ UNCHANGED <<tab, faults>>
  BY DEF Exchange
<1>2. r \in Call /\ r.pc = "granted"
  <2>1. issued + 1 \in Nat
    BY <1>0
  <2> QED
    BY <1>0, <2>1 DEF Call
<1> HIDE DEF r
<1>3. /\ call'[b][x] = r
      /\ \A y \in Slots \ {x} : call'[b][y] = call[b][y]
      /\ \A c \in Tabs \ {b} : call'[c] = call[c]
  BY <1>0, <1>1, <1>2, SendsEffect
<1>4. /\ issued' = issued + 1 /\ token'[issued + 1] = "live" /\ exchanged'[issued + 1] = 0
      /\ \A u \in 1..issued :
           /\ u = t => token'[u] = "revoked" /\ exchanged'[u] = exchanged[u] + 1
           /\ u # t => token'[u] = token[u] /\ exchanged'[u] = exchanged[u]
  BY <1>1, IssueType
<1>5. \A y \in Refreshes \ {x} : call[b][y].pc # "checked"
  BY <1>0, <1>1 DEF Requests, Idle, Refreshes
<1>6. \A u : Exchanging(u)' \subseteq Exchanging(u) \ {b}
  BY <1>2, <1>3, <1>5, SlotNames DEF Exchanging
<1>7. Limit' = Limit /\ Limit \in Nat
  BY <1>1, LimitType DEF Limit
<1>8. ASSUME NEW u \in 1..issued PROVE Exchanges(u)'
  <2>0. Exchanges(u) /\ exchanged[u] \in Nat
    BY DEF ExchangeInv, TypeOK
  <2>1. CASE u = t
    <3>1. b \in Exchanging(u)
      BY <1>1, <2>1 DEF Exchanging
    <3>2. Cardinality(Exchanging(u) \ {b}) = Cardinality(Exchanging(u)) - 1
          /\ IsFiniteSet(Exchanging(u) \ {b})
      BY <3>1, ExchangingFinite, FS_RemoveElement
    <3>3. Cardinality(Exchanging(u)') <= Cardinality(Exchanging(u) \ {b})
          /\ IsFiniteSet(Exchanging(u)')
      BY <1>6, <3>2, FS_Subset
    <3>4. Cardinality(Exchanging(u)') \in Nat /\ Cardinality(Exchanging(u)) \in Nat
      BY <3>3, ExchangingFinite, FS_CardinalityType
    <3>5. token'[u] = "revoked" /\ exchanged'[u] = exchanged[u] + 1
      BY <1>4, <2>1
    <3> QED
      BY <1>7, <2>0, <3>2, <3>3, <3>4, <3>5 DEF Exchanges
  <2>2. CASE u # t
    <3>1. Cardinality(Exchanging(u)') \in Nat /\ Cardinality(Exchanging(u)) \in Nat
          /\ Cardinality(Exchanging(u)') <= Cardinality(Exchanging(u))
      BY <1>6, ExchangingFinite
    <3>2. token'[u] = token[u] /\ exchanged'[u] = exchanged[u]
      BY <1>4, <2>2
    <3> QED
      BY <1>7, <2>0, <3>1, <3>2 DEF Exchanges
  <2> QED
    BY <2>1, <2>2
<1>9. ASSUME NEW n, n = issued + 1 PROVE Exchanges(n)'
  <2>1. Exchanging(n)' = {}
    BY <1>6, <1>9, NewToken
  <2>2. Cardinality(Exchanging(n)') = 0
    BY <2>1, FS_EmptySet
  <2>3. exchanged'[n] = 0
    BY <1>4, <1>9
  <2> QED
    BY <1>7, <2>2, <2>3 DEF Exchanges
<1> QED
  BY <1>0, <1>4, <1>8, <1>9 DEF ExchangeInv

\* A page that goes takes its refreshes with it, and leaves the tokens as they are.
LEMMA GoneOnce ==
  ASSUME TypeOK, ExchangeInv, NEW b \in Tabs, Gone(b),
         UNCHANGED <<token, issued, exchanged, faults>>
  PROVE  ExchangeInv'
<1>1. /\ \A x \in Slots : call'[b][x] = NoCall
      /\ \A c \in Tabs \ {b} : call'[c] = call[c]
  BY GoneEffect
<1> QED
  BY <1>1, NoExchange, NoCallType, SlotNames

LEMMA SignInOnce ==
  ASSUME TypeOK, TabInv, ExchangeInv, NEW b \in Tabs, SignIn(b)
  PROVE  ExchangeInv'
<1>1. Issue({}) /\ UNCHANGED <<call, faults>> /\ issued \in Nat
  BY DEF SignIn, TypeOK
<1>2. /\ issued' = issued + 1 /\ exchanged'[issued + 1] = 0
      /\ \A u \in 1..issued : token'[u] = token[u] /\ exchanged'[u] = exchanged[u]
  BY <1>1, IssueType
<1>3. \A u : Exchanging(u)' = Exchanging(u)
  BY <1>1 DEF Exchanging
<1>4. Limit' = Limit /\ Limit \in Nat
  BY <1>1, LimitType DEF Limit
<1>5. ASSUME NEW u \in 1..issued PROVE Exchanges(u)'
  BY <1>2, <1>3, <1>4 DEF Exchanges, ExchangeInv
<1>6. ASSUME NEW n, n = issued + 1 PROVE Exchanges(n)'
  <2>1. Exchanging(n)' = {}
    BY <1>3, <1>6, NewToken
  <2>2. Cardinality(Exchanging(n)') = 0
    BY <2>1, FS_EmptySet
  <2>3. exchanged'[n] = 0
    BY <1>2, <1>6
  <2> QED
    BY <1>4, <2>2, <2>3 DEF Exchanges
<1> QED
  BY <1>1, <1>2, <1>5, <1>6 DEF ExchangeInv

\* A step of tab b that sends the request r, which is no exchange, in slot x.
LEMMA SentOnce ==
  ASSUME TypeOK, ExchangeInv, NEW b \in Tabs, NEW x \in Slots, NEW r \in Call, Sends(b, x, r),
         r.pc # "checked" \/ x \notin Refreshes,
         UNCHANGED <<issued, exchanged, faults>>,
         \A t \in 1..issued : token'[t] = "live" => token[t] = "live"
  PROVE  ExchangeInv'
<1>1. /\ call'[b][x] = r
      /\ \A y \in Slots \ {x} : call'[b][y] = call[b][y]
      /\ \A c \in Tabs \ {b} : call'[c] = call[c]
  BY SendsEffect
<1> QED
  BY <1>1, NoExchange, SlotNames

LEMMA RequestOnce ==
  ASSUME TypeOK, TabInv, ExchangeInv, NEW b \in Tabs,
         \/ \E c \in Calls : Send(b, c) \/ Serve(b, c) \/ Settled(b, c)
         \/ \E x \in Refreshes : Check(b, x) \/ Exchange(b, x) \/ ExchangeHalf(b, x)
         \/ \E x \in Slots : Lost(b, x)
         \/ SignOut(b) \/ Revoke(b)
  PROVE  ExchangeInv'
<1>0. \A x \in Slots : call[b][x] \in Call
  BY DEF TypeOK
<1>m. ASSUME NEW x \in Slots, NEW l \in {"granted", "denied", "failed"}, Steps(b, x, l),
             UNCHANGED <<issued, exchanged, faults>>,
             \A t \in 1..issued : token'[t] = "live" => token[t] = "live"
      PROVE  ExchangeInv'
  <2> DEFINE r == [call[b][x] EXCEPT !.pc = l]
  <2>1. r \in Call /\ r.pc # "checked" /\ Sends(b, x, r)
    BY <1>0, <1>m DEF Call, Steps
  <2> HIDE DEF r
  <2> QED
    BY <1>m, <2>1, SentOnce
<1>1. ASSUME NEW c \in Calls, Send(b, c) \/ Settled(b, c)
      PROVE  ExchangeInv'
  <2>1. PICK r \in Call : Sends(b, c, r)
    <3>1. tab[b] \in Tab
      BY DEF TypeOK
    <3>2. [NoCall EXCEPT !.pc = "sent", !.auth = tab[b].access] \in Call
      BY <3>1 DEF NoCall, Call, Tab
    <3> QED
      BY <1>1, <3>2, NoCallType DEF Send, Settled
  <2>2. UNCHANGED <<token, issued, exchanged, faults>> /\ c \in Slots /\ c \notin Refreshes
    BY <1>1, SlotNames DEF Send, Settled
  <2> QED
    BY <2>1, <2>2, SentOnce
<1>2. ASSUME NEW c \in Calls, Serve(b, c)
      PROVE  ExchangeInv'
  BY <1>2, <1>m, SlotNames DEF Serve
<1>3. ASSUME NEW x \in Refreshes, ExchangeHalf(b, x)
      PROVE  ExchangeInv'
  <2>1. /\ Steps(b, x, "failed") /\ UNCHANGED <<issued, exchanged, faults>> /\ x \in Slots
        /\ \A t \in 1..issued : token'[t] = "live" => token[t] = "live"
    BY <1>3, SlotNames DEF ExchangeHalf, TypeOK
  <2> QED
    BY <1>m, <2>1
<1>4. ASSUME NEW x \in Slots, Lost(b, x)
      PROVE  ExchangeInv'
  BY <1>4, <1>m DEF Lost
<1>5. CASE SignOut(b)
  <2>1. PICK l \in {"sent", "granted"} :
          Sends(b, "exit", [NoCall EXCEPT !.pc = l, !.tok = stored])
    BY <1>5 DEF SignOut
  <2>2. [NoCall EXCEPT !.pc = l, !.tok = stored] \in Call
    <3>1. stored \in Nat
      BY DEF TypeOK
    <3> QED
      BY <3>1 DEF NoCall, Call
  <2>3. UNCHANGED <<token, issued, exchanged, faults>>
    BY <1>5 DEF SignOut
  <2> QED
    BY <2>1, <2>2, <2>3, SentOnce, SlotNames
<1>6. CASE Revoke(b)
  <2>1. /\ Steps(b, "exit", "granted") /\ UNCHANGED <<issued, exchanged, faults>>
        /\ \A t \in 1..issued : token'[t] = "live" => token[t] = "live"
    BY <1>6 DEF Revoke, TypeOK
  <2> QED
    BY <1>m, <2>1, SlotNames
<1> QED
  BY <1>1, <1>2, <1>3, <1>4, <1>5, <1>6, CheckOnce, ExchangeOnce

LEMMA PageOnce ==
  ASSUME TypeOK, TabInv, ExchangeInv, NEW b \in Tabs,
         \/ Open(b) \/ SignIn(b) \/ AccessExpires(b) \/ Reload(b)
         \/ Load(b) \/ Booted(b) \/ BootFailed(b) \/ SignedOut(b)
  PROVE  ExchangeInv'
<1>1. ASSUME UNCHANGED <<token, issued, exchanged, call, faults>> PROVE ExchangeInv'
  BY <1>1, NoExchange
<1>2. CASE Open(b) \/ AccessExpires(b)
  BY <1>1, <1>2 DEF Open, AccessExpires
<1>3. CASE Load(b)
  <2>1. UNCHANGED <<token, issued, exchanged, faults>>
    BY <1>3 DEF Load
  <2>2. CASE stored = 0
    BY <1>1, <1>3, <2>1, <2>2 DEF Load
  <2>3. CASE stored # 0
    <3> DEFINE r == [NoCall EXCEPT !.pc = "sent", !.tok = stored]
    <3>1. r \in Call /\ r.pc # "checked"
      <4>1. stored \in Nat
        BY DEF TypeOK
      <4> QED
        BY <4>1 DEF NoCall, Call
    <3>2. Sends(b, "boot", r)
      BY <1>3, <2>3 DEF Load, Sends
    <3> HIDE DEF r
    <3> QED
      BY <2>1, <3>1, <3>2, SentOnce, SlotNames
  <2> QED
    BY <2>2, <2>3
<1>4. CASE Booted(b) \/ BootFailed(b) \/ SignedOut(b)
  <2>1. PICK x \in Slots : Sends(b, x, NoCall)
    BY <1>4, SlotNames DEF Booted, BootFailed, SignedOut
  <2>2. UNCHANGED <<token, issued, exchanged, faults>>
    BY <1>4 DEF Booted, BootFailed, SignedOut
  <2> QED
    BY <2>1, <2>2, SentOnce, NoCallType
<1> QED
  BY <1>2, <1>3, <1>4, SignInOnce, GoneOnce DEF Reload

LEMMA InterceptorOnce ==
  ASSUME TypeOK, TabInv, ExchangeInv, NEW b \in Tabs,
         \/ \E x \in Slots \ {"exit"} : Denied(b, x)
         \/ Refreshed(b) \/ RefreshFailed(b) \/ SignInRefused(b)
  PROVE  ExchangeInv'
<1>1. ASSUME Leave(b), UNCHANGED <<token, issued, exchanged, faults>>
      PROVE  ExchangeInv'
  BY <1>1, GoneOnce DEF Leave
<1>2. ASSUME NEW x \in Slots \ {"exit"}, Denied(b, x)
      PROVE  ExchangeInv'
  <2>1. CASE stored = 0
    BY <1>1, <1>2, <2>1 DEF Denied
  <2>2. CASE stored # 0
    <3>1. /\ UNCHANGED <<token, issued, exchanged, faults>>
          /\ \A c \in Tabs \ {b} : call'[c] = call[c]
          /\ \A y \in Slots \ {x, "inner"} : call'[b][y] = call[b][y]
          /\ call'[b][x].pc = "waiting"
          /\ \/ x = "inner"
             \/ call'[b]["inner"] = call[b]["inner"]
             \/ call'[b]["inner"].pc = "sent"
      BY <1>2, <2>2, DeniedEffect
    <3> QED
      BY <3>1, NoExchange, SlotNames
  <2> QED
    BY <2>1, <2>2
<1>3. CASE Refreshed(b)
  <2>1. /\ UNCHANGED <<token, issued, exchanged, faults>>
        /\ \A c \in Tabs \ {b} : call'[c] = call[c]
        /\ call'[b]["inner"] = NoCall
        /\ \A y \in Slots \ {"inner"} :
              /\ call'[b][y].tok = call[b][y].tok
              /\ call[b][y].pc # "waiting" => call'[b][y].pc = call[b][y].pc
              /\ call[b][y].pc = "waiting" => call'[b][y].pc = "sent"
    BY <1>3, RefreshedEffect
  <2> QED
    BY <2>1, NoExchange, NoCallType, SlotNames
<1>4. CASE RefreshFailed(b)
  BY <1>1, <1>4 DEF RefreshFailed
<1>5. CASE SignInRefused(b)
  <2>0. UNCHANGED <<token, issued, exchanged, faults>>
    BY <1>5 DEF SignInRefused
  <2>1. CASE stored = 0
    BY <1>1, <1>5, <2>0, <2>1 DEF SignInRefused
  <2>2. CASE stored # 0
    <3> DEFINE r == [NoCall EXCEPT !.pc = "sent", !.tok = stored]
    <3>1. r \in Call /\ r.pc # "checked"
      <4>1. stored \in Nat
        BY DEF TypeOK
      <4> QED
        BY <4>1 DEF NoCall, Call
    <3>2. Sends(b, "inner", r)
      BY <1>5, <2>2 DEF SignInRefused
    <3> HIDE DEF r
    <3> QED
      BY <2>0, <3>1, <3>2, SentOnce, SlotNames
  <2> QED
    BY <2>1, <2>2
<1> QED
  BY <1>2, <1>3, <1>4, <1>5

LEMMA NextExchange == TypeOK /\ TabInv /\ ExchangeInv /\ [Next]_vars => ExchangeInv'
<1> SUFFICES ASSUME TypeOK, TabInv, ExchangeInv, [Next]_vars PROVE ExchangeInv'
  OBVIOUS
<1>1. CASE UNCHANGED vars
  BY <1>1, NoExchange DEF vars
<1>2. ASSUME NEW t \in 1..issued, TokenExpires(t) \/ Stray(t)
      PROVE  ExchangeInv'
  <2>1. UNCHANGED <<issued, exchanged, call, faults>>
        /\ \A u \in 1..issued : token'[u] = "live" => token[u] = "live"
    BY <1>2 DEF TokenExpires, Stray, TypeOK
  <2> QED
    BY <2>1, NoExchange
<1> QED
  BY <1>1, <1>2, Steps1, RequestOnce, PageOnce, InterceptorOnce

\* A tab exchanges a refresh token once, whatever expires, is lost or comes too late
\* (AuthService.refresh): without a second tab the pages of a tab, one after the other, get
\* one token for it between them, and with others never more than there are tabs; what a page
\* left at the API when it went is not counted. The lookup of a token and its revocation are
\* two queries, so this rests on the tab having one refresh under way.
THEOREM OneExchange == Spec => []ExchangedOnce
<1>1. Init => TypeOK /\ TabInv /\ ExchangeInv
  <2> SUFFICES ASSUME Init PROVE TypeOK /\ TabInv /\ ExchangeInv
    OBVIOUS
  <2>1. TypeOK /\ TabInv
    BY InitTab
  <2>2. issued = 1 /\ exchanged[1] = 0
    BY DEF Init
  <2>3. \A b \in Tabs : \A x \in Slots : call[b][x].pc = "idle"
    BY NoCallType DEF Init, NoCalls
  <2>4. Exchanging(1) = {}
    BY <2>3, SlotNames DEF Exchanging
  <2>5. Cardinality(Exchanging(1)) = 0
    BY <2>4, FS_EmptySet
  <2> QED
    BY <2>1, <2>2, <2>5, LimitType DEF ExchangeInv, Exchanges
<1>2. TypeOK /\ ExchangeInv => ExchangedOnce
  <2> SUFFICES ASSUME TypeOK, ExchangeInv, NEW t \in 1..issued PROVE exchanged[t] <= Limit
    BY DEF ExchangedOnce, Limit
  <2>1. exchanged[t] \in Nat /\ Cardinality(Exchanging(t)) \in Nat /\ Limit \in Nat
    BY LimitType, ExchangingFinite DEF TypeOK
  <2> QED
    BY <2>1 DEF ExchangeInv, Exchanges
<1> QED
  BY <1>1, <1>2, NextTab, NextExchange, PTL DEF Spec

(***************************************************************************)
(* What the tab holds is what the API takes                                *)
(***************************************************************************)

\* When the tab is alone, only its own steps matter to what it holds.
LEMMA HoldLocal ==
  ASSUME TypeOK, TabInv, HoldInv, Quiet, NEW b \in Tabs, OnlyTab(b), Holds(b)',
         UNCHANGED adrift, tab'[b].page # "closed",
         tab[b].page # "closed" \/ \A c \in Tabs : tab[c].page = "closed"
  PROVE  HoldInv'
<1>1. ASSUME NEW c \in Tabs, c # b PROVE Holds(c)'
  <2>1. tab[c].page = "closed" /\ Requests(c) /\ Holds(c)
    BY <1>1 DEF TabInv, OneTab, Quiet, Without, HoldInv
  <2>2. tab'[c] = tab[c] /\ call'[c] = call[c]
    BY <1>1 DEF OnlyTab
  <2> QED
    BY <2>1, <2>2, SlotNames DEF Holds, Requests, Idle
<1> QED
  BY <1>1 DEF HoldInv

\* A request that the application makes beside its refreshes.
LEMMA CallHolds ==
  ASSUME TypeOK, TabInv, HoldInv, Quiet, NEW b \in Tabs, NEW c \in Calls, NEW r \in Call,
         Sends(b, c, r), UNCHANGED <<token, stored, tab, adrift, faults>>,
         tab[b].page = "app", Idle(b, "exit")
  PROVE  HoldInv'
<1>1. /\ c \in Slots /\ c # "inner" /\ c # "exit" /\ c # "boot"
      /\ \A y \in Slots \ {c} : call'[b][y] = call[b][y]
      /\ \A d \in Tabs \ {b} : call'[d] = call[d]
  BY SendsEffect, SlotNames, CallsAssumption
<1>2. Holds(b)
  BY DEF HoldInv
<1>3. Holds(b)'
  BY <1>1, <1>2, SlotNames DEF Holds, Idle, Good
<1> QED
  BY <1>1, <1>3, HoldLocal DEF OnlyTab

LEMMA CallsHold ==
  ASSUME TypeOK, TabInv, HoldInv, Quiet, NEW b \in Tabs, NEW c \in Calls,
         Send(b, c) \/ Serve(b, c) \/ Settled(b, c) \/ Lost(b, c)
  PROVE  HoldInv'
<1>0. call[b][c] \in Call /\ tab[b] \in Tab /\ Requests(b) /\ Holds(b) /\ c \in Slots
  BY SlotNames DEF TypeOK, TabInv, HoldInv
<1>1. PICK r \in Call : Sends(b, c, r)
  <2>1. [NoCall EXCEPT !.pc = "sent", !.auth = tab[b].access] \in Call
    BY <1>0 DEF NoCall, Call, Tab
  <2>2. \A l \in {"granted", "denied", "failed"} : [call[b][c] EXCEPT !.pc = l] \in Call
    BY <1>0 DEF Call
  <2> QED
    BY <2>1, <2>2, NoCallType DEF Send, Serve, Settled, Lost, Steps
<1>2. UNCHANGED <<token, stored, tab, adrift, faults>>
  BY DEF Send, Serve, Settled, Lost
<1>3. tab[b].page = "app" /\ Idle(b, "exit")
  <2>1. CASE Send(b, c)
    BY <2>1 DEF Send, Idle
  <2>2. CASE Serve(b, c) \/ Settled(b, c) \/ Lost(b, c)
    <3>1. ~Idle(b, c)
      BY <2>2 DEF Serve, Settled, Lost, Idle
    <3> QED
      BY <1>0, <3>1, SlotNames DEF Requests, Holds, Tab
  <2> QED
    BY <2>1, <2>2
<1> QED
  BY <1>1, <1>2, <1>3, CallHolds

\* The refresh of a page that is loaded.
LEMMA BootHolds ==
  ASSUME TypeOK, TabInv, HoldInv, Quiet, NEW b \in Tabs,
         \/ Check(b, "boot") \/ Exchange(b, "boot") \/ ExchangeHalf(b, "boot")
         \/ Lost(b, "boot")
  PROVE  HoldInv'
<1>0. /\ call[b]["boot"] \in Call /\ Requests(b) /\ Holds(b) /\ Bodies(b) /\ issued \in Nat
      /\ UNCHANGED <<stored, tab, adrift, faults>>
  BY SlotNames DEF TypeOK, TabInv, HoldInv, Check, Exchange, ExchangeHalf, Lost
<1>1. ~Idle(b, "boot") /\ tab[b].page = "loading" /\ tab[b].access = "none"
  BY <1>0 DEF Check, Exchange, ExchangeHalf, Lost, Idle, Requests, Holds
<1>2. ASSUME NEW r \in Call, Sends(b, "boot", r), r.pc \in {"checked", "granted", "failed"},
             r.pc = "checked" => r.tok = stored /\ Good(stored)',
             r.pc = "granted" => Good(r.new)'
      PROVE  HoldInv'
  <2>1. /\ call'[b]["boot"] = r
        /\ \A y \in Slots \ {"boot"} : call'[b][y] = call[b][y]
        /\ \A d \in Tabs \ {b} : call'[d] = call[d]
    BY <1>2, SendsEffect, SlotNames
  <2>2. Holds(b)'
    BY <1>0, <1>1, <1>2, <2>1, SlotNames DEF Holds, Requests, Idle, Good
  <2> QED
    BY <1>0, <1>1, <2>1, <2>2, HoldLocal DEF OnlyTab
<1>3. CASE Check(b, "boot")
  <2> DEFINE r == [call[b]["boot"] EXCEPT !.pc = "checked"]
  <2>1. r \in Call /\ r.pc = "checked" /\ r.tok = call[b]["boot"].tok
    BY <1>0 DEF Call
  <2>2. call[b]["boot"].tok = stored /\ Good(stored)
    BY <1>0, <1>1, <1>3 DEF Check, Holds
  <2>3. Sends(b, "boot", r) /\ token' = token
    BY <1>3, <2>2 DEF Check, Good, Steps
  <2> HIDE DEF r
  <2> QED
    BY <1>0, <1>2, <2>1, <2>2, <2>3 DEF Good
<1>4. CASE Exchange(b, "boot")
  <2> DEFINE r == [call[b]["boot"] EXCEPT !.pc = "granted", !.new = issued + 1]
  <2>1. r \in Call /\ r.pc = "granted" /\ r.new = issued + 1
    <3>1. issued + 1 \in Nat
      BY <1>0
    <3> QED
      BY <1>0, <3>1 DEF Call
  <2>2. Sends(b, "boot", r) /\ Issue({call[b]["boot"].tok})
    BY <1>4 DEF Exchange
  <2>3. token'[issued + 1] = "live" /\ issued + 1 # 0
    BY <1>0, <2>2, IssueType
  <2> HIDE DEF r
  <2>4. PICK n : n = issued + 1
    OBVIOUS
  <2>5. Good(n)' /\ r.new = n
    BY <2>1, <2>3, <2>4 DEF Good
  <2> QED
    BY <1>2, <2>1, <2>2, <2>5 DEF Good
<1>5. CASE ExchangeHalf(b, "boot") \/ Lost(b, "boot")
  <2> DEFINE r == [call[b]["boot"] EXCEPT !.pc = "failed"]
  <2>1. r \in Call /\ r.pc = "failed"
    BY <1>0 DEF Call
  <2>2. Sends(b, "boot", r)
    BY <1>5 DEF ExchangeHalf, Lost, Steps
  <2> HIDE DEF r
  <2> QED
    BY <1>2, <2>1, <2>2
<1> QED
  BY <1>3, <1>4, <1>5

\* The refresh of the interceptor, while the application is shown.
LEMMA InnerHolds ==
  ASSUME TypeOK, TabInv, HoldInv, Quiet, NEW b \in Tabs,
         \/ Check(b, "inner") \/ Exchange(b, "inner") \/ ExchangeHalf(b, "inner")
         \/ Lost(b, "inner")
  PROVE  HoldInv'
<1>0. /\ call[b]["inner"] \in Call /\ Requests(b) /\ Holds(b) /\ Bodies(b) /\ issued \in Nat
      /\ UNCHANGED <<stored, tab, adrift, faults>> /\ tab[b] \in Tab
  BY SlotNames DEF TypeOK, TabInv, HoldInv, Check, Exchange, ExchangeHalf, Lost
<1>a. ~Idle(b, "inner")
  BY DEF Check, Exchange, ExchangeHalf, Lost, Idle
<1>1. tab[b].page = "app" /\ Idle(b, "exit")
  BY <1>0, <1>a, SlotNames DEF Requests, Holds, Tab
<1>2. ASSUME NEW r \in Call, Sends(b, "inner", r), r.pc \in {"checked", "granted", "failed"},
             r.pc = "checked" => r.tok = stored /\ Good(stored)',
             r.pc = "granted" => Good(r.new)'
      PROVE  HoldInv'
  <2>1. /\ call'[b]["inner"] = r
        /\ \A y \in Slots \ {"inner"} : call'[b][y] = call[b][y]
        /\ \A d \in Tabs \ {b} : call'[d] = call[d]
    BY <1>2, SendsEffect, SlotNames
  <2>2. Holds(b)'
    BY <1>0, <1>1, <1>2, <2>1, SlotNames DEF Holds, Requests, Idle, Good
  <2> QED
    BY <1>0, <1>1, <2>1, <2>2, HoldLocal DEF OnlyTab
<1>3. CASE Check(b, "inner")
  <2> DEFINE r == [call[b]["inner"] EXCEPT !.pc = "checked"]
  <2>1. r \in Call /\ r.pc = "checked" /\ r.tok = call[b]["inner"].tok
    BY <1>0 DEF Call
  <2>2. call[b]["inner"].tok = stored /\ Good(stored)
    BY <1>0, <1>1, <1>3 DEF Check, Holds
  <2>3. Sends(b, "inner", r) /\ token' = token
    BY <1>3, <2>2 DEF Check, Good, Steps
  <2> HIDE DEF r
  <2> QED
    BY <1>0, <1>2, <2>1, <2>2, <2>3 DEF Good
<1>4. CASE Exchange(b, "inner")
  <2> DEFINE r == [call[b]["inner"] EXCEPT !.pc = "granted", !.new = issued + 1]
  <2>1. r \in Call /\ r.pc = "granted" /\ r.new = issued + 1
    <3>1. issued + 1 \in Nat
      BY <1>0
    <3> QED
      BY <1>0, <3>1 DEF Call
  <2>2. Sends(b, "inner", r) /\ Issue({call[b]["inner"].tok})
    BY <1>4 DEF Exchange
  <2>3. token'[issued + 1] = "live" /\ issued + 1 # 0
    BY <1>0, <2>2, IssueType
  <2> HIDE DEF r
  <2>4. PICK n : n = issued + 1
    OBVIOUS
  <2>5. Good(n)' /\ r.new = n
    BY <2>1, <2>3, <2>4 DEF Good
  <2> QED
    BY <1>2, <2>1, <2>2, <2>5 DEF Good
<1>5. CASE ExchangeHalf(b, "inner") \/ Lost(b, "inner")
  <2> DEFINE r == [call[b]["inner"] EXCEPT !.pc = "failed"]
  <2>1. r \in Call /\ r.pc = "failed"
    BY <1>0 DEF Call
  <2>2. Sends(b, "inner", r)
    BY <1>5 DEF ExchangeHalf, Lost, Steps
  <2> HIDE DEF r
  <2> QED
    BY <1>2, <2>1, <2>2
<1> QED
  BY <1>3, <1>4, <1>5

\* The sign-out: it waits for the other requests, and after it nothing is held.
LEMMA ExitHolds ==
  ASSUME TypeOK, TabInv, HoldInv, Quiet, NEW b \in Tabs,
         SignOut(b) \/ Revoke(b) \/ SignedOut(b) \/ Lost(b, "exit")
  PROVE  HoldInv'
<1>0. /\ call[b]["exit"] \in Call /\ Requests(b) /\ Holds(b) /\ tab[b] \in Tab
      /\ UNCHANGED <<adrift, faults>>
  BY SlotNames DEF TypeOK, TabInv, HoldInv, SignOut, Revoke, SignedOut, Lost
<1>1. tab[b].page = "app" /\ \A x \in Slots \ {"exit"} : Idle(b, x)
  <2>1. CASE SignOut(b)
    <3>1. tab[b].page = "app" /\ call[b] = NoCalls
      BY <2>1 DEF SignOut, Quiet, Without
    <3> QED
      BY <3>1, NoCallType DEF NoCalls, Idle
  <2>2. CASE Revoke(b) \/ SignedOut(b) \/ Lost(b, "exit")
    <3>1. ~Idle(b, "exit")
      BY <2>2 DEF Revoke, SignedOut, Lost, Idle
    <3> QED
      BY <1>0, <3>1, SlotNames DEF Requests, Holds, Tab
  <2> QED
    BY <2>1, <2>2
<1>2. ASSUME NEW r \in Call, Sends(b, "exit", r), r.pc # "idle", tab' = tab
      PROVE  HoldInv'
  <2>1. /\ call'[b]["exit"] = r
        /\ \A y \in Slots \ {"exit"} : call'[b][y] = call[b][y]
        /\ \A d \in Tabs \ {b} : call'[d] = call[d]
    BY <1>2, SendsEffect, SlotNames
  <2>2. Holds(b)'
    BY <1>1, <1>2, <2>1, SlotNames DEF Holds, Idle
  <2> QED
    BY <1>0, <1>1, <1>2, <2>1, <2>2, HoldLocal DEF OnlyTab
<1>3. CASE SignOut(b)
  <2>1. PICK l \in {"sent", "granted"} :
          Sends(b, "exit", [NoCall EXCEPT !.pc = l, !.tok = stored])
    BY <1>3 DEF SignOut
  <2> DEFINE r == [NoCall EXCEPT !.pc = l, !.tok = stored]
  <2>2. r \in Call /\ r.pc # "idle" /\ Sends(b, "exit", r)
    <3>1. stored \in Nat
      BY DEF TypeOK
    <3> QED
      BY <2>1, <3>1 DEF NoCall, Call
  <2> HIDE DEF r
  <2> QED
    BY <1>2, <1>3, <2>2 DEF SignOut
<1>4. CASE Revoke(b) \/ Lost(b, "exit")
  <2>1. PICK l \in {"granted", "failed"} : Steps(b, "exit", l) /\ tab' = tab
    BY <1>4 DEF Revoke, Lost
  <2> DEFINE r == [call[b]["exit"] EXCEPT !.pc = l]
  <2>2. r \in Call /\ r.pc # "idle" /\ Sends(b, "exit", r)
    BY <1>0, <2>1 DEF Call, Steps
  <2> HIDE DEF r
  <2> QED
    BY <1>2, <2>1, <2>2
<1>5. CASE SignedOut(b)
  <2>1. /\ call'[b]["exit"] = NoCall
        /\ \A y \in Slots \ {"exit"} : call'[b][y] = call[b][y]
        /\ \A d \in Tabs \ {b} : call'[d] = call[d]
    BY <1>5, SendsEffect, SlotNames, NoCallType DEF SignedOut
  <2>2. /\ tab'[b].page = "login" /\ tab'[b].access = "none" /\ stored' = 0
        /\ \A d \in Tabs \ {b} : tab'[d] = tab[d]
    <3>1. tab' = [tab EXCEPT ![b].access = "none", ![b].page = "login"] /\ stored' = 0
      BY <1>5 DEF SignedOut
    <3> QED
      BY <1>0, <3>1 DEF TypeOK, Tab
  <2>3. Holds(b)'
    BY <1>1, <2>1, <2>2, SlotNames, NoCallType DEF Holds, Idle
  <2> QED
    BY <1>0, <1>1, <2>1, <2>2, <2>3, HoldLocal DEF OnlyTab
<1> QED
  BY <1>3, <1>4, <1>5

\* What the user does, and the load of the page.
LEMMA PageHolds ==
  ASSUME TypeOK, TabInv, HoldInv, Quiet, NEW b \in Tabs,
         \/ Open(b) \/ SignIn(b) \/ AccessExpires(b) \/ Reload(b)
         \/ Load(b) \/ Booted(b) \/ BootFailed(b)
  PROVE  HoldInv'
<1>0. /\ tab[b] \in Tab /\ issued \in Nat /\ Requests(b) /\ Holds(b)
      /\ (\A c \in Tabs : tab[c].page = "closed") => stored = 0 \/ Good(stored)
  BY DEF TypeOK, TabInv, HoldInv
<1>d. UNCHANGED adrift
  BY DEF Open, SignIn, AccessExpires, Reload, Load, Booted, BootFailed, Quiet, Without
<1>1. CASE Open(b)
  <2>1. /\ UNCHANGED <<token, stored, call, faults>>
        /\ tab' = [tab EXCEPT ![b].page = "reloading"]
        /\ tab[b].page = "closed" /\ \A c \in Tabs : tab[c].page = "closed"
    BY <1>1 DEF Open, Quiet, Without
  <2>2. /\ tab'[b].page = "reloading" /\ tab'[b].access = tab[b].access
        /\ \A d \in Tabs \ {b} : tab'[d] = tab[d]
    BY <1>0, <2>1 DEF TypeOK, Tab
  <2>3. Holds(b)'
    BY <1>0, <2>1, <2>2, SlotNames DEF Holds, Requests, Idle, Good
  <2> QED
    BY <2>1, <2>2, <2>3, <1>d, HoldLocal DEF OnlyTab
<1>2. CASE SignIn(b)
  <2>1. /\ Issue({}) /\ stored' = issued + 1 /\ UNCHANGED <<call, faults>>
        /\ tab' = [tab EXCEPT ![b].page = "app", ![b].access = "good"]
        /\ tab[b].page = "login" /\ call[b] = NoCalls
    BY <1>2 DEF SignIn
  <2>2. /\ tab'[b].page = "app" /\ \A d \in Tabs \ {b} : tab'[d] = tab[d]
    BY <1>0, <2>1 DEF TypeOK, Tab
  <2>3. \A x \in Slots : call'[b][x].pc = "idle"
    BY <2>1, NoCallType DEF NoCalls
  <2>4. token'[issued + 1] = "live" /\ issued + 1 # 0
    BY <1>0, <2>1, IssueType
  <2>5. Good(stored)'
    BY <2>1, <2>4 DEF Good
  <2>6. Holds(b)'
    BY <2>2, <2>3, <2>5, SlotNames DEF Holds, Idle, Good
  <2> QED
    BY <2>1, <2>2, <2>6, <1>d, HoldLocal DEF OnlyTab
<1>3. CASE AccessExpires(b)
  <2>1. /\ UNCHANGED <<token, stored, call, faults>> /\ tab[b].access = "good"
        /\ tab' = [tab EXCEPT ![b].access = "stale"]
    BY <1>3 DEF AccessExpires
  <2>2. /\ tab'[b].page = "app" /\ tab[b].page = "app"
        /\ \A d \in Tabs \ {b} : tab'[d] = tab[d]
    BY <1>0, <2>1 DEF TypeOK, Tab, Holds
  <2>3. Holds(b)'
    BY <1>0, <2>1, <2>2 DEF Holds, Idle, Good
  <2> QED
    BY <2>1, <2>2, <2>3, <1>d, HoldLocal DEF OnlyTab
<1>4. CASE Load(b)
  <2>0. /\ UNCHANGED <<token, stored, faults>> /\ tab[b].page = "reloading"
        /\ \A x \in Slots : Idle(b, x)
        /\ stored = 0 \/ Good(stored)
        /\ tab[b].access = "none"
    BY <1>0, <1>4 DEF Load, Requests, Holds
  <2>1. CASE stored = 0
    <3>1. tab' = [tab EXCEPT ![b].page = "login"] /\ UNCHANGED call
      BY <1>4, <2>1 DEF Load
    <3>2. /\ tab'[b].page = "login" /\ tab'[b].access = "none"
          /\ \A d \in Tabs \ {b} : tab'[d] = tab[d]
      BY <1>0, <2>0, <3>1 DEF TypeOK, Tab
    <3>3. Holds(b)'
      BY <2>0, <2>1, <3>1, <3>2 DEF Holds, Idle
    <3> QED
      BY <2>0, <3>1, <3>2, <3>3, <1>d, HoldLocal DEF OnlyTab
  <2>2. CASE stored # 0
    <3> DEFINE r == [NoCall EXCEPT !.pc = "sent", !.tok = stored]
    <3>1. r \in Call /\ r.pc = "sent" /\ r.tok = stored
      <4>1. stored \in Nat
        BY DEF TypeOK
      <4> QED
        BY <4>1 DEF NoCall, Call
    <3>2. Sends(b, "boot", r) /\ tab' = [tab EXCEPT ![b].page = "loading"]
      BY <1>4, <2>2 DEF Load, Sends
    <3> HIDE DEF r
    <3>3. /\ call'[b]["boot"] = r
          /\ \A y \in Slots \ {"boot"} : call'[b][y] = call[b][y]
          /\ \A d \in Tabs \ {b} : call'[d] = call[d]
      BY <3>1, <3>2, SendsEffect, SlotNames
    <3>4. /\ tab'[b].page = "loading" /\ tab'[b].access = "none"
          /\ \A d \in Tabs \ {b} : tab'[d] = tab[d]
      BY <1>0, <2>0, <3>2 DEF TypeOK, Tab
    <3>5. Holds(b)'
      BY <2>0, <2>2, <3>1, <3>3, <3>4, SlotNames DEF Holds, Idle, Good
    <3> QED
      BY <2>0, <3>3, <3>4, <3>5, <1>d, HoldLocal DEF OnlyTab
  <2> QED
    BY <2>1, <2>2
<1>5. CASE Booted(b) \/ BootFailed(b)
  <2>0. /\ UNCHANGED <<token, faults>> /\ Sends(b, "boot", NoCall)
        /\ ~Idle(b, "boot")
    BY <1>5 DEF Booted, BootFailed, Idle
  <2>1. /\ tab[b].page = "loading" /\ tab[b].access = "none"
        /\ \A x \in Slots \ {"boot"} : Idle(b, x)
    BY <1>0, <2>0 DEF Requests, Holds, Refreshes
  <2>2. /\ call'[b]["boot"] = NoCall
        /\ \A y \in Slots \ {"boot"} : call'[b][y] = call[b][y]
        /\ \A d \in Tabs \ {b} : call'[d] = call[d]
    BY <2>0, SendsEffect, SlotNames, NoCallType
  <2>3. \A x \in Slots : Idle(b, x)'
    BY <2>1, <2>2, NoCallType DEF Idle
  <2>4. CASE Booted(b)
    <3>1. /\ tab' = [tab EXCEPT ![b].access = "good", ![b].page = "app"]
          /\ stored' = call[b]["boot"].new /\ call[b]["boot"].pc = "granted"
      BY <2>4 DEF Booted
    <3>2. tab'[b].page = "app" /\ \A d \in Tabs \ {b} : tab'[d] = tab[d]
      BY <1>0, <3>1 DEF TypeOK, Tab
    <3>3. Good(stored)'
      BY <1>0, <2>0, <2>1, <3>1 DEF Holds, Good
    <3>4. Holds(b)'
      BY <2>3, <3>2, <3>3, SlotNames DEF Holds, Idle, Good
    <3> QED
      BY <2>0, <2>1, <2>2, <3>2, <3>4, <1>d, HoldLocal DEF OnlyTab
  <2>5. CASE BootFailed(b)
    <3>1. tab' = [tab EXCEPT ![b].page = "login"] /\ stored' = 0
      BY <2>1, <2>5 DEF BootFailed
    <3>2. /\ tab'[b].page = "login" /\ tab'[b].access = "none"
          /\ \A d \in Tabs \ {b} : tab'[d] = tab[d]
      BY <1>0, <2>1, <3>1 DEF TypeOK, Tab
    <3>3. Holds(b)'
      BY <2>3, <3>1, <3>2 DEF Holds, Idle
    <3> QED
      BY <2>0, <2>1, <2>2, <3>2, <3>3, <1>d, HoldLocal DEF OnlyTab
  <2> QED
    BY <1>5, <2>4, <2>5
<1>6. CASE Reload(b)
  BY <1>6 DEF Reload, Quiet, Without
<1> QED
  BY <1>1, <1>2, <1>3, <1>4, <1>5, <1>6

\* The interceptor never finds localStorage empty under a call of the application.
LEMMA DeniedCall ==
  ASSUME TypeOK, TabInv, HoldInv, Quiet, NEW b \in Tabs, NEW x \in Slots \ {"exit"}, Denied(b, x)
  PROVE  x \in Calls /\ tab[b].page = "app" /\ Idle(b, "exit") /\ stored # 0
<1>1. call[b][x].pc = "denied" /\ tab[b] \in Tab /\ Requests(b) /\ Holds(b) /\ ~Idle(b, x)
  BY DEF Denied, TypeOK, TabInv, HoldInv, Idle
<1>2. tab[b].page \in {"loading", "app"} /\ Idle(b, "exit")
  BY <1>1, SlotNames DEF Requests, Holds, Tab
<1>3. CASE tab[b].page = "loading"
  <2>1. x = "boot"
    BY <1>1, <1>3, SlotNames DEF Requests, Holds, Refreshes
  <2> QED
    BY <1>1, <1>3, <2>1 DEF Holds
<1>4. CASE tab[b].page = "app"
  <2>1. x # "boot" /\ x # "inner"
    BY <1>1, <1>2, <1>4 DEF Requests, Holds, Idle
  <2> QED
    BY <1>1, <1>2, <1>4, <2>1 DEF Holds, Slots
<1> QED
  BY <1>2, <1>3, <1>4

LEMMA InterceptorHolds ==
  ASSUME TypeOK, TabInv, HoldInv, Quiet, NEW b \in Tabs,
         \/ \E x \in Slots \ {"exit"} : Denied(b, x)
         \/ Refreshed(b) \/ RefreshFailed(b) \/ SignInRefused(b)
  PROVE  HoldInv'
<1>0. tab[b] \in Tab /\ Requests(b) /\ Holds(b)
  BY DEF TypeOK, TabInv, HoldInv
<1>1. ASSUME NEW x \in Slots \ {"exit"}, Denied(b, x)
      PROVE  HoldInv'
  <2>1. x \in Calls /\ tab[b].page = "app" /\ Idle(b, "exit") /\ stored # 0
    BY <1>1, DeniedCall
  <2>2. /\ UNCHANGED <<token, issued, exchanged, stored, left, adrift, faults>>
        /\ tab'[b].page = tab[b].page /\ tab'[b].access = tab[b].access
        /\ \A c \in Tabs \ {b} : tab'[c] = tab[c] /\ call'[c] = call[c]
        /\ \A y \in Slots \ {x, "inner"} : call'[b][y] = call[b][y]
        /\ x # "inner" /\ tab[b].refreshing => call'[b]["inner"] = call[b]["inner"]
        /\ x # "inner" /\ ~tab[b].refreshing =>
             /\ call'[b]["inner"].pc = "sent" /\ call'[b]["inner"].tok = stored
    BY <1>1, <2>1, DeniedEffect
  <2>3. x # "inner" /\ x # "exit" /\ "exit" # "inner"
    BY <2>1, SlotNames
  <2>4. ~tab[b].refreshing => Good(stored)
    BY <1>0, <2>1 DEF Requests, Holds, Idle
  <2>5. Holds(b)'
    BY <1>0, <2>1, <2>2, <2>3, <2>4, SlotNames DEF Holds, Idle, Good
  <2> QED
    BY <2>1, <2>2, <2>5, HoldLocal DEF OnlyTab
<1>2. ASSUME ~Idle(b, "inner")
      PROVE  tab[b].page = "app" /\ Idle(b, "exit") /\ stored # 0
  BY <1>0, <1>2, SlotNames DEF Requests, Holds, Tab
<1>l. ASSUME Gone(b),
             \A x \in {"boot", "inner", "exit"} : call[b][x].pc \notin {"sent", "checked"}
      PROVE  UNCHANGED adrift
  BY <1>l DEF Gone, Asked
<1>3. CASE Refreshed(b)
  <2>1. /\ call[b]["inner"].pc = "granted" /\ stored' = call[b]["inner"].new
        /\ UNCHANGED <<token, issued, exchanged, left, adrift, faults>>
        /\ tab'[b].page = tab[b].page
        /\ \A c \in Tabs \ {b} : tab'[c] = tab[c] /\ call'[c] = call[c]
        /\ call'[b]["inner"] = NoCall
        /\ \A y \in Slots \ {"inner"} :
              call[b][y].pc # "waiting" => call'[b][y].pc = call[b][y].pc
    BY <1>3, RefreshedEffect
  <2>2. tab[b].page = "app" /\ Idle(b, "exit")
    BY <1>2, <2>1 DEF Idle
  <2>3. Good(stored)'
    BY <1>0, <2>1, <2>2 DEF Holds, Good
  <2>4. Holds(b)'
    BY <2>1, <2>2, <2>3, SlotNames, NoCallType DEF Holds, Idle, Good
  <2> QED
    BY <2>1, <2>2, <2>4, HoldLocal DEF OnlyTab
<1>4. CASE RefreshFailed(b)
  <2>1. /\ Gone(b) /\ stored' = 0 /\ faults' = faults
        /\ call[b]["inner"].pc = "failed" /\ tab[b].page = "app" /\ Idle(b, "exit")
    BY <1>2, <1>4 DEF RefreshFailed, Leave, Idle
  <2>a. Idle(b, "boot")
    BY <1>0, <2>1 DEF Requests
  <2>b. UNCHANGED adrift
    BY <1>l, <2>1, <2>a DEF Idle
  <2>2. /\ tab'[b].page = "reloading" /\ tab'[b].access = "none"
        /\ \A x \in Slots : call'[b][x] = NoCall
        /\ \A c \in Tabs \ {b} : tab'[c] = tab[c] /\ call'[c] = call[c]
    BY <2>1, GoneEffect
  <2>3. Holds(b)'
    BY <2>1, <2>2, SlotNames, NoCallType DEF Holds, Idle
  <2> QED
    BY <2>1, <2>2, <2>3, <2>b, HoldLocal DEF OnlyTab
<1>5. CASE SignInRefused(b)
  <2>1. /\ Gone(b) /\ stored' = 0 /\ faults' = faults
        /\ tab[b].page = "login" /\ \A x \in Slots : call[b][x].pc = "idle"
    BY <1>0, <1>5, NoCallType DEF SignInRefused, Leave, Holds, NoCalls
  <2>2. /\ tab'[b].page = "reloading" /\ tab'[b].access = "none"
        /\ \A x \in Slots : call'[b][x] = NoCall
        /\ \A c \in Tabs \ {b} : tab'[c] = tab[c] /\ call'[c] = call[c]
    BY <2>1, GoneEffect
  <2>3. UNCHANGED adrift
    BY <1>l, <2>1, SlotNames
  <2>4. Holds(b)'
    BY <2>1, <2>2, SlotNames, NoCallType DEF Holds, Idle
  <2> QED
    BY <2>1, <2>2, <2>3, <2>4, HoldLocal DEF OnlyTab
<1> QED
  BY <1>1, <1>3, <1>4, <1>5

LEMMA FaultsStay == [Next]_vars => UNCHANGED faults
<1> SUFFICES ASSUME [Next]_vars PROVE UNCHANGED faults
  OBVIOUS
<1>1. CASE UNCHANGED vars
  BY <1>1 DEF vars
<1>2. ASSUME NEW b \in Tabs,
             \/ \E c \in Calls : Send(b, c) \/ Serve(b, c) \/ Settled(b, c)
             \/ \E x \in Refreshes : Check(b, x) \/ Exchange(b, x) \/ ExchangeHalf(b, x)
             \/ \E x \in Slots : Lost(b, x)
             \/ SignOut(b) \/ Revoke(b)
      PROVE  UNCHANGED faults
  BY <1>2 DEF Send, Serve, Settled, Check, Exchange, ExchangeHalf, Lost, SignOut, Revoke
<1>3. ASSUME NEW b \in Tabs,
             \/ Open(b) \/ SignIn(b) \/ AccessExpires(b) \/ Reload(b)
             \/ Load(b) \/ Booted(b) \/ BootFailed(b) \/ SignedOut(b)
      PROVE  UNCHANGED faults
  BY <1>3 DEF Open, SignIn, AccessExpires, Reload, Load, Booted, BootFailed, SignedOut
<1>4. ASSUME NEW b \in Tabs,
             \/ \E x \in Slots \ {"exit"} : Denied(b, x)
             \/ Refreshed(b) \/ RefreshFailed(b) \/ SignInRefused(b)
      PROVE  UNCHANGED faults
  BY <1>4 DEF Denied, Refreshed, RefreshFailed, SignInRefused
<1>5. ASSUME NEW t \in 1..issued, TokenExpires(t) \/ Stray(t)
      PROVE  UNCHANGED faults
  BY <1>5 DEF TokenExpires, Stray
<1> QED
  BY <1>1, <1>2, <1>3, <1>4, <1>5, Steps1

LEMMA NextHold == TypeOK /\ TabInv /\ HoldInv /\ [Next]_vars => HoldInv'
<1> SUFFICES ASSUME TypeOK, TabInv, HoldInv, [Next]_vars, Quiet' PROVE HoldInv'
  BY DEF HoldInv
<1>1. Quiet
  BY FaultsStay DEF Quiet, Without
<1>2. CASE UNCHANGED vars
  BY <1>2 DEF vars, HoldInv, Quiet, Without, Holds, Good, Idle
<1>3. ASSUME NEW b \in Tabs,
             \/ \E c \in Calls : Send(b, c) \/ Serve(b, c) \/ Settled(b, c)
             \/ \E x \in Refreshes : Check(b, x) \/ Exchange(b, x) \/ ExchangeHalf(b, x)
             \/ \E x \in Slots : Lost(b, x)
             \/ SignOut(b) \/ Revoke(b)
      PROVE  HoldInv'
  <2>1. ASSUME NEW x \in Slots, Lost(b, x)
        PROVE  HoldInv'
    BY <1>1, <2>1, CallsHold, BootHolds, InnerHolds, ExitHolds, SlotNames DEF Refreshes
  <2>2. ASSUME NEW x \in Refreshes, Check(b, x) \/ Exchange(b, x) \/ ExchangeHalf(b, x)
        PROVE  HoldInv'
    BY <1>1, <2>2, BootHolds, InnerHolds DEF Refreshes
  <2> QED
    BY <1>1, <1>3, <2>1, <2>2, CallsHold, ExitHolds
<1>4. ASSUME NEW t \in 1..issued, TokenExpires(t) \/ Stray(t)
      PROVE  FALSE
  BY <1>1, <1>4 DEF TokenExpires, Stray, HoldInv, Quiet, Without
<1> QED
  BY <1>1, <1>2, <1>3, <1>4, Steps1, PageHolds, ExitHolds, InterceptorHolds

LEMMA InitHold == Init => HoldInv
<1> SUFFICES ASSUME Init PROVE HoldInv
  OBVIOUS
<1>1. stored = 1 /\ token[1] = "live" /\ adrift = {}
  BY DEF Init
<1>2. \A b \in Tabs : \A x \in Slots : call[b][x].pc = "idle"
  BY NoCallType DEF Init, NoCalls
<1>3. \A b \in Tabs : tab[b].page = "closed" /\ tab[b].access = "none"
  BY DEF Init
<1> QED
  BY <1>1, <1>2, <1>3, SlotNames DEF HoldInv, Holds, Good, Idle

\* Whoever is signed in holds a refresh token that the API takes, or the answer with the
\* next one is on its way: in one tab, whatever requests and answers are lost, what the
\* browser keeps (axios.client.ts) and what Postgres keeps (AuthService.refresh) agree.
THEOREM HeldIsLive == Spec => []StoredIsLive
<1>1. TypeOK /\ HoldInv => StoredIsLive
  <2> SUFFICES ASSUME HoldInv, Quiet, NEW b \in Tabs,
                      tab[b].page = "app", Idle(b, "exit")
               PROVE  \/ stored # 0 /\ token[stored] = "live"
                      \/ call[b]["inner"].pc \in {"granted", "failed"}
    BY DEF StoredIsLive, Quiet, Idle
  <2> QED
    BY DEF HoldInv, Holds, Good
<1> QED
  BY <1>1, InitTab, NextTab, InitHold, NextHold, PTL DEF Spec

\* A step that takes the user out of the application is one of the sign-out.
LEMMA KeptByNext ==
  TypeOK /\ TabInv /\ HoldInv /\ [Next]_vars =>
    [Without({"tabs", "expire", "lost", "reload", "overlap"}) =>
       \A b \in Tabs :
         tab[b].page = "app" /\ tab'[b].page # "app" => call[b]["exit"].pc # "idle"]_vars
<1> SUFFICES ASSUME TypeOK, TabInv, HoldInv, [Next]_vars,
                    Without({"tabs", "expire", "lost", "reload", "overlap"}),
                    NEW a \in Tabs, tab[a].page = "app", tab'[a].page # "app",
                    Idle(a, "exit")
             PROVE  FALSE
  BY DEF Idle
<1>0. Quiet /\ "lost" \notin faults
  BY DEF Quiet, Without
<1>1. CASE UNCHANGED vars
  BY <1>1 DEF vars
<1>2. ASSUME NEW b \in Tabs,
             \/ \E c \in Calls : Send(b, c) \/ Serve(b, c) \/ Settled(b, c)
             \/ \E x \in Refreshes : Check(b, x) \/ Exchange(b, x) \/ ExchangeHalf(b, x)
             \/ \E x \in Slots : Lost(b, x)
             \/ SignOut(b) \/ Revoke(b)
      PROVE  FALSE
  BY <1>2 DEF Send, Serve, Settled, Check, Exchange, ExchangeHalf, Lost, SignOut, Revoke
<1>3. ASSUME NEW b \in Tabs,
             \/ Open(b) \/ SignIn(b) \/ AccessExpires(b) \/ Reload(b)
             \/ Load(b) \/ Booted(b) \/ BootFailed(b) \/ SignedOut(b)
      PROVE  FALSE
  <2>1. tab \in [Tabs -> Tab] /\ Requests(a)
    BY DEF TypeOK, TabInv
  <2>2. CASE SignedOut(b)
    <3>1. b # a /\ tab' = [tab EXCEPT ![b].access = "none", ![b].page = "login"]
      BY <2>2 DEF SignedOut, Idle
    <3> QED
      BY <2>1, <3>1
  <2>3. CASE AccessExpires(b)
    <3>1. tab' = [tab EXCEPT ![b].access = "stale"]
      BY <2>3 DEF AccessExpires
    <3> QED
      BY <2>1, <3>1 DEF Tab
  <2>4. CASE SignIn(b)
    <3>1. b # a /\ tab' = [tab EXCEPT ![b].page = "app", ![b].access = "good"]
      BY <2>4 DEF SignIn
    <3> QED
      BY <2>1, <3>1
  <2>5. CASE Booted(b) \/ BootFailed(b)
    <3>1. b # a
      BY <2>1, <2>5 DEF Booted, BootFailed, Requests, Idle
    <3>2. tab'[a] = tab[a]
      BY <2>1, <2>5, <3>1 DEF Booted, BootFailed
    <3> QED
      BY <3>2
  <2>6. CASE Open(b) \/ Load(b)
    <3>1. b # a
      BY <2>6 DEF Open, Load
    <3>2. tab'[a] = tab[a]
      BY <2>1, <2>6, <3>1 DEF Open, Load
    <3> QED
      BY <3>2
  <2>7. CASE Reload(b)
    BY <2>7 DEF Reload, Without
  <2> QED
    BY <1>3, <2>2, <2>3, <2>4, <2>5, <2>6, <2>7
<1>4. ASSUME NEW b \in Tabs,
             \/ \E x \in Slots \ {"exit"} : Denied(b, x)
             \/ Refreshed(b) \/ RefreshFailed(b) \/ SignInRefused(b)
      PROVE  FALSE
  <2>1. ASSUME NEW x \in Slots \ {"exit"}, Denied(b, x)
        PROVE  FALSE
    <3>1. stored # 0
      BY <1>0, <2>1, DeniedCall
    <3>2. tab'[b].page = tab[b].page /\ \A c \in Tabs \ {b} : tab'[c] = tab[c]
      BY <2>1, <3>1, DeniedEffect
    <3> QED
      BY <3>2
  <2>2. CASE Refreshed(b)
    <3>1. tab'[b].page = tab[b].page /\ \A c \in Tabs \ {b} : tab'[c] = tab[c]
      BY <2>2, RefreshedEffect
    <3> QED
      BY <3>1
  <2>3. CASE RefreshFailed(b)
    BY <1>0, <2>3, SlotNames DEF RefreshFailed, TabInv, Bodies
  <2>4. CASE SignInRefused(b)
    <3>1. b # a /\ stored = 0
      BY <1>0, <2>4 DEF SignInRefused, HoldInv, Holds
    <3>2. tab'[a] = tab[a]
      BY <2>4, <3>1, GoneEffect DEF SignInRefused, Leave
    <3> QED
      BY <3>2
  <2> QED
    BY <1>4, <2>1, <2>2, <2>3, <2>4
<1>5. ASSUME NEW t \in 1..issued, TokenExpires(t) \/ Stray(t)
      PROVE  FALSE
  BY <1>5 DEF TokenExpires, Stray
<1> QED
  BY <1>1, <1>2, <1>3, <1>4, <1>5, Steps1

\* A user is not thrown out of the application but by signing out: when nothing is lost, an
\* access token that expires is replaced without notice, under any number of calls that meet
\* the 401 at once and in whatever order they are answered (axios.client.ts).
THEOREM NotThrownOut == Spec => SessionKept
<1> QED
  BY InitTab, NextTab, InitHold, NextHold, KeptByNext, PTL DEF Spec, SessionKept

=============================================================================
