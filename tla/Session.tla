------------------------------- MODULE Session -------------------------------
(***************************************************************************)
(* A user's session: the refresh tokens that the API keeps                 *)
(* (auth.service.ts) and the browser tabs that exchange them: the axios    *)
(* interceptor (axios.client.ts), the load of the application (App.tsx)    *)
(* and the sign-out (Header.tsx).                                          *)
(*                                                                         *)
(* The tabs of a browser share localStorage and nothing else. A request is *)
(* sent, answered by the API and received by its tab in separate steps.    *)
(***************************************************************************)
EXTENDS Naturals, FiniteSets

CONSTANTS
  Tabs,          \* tabs of one browser
  Calls,         \* requests to the API that a tab may have under way
  MaxEvents,     \* bound: loads, sign-ins and expiries of access tokens
  Environments   \* the sets of faults to choose from, each a subset of FaultKinds

(***************************************************************************)
(* tabs     a second tab is open                                           *)
(* expire   a refresh token expires (REFRESH_TOKEN_EXPIRES_IN)             *)
(* lost     a request or its answer is lost, or the API answers with 500   *)
(* reload   the user loads the page again while requests are under way     *)
(* overlap  the user signs out while requests are under way                *)
(***************************************************************************)
FaultKinds == {"tabs", "expire", "lost", "reload", "overlap"}

ASSUME EnvironmentsAssumption == Environments \subseteq SUBSET FaultKinds
ASSUME CallsAssumption == Calls \cap {"boot", "inner", "exit"} = {}
ASSUME EventsAssumption == MaxEvents \in Nat
\* A browser has so many tabs.
ASSUME TabsAssumption == IsFiniteSet(Tabs)

\* Besides its calls, a tab makes the refresh of App.tsx when it is loaded, the one of the
\* interceptor (there is one at a time: the variable refreshing) and the one of the sign-out.
Slots == Calls \cup {"boot", "inner", "exit"}

VARIABLES
  token,      \* Postgres: refresh_tokens, by number; revokedAt and expiresAt as a state
  issued,     \* how many there are
  exchanged,  \* history: how often each was exchanged for another, by pages that are there
  stored,     \* localStorage: the refresh token, 0 for none
  tab,        \* the memory of each tab
  call,       \* the requests of each tab
  left,       \* what is left of MaxEvents
  adrift,     \* tokens that a request of a page that is gone may still revoke at the API
  faults      \* what may go wrong in this behaviour, any number of times

vars == <<token, issued, exchanged, stored, tab, call, left, adrift, faults>>

-----------------------------------------------------------------------------
\* page is what the user sees; refreshing says that the promise of that name is set.
Tab == [page : {"closed", "reloading", "loading", "app", "login"},
        access : {"none", "good", "stale"}, refreshing : BOOLEAN]

\* auth is the access token it was sent with, tok the refresh token in its body, new the one
\* in its answer, retried the flag _retry. A call that is "waiting" awaits refreshing.
Call == [pc : {"idle", "sent", "checked", "granted", "denied", "failed", "waiting"},
         auth : {"none", "good", "stale"}, tok : Nat, new : Nat, retried : BOOLEAN]
NoCall == [pc |-> "idle", auth |-> "none", tok |-> 0, new |-> 0, retried |-> FALSE]
NoCalls == [x \in Slots |-> NoCall]

TypeOK ==
  /\ issued \in Nat
  /\ token \in [1..issued -> {"live", "revoked", "expired"}]
  /\ exchanged \in [1..issued -> Nat]
  /\ stored \in 0..issued
  /\ tab \in [Tabs -> Tab]
  /\ call \in [Tabs -> [Slots -> Call]]
  /\ left \in 0..MaxEvents
  /\ adrift \subseteq 1..issued
  /\ faults \subseteq FaultKinds

\* A browser that was closed while its user was signed in.
Init ==
  /\ issued = 1 /\ token = <<"live">> /\ exchanged = <<0>>
  /\ stored = 1
  /\ tab = [b \in Tabs |-> [page |-> "closed", access |-> "none", refreshing |-> FALSE]]
  /\ call = [b \in Tabs |-> NoCalls]
  /\ left = MaxEvents
  /\ adrift = {}
  /\ faults \in Environments

Event == left > 0 /\ left' = left - 1

\* Mutant: the token that goes out is not written down.
IssueUnwritten(revoked) ==
  /\ issued' = issued
  /\ token' = [t \in 1..issued |-> IF t \in revoked THEN "revoked" ELSE token[t]]
  /\ exchanged' = [t \in 1..issued |-> exchanged[t] + IF t \in revoked THEN 1 ELSE 0]

\* issueTokens(): the new refresh token is number issued + 1.
Issue(revoked) ==
  /\ issued' = issued + 1
  /\ token' = [t \in 1..(issued + 1) |->
                 IF t = issued + 1 THEN "live" ELSE IF t \in revoked THEN "revoked" ELSE token[t]]
  /\ exchanged' = [t \in 1..(issued + 1) |->
                     IF t = issued + 1 THEN 0
                     ELSE IF t \in revoked THEN exchanged[t] + 1 ELSE exchanged[t]]

-----------------------------------------------------------------------------
(* Pages                                                                   *)

Open(b) ==
  /\ Event
  /\ tab[b].page = "closed"
  /\ "tabs" \in faults \/ \A c \in Tabs : tab[c].page = "closed"
  /\ tab' = [tab EXCEPT ![b].page = "reloading"]
  /\ UNCHANGED <<token, issued, exchanged, stored, call, adrift, faults>>

\* App.tsx: a tab that finds a refresh token exchanges it before it shows anything.
Load(b) ==
  /\ tab[b].page = "reloading"
  /\ IF stored = 0
     THEN tab' = [tab EXCEPT ![b].page = "login"] /\ UNCHANGED call
     ELSE /\ tab' = [tab EXCEPT ![b].page = "loading"]
          /\ call' = [call EXCEPT ![b]["boot"] = [NoCall EXCEPT !.pc = "sent", !.tok = stored]]
  /\ UNCHANGED <<token, issued, exchanged, stored, left, adrift, faults>>

\* login() or register(), when they let the user in.
SignIn(b) ==
  /\ Event
  /\ tab[b].page = "login" /\ call[b] = NoCalls
  /\ Issue({})
  /\ stored' = issued + 1
  /\ tab' = [tab EXCEPT ![b].page = "app", ![b].access = "good"]
  /\ UNCHANGED <<call, adrift, faults>>

AccessExpires(b) ==
  /\ Event
  /\ tab[b].access = "good"
  /\ tab' = [tab EXCEPT ![b].access = "stale"]
  /\ UNCHANGED <<token, issued, exchanged, stored, call, adrift, faults>>

TokenExpires(t) ==
  /\ "expire" \in faults
  /\ token[t] = "live"
  /\ token' = [token EXCEPT ![t] = "expired"]
  /\ UNCHANGED <<issued, exchanged, stored, tab, call, left, adrift, faults>>

\* What the page of tab b has asked the API to exchange or to revoke.
Asked(b) ==
  {t \in 1..issued : \E x \in {"boot", "inner", "exit"} :
                      call[b][x].tok = t /\ call[b][x].pc \in {"sent", "checked"}}

\* A page that goes takes its memory and the answers to its requests with it. The requests
\* themselves may be at the API, or get there yet.
Gone(b) ==
  /\ adrift' = adrift \cup {t \in Asked(b) : token[t] = "live"}
  /\ tab' = [tab EXCEPT ![b] = [page |-> "reloading", access |-> "none", refreshing |-> FALSE]]
  /\ call' = [call EXCEPT ![b] = NoCalls]

\* The page comes back with what is stored, while the API goes on with what it was asked.
Reload(b) ==
  /\ Event
  /\ "reload" \in faults
  /\ tab[b].page \in {"loading", "app"}
  /\ Gone(b)
  /\ UNCHANGED <<token, issued, exchanged, stored, faults>>

\* refresh() or logout() for a page that is gone. The token that refresh() then creates goes
\* to nobody, and is not numbered.
Stray(t) ==
  /\ t \in adrift
  /\ token' = [token EXCEPT ![t] = "revoked"]
  /\ adrift' = adrift \ {t}
  /\ UNCHANGED <<issued, exchanged, stored, tab, call, left, faults>>

-----------------------------------------------------------------------------
(* Requests, and what the API does with them                               *)

Sends(b, x, r) == call' = [call EXCEPT ![b][x] = r]
Steps(b, x, l) == Sends(b, x, [call[b][x] EXCEPT !.pc = l])

Send(b, c) ==
  /\ tab[b].page = "app"
  /\ call[b][c].pc = "idle" /\ call[b]["exit"].pc = "idle"
  /\ Sends(b, c, [NoCall EXCEPT !.pc = "sent", !.auth = tab[b].access])
  /\ UNCHANGED <<token, issued, exchanged, stored, tab, left, adrift, faults>>

\* The JWT guard.
Serve(b, c) ==
  /\ call[b][c].pc = "sent"
  /\ Steps(b, c, IF call[b][c].auth = "good" THEN "granted" ELSE "denied")
  /\ UNCHANGED <<token, issued, exchanged, stored, tab, left, adrift, faults>>

\* Mutant: the query does not look at revokedAt.
CheckAny(b, x) ==
  /\ call[b][x].pc = "sent"
  /\ Steps(b, x, IF token[call[b][x].tok] # "expired" THEN "checked" ELSE "denied")
  /\ UNCHANGED <<token, issued, exchanged, stored, tab, left, adrift, faults>>

\* refresh(), its first query: neither revoked nor expired.
Check(b, x) ==
  /\ call[b][x].pc = "sent"
  /\ Steps(b, x, IF token[call[b][x].tok] = "live" THEN "checked" ELSE "denied")
  /\ UNCHANGED <<token, issued, exchanged, stored, tab, left, adrift, faults>>

\* refresh(), the rest: the token is revoked by its id, whatever happened to it since the
\* query, and the new one is created.
Exchange(b, x) ==
  /\ call[b][x].pc = "checked"
  /\ Issue({call[b][x].tok})
  /\ Sends(b, x, [call[b][x] EXCEPT !.pc = "granted", !.new = issued + 1])
  /\ UNCHANGED <<stored, tab, left, adrift, faults>>

\* The old token is revoked and the new one is not created: a query fails in between.
ExchangeHalf(b, x) ==
  /\ "lost" \in faults
  /\ call[b][x].pc = "checked"
  /\ token' = [token EXCEPT ![call[b][x].tok] = "revoked"]
  /\ Steps(b, x, "failed")
  /\ UNCHANGED <<issued, exchanged, stored, tab, left, adrift, faults>>

Lost(b, x) ==
  /\ "lost" \in faults
  /\ call[b][x].pc \in {"sent", "granted", "denied"}
  /\ Steps(b, x, "failed")
  /\ UNCHANGED <<token, issued, exchanged, stored, tab, left, adrift, faults>>

-----------------------------------------------------------------------------
(* What the tab does with the answers                                      *)

\* The interceptor gives up: no tokens, and the login page by a load of its own.
Leave(b) == Gone(b) /\ stored' = 0

\* login() that is refused: the interceptor takes its 401 for any other, and exchanges what is
\* stored, or gives up. Sent again it is refused for good, which changes nothing here.
SignInRefused(b) ==
  /\ Event
  /\ tab[b].page = "login" /\ call[b] = NoCalls
  /\ IF stored = 0
     THEN Leave(b)
     ELSE /\ Sends(b, "inner", [NoCall EXCEPT !.pc = "sent", !.tok = stored])
          /\ tab' = [tab EXCEPT ![b].refreshing = TRUE]
          /\ UNCHANGED <<stored, adrift>>
  /\ UNCHANGED <<token, issued, exchanged, faults>>

\* An answer to a call, or a refusal that the interceptor passes on.
Settled(b, c) ==
  /\ \/ call[b][c].pc \in {"granted", "failed"}
     \/ call[b][c].pc = "denied" /\ call[b][c].retried
  /\ Sends(b, c, NoCall)
  /\ UNCHANGED <<token, issued, exchanged, stored, tab, left, adrift, faults>>

\* App.tsx, then: the new tokens, and the application.
Booted(b) ==
  /\ call[b]["boot"].pc = "granted"
  /\ stored' = call[b]["boot"].new
  /\ tab' = [tab EXCEPT ![b].access = "good", ![b].page = "app"]
  /\ Sends(b, "boot", NoCall)
  /\ UNCHANGED <<token, issued, exchanged, left, adrift, faults>>

\* App.tsx, catch and finally: the refresh token in localStorage is dropped, whichever it is.
BootFailed(b) ==
  /\ \/ call[b]["boot"].pc = "failed"
     \/ call[b]["boot"].pc = "denied" /\ call[b]["boot"].retried
  /\ stored' = 0
  /\ tab' = [tab EXCEPT ![b].page = IF tab[b].access = "none" THEN "login" ELSE "app"]
  /\ Sends(b, "boot", NoCall)
  /\ UNCHANGED <<token, issued, exchanged, left, adrift, faults>>

\* Mutant: the interceptor signs the user out at the first 401.
DeniedForGood(b, x) ==
  /\ call[b][x].pc = "denied" /\ ~call[b][x].retried
  /\ Leave(b)
  /\ UNCHANGED <<token, issued, exchanged, left, faults>>

\* The interceptor, on a 401 that was not retried: of the calls, of the load's refresh, and
\* of its own refresh too, which finds refreshing set and awaits it: itself.
Denied(b, x) ==
  /\ call[b][x].pc = "denied" /\ ~call[b][x].retried
  /\ IF stored = 0
     THEN Leave(b)
     ELSE /\ call' = [call EXCEPT
               ![b][x].pc = "waiting", ![b][x].retried = TRUE,
               ![b]["inner"] = IF x = "inner" THEN [@ EXCEPT !.pc = "waiting", !.retried = TRUE]
                               ELSE IF tab[b].refreshing THEN @
                               ELSE [NoCall EXCEPT !.pc = "sent", !.tok = stored]]
          /\ tab' = [tab EXCEPT ![b].refreshing = TRUE]
          /\ UNCHANGED <<stored, adrift>>
  /\ UNCHANGED <<token, issued, exchanged, left, faults>>

\* Those that await refreshing are sent again, with the new access token and the same body.
Resent(b) ==
  [x \in Slots |->
     IF x = "inner" THEN NoCall
     ELSE IF call[b][x].pc = "waiting" THEN [call[b][x] EXCEPT !.pc = "sent", !.auth = "good"]
     ELSE call[b][x]]

\* Mutant: the new refresh token is not kept.
RefreshedUnsaved(b) ==
  /\ call[b]["inner"].pc = "granted"
  /\ tab' = [tab EXCEPT ![b].access = "good", ![b].refreshing = FALSE]
  /\ call' = [call EXCEPT ![b] = Resent(b)]
  /\ UNCHANGED <<token, issued, exchanged, stored, left, adrift, faults>>

\* The refresh of the interceptor: then and finally.
Refreshed(b) ==
  /\ call[b]["inner"].pc = "granted"
  /\ stored' = call[b]["inner"].new
  /\ tab' = [tab EXCEPT ![b].access = "good", ![b].refreshing = FALSE]
  /\ call' = [call EXCEPT ![b] = Resent(b)]
  /\ UNCHANGED <<token, issued, exchanged, left, adrift, faults>>

\* An error other than a 401 rejects refreshing: those that await it give up.
RefreshFailed(b) ==
  /\ call[b]["inner"].pc = "failed"
  /\ Leave(b)
  /\ UNCHANGED <<token, issued, exchanged, left, faults>>

\* Header.tsx: the token is revoked if it is not, and an error is dropped.
SignOut(b) ==
  /\ tab[b].page = "app" /\ call[b]["exit"].pc = "idle"
  /\ "overlap" \in faults \/ call[b] = NoCalls
  /\ Sends(b, "exit", [NoCall EXCEPT !.pc = IF stored = 0 THEN "granted" ELSE "sent",
                                     !.tok = stored])
  /\ UNCHANGED <<token, issued, exchanged, stored, tab, left, adrift, faults>>

Revoke(b) ==
  LET t == call[b]["exit"].tok IN
  /\ call[b]["exit"].pc = "sent"
  /\ token' = [token EXCEPT ![t] = "revoked"]
  /\ Steps(b, "exit", "granted")
  /\ UNCHANGED <<issued, exchanged, stored, tab, left, adrift, faults>>

SignedOut(b) ==
  /\ call[b]["exit"].pc \in {"granted", "failed"}
  /\ stored' = 0
  /\ tab' = [tab EXCEPT ![b].access = "none", ![b].page = "login"]
  /\ Sends(b, "exit", NoCall)
  /\ UNCHANGED <<token, issued, exchanged, left, adrift, faults>>

-----------------------------------------------------------------------------
\* What goes on by itself: the load of a page, and a request that was sent.
Progress(b, x) ==
  \/ x = "boot" /\ (Load(b) \/ Booted(b) \/ BootFailed(b))
  \/ x = "inner" /\ (Refreshed(b) \/ RefreshFailed(b))
  \/ x = "exit" /\ (Revoke(b) \/ SignedOut(b))
  \/ x \in Calls /\ (Serve(b, x) \/ Settled(b, x))
  \/ x \in {"boot", "inner"} /\ (Check(b, x) \/ Exchange(b, x))
  \/ x # "exit" /\ Denied(b, x)

User(b) ==
  \/ Open(b) \/ SignIn(b) \/ SignInRefused(b) \/ SignOut(b) \/ Reload(b) \/ AccessExpires(b)
  \/ \E c \in Calls : Send(b, c)

Next ==
  \/ \E b \in Tabs : User(b)
  \/ \E b \in Tabs, x \in Slots : Progress(b, x) \/ Lost(b, x)
  \/ \E b \in Tabs, x \in {"boot", "inner"} : ExchangeHalf(b, x)
  \/ \E t \in 1..issued : TokenExpires(t) \/ Stray(t)

Spec == Init /\ [][Next]_vars

-----------------------------------------------------------------------------
(* Properties. Each says the faults it does not survive; the rest it does. *)

Without(kinds) == faults \cap kinds = {}

\* A tab exchanges a refresh token once (rule of the model RefreshToken), however many calls
\* meet a 401 at a time, and the pages that are loaded one after the other in it share that
\* once; two tabs may both do it. What a page left at the API when it went is not counted: it
\* may exchange the token once more, for nobody.
ExchangedOnce ==
  \A t \in 1..issued : exchanged[t] <= IF "tabs" \in faults THEN Cardinality(Tabs) ELSE 1

\* A user is not thrown out of the application but by signing out: an access token that
\* expires, under any number of calls, is replaced without the user's notice.
SessionKept ==
  [][Without({"tabs", "expire", "lost", "reload", "overlap"}) =>
       \A b \in Tabs :
         tab[b].page = "app" /\ tab'[b].page # "app" => call[b]["exit"].pc # "idle"]_vars

\* Whoever is signed in has a refresh token that will be accepted, or is just getting one:
\* what localStorage holds and what the database holds do not drift apart.
StoredIsLive ==
  Without({"tabs", "expire", "reload", "overlap"}) =>
    \A b \in Tabs :
      tab[b].page = "app" /\ call[b]["exit"].pc = "idle" =>
        \/ stored # 0 /\ token[stored] = "live"
        \/ call[b]["inner"].pc \in {"granted", "failed"}

\* The refresh of the interceptor never awaits itself: a 401 to it ends the session (the
\* catch of the interceptor, which signs out and goes to the login page).
NoSelfWait == \A b \in Tabs : call[b]["inner"].pc # "waiting"

=============================================================================
