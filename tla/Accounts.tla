------------------------------ MODULE Accounts -------------------------------
(***************************************************************************)
(* Accounts, organizations and their members: register() of                *)
(* auth.service.ts, create() and update() of organizations.service.ts, and *)
(* invite(), updateRole() and remove() of memberships.service.ts, several  *)
(* requests at a time. A handler reads in one query and writes in another. *)
(***************************************************************************)
EXTENDS Naturals, FiniteSets

CONSTANTS
  Users,         \* people, each with an email
  Orgs,          \* organizations, the first and those that requests create
  Names,         \* names of organizations, as uniqueSlug() and freeSlug() reduce them
  Roles,         \* MemberRole
  Requests,      \* bound: the requests that are made
  MaxAttempts,   \* REGISTER_MAX_ATTEMPTS
  Environments,  \* the sets of kinds to choose from, each a subset of Kinds
  None           \* no user, no organization, no name

Operations == {"register", "create", "update", "invite", "updateRole", "remove"}

\* The operations that are requested, and race: two requests that may take the role ADMIN
\* from somebody in one organization are under way at a time.
\* The others are kinds of Seed.
Kinds == Operations \cup {"race", "seed", "crash", "overlap", "ai"}

ASSUME AttemptsAssumption == MaxAttempts \in Nat \ {0}
ASSUME UsersAssumption == IsFiniteSet(Users)
ASSUME RolesAssumption == "ADMIN" \in Roles /\ "none" \notin Roles
ASSUME NoneAssumption == None \notin Users \cup Orgs \cup Names
ASSUME EnvironmentsAssumption == Environments \subseteq SUBSET Kinds

VARIABLES
  registered,  \* Postgres: users
  slug,        \* Postgres: organizations, each with its slug
  role,        \* Postgres: memberships
  req,         \* the requests
  kinds        \* what happens in this behaviour

vars == <<registered, slug, role, req, kinds>>

-----------------------------------------------------------------------------
\* A slug is a name and a number: none for 0, "-1", "-2".
Slugs == Names \X Nat

PCs == {"new", "asked", "counting", "write", "probe", "insert",
        "ok", "missing", "conflict", "refused", "gaveUp", "error"}

\* tries is the variable attempt of register(); k the one of freeSlug() and uniqueSlug().
Request == [pc : PCs, op : Operations \cup {"none"}, by : Users \cup {None},
            org : Orgs \cup {None}, target : Users \cup {None}, to : Roles \cup {"none"},
            name : Names \cup {None}, k : Nat, tries : Nat]
NoRequest == [pc |-> "new", op |-> "none", by |-> None, org |-> None, target |-> None,
              to |-> "none", name |-> None, k |-> 0, tries |-> 0]

TypeOK ==
  /\ registered \subseteq Users
  /\ DOMAIN slug \subseteq Orgs
  /\ slug \in [DOMAIN slug -> Slugs]
  /\ role \in [Orgs -> [Users -> Roles \cup {"none"}]]
  /\ req \in [Requests -> Request]
  /\ kinds \subseteq Kinds

Admins(o) == {u \in Users : role[o][u] = "ADMIN"}

\* The row that a slug belongs to, if it is not the organization's own.
Taken(s, own) == \E o \in DOMAIN slug : slug[o] = s /\ o # own

\* An organization with its members, and people who registered and belong to none.
Init ==
  /\ registered \in SUBSET Users
  /\ \E o \in Orgs, n \in Names, m \in [Users -> Roles \cup {"none"}] :
       /\ \E u \in Users : m[u] = "ADMIN"
       /\ {u \in Users : m[u] # "none"} \subseteq registered
       /\ slug = [x \in {o} |-> <<n, 0>>]
       /\ role = [x \in Orgs |-> IF x = o THEN m ELSE [u \in Users |-> "none"]]
  /\ req = [r \in Requests |-> NoRequest]
  /\ kinds \in Environments

Goes(r, pc) == req' = [req EXCEPT ![r].pc = pc]

-----------------------------------------------------------------------------
(* Organizations and accounts                                              *)

Register(r, u, n) ==
  /\ "register" \in kinds
  /\ req[r].pc = "new"
  /\ req' = [req EXCEPT ![r] = [NoRequest EXCEPT
                !.op = "register", !.by = u, !.name = n,
                !.pc = IF u \in registered THEN "conflict" ELSE "probe"]]
  /\ UNCHANGED <<registered, slug, role, kinds>>

\* JwtStrategy.validate(): whoever is signed in belongs to some organization.
Create(r, u, n) ==
  /\ "create" \in kinds
  /\ req[r].pc = "new"
  /\ \E o \in DOMAIN slug : role[o][u] # "none"
  /\ req' = [req EXCEPT ![r] = [NoRequest EXCEPT
                !.op = "create", !.by = u, !.name = n, !.pc = "probe"]]
  /\ UNCHANGED <<registered, slug, role, kinds>>

Update(r, u, o, n) ==
  /\ "update" \in kinds
  /\ req[r].pc = "new"
  /\ o \in DOMAIN slug /\ role[o][u] = "ADMIN"
  /\ req' = [req EXCEPT ![r] = [NoRequest EXCEPT
                !.op = "update", !.by = u, !.org = o, !.name = n, !.pc = "asked"]]
  /\ UNCHANGED <<registered, slug, role, kinds>>

\* Two names may come down to one slug, so the slug says only that the name may be the same.
ReadOrg(r) ==
  /\ req[r].op = "update" /\ req[r].pc = "asked"
  /\ \/ slug[req[r].org][1] = req[r].name /\ Goes(r, "ok")
     \/ Goes(r, "probe")
  /\ UNCHANGED <<registered, slug, role, kinds>>

\* freeSlug() and uniqueSlug(): one query of their loop.
Probe(r) ==
  /\ req[r].pc = "probe"
  /\ \/ Taken(<<req[r].name, req[r].k>>, req[r].org) /\ req' = [req EXCEPT ![r].k = @ + 1]
     \/ ~Taken(<<req[r].name, req[r].k>>, req[r].org) /\ Goes(r, "insert")
  /\ UNCHANGED <<registered, slug, role, kinds>>

\* The transaction of register() and create(): the organization and its first administrator.
Founds(r, o) ==
  /\ o \in Orgs \ DOMAIN slug
  /\ slug' = [x \in DOMAIN slug \cup {o} |->
                IF x = o THEN <<req[r].name, req[r].k>> ELSE slug[x]]
  /\ role' = [role EXCEPT ![o][req[r].by] = "ADMIN"]
  /\ Goes(r, "ok")

\* Mutant: one attempt less.
TriesLess(r) ==
  \/ req[r].tries + 2 < MaxAttempts
     /\ req' = [req EXCEPT ![r].pc = "probe", ![r].k = 0, ![r].tries = @ + 1]
  \/ req[r].tries + 2 >= MaxAttempts /\ Goes(r, "gaveUp")

\* The slug was taken meanwhile: the next attempt, if there is one.
TriesAgain(r) ==
  \/ req[r].tries + 1 < MaxAttempts
     /\ req' = [req EXCEPT ![r].pc = "probe", ![r].k = 0, ![r].tries = @ + 1]
  \/ req[r].tries + 1 >= MaxAttempts /\ Goes(r, "gaveUp")

\* The transaction of register(): the unique indexes on the email and then on the slug.
Registers(r, o) ==
  /\ req[r].op = "register" /\ req[r].pc = "insert"
  /\ IF req[r].by \in registered
     THEN Goes(r, "conflict") /\ UNCHANGED <<registered, slug, role>>
     ELSE IF Taken(<<req[r].name, req[r].k>>, None)
     THEN TriesAgain(r) /\ UNCHANGED <<registered, slug, role>>
     ELSE Founds(r, o) /\ registered' = registered \cup {req[r].by}
  /\ UNCHANGED kinds

\* create() does not try again: a slug that was taken meanwhile is a 500.
Creates(r, o) ==
  /\ req[r].op = "create" /\ req[r].pc = "insert"
  /\ IF Taken(<<req[r].name, req[r].k>>, None)
     THEN Goes(r, "error") /\ UNCHANGED <<slug, role>>
     ELSE Founds(r, o)
  /\ UNCHANGED <<registered, kinds>>

\* Mutant: the name as it is.
UpdatesBare(r) ==
  /\ req[r].op = "update" /\ req[r].pc = "insert"
  /\ slug' = [slug EXCEPT ![req[r].org] = <<req[r].name>>] /\ Goes(r, "ok")
  /\ UNCHANGED <<registered, role, kinds>>

Updates(r) ==
  /\ req[r].op = "update" /\ req[r].pc = "insert"
  /\ IF Taken(<<req[r].name, req[r].k>>, req[r].org)
     THEN Goes(r, "error") /\ UNCHANGED slug
     ELSE slug' = [slug EXCEPT ![req[r].org] = <<req[r].name, req[r].k>>] /\ Goes(r, "ok")
  /\ UNCHANGED <<registered, role, kinds>>

-----------------------------------------------------------------------------
(* Members                                                                 *)

UnderWay(q) == req[q].pc \in {"asked", "counting", "write"}

\* A request that may take the role ADMIN from somebody.
Lowering(op, to) == op = "remove" \/ (op = "updateRole" /\ to # "ADMIN")
Lowers(q) == UnderWay(q) /\ Lowering(req[q].op, req[q].to)

\* What the guards let through: an administrator, or somebody who leaves.
Ask(r, op, u, o, t, to) ==
  /\ op \in kinds
  /\ req[r].pc = "new"
  /\ o \in DOMAIN slug
  /\ \/ role[o][u] = "ADMIN"
     \/ op = "remove" /\ u = t /\ role[o][u] # "none"
  /\ "race" \in kinds \/ ~Lowering(op, to) \/ \A q \in Requests : Lowers(q) => req[q].org # o
  /\ req' = [req EXCEPT ![r] = [NoRequest EXCEPT
                !.op = op, !.by = u, !.org = o, !.target = t, !.to = to, !.pc = "asked"]]
  /\ UNCHANGED <<registered, slug, role, kinds>>

RoleOfTarget(r) == role[req[r].org][req[r].target]

ReadForInvite(r) ==
  /\ req[r].op = "invite" /\ req[r].pc = "asked"
  /\ Goes(r, IF req[r].target \notin registered THEN "missing"
             ELSE IF RoleOfTarget(r) # "none" THEN "conflict" ELSE "write")
  /\ UNCHANGED <<registered, slug, role, kinds>>

\* Mutant: who leaves is not asked whether others stay.
ReadUnlessLeaving(r) ==
  /\ req[r].op \in {"updateRole", "remove"} /\ req[r].pc = "asked"
  /\ Goes(r, IF RoleOfTarget(r) = "none" THEN "missing"
             ELSE IF /\ RoleOfTarget(r) = "ADMIN" /\ Lowering(req[r].op, req[r].to)
                     /\ req[r].by # req[r].target
             THEN "counting" ELSE "write")
  /\ UNCHANGED <<registered, slug, role, kinds>>

\* findMembershipOrThrow(), and whether the administrators are to be counted.
ReadMembership(r) ==
  /\ req[r].op \in {"updateRole", "remove"} /\ req[r].pc = "asked"
  /\ Goes(r, IF RoleOfTarget(r) = "none" THEN "missing"
             ELSE IF RoleOfTarget(r) = "ADMIN" /\ Lowering(req[r].op, req[r].to)
             THEN "counting" ELSE "write")
  /\ UNCHANGED <<registered, slug, role, kinds>>

\* Mutant: off by one.
CountTwo(r) ==
  /\ req[r].pc = "counting"
  /\ Goes(r, IF Cardinality(Admins(req[r].org)) <= 2 THEN "refused" ELSE "write")
  /\ UNCHANGED <<registered, slug, role, kinds>>

\* assertNotLastAdmin()
Count(r) ==
  /\ req[r].pc = "counting"
  /\ Goes(r, IF Cardinality(Admins(req[r].org)) <= 1 THEN "refused" ELSE "write")
  /\ UNCHANGED <<registered, slug, role, kinds>>

\* The write, by the key of the membership and whatever its role is by now: a membership that
\* an invitation finds there, or another request does not, is a 500.
Write(r) ==
  LET there == RoleOfTarget(r) # "none" IN
  /\ req[r].pc = "write"
  /\ IF there <=> req[r].op = "invite"
     THEN Goes(r, "error") /\ UNCHANGED role
     ELSE /\ role' = [role EXCEPT ![req[r].org][req[r].target] =
                        IF req[r].op = "remove" THEN "none" ELSE req[r].to]
          /\ Goes(r, "ok")
  /\ UNCHANGED <<registered, slug, kinds>>

-----------------------------------------------------------------------------
Handler(r) ==
  \/ ReadOrg(r) \/ Probe(r) \/ Updates(r)
  \/ ReadForInvite(r) \/ ReadMembership(r) \/ Count(r) \/ Write(r)
  \/ \E o \in Orgs : Registers(r, o) \/ Creates(r, o)

Asked(r) ==
  \/ \E u \in Users, n \in Names :
       Register(r, u, n) \/ Create(r, u, n) \/ \E o \in Orgs : Update(r, u, o, n)
  \/ \E u, t \in Users, o \in Orgs :
       \/ \E op \in {"invite", "updateRole"}, to \in Roles : Ask(r, op, u, o, t, to)
       \/ Ask(r, "remove", u, o, t, "none")

Next == \E r \in Requests : Handler(r) \/ Asked(r)

Spec == Init /\ [][Next]_vars

-----------------------------------------------------------------------------
(* Properties                                                              *)

Without(some) == kinds \cap some = {}

\* An organization never loses its last administrator (the comment of assertNotLastAdmin),
\* whatever else is asked of it, as long as no two requests that may lower an administrator
\* overlap. (The demonstration is an organization before it has users.)
HasAdmin ==
  Without({"race", "seed"}) => \A o \in DOMAIN slug : Admins(o) # {}

\* Without such an overlap it is the last administrator, and nobody else, who is not let go
\* (the comment of assertNotLastAdmin: it need not know who is being removed).
RefusedOnlyLast ==
  [][Without({"race"}) =>
       \A r \in Requests :
         req[r].pc # "refused" /\ req'[r].pc = "refused" =>
           Admins(req[r].org) = {req[r].target}]_vars

\* A registration gives up only when its name is taken with every number that it tried: each
\* attempt that fails is an organization that another request made meanwhile. A name that an
\* organization gives up may be lost to register() more than once.
GivesUpOnlyIfTaken ==
  Without({"update"}) =>
    \A r \in Requests :
      req[r].pc = "gaveUp" => \A j \in 0..(MaxAttempts - 1) : Taken(<<req[r].name, j>>, None)

=============================================================================
