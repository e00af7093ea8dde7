--------------------------- MODULE AccountsProofs ----------------------------
(***************************************************************************)
(* Theorems about Accounts: the type of its state, that an organization    *)
(* keeps an administrator, who is refused, and when register() gives up.   *)
(* And about Seed: what the script leaves when it ended well, when it does *)
(* not, the type of its state, and that Accounts is what remains without   *)
(* it.                                                                     *)
(***************************************************************************)
EXTENDS Seed, FiniteSetTheorems, TLAPS

MemberOperations == {"invite", "updateRole", "remove"}

\* What the fields of a request are where its handler uses them.
Fits(r) ==
  /\ req[r].pc \in {"probe", "insert"} =>
       /\ req[r].op \in {"register", "create", "update"}
       /\ req[r].by \in Users /\ req[r].name \in Names
  /\ req[r].op = "register" => req[r].org = None
  /\ req[r].pc = "gaveUp" => req[r].op = "register"
  /\ UnderWay(r) =>
       /\ req[r].org \in Orgs
       /\ req[r].op \in MemberOperations \cup {"update"}
       /\ req[r].op = "update" => req[r].pc = "asked" /\ req[r].name \in Names /\ req[r].by \in Users
       /\ req[r].op \in MemberOperations => req[r].target \in Users
       /\ req[r].op \in {"invite", "updateRole"} => req[r].to \in Roles
  /\ req[r].pc = "counting" => Lowering(req[r].op, req[r].to)

Shape == TypeOK /\ \A r \in Requests : Fits(r)

USE DEF PCs, Operations

LEMMA ShapeInit == Init => Shape
<1> SUFFICES ASSUME Init PROVE Shape
  OBVIOUS
<1>1. NoRequest \in Request
  BY DEF NoRequest, Request
<1>2. TypeOK
  <2>1. slug \in [DOMAIN slug -> Slugs] /\ DOMAIN slug \subseteq Orgs
    BY DEF Init, Slugs
  <2>2. role \in [Orgs -> [Users -> Roles \cup {"none"}]]
    BY DEF Init
  <2>3. req \in [Requests -> Request] /\ registered \subseteq Users /\ kinds \subseteq Kinds
    BY <1>1, EnvironmentsAssumption DEF Init
  <2> QED BY <2>1, <2>2, <2>3 DEF TypeOK
<1>3. \A r \in Requests : req[r].pc = "new" /\ req[r].op = "none"
  BY DEF Init, NoRequest
<1> QED
  BY <1>2, <1>3 DEF Shape, Fits, UnderWay

-----------------------------------------------------------------------------
\* Goes(r, pc) changes the label of r and nothing else of the requests.
LEMMA GoesChangesPc ==
  ASSUME TypeOK, NEW r \in Requests, NEW pc \in PCs, Goes(r, pc)
  PROVE  /\ req' \in [Requests -> Request]
         /\ req'[r].pc = pc /\ req'[r].op = req[r].op /\ req'[r].by = req[r].by
         /\ req'[r].org = req[r].org /\ req'[r].target = req[r].target
         /\ req'[r].to = req[r].to /\ req'[r].name = req[r].name
         /\ req'[r].k = req[r].k /\ req'[r].tries = req[r].tries
         /\ \A q \in Requests \ {r} : req'[q] = req[q]
  BY DEF Goes, TypeOK, Request

\* A step of one request that leaves the others as they are, and drops no organization.
LEMMA OthersFit ==
  ASSUME Shape, NEW r \in Requests, TypeOK', Fits(r)',
         \A q \in Requests \ {r} : req'[q] = req[q],
         DOMAIN slug \subseteq DOMAIN slug'
  PROVE  Shape'
<1> SUFFICES ASSUME NEW q \in Requests, q # r PROVE Fits(q)'
  BY DEF Shape
<1>1. Fits(q) /\ req'[q] = req[q]
  BY DEF Shape
<1> QED
  BY <1>1 DEF Fits, UnderWay

\* Founds(r, o) creates o with a slug of r's, makes r's user its administrator and touches
\* no other organization.
LEMMA FoundsOne ==
  ASSUME Shape, NEW r \in Requests, NEW o \in Orgs, req[r].pc = "insert", Founds(r, o)
  PROVE  /\ o \notin DOMAIN slug /\ DOMAIN slug' = DOMAIN slug \cup {o}
         /\ DOMAIN slug' \subseteq Orgs /\ slug' \in [DOMAIN slug' -> Slugs]
         /\ \A x \in DOMAIN slug : slug'[x] = slug[x]
         /\ role' \in [Orgs -> [Users -> Roles \cup {"none"}]]
         /\ \A x \in Orgs \ {o} : role'[x] = role[x]
         /\ req[r].by \in Users /\ role'[o][req[r].by] = "ADMIN"
         /\ Goes(r, "ok")
<1>1. req[r].by \in Users /\ req[r].name \in Names /\ req[r].k \in Nat
  BY DEF Shape, Fits, TypeOK, Request
<1>2. <<req[r].name, req[r].k>> \in Slugs
  BY <1>1 DEF Slugs
<1>3. /\ DOMAIN slug' = DOMAIN slug \cup {o} /\ o \notin DOMAIN slug
      /\ slug' \in [DOMAIN slug' -> Slugs] /\ \A x \in DOMAIN slug : slug'[x] = slug[x]
  BY <1>2 DEF Founds, Shape, TypeOK
<1>4. /\ role' \in [Orgs -> [Users -> Roles \cup {"none"}]]
      /\ \A x \in Orgs \ {o} : role'[x] = role[x] /\ role'[o][req[r].by] = "ADMIN"
  <2>1. role \in [Orgs -> [Users -> Roles \cup {"none"}]]
    BY DEF Shape, TypeOK
  <2>2. role' = [role EXCEPT ![o] = [role[o] EXCEPT ![req[r].by] = "ADMIN"]]
    BY DEF Founds
  <2>3. [role[o] EXCEPT ![req[r].by] = "ADMIN"] \in [Users -> Roles \cup {"none"}]
    BY <2>1, RolesAssumption
  <2> QED BY <1>1, <2>1, <2>2, <2>3
<1> QED
  BY <1>1, <1>3, <1>4 DEF Founds, Shape, TypeOK

-----------------------------------------------------------------------------
\* A new request: of an account or an organization.
LEMMA FounderIsNew ==
  ASSUME Shape, NEW r \in Requests, NEW u \in Users, NEW n \in Names,
         Register(r, u, n) \/ Create(r, u, n)
  PROVE  Shape'
<1>1. PICK pc \in {"conflict", "probe"}, op \in {"register", "create"} :
        req' = [req EXCEPT ![r] = [NoRequest EXCEPT !.op = op, !.by = u, !.name = n, !.pc = pc]]
  <2>1. CASE Register(r, u, n) BY <2>1 DEF Register
  <2>2. CASE Create(r, u, n)
    <3>1. req' = [req EXCEPT ![r] = [NoRequest EXCEPT
                    !.op = "create", !.by = u, !.name = n, !.pc = "probe"]]
      BY <2>2 DEF Create
    <3> QED BY <3>1
  <2> QED BY <2>1, <2>2
<1>2. UNCHANGED <<registered, slug, role, kinds>>
  BY DEF Register, Create
<1>3. /\ req' \in [Requests -> Request] /\ \A q \in Requests \ {r} : req'[q] = req[q]
      /\ req'[r].pc = pc /\ req'[r].op = op /\ req'[r].by = u /\ req'[r].name = n
      /\ req'[r].org = None
  BY <1>1 DEF Shape, TypeOK, Request, NoRequest
<1>4. TypeOK'
  BY <1>2, <1>3 DEF Shape, TypeOK
<1>5. Fits(r)'
  BY <1>3 DEF Fits, UnderWay
<1> QED
  BY <1>2, <1>3, <1>4, <1>5, OthersFit

\* A new request: another name for an organization.
LEMMA UpdateIsNew ==
  ASSUME Shape, NEW r \in Requests, NEW u \in Users, NEW o \in Orgs, NEW n \in Names,
         Update(r, u, o, n)
  PROVE  Shape'
<1>1. req' = [req EXCEPT ![r] = [NoRequest EXCEPT
                !.op = "update", !.by = u, !.org = o, !.name = n, !.pc = "asked"]]
  BY DEF Update
<1>2. UNCHANGED <<registered, slug, role, kinds>> /\ o \in DOMAIN slug
  BY DEF Update
<1>3. /\ req' \in [Requests -> Request] /\ \A q \in Requests \ {r} : req'[q] = req[q]
      /\ req'[r].pc = "asked" /\ req'[r].op = "update" /\ req'[r].org = o
      /\ req'[r].by = u /\ req'[r].name = n
  BY <1>1 DEF Shape, TypeOK, Request, NoRequest
<1>4. TypeOK'
  BY <1>2, <1>3 DEF Shape, TypeOK
<1>5. Fits(r)'
  BY <1>2, <1>3 DEF Fits, UnderWay, MemberOperations
<1> QED
  BY <1>2, <1>3, <1>4, <1>5, OthersFit

\* A new request: about a member.
LEMMA AskedIsNew ==
  ASSUME Shape, NEW r \in Requests, NEW op \in MemberOperations, NEW u \in Users,
         NEW o \in Orgs, NEW t \in Users, NEW to \in Roles \cup {"none"},
         op # "remove" => to \in Roles, Ask(r, op, u, o, t, to)
  PROVE  Shape'
<1>1. req' = [req EXCEPT ![r] = [NoRequest EXCEPT
                !.op = op, !.by = u, !.org = o, !.target = t, !.to = to, !.pc = "asked"]]
  BY DEF Ask
<1>2. UNCHANGED <<registered, slug, role, kinds>> /\ o \in DOMAIN slug
  BY DEF Ask
<1>3. /\ req' \in [Requests -> Request] /\ \A q \in Requests \ {r} : req'[q] = req[q]
      /\ req'[r].pc = "asked" /\ req'[r].op = op /\ req'[r].org = o
      /\ req'[r].target = t /\ req'[r].to = to
  BY <1>1 DEF Shape, TypeOK, Request, NoRequest, MemberOperations
<1>4. TypeOK'
  BY <1>2, <1>3 DEF Shape, TypeOK
<1>5. Fits(r)'
  BY <1>2, <1>3 DEF Fits, UnderWay, MemberOperations
<1> QED
  BY <1>2, <1>3, <1>4, <1>5, OthersFit

\* A step that only changes the label of its request, to one where the request still fits.
LEMMA GoesFits ==
  ASSUME Shape, NEW r \in Requests, NEW pc \in PCs, Goes(r, pc),
         UNCHANGED <<registered, kinds>>,
         DOMAIN slug \subseteq DOMAIN slug', DOMAIN slug' \subseteq Orgs,
         slug' \in [DOMAIN slug' -> Slugs],
         role' \in [Orgs -> [Users -> Roles \cup {"none"}]],
         \/ pc \in {"ok", "missing", "conflict", "refused", "error"}
         \/ UnderWay(r) /\ req[r].op \in MemberOperations /\ pc = "write"
         \/ UnderWay(r) /\ req[r].op \in MemberOperations /\ pc = "counting"
            /\ Lowering(req[r].op, req[r].to)
         \/ UnderWay(r) /\ req[r].op = "update" /\ pc = "probe"
         \/ req[r].pc = "probe" /\ pc = "insert"
  PROVE  Shape'
<1>1. TypeOK /\ Fits(r)
  BY DEF Shape
<1>2. /\ req' \in [Requests -> Request] /\ \A q \in Requests \ {r} : req'[q] = req[q]
      /\ req'[r].pc = pc /\ req'[r].op = req[r].op /\ req'[r].by = req[r].by
      /\ req'[r].org = req[r].org /\ req'[r].target = req[r].target
      /\ req'[r].to = req[r].to /\ req'[r].name = req[r].name
  BY <1>1, GoesChangesPc
<1>3. TypeOK'
  BY <1>1, <1>2 DEF TypeOK
<1>4. Fits(r)'
  BY <1>1, <1>2 DEF Fits, UnderWay, MemberOperations
<1> QED
  BY <1>2, <1>3, <1>4, OthersFit

\* The loop of freeSlug() and uniqueSlug() changes the number it looks for.
LEMMA ProbeChanges ==
  ASSUME TypeOK, NEW r \in Requests, Probe(r)
  PROVE  /\ UNCHANGED <<registered, slug, role, kinds>> /\ req[r].pc = "probe"
         /\ req' \in [Requests -> Request] /\ \A q \in Requests \ {r} : req'[q] = req[q]
         /\ req'[r].op = req[r].op /\ req'[r].by = req[r].by /\ req'[r].org = req[r].org
         /\ req'[r].name = req[r].name /\ req'[r].tries = req[r].tries
         /\ \/ /\ req'[r].pc = "probe" /\ req'[r].k = req[r].k + 1
               /\ Taken(<<req[r].name, req[r].k>>, req[r].org)
            \/ /\ req'[r].pc = "insert" /\ req'[r].k = req[r].k
               /\ ~Taken(<<req[r].name, req[r].k>>, req[r].org)
<1>1. CASE req' = [req EXCEPT ![r].k = @ + 1] /\ Taken(<<req[r].name, req[r].k>>, req[r].org)
  <2>1. req[r] \in Request /\ req[r].k + 1 \in Nat
    BY DEF TypeOK, Request
  <2>2. /\ req' \in [Requests -> Request] /\ \A q \in Requests \ {r} : req'[q] = req[q]
        /\ req'[r] = [req[r] EXCEPT !.k = req[r].k + 1]
    BY <1>1, <2>1 DEF TypeOK, Request
  <2>3. UNCHANGED <<registered, slug, role, kinds>> /\ req[r].pc = "probe"
    BY DEF Probe
  <2> QED BY <1>1, <2>1, <2>2, <2>3 DEF Request
<1>2. CASE Goes(r, "insert") /\ ~Taken(<<req[r].name, req[r].k>>, req[r].org)
  BY <1>2, GoesChangesPc DEF Probe
<1> QED BY <1>1, <1>2 DEF Probe

LEMMA ProbeFits == ASSUME Shape, NEW r \in Requests, Probe(r) PROVE Shape'
<1>1. /\ UNCHANGED <<registered, slug, role, kinds>> /\ req[r].pc = "probe"
      /\ req' \in [Requests -> Request] /\ \A q \in Requests \ {r} : req'[q] = req[q]
      /\ req'[r].pc \in {"probe", "insert"} /\ req'[r].op = req[r].op
      /\ req'[r].by = req[r].by /\ req'[r].org = req[r].org /\ req'[r].name = req[r].name
  BY ProbeChanges DEF Shape
<1>2. TypeOK'
  BY <1>1 DEF Shape, TypeOK
<1>3. Fits(r)'
  BY <1>1 DEF Shape, Fits, UnderWay
<1> QED
  BY <1>1, <1>2, <1>3, OthersFit

\* register() whose slug was taken meanwhile: it tries again or gives up.
Collides(r) ==
  /\ req[r].op = "register" /\ req[r].pc = "insert"
  /\ Taken(<<req[r].name, req[r].k>>, None)
  /\ TriesAgain(r)
  /\ UNCHANGED <<registered, slug, role, kinds>>

LEMMA RegistersCases ==
  ASSUME NEW r \in Requests, NEW o \in Orgs, Registers(r, o)
  PROVE  /\ req[r].op = "register" /\ req[r].pc = "insert"
         /\ \/ Goes(r, "conflict") /\ UNCHANGED <<registered, slug, role, kinds>>
            \/ Collides(r)
            \/ Founds(r, o) /\ registered' = registered \cup {req[r].by} /\ kinds' = kinds
  BY DEF Registers, Collides

\* What a failed attempt does to the request.
LEMMA CollidesChanges ==
  ASSUME TypeOK, NEW r \in Requests, Collides(r)
  PROVE  /\ UNCHANGED <<registered, slug, role, kinds>> /\ req[r].pc = "insert"
         /\ req' \in [Requests -> Request] /\ \A q \in Requests \ {r} : req'[q] = req[q]
         /\ req'[r].op = req[r].op /\ req'[r].by = req[r].by /\ req'[r].org = req[r].org
         /\ req'[r].name = req[r].name
         /\ \/ /\ req'[r].pc = "probe" /\ req'[r].k = 0 /\ req'[r].tries = req[r].tries + 1
            \/ /\ req'[r].pc = "gaveUp" /\ req'[r].tries = req[r].tries
               /\ req[r].tries + 1 >= MaxAttempts
<1>1. CASE req' = [req EXCEPT ![r].pc = "probe", ![r].k = 0, ![r].tries = @ + 1]
  BY <1>1 DEF Collides, TypeOK, Request
<1>2. CASE Goes(r, "gaveUp") /\ req[r].tries + 1 >= MaxAttempts
  BY <1>2, GoesChangesPc DEF Collides
<1> QED BY <1>1, <1>2 DEF Collides, TriesAgain

LEMMA CollidesFits == ASSUME Shape, NEW r \in Requests, Collides(r) PROVE Shape'
<1>1. /\ UNCHANGED <<registered, slug, role, kinds>> /\ req[r].pc = "insert"
      /\ req' \in [Requests -> Request] /\ \A q \in Requests \ {r} : req'[q] = req[q]
      /\ req'[r].pc \in {"probe", "gaveUp"} /\ req'[r].op = req[r].op
      /\ req'[r].by = req[r].by /\ req'[r].org = req[r].org /\ req'[r].name = req[r].name
  BY CollidesChanges DEF Shape
<1>2. TypeOK'
  BY <1>1 DEF Shape, TypeOK
<1>3. Fits(r)'
  BY <1>1 DEF Shape, Fits, UnderWay, Collides
<1> QED
  BY <1>1, <1>2, <1>3, OthersFit

\* A founded organization, by register() or by create().
LEMMA FoundsFits ==
  ASSUME Shape, NEW r \in Requests, NEW o \in Orgs, req[r].pc = "insert", Founds(r, o),
         registered' \subseteq Users, kinds' = kinds
  PROVE  Shape'
<1>1. /\ req' \in [Requests -> Request] /\ \A q \in Requests \ {r} : req'[q] = req[q]
      /\ req'[r].pc = "ok" /\ req'[r].op = req[r].op /\ req'[r].org = req[r].org
  BY FoundsOne, GoesChangesPc DEF Shape
<1>2. TypeOK' /\ DOMAIN slug \subseteq DOMAIN slug'
  BY <1>1, FoundsOne DEF Shape, TypeOK
<1>3. Fits(r)'
  BY <1>1 DEF Shape, Fits, UnderWay
<1> QED
  BY <1>1, <1>2, <1>3, OthersFit

\* The write of a membership, and what it leaves of the roles.
LEMMA WriteTypes ==
  ASSUME Shape, NEW r \in Requests, Write(r)
  PROVE  /\ role' \in [Orgs -> [Users -> Roles \cup {"none"}]]
         /\ UNCHANGED <<registered, slug, kinds>>
         /\ req[r].pc = "write" /\ req[r].op \in MemberOperations
         /\ req[r].org \in Orgs /\ req[r].target \in Users
         /\ Goes(r, "ok") \/ Goes(r, "error")
<1>1. /\ req[r].pc = "write" /\ UnderWay(r) /\ req[r].op \in MemberOperations
      /\ req[r].org \in Orgs /\ req[r].target \in Users
      /\ req[r].op \in {"invite", "updateRole"} => req[r].to \in Roles
  BY DEF Shape, Fits, UnderWay, Write, MemberOperations
<1>2. role \in [Orgs -> [Users -> Roles \cup {"none"}]] /\ req[r].org \in Orgs
  BY <1>1 DEF Shape, TypeOK
<1>3. role' \in [Orgs -> [Users -> Roles \cup {"none"}]]
  <2>1. CASE role' = role BY <1>2, <2>1
  <2>2. CASE role' = [role EXCEPT ![req[r].org][req[r].target] =
                        IF req[r].op = "remove" THEN "none" ELSE req[r].to]
    <3> DEFINE v == IF req[r].op = "remove" THEN "none" ELSE req[r].to
    <3>1. v \in Roles \cup {"none"}
      BY <1>1 DEF MemberOperations
    <3> HIDE DEF v
    <3>2. [role[req[r].org] EXCEPT ![req[r].target] = v] \in [Users -> Roles \cup {"none"}]
      BY <1>2, <3>1
    <3>3. role' = [role EXCEPT ![req[r].org] = [role[req[r].org] EXCEPT ![req[r].target] = v]]
      BY <2>2 DEF v
    <3> QED BY <1>2, <3>2, <3>3
  <2> QED BY <2>1, <2>2 DEF Write
<1> QED BY <1>1, <1>2, <1>3 DEF Write

LEMMA ShapeStep == Shape /\ [Next]_vars => Shape'
<1> SUFFICES ASSUME Shape, [Next]_vars PROVE Shape'
  OBVIOUS
<1> USE DEF MemberOperations
<1>t. TypeOK /\ role \in [Orgs -> [Users -> Roles \cup {"none"}]] /\ slug \in [DOMAIN slug -> Slugs]
  BY DEF Shape, TypeOK
<1>u. CASE UNCHANGED vars
  BY <1>u DEF vars, Shape, TypeOK, Fits, UnderWay
<1>1. ASSUME NEW r \in Requests, ReadOrg(r) PROVE Shape'
  <2>1. UnderWay(r) /\ req[r].op = "update" /\ UNCHANGED <<registered, slug, role, kinds>>
        /\ (Goes(r, "ok") \/ Goes(r, "probe"))
    BY <1>1 DEF ReadOrg, UnderWay
  <2>2. CASE Goes(r, "ok") BY <1>t, <2>1, <2>2, GoesFits DEF TypeOK
  <2>3. CASE Goes(r, "probe") BY <1>t, <2>1, <2>3, GoesFits DEF TypeOK
  <2> QED BY <2>1, <2>2, <2>3
<1>2. ASSUME NEW r \in Requests, Probe(r) PROVE Shape'
  BY <1>2, ProbeFits
<1>3. ASSUME NEW r \in Requests, Updates(r) PROVE Shape'
  <2>1. /\ UNCHANGED <<registered, role, kinds>> /\ req[r].pc = "insert"
        /\ \/ Goes(r, "error") /\ slug' = slug
           \/ Goes(r, "ok") /\ slug' = [slug EXCEPT ![req[r].org] = <<req[r].name, req[r].k>>]
    BY <1>3 DEF Updates
  <2>2. <<req[r].name, req[r].k>> \in Slugs
    BY <2>1, <1>t DEF Slugs, Shape, Fits, TypeOK, Request
  <2>3. DOMAIN slug' = DOMAIN slug /\ slug' \in [DOMAIN slug' -> Slugs]
    BY <1>t, <2>1, <2>2
  <2>4. CASE Goes(r, "error") BY <1>t, <2>1, <2>3, <2>4, GoesFits DEF TypeOK
  <2>5. CASE Goes(r, "ok") BY <1>t, <2>1, <2>3, <2>5, GoesFits DEF TypeOK
  <2> QED BY <2>1, <2>4, <2>5
<1>4. ASSUME NEW r \in Requests, ReadForInvite(r) PROVE Shape'
  <2>1. PICK pc \in {"missing", "conflict", "write"} :
          /\ Goes(r, pc) /\ UnderWay(r) /\ req[r].op \in MemberOperations
          /\ UNCHANGED <<registered, slug, role, kinds>>
    BY <1>4 DEF ReadForInvite, UnderWay
  <2> QED BY <1>t, <2>1, GoesFits DEF TypeOK
<1>5. ASSUME NEW r \in Requests, ReadMembership(r) PROVE Shape'
  <2>1. PICK pc \in {"missing", "counting", "write"} :
          /\ Goes(r, pc) /\ UnderWay(r) /\ req[r].op \in MemberOperations
          /\ pc = "counting" => Lowering(req[r].op, req[r].to)
          /\ UNCHANGED <<registered, slug, role, kinds>>
    BY <1>5 DEF ReadMembership, UnderWay
  <2> QED BY <1>t, <2>1, GoesFits DEF TypeOK
<1>6. ASSUME NEW r \in Requests, Count(r) PROVE Shape'
  <2>1. Goes(r, "refused") \/ Goes(r, "write")
    BY <1>6 DEF Count
  <2>2. req[r].pc = "counting" /\ UnderWay(r) /\ UNCHANGED <<registered, slug, role, kinds>>
    BY <1>6 DEF Count, UnderWay
  <2>3. req[r].op \in MemberOperations
    BY <2>2 DEF Shape, Fits
  <2>4. CASE Goes(r, "refused") BY <1>t, <2>2, <2>3, <2>4, GoesFits DEF TypeOK
  <2>5. CASE Goes(r, "write") BY <1>t, <2>2, <2>3, <2>5, GoesFits DEF TypeOK
  <2> QED BY <2>1, <2>4, <2>5
<1>7. ASSUME NEW r \in Requests, Write(r) PROVE Shape'
  <2>1. CASE Goes(r, "ok") BY <1>t, <1>7, <2>1, WriteTypes, GoesFits DEF TypeOK
  <2>2. CASE Goes(r, "error") BY <1>t, <1>7, <2>2, WriteTypes, GoesFits DEF TypeOK
  <2> QED BY <1>7, <2>1, <2>2, WriteTypes
<1>8. ASSUME NEW r \in Requests, NEW o \in Orgs, Registers(r, o) PROVE Shape'
  <2>1. CASE Goes(r, "conflict") /\ UNCHANGED <<registered, slug, role, kinds>>
    BY <1>t, <2>1, GoesFits DEF TypeOK
  <2>2. CASE Collides(r) BY <2>2, CollidesFits
  <2>3. CASE Founds(r, o) /\ registered' = registered \cup {req[r].by} /\ kinds' = kinds
    <3>1. req[r].pc = "insert" BY <1>8, RegistersCases
    <3>2. registered' \subseteq Users BY <1>t, <2>3, <3>1, FoundsOne DEF TypeOK
    <3> QED BY <2>3, <3>1, <3>2, FoundsFits
  <2> QED BY <1>8, <2>1, <2>2, <2>3, RegistersCases
<1>9. ASSUME NEW r \in Requests, NEW o \in Orgs, Creates(r, o) PROVE Shape'
  <2>1. /\ req[r].pc = "insert" /\ UNCHANGED <<registered, kinds>>
        /\ (Goes(r, "error") /\ UNCHANGED <<slug, role>>) \/ Founds(r, o)
    BY <1>9 DEF Creates
  <2>2. CASE Goes(r, "error") /\ UNCHANGED <<slug, role>>
    BY <1>t, <2>1, <2>2, GoesFits DEF TypeOK
  <2>3. CASE Founds(r, o) BY <1>t, <2>1, <2>3, FoundsFits DEF TypeOK
  <2> QED BY <2>1, <2>2, <2>3
<1>10. ASSUME NEW r \in Requests, Asked(r) PROVE Shape'
  <2>1. CASE \E u \in Users, n \in Names : Register(r, u, n) \/ Create(r, u, n)
    BY <2>1, FounderIsNew
  <2>2. CASE \E u \in Users, n \in Names, o \in Orgs : Update(r, u, o, n)
    BY <2>2, UpdateIsNew
  <2>3. CASE \E u, t \in Users, o \in Orgs, op \in {"invite", "updateRole"}, to \in Roles :
               Ask(r, op, u, o, t, to)
    BY <2>3, AskedIsNew
  <2>4. CASE \E u, t \in Users, o \in Orgs : Ask(r, "remove", u, o, t, "none")
    BY <2>4, AskedIsNew
  <2> QED BY <1>10, <2>1, <2>2, <2>3, <2>4 DEF Asked
<1> QED
  BY <1>u, <1>1, <1>2, <1>3, <1>4, <1>5, <1>6, <1>7, <1>8, <1>9, <1>10 DEF Next, Handler

\* The state has its type, in every behaviour.
THEOREM AccountsTypeCorrect == Spec => []TypeOK
<1>1. Shape => TypeOK
  BY DEF Shape
<1> QED
  BY ShapeInit, ShapeStep, <1>1, PTL DEF Spec

-----------------------------------------------------------------------------
(* The last administrator                                                  *)

\* While no two lowerings of an organization overlap, one that is about to write leaves an
\* administrator, and whom it counts for is one.
OneLowers ==
  \A r, q \in Requests : Lowers(r) /\ Lowers(q) /\ req[r].org = req[q].org => r = q
LeavesOne ==
  \A r \in Requests : Lowers(r) /\ req[r].pc = "write" =>
    \E u \in Admins(req[r].org) : u # req[r].target
CountsAdmin == \A r \in Requests : req[r].pc = "counting" => req[r].target \in Admins(req[r].org)
Governed == \A o \in DOMAIN slug : Admins(o) # {}

AdminInv == Without({"race"}) => Governed /\ OneLowers /\ LeavesOne /\ CountsAdmin

\* A handler that goes on takes no request under way that was not.
LEMMA LowersStays ==
  ASSUME Shape, NEW r \in Requests, Handler(r)
  PROVE  /\ \A q \in Requests : Lowers(q)' =>
              /\ Lowers(q) /\ req'[q].org = req[q].org /\ req'[q].target = req[q].target
         /\ \A q \in Requests : UnderWay(q)' => UnderWay(q) /\ req'[q].org = req[q].org
         /\ \A q \in Requests \ {r} : req'[q] = req[q]
         /\ kinds' = kinds
<1>t. TypeOK BY DEF Shape
<1>1. ASSUME NEW pc \in PCs, Goes(r, pc), UnderWay(r) \/ ~(pc \in {"asked", "counting", "write"})
      PROVE /\ \A q \in Requests : Lowers(q)' =>
                 /\ Lowers(q) /\ req'[q].org = req[q].org /\ req'[q].target = req[q].target
            /\ \A q \in Requests : UnderWay(q)' => UnderWay(q) /\ req'[q].org = req[q].org
            /\ \A q \in Requests \ {r} : req'[q] = req[q]
  BY <1>1, <1>t, GoesChangesPc DEF Lowers, UnderWay
<1>2. CASE Probe(r)
  BY <1>2, <1>t, ProbeChanges DEF Lowers, UnderWay
<1>3. CASE \E o \in Orgs : Registers(r, o)
  <2>1. PICK o \in Orgs : Registers(r, o) BY <1>3
  <2>2. kinds' = kinds BY <2>1 DEF Registers
  <2>3. CASE Goes(r, "conflict") BY <1>1, <2>2, <2>3
  <2>4. CASE Founds(r, o) BY <1>1, <2>2, <2>4 DEF Founds
  <2>5. CASE Collides(r) BY <1>t, <2>2, <2>5, CollidesChanges DEF Lowers, UnderWay
  <2> QED BY <2>1, <2>3, <2>4, <2>5, RegistersCases
<1>4. CASE \E o \in Orgs : Creates(r, o)
  <2>1. PICK pc \in {"error", "ok"} : Goes(r, pc) /\ kinds' = kinds
    BY <1>4 DEF Creates, Founds
  <2> QED BY <1>1, <2>1
<1>5. CASE ReadOrg(r)
  <2>1. PICK pc \in {"probe", "ok"} : Goes(r, pc) /\ kinds' = kinds
    BY <1>5 DEF ReadOrg
  <2> QED BY <1>1, <2>1
<1>6. CASE Updates(r)
  <2>1. PICK pc \in {"error", "ok"} : Goes(r, pc) /\ kinds' = kinds
    BY <1>6 DEF Updates
  <2> QED BY <1>1, <2>1
<1>7. CASE ReadForInvite(r) \/ ReadMembership(r) \/ Count(r) \/ Write(r)
  <2>1. UnderWay(r) /\ kinds' = kinds
    BY <1>7 DEF ReadForInvite, ReadMembership, Count, Write, UnderWay
  <2>2. PICK pc \in PCs : Goes(r, pc)
    <3>1. CASE ReadForInvite(r) BY <3>1 DEF ReadForInvite
    <3>2. CASE ReadMembership(r) BY <3>2 DEF ReadMembership
    <3>3. CASE Count(r) BY <3>3 DEF Count
    <3>4. CASE Write(r) BY <3>4 DEF Write
    <3> QED BY <1>7, <3>1, <3>2, <3>3, <3>4
  <2> QED BY <1>1, <2>1, <2>2
<1> QED BY <1>2, <1>3, <1>4, <1>5, <1>6, <1>7 DEF Handler

\* A new request changes nothing but itself, and is about an organization that is there.
LEMMA AskedChanges ==
  ASSUME TypeOK, NEW r \in Requests, Asked(r)
  PROVE  /\ UNCHANGED <<registered, slug, role, kinds>>
         /\ \A q \in Requests \ {r} : req'[q] = req[q]
         /\ req'[r].pc \in {"probe", "conflict", "asked"}
         /\ req'[r].pc = "asked" => req'[r].org \in DOMAIN slug
<1>1. CASE \E u \in Users, n \in Names : Register(r, u, n) \/ Create(r, u, n)
  <2>1. PICK u \in Users, n \in Names : Register(r, u, n) \/ Create(r, u, n) BY <1>1
  <2>2. CASE Register(r, u, n) BY <2>2 DEF Register, TypeOK, Request, NoRequest
  <2>3. CASE Create(r, u, n) BY <2>3 DEF Create, TypeOK, Request, NoRequest
  <2> QED BY <2>1, <2>2, <2>3
<1>2. CASE \E u \in Users, n \in Names, o \in Orgs : Update(r, u, o, n)
  <2>1. PICK u \in Users, n \in Names, o \in Orgs : Update(r, u, o, n) BY <1>2
  <2> QED BY <2>1 DEF Update, TypeOK, Request, NoRequest
<1>3. CASE \E op \in MemberOperations, u, t \in Users, o \in Orgs, to \in Roles \cup {"none"} :
             Ask(r, op, u, o, t, to)
  <2>1. PICK op \in MemberOperations, u \in Users, t \in Users, o \in Orgs,
             to \in Roles \cup {"none"} : Ask(r, op, u, o, t, to)
    BY <1>3
  <2> QED BY <2>1 DEF Ask, TypeOK, Request, NoRequest
<1> QED BY <1>1, <1>2, <1>3 DEF Asked, MemberOperations

\* No request drops an organization.
LEMMA SlugGrows ==
  ASSUME Shape, [Next]_vars
  PROVE  DOMAIN slug \subseteq DOMAIN slug'
<1>1. ASSUME NEW r \in Requests, Handler(r) PROVE DOMAIN slug \subseteq DOMAIN slug'
  <2>1. CASE \E o \in Orgs : Founds(r, o)
    BY <2>1 DEF Founds
  <2>2. CASE Updates(r)
    BY <2>2 DEF Updates, Shape, TypeOK
  <2>3. CASE ReadOrg(r) \/ Probe(r) \/ ReadForInvite(r) \/ ReadMembership(r) \/ Count(r) \/ Write(r)
    BY <2>3 DEF ReadOrg, Probe, ReadForInvite, ReadMembership, Count, Write
  <2>4. CASE \E o \in Orgs : Registers(r, o) \/ Creates(r, o)
    BY <2>1, <2>4 DEF Registers, Creates
  <2> QED BY <1>1, <2>2, <2>3, <2>4 DEF Handler
<1>2. ASSUME NEW r \in Requests, Asked(r) PROVE slug' = slug
  BY <1>2, AskedChanges DEF Shape
<1> QED
  BY <1>1, <1>2 DEF Next, vars

\* A request under way is about an organization that is there.
Standing == \A r \in Requests : UnderWay(r) => req[r].org \in DOMAIN slug

LEMMA StandingInit == Init => Standing
  BY DEF Init, NoRequest, Standing, UnderWay

LEMMA StandingStep == Shape /\ Standing /\ [Next]_vars => Standing'
<1> SUFFICES ASSUME Shape, Standing, [Next]_vars, NEW q \in Requests, UnderWay(q)'
    PROVE  req'[q].org \in DOMAIN slug'
  BY DEF Standing
<1>1. DOMAIN slug \subseteq DOMAIN slug'
  BY SlugGrows
<1>2. CASE UNCHANGED vars
  BY <1>2 DEF vars, Standing, UnderWay
<1>3. ASSUME NEW r \in Requests, Handler(r) PROVE req'[q].org \in DOMAIN slug'
  BY <1>1, <1>3, LowersStays DEF Standing
<1>4. ASSUME NEW r \in Requests, Asked(r) PROVE req'[q].org \in DOMAIN slug'
  <2>1. CASE q = r
    BY <1>4, <2>1, AskedChanges DEF Shape, UnderWay
  <2>2. CASE q # r
    <3>1. req'[q] = req[q] /\ UNCHANGED slug
      BY <1>4, <2>2, AskedChanges DEF Shape
    <3> QED BY <3>1 DEF Standing, UnderWay
  <2> QED BY <2>1, <2>2
<1> QED
  BY <1>2, <1>3, <1>4 DEF Next

\* Two administrators or more: one is not the target.
LEMMA TwoAdmins ==
  ASSUME NEW o, NEW t, ~(Cardinality(Admins(o)) <= 1)
  PROVE  \E u \in Admins(o) : u # t
<1> SUFFICES ASSUME \A u \in Admins(o) : u = t PROVE FALSE
  OBVIOUS
<1>1. Admins(o) = {} \/ Admins(o) = {t}
  OBVIOUS
<1>2. Cardinality({}) = 0 /\ Cardinality({t}) = 1
  BY FS_EmptySet, FS_Singleton
<1> QED BY <1>1, <1>2

\* One administrator at most: the target is the only one, if it is one.
LEMMA OneAdmin ==
  ASSUME NEW o, NEW t \in Admins(o), Cardinality(Admins(o)) <= 1
  PROVE  Admins(o) = {t}
<1>1. IsFiniteSet(Admins(o)) /\ {t} \subseteq Admins(o)
  BY UsersAssumption, FS_Subset DEF Admins
<1>2. Cardinality({t}) = 1 /\ Cardinality({t}) <= Cardinality(Admins(o))
  BY <1>1, FS_Singleton, FS_Subset
<1>3. Cardinality(Admins(o)) \in Nat
  BY <1>1, FS_CardinalityType
<1>4. Cardinality({t}) = Cardinality(Admins(o))
  BY <1>2, <1>3
<1> QED BY <1>1, <1>4, FS_Subset

\* The administrators of o when the memberships are f: Admins(o) is AdminsIn(role, o).
AdminsIn(f, o) == {u \in Users : f[o][u] = "ADMIN"}

\* A handler that goes on keeps the invariant if it keeps the administrators that the other
\* requests count on, and what it says of its own request.
LEMMA RestKeeps ==
  ASSUME Shape, OneLowers, LeavesOne, CountsAdmin, NEW r \in Requests, Handler(r),
         \A q \in Requests \ {r} :
            Lowers(q) => AdminsIn(role, req[q].org) \subseteq AdminsIn(role', req[q].org),
         Governed',
         Lowers(r)' /\ req'[r].pc = "write" =>
           \E u \in AdminsIn(role', req[r].org) : u # req[r].target,
         req'[r].pc = "counting" => Lowers(r)' /\ req[r].target \in AdminsIn(role', req[r].org)
  PROVE  AdminInv'
<1>1. /\ \A q \in Requests : Lowers(q)' =>
           /\ Lowers(q) /\ req'[q].org = req[q].org /\ req'[q].target = req[q].target
      /\ \A q \in Requests \ {r} : req'[q] = req[q]
  BY LowersStays
<1>2. OneLowers'
  BY <1>1 DEF OneLowers
<1>3. ASSUME NEW q \in Requests, Lowers(q)', req'[q].pc = "write"
      PROVE  \E u \in AdminsIn(role', req'[q].org) : u # req'[q].target
  <2>1. CASE q = r BY <1>1, <1>3, <2>1 DEF AdminsIn, Admins
  <2>2. CASE q # r BY <1>1, <1>3, <2>2 DEF LeavesOne, AdminsIn, Admins
  <2> QED BY <2>1, <2>2
<1>4. ASSUME NEW q \in Requests, req'[q].pc = "counting"
      PROVE  req'[q].target \in AdminsIn(role', req'[q].org)
  <2>1. CASE q = r BY <1>1, <1>4, <2>1 DEF AdminsIn, Admins
  <2>2. CASE q # r
    <3>1. req'[q] = req[q] /\ Lowers(q)
      BY <1>1, <1>4, <2>2 DEF Shape, Fits, Lowers, UnderWay
    <3> QED BY <1>4, <2>2, <3>1 DEF CountsAdmin, AdminsIn, Admins
  <2> QED BY <2>1, <2>2
<1>5. LeavesOne' BY <1>3 DEF LeavesOne, AdminsIn, Admins
<1>6. CountsAdmin' BY <1>4 DEF CountsAdmin, AdminsIn, Admins
<1> QED BY <1>2, <1>5, <1>6 DEF AdminInv

LEMMA HandlerKeepsAdmin ==
  ASSUME Shape, Standing, AdminInv, Without({"race"}), NEW r \in Requests, Handler(r)
  PROVE  AdminInv'
<1> USE DEF MemberOperations
<1>i. Governed /\ OneLowers /\ LeavesOne /\ CountsAdmin
  BY DEF AdminInv
<1>t. TypeOK BY DEF Shape
<1>s. \A q \in Requests : Lowers(q)' => Lowers(q)
  BY LowersStays
<1>0. ASSUME role' = role, DOMAIN slug' = DOMAIN slug, req'[r].pc \notin {"counting", "write"}
      PROVE  AdminInv'
  BY <1>0, <1>i, RestKeeps DEF Governed, AdminsIn, Admins
<1>1. CASE ReadOrg(r)
  <2>1. PICK pc \in {"probe", "ok"} : Goes(r, pc) BY <1>1 DEF ReadOrg
  <2> QED BY <1>0, <1>1, <1>t, <2>1, GoesChangesPc DEF ReadOrg
<1>2. CASE Probe(r)
  BY <1>0, <1>2, <1>t, ProbeChanges
<1>3. CASE Updates(r)
  <2>1. PICK pc \in {"error", "ok"} : Goes(r, pc) BY <1>3 DEF Updates
  <2>2. DOMAIN slug' = DOMAIN slug /\ role' = role BY <1>3, <1>t DEF Updates, TypeOK
  <2> QED BY <1>0, <1>t, <2>1, <2>2, GoesChangesPc
<1>4. CASE ReadForInvite(r)
  <2>1. PICK pc \in PCs \ {"counting"} : Goes(r, pc) BY <1>4 DEF ReadForInvite
  <2>2. req'[r].pc # "counting" /\ req'[r].op = "invite" /\ role' = role /\ slug' = slug
    BY <1>4, <1>t, <2>1, GoesChangesPc DEF ReadForInvite
  <2>3. ~Lowers(r)' BY <2>2 DEF Lowers, Lowering
  <2> QED BY <1>4, <1>i, <2>2, <2>3, RestKeeps DEF Governed, AdminsIn, Admins, Handler
<1>5. CASE ReadMembership(r)
  <2>1. PICK pc \in {"missing", "counting", "write"} :
          /\ Goes(r, pc)
          /\ pc = "counting" => RoleOfTarget(r) = "ADMIN" /\ Lowering(req[r].op, req[r].to)
          /\ pc = "write" => ~(RoleOfTarget(r) = "ADMIN" /\ Lowering(req[r].op, req[r].to))
    BY <1>5 DEF ReadMembership
  <2>2. /\ UnderWay(r) /\ req[r].target \in Users /\ req[r].org \in DOMAIN slug
        /\ role' = role /\ slug' = slug
    BY <1>5 DEF ReadMembership, UnderWay, Shape, Fits, Standing
  <2>3. req'[r].pc = pc /\ req'[r].op = req[r].op /\ req'[r].to = req[r].to
    BY <1>t, <2>1, GoesChangesPc
  <2>4. pc = "write" /\ Lowers(r)' => \E u \in AdminsIn(role, req[r].org) : u # req[r].target
    BY <1>i, <2>1, <2>2, <2>3 DEF Lowers, Governed, AdminsIn, Admins, RoleOfTarget
  <2>5. pc = "counting" => Lowers(r)' /\ req[r].target \in AdminsIn(role, req[r].org)
    BY <2>1, <2>2, <2>3 DEF Lowers, UnderWay, AdminsIn, Admins, RoleOfTarget
  <2> QED BY <1>i, <2>2, <2>3, <2>4, <2>5, RestKeeps DEF Governed, AdminsIn, Admins
<1>6. CASE Count(r)
  <2>1. PICK pc \in {"refused", "write"} :
          Goes(r, pc) /\ (pc = "write" => ~(Cardinality(Admins(req[r].org)) <= 1))
    BY <1>6 DEF Count
  <2>2. role' = role /\ slug' = slug BY <1>6 DEF Count
  <2>3. req'[r].pc = pc BY <1>t, <2>1, GoesChangesPc
  <2>4. pc = "write" => \E u \in AdminsIn(role, req[r].org) : u # req[r].target
    <3>1. AdminsIn(role, req[r].org) = Admins(req[r].org) BY DEF AdminsIn, Admins
    <3>2. ~(Cardinality(Admins(req[r].org)) <= 1) =>
            \E u \in Admins(req[r].org) : u # req[r].target
      BY TwoAdmins
    <3> QED BY <2>1, <3>1, <3>2
  <2> QED BY <1>i, <2>2, <2>3, <2>4, RestKeeps DEF Governed, AdminsIn, Admins
<1>7. CASE \E o \in Orgs : Registers(r, o) \/ Creates(r, o)
  <2>1. PICK o \in Orgs : Registers(r, o) \/ Creates(r, o) BY <1>7
  <2>2. CASE Founds(r, o)
    <3>1. req[r].pc = "insert" BY <2>1 DEF Registers, Creates
    <3>2. req'[r].pc = "ok" BY <1>t, <2>2, GoesChangesPc DEF Founds
    <3>3. \A x \in DOMAIN slug : AdminsIn(role', x) = AdminsIn(role, x)
      <4>1. o \notin DOMAIN slug /\ \A x \in Orgs \ {o} : role'[x] = role[x]
        BY <2>2, <3>1, FoundsOne
      <4> QED BY <1>t, <4>1 DEF AdminsIn, TypeOK
    <3>4. AdminsIn(role', o) # {} BY <2>2, <3>1, FoundsOne DEF AdminsIn, Admins
    <3>5. Governed'
      <4>1. DOMAIN slug' = DOMAIN slug \cup {o} BY <2>2, <3>1, FoundsOne
      <4> QED BY <1>i, <3>3, <3>4, <4>1 DEF Governed, AdminsIn, Admins
    <3>6. \A q \in Requests \ {r} :
            Lowers(q) => AdminsIn(role, req[q].org) \subseteq AdminsIn(role', req[q].org)
      BY <3>3 DEF Standing, Lowers
    <3> QED BY <1>i, <3>2, <3>5, <3>6, RestKeeps
  <2>3. CASE ~Founds(r, o)
    <3>1. role' = role /\ slug' = slug /\ (Goes(r, "conflict") \/ Goes(r, "error") \/ Collides(r))
      BY <2>1, <2>3, RegistersCases DEF Creates, Collides
    <3>2. req'[r].pc \notin {"counting", "write"}
      <4>1. CASE Goes(r, "conflict") BY <1>t, <4>1, GoesChangesPc
      <4>2. CASE Goes(r, "error") BY <1>t, <4>2, GoesChangesPc
      <4>3. CASE Collides(r) BY <1>t, <4>3, CollidesChanges
      <4> QED BY <3>1, <4>1, <4>2, <4>3
    <3> QED BY <1>0, <3>1, <3>2
  <2> QED BY <2>2, <2>3
<1>8. CASE Write(r)
  <2> DEFINE o == req[r].org  t == req[r].target
  <2>1. /\ slug' = slug /\ o \in Orgs /\ o \in DOMAIN slug /\ t \in Users
        /\ req[r].pc = "write" /\ UnderWay(r) /\ req[r].op \in MemberOperations
    BY <1>8, WriteTypes DEF UnderWay, Standing
  <2>2. req'[r].pc \in {"ok", "error"}
    BY <1>t, <1>8, WriteTypes, GoesChangesPc
  <2>3. /\ \A x \in Orgs \ {o} : role'[x] = role[x]
        /\ \A u \in Users \ {t} : role'[o][u] = role[o][u]
    BY <1>t, <1>8, <2>1 DEF Write, TypeOK
  <2>4. ~Lowers(r) => AdminsIn(role, o) \subseteq AdminsIn(role', o)
    <3> SUFFICES ASSUME ~Lowers(r), role[o][t] = "ADMIN", role'[o][t] # "ADMIN" PROVE FALSE
      BY <2>1, <2>3 DEF AdminsIn, Admins
    <3>1. req[r].op \in {"invite", "updateRole"} /\ (req[r].op = "updateRole" => req[r].to = "ADMIN")
      BY <2>1 DEF Lowers, Lowering
    <3>2. RoleOfTarget(r) # "none" BY RolesAssumption DEF RoleOfTarget
    <3>3. req[r].op = "updateRole" /\ role' = [role EXCEPT ![o][t] = req[r].to]
      BY <1>8, <3>1, <3>2 DEF Write
    <3>4. role'[o][t] = "ADMIN" BY <1>t, <2>1, <3>1, <3>3 DEF TypeOK
    <3> QED BY <3>4
  <2>5. AdminsIn(role', o) # {}
    <3>1. CASE Lowers(r)
      <4>1. PICK u \in AdminsIn(role, o) : u # t BY <1>i, <2>1, <3>1 DEF LeavesOne, AdminsIn, Admins
      <4> QED BY <2>3, <4>1 DEF AdminsIn, Admins
    <3>2. CASE ~Lowers(r) BY <1>i, <2>1, <2>4, <3>2 DEF Governed, AdminsIn, Admins
    <3> QED BY <3>1, <3>2
  <2>6. Governed'
    BY <1>i, <1>t, <2>1, <2>3, <2>5 DEF Governed, AdminsIn, Admins, TypeOK
  <2>7. ASSUME NEW q \in Requests \ {r}, Lowers(q)
        PROVE  AdminsIn(role, req[q].org) \subseteq AdminsIn(role', req[q].org)
    <3>1. req[q].org \in Orgs BY <1>t, <2>7 DEF Shape, Fits, Lowers, TypeOK
    <3>2. CASE req[q].org # o BY <2>3, <3>1, <3>2 DEF AdminsIn, Admins
    <3>3. CASE req[q].org = o
      <4>1. ~Lowers(r) BY <1>i, <2>7, <3>3 DEF OneLowers
      <4> QED BY <2>4, <3>3, <4>1
    <3> QED BY <3>2, <3>3
  <2> QED BY <1>i, <2>2, <2>6, <2>7, RestKeeps
<1> QED
  BY <1>1, <1>2, <1>3, <1>4, <1>5, <1>6, <1>7, <1>8 DEF Handler

LEMMA AskedKeepsAdmin ==
  ASSUME Shape, AdminInv, Without({"race"}), NEW r \in Requests, Asked(r)
  PROVE  AdminInv'
<1>i. Governed /\ OneLowers /\ LeavesOne /\ CountsAdmin
  BY DEF AdminInv
<1>t. TypeOK BY DEF Shape
<1>1. role' = role /\ slug' = slug
  BY <1>t, AskedChanges
<1>2. /\ \A q \in Requests \ {r} : req'[q] = req[q]
      /\ req'[r].pc \notin {"counting", "write"}
      /\ Lowers(r)' => \A q \in Requests \ {r} : Lowers(q) => req[q].org # req'[r].org
  <2>1. CASE \E u \in Users, n \in Names : Register(r, u, n) \/ Create(r, u, n)
    <3>1. PICK u \in Users, n \in Names : Register(r, u, n) \/ Create(r, u, n) BY <2>1
    <3>2. CASE Register(r, u, n)
      BY <1>t, <3>2 DEF Register, TypeOK, Request, NoRequest, Lowers, UnderWay
    <3>3. CASE Create(r, u, n)
      BY <1>t, <3>3 DEF Create, TypeOK, Request, NoRequest, Lowers, UnderWay
    <3> QED BY <3>1, <3>2, <3>3
  <2>2. CASE \E u \in Users, n \in Names, o \in Orgs : Update(r, u, o, n)
    <3>1. PICK u \in Users, n \in Names, o \in Orgs : Update(r, u, o, n) BY <2>2
    <3>2. req'[r].op = "update" /\ req'[r].pc = "asked" /\ \A q \in Requests \ {r} : req'[q] = req[q]
      BY <1>t, <3>1 DEF Update, TypeOK, Request, NoRequest
    <3> QED BY <3>2 DEF Lowers, Lowering
  <2>3. ASSUME NEW op \in MemberOperations, NEW u \in Users, NEW o \in Orgs, NEW t \in Users,
               NEW to \in Roles \cup {"none"}, Ask(r, op, u, o, t, to)
        PROVE  /\ \A q \in Requests \ {r} : req'[q] = req[q]
               /\ req'[r].pc \notin {"counting", "write"}
               /\ Lowers(r)' => \A q \in Requests \ {r} : Lowers(q) => req[q].org # req'[r].org
    <3>1. /\ \A q \in Requests \ {r} : req'[q] = req[q]
          /\ req'[r].pc = "asked" /\ req'[r].op = op /\ req'[r].to = to /\ req'[r].org = o
      BY <1>t, <2>3 DEF Ask, TypeOK, Request, NoRequest
    <3>2. Lowering(op, to) => \A q \in Requests : Lowers(q) => req[q].org # o
      BY <2>3 DEF Ask, Without
    <3> QED BY <3>1, <3>2 DEF Lowers
  <2>4. CASE \E u, t \in Users, o \in Orgs, op \in {"invite", "updateRole"}, to \in Roles :
               Ask(r, op, u, o, t, to)
    BY <2>3, <2>4 DEF MemberOperations
  <2>5. CASE \E u, t \in Users, o \in Orgs : Ask(r, "remove", u, o, t, "none")
    BY <2>3, <2>5 DEF MemberOperations
  <2> QED BY <2>1, <2>2, <2>4, <2>5 DEF Asked
<1>3. \A q \in Requests \ {r} : Lowers(q)' <=> Lowers(q)
  BY <1>2 DEF Lowers, UnderWay
<1>4. OneLowers' BY <1>i, <1>2, <1>3 DEF OneLowers
<1>5. LeavesOne' BY <1>i, <1>1, <1>2, <1>3 DEF LeavesOne, Admins
<1>6. CountsAdmin' BY <1>i, <1>1, <1>2 DEF CountsAdmin, Admins
<1>7. Governed' BY <1>i, <1>1 DEF Governed, Admins
<1> QED BY <1>4, <1>5, <1>6, <1>7 DEF AdminInv

LEMMA AdminStep == Shape /\ Standing /\ AdminInv /\ [Next]_vars => AdminInv'
<1> SUFFICES ASSUME Shape, Standing, AdminInv, [Next]_vars PROVE AdminInv'
  OBVIOUS
<1>1. kinds' = kinds
  <2>1. \A r \in Requests : Handler(r) => kinds' = kinds
    BY LowersStays
  <2>2. \A r \in Requests : Asked(r) => kinds' = kinds
    BY AskedChanges DEF Shape
  <2> QED BY <2>1, <2>2 DEF Next, vars
<1>2. CASE ~Without({"race"})
  BY <1>1, <1>2 DEF AdminInv, Without
<1>3. CASE Without({"race"}) /\ UNCHANGED vars
  BY <1>3 DEF vars, AdminInv, Governed, OneLowers, LeavesOne, CountsAdmin, Admins, Lowers,
              UnderWay, Without
<1>4. CASE Without({"race"}) /\ Next
  BY <1>4, HandlerKeepsAdmin, AskedKeepsAdmin DEF Next
<1> QED BY <1>2, <1>3, <1>4

LEMMA AdminInit == Init => AdminInv
<1> SUFFICES ASSUME Init PROVE AdminInv
  OBVIOUS
<1>1. \A r \in Requests : req[r].pc = "new"
  BY DEF Init, NoRequest
<1>2. Governed
  <2>1. PICK o \in Orgs, n \in Names, m \in [Users -> Roles \cup {"none"}] :
          /\ \E u \in Users : m[u] = "ADMIN"
          /\ slug = [x \in {o} |-> <<n, 0>>]
          /\ role = [x \in Orgs |-> IF x = o THEN m ELSE [u \in Users |-> "none"]]
    BY DEF Init
  <2> QED BY <2>1 DEF Governed, Admins
<1> QED BY <1>1, <1>2 DEF AdminInv, OneLowers, LeavesOne, CountsAdmin, Lowers, UnderWay

\* An organization keeps an administrator as long as no two requests that may lower one
\* overlap (assertNotLastAdmin), for any number of members, organizations and requests.
THEOREM OrganizationsKeepAnAdmin == Spec => []HasAdmin
<1>1. AdminInv => HasAdmin
  BY DEF AdminInv, HasAdmin, Governed, Without
<1> QED
  BY ShapeInit, ShapeStep, StandingInit, StandingStep, AdminInit, AdminStep, <1>1, PTL DEF Spec

\* Without such an overlap, only the last administrator is not let go.
THEOREM OnlyTheLastIsRefused == Spec => RefusedOnlyLast
<1> DEFINE A == Without({"race"}) => \A r \in Requests :
                  req[r].pc # "refused" /\ req'[r].pc = "refused" =>
                    Admins(req[r].org) = {req[r].target}
<1>1. ASSUME Shape, AdminInv, [Next]_vars PROVE A
  <2> SUFFICES ASSUME Without({"race"}), NEW r \in Requests,
                      req[r].pc # "refused", req'[r].pc = "refused"
               PROVE  Admins(req[r].org) = {req[r].target}
    OBVIOUS
  <2>t. TypeOK BY <1>1 DEF Shape
  <2>1. Count(r)
    <3>1. PICK q \in Requests : Handler(q) \/ Asked(q)
      BY <1>1 DEF Next, vars
    <3>2. ASSUME NEW pc \in PCs \ {"refused"}, Goes(q, pc) PROVE FALSE
      BY <2>t, <3>2, GoesChangesPc
    <3>3. ~Asked(q)
      BY <2>t, AskedChanges
    <3>4. ~Probe(q) BY <2>t, ProbeChanges
    <3>5. ~(\E o \in Orgs : Registers(q, o) \/ Creates(q, o))
      <4>1. ~Collides(q) BY <2>t, CollidesChanges
      <4> QED BY <3>2, <4>1, RegistersCases DEF Creates, Founds
    <3>6. ~ReadOrg(q) /\ ~Updates(q) BY <3>2 DEF ReadOrg, Updates
    <3>7. ~ReadForInvite(q) /\ ~ReadMembership(q) BY <3>2 DEF ReadForInvite, ReadMembership
    <3>8. ~Write(q) BY <1>1, <3>2, WriteTypes
    <3>9. Count(q) BY <3>1, <3>3, <3>4, <3>5, <3>6, <3>7, <3>8 DEF Handler
    <3>10. q = r
      <4>1. PICK pc \in {"refused", "write"} : Goes(q, pc) BY <3>9 DEF Count
      <4> QED BY <2>t, <4>1, GoesChangesPc
    <3> QED BY <3>9, <3>10
  <2>2. req[r].target \in Admins(req[r].org)
    BY <1>1, <2>1 DEF AdminInv, CountsAdmin, Count
  <2>3. Cardinality(Admins(req[r].org)) <= 1
    <3> SUFFICES ASSUME Goes(r, "write") PROVE FALSE BY <2>1 DEF Count
    <3> QED BY <2>t, GoesChangesPc
  <2> QED BY <2>2, <2>3, OneAdmin
<1>2. Shape /\ AdminInv /\ [Next]_vars => [A]_vars
  BY <1>1
<1> QED
  BY ShapeInit, ShapeStep, StandingInit, StandingStep, AdminInit, AdminStep, <1>2, PTL
     DEF Spec, RefusedOnlyLast

-----------------------------------------------------------------------------
(* The attempts of register()                                              *)

\* The number j of the name n belongs to an organization when the slugs are f:
\* Taken(<<n, j>>, None) is TakenIn(slug, n, j).
TakenIn(f, n, j) == \E o \in DOMAIN f : f[o] = <<n, j>> /\ o # None

\* The numbers below k, and those of the attempts that failed, are taken; the number to be
\* inserted was free when it was read, so it is none of them.
Searched(r) ==
  req[r].op = "register" =>
    /\ req[r].pc \in {"probe", "insert"} =>
         \A j \in Nat : j < req[r].k \/ j < req[r].tries => TakenIn(slug, req[r].name, j)
    /\ req[r].pc = "insert" => req[r].tries <= req[r].k
    /\ req[r].pc = "gaveUp" => \A j \in 0..(MaxAttempts - 1) : TakenIn(slug, req[r].name, j)

SearchInv ==
  Without({"update"}) => \A r \in Requests : req[r].op # "update" /\ Searched(r)

\* Nobody gives a slug up without an update.
LEMMA StaysTaken ==
  ASSUME Shape, SearchInv, Without({"update"}), [Next]_vars, NEW n, NEW j, TakenIn(slug, n, j)
  PROVE  TakenIn(slug', n, j)
<1>t. TypeOK BY DEF Shape
<1>1. \A x \in DOMAIN slug : x \in DOMAIN slug' /\ slug'[x] = slug[x]
  <2>1. CASE UNCHANGED vars BY <2>1 DEF vars
  <2>2. ASSUME NEW r \in Requests, Asked(r) PROVE slug' = slug
    BY <1>t, <2>2, AskedChanges
  <2>3. ASSUME NEW r \in Requests, Handler(r), slug' # slug
        PROVE  \E o \in Orgs : req[r].pc = "insert" /\ Founds(r, o)
    <3>1. req[r].op # "update" BY DEF SearchInv
    <3>2. ~Updates(r) BY <3>1 DEF Updates
    <3>3. ~(ReadOrg(r) \/ Probe(r) \/ ReadForInvite(r) \/ ReadMembership(r) \/ Count(r) \/ Write(r))
      BY <2>3 DEF ReadOrg, Probe, ReadForInvite, ReadMembership, Count, Write
    <3>4. PICK o \in Orgs : Registers(r, o) \/ Creates(r, o) BY <2>3, <3>2, <3>3 DEF Handler
    <3>5. req[r].pc = "insert" /\ Founds(r, o)
      BY <2>3, <3>4 DEF Registers, Creates
    <3> QED BY <3>5
  <2>4. ASSUME NEW r \in Requests, Handler(r)
        PROVE  \A x \in DOMAIN slug : x \in DOMAIN slug' /\ slug'[x] = slug[x]
    <3>1. CASE slug' = slug BY <3>1
    <3>2. CASE slug' # slug
      <4>1. PICK o \in Orgs : req[r].pc = "insert" /\ Founds(r, o) BY <2>3, <2>4, <3>2
      <4> QED BY <4>1, FoundsOne
    <3> QED BY <3>1, <3>2
  <2> QED BY <2>1, <2>2, <2>4 DEF Next
<1>2. PICK x \in DOMAIN slug : slug[x] = <<n, j>> /\ x # None
  BY DEF TakenIn, Taken
<1>3. x \in DOMAIN slug' /\ slug'[x] = <<n, j>>
  BY <1>1, <1>2
<1> QED BY <1>2, <1>3 DEF TakenIn, Taken

LEMMA SearchStep ==
  ASSUME Shape, SearchInv, [Next]_vars
  PROVE  SearchInv'
<1>t. TypeOK /\ Shape' BY ShapeStep DEF Shape
<1>k. kinds' = kinds
  <2>1. \A r \in Requests : Handler(r) => kinds' = kinds
    BY LowersStays
  <2> QED BY <1>t, <2>1, AskedChanges DEF Next, vars
<1> SUFFICES ASSUME Without({"update"}) PROVE \A q \in Requests : req'[q].op # "update" /\ Searched(q)'
  BY <1>k DEF SearchInv, Without
<1>i. \A q \in Requests : req[q].op # "update" /\ Searched(q)
  BY DEF SearchInv
<1>m. \A n, j : TakenIn(slug, n, j) => TakenIn(slug', n, j)
  BY StaysTaken
<1>0. ASSUME NEW q \in Requests, req'[q] = req[q] PROVE req'[q].op # "update" /\ Searched(q)'
  <2>1. Searched(q) /\ req[q].op # "update" BY <1>i
  <2>2. \A j : TakenIn(slug, req[q].name, j) => TakenIn(slug', req[q].name, j) BY <1>m
  <2> QED BY <1>0, <2>1, <2>2 DEF Searched, TakenIn, Taken
<1>1. CASE UNCHANGED vars BY <1>0, <1>1 DEF vars
<1>2. ASSUME NEW r \in Requests, Asked(r)
      PROVE  req'[r].op # "update" /\ Searched(r)'
  <2>1. CASE \E u \in Users, n \in Names : Register(r, u, n)
    <3>1. req'[r].op = "register" /\ req'[r].k = 0 /\ req'[r].tries = 0
          /\ req'[r].pc \in {"conflict", "probe"}
      BY <1>t, <2>1 DEF Register, TypeOK, Request, NoRequest
    <3> QED BY <3>1 DEF Searched
  <2>2. CASE \E u \in Users, n \in Names : Create(r, u, n)
    <3>1. req'[r].op = "create" BY <1>t, <2>2 DEF Create, TypeOK, Request, NoRequest
    <3> QED BY <3>1 DEF Searched
  <2>3. CASE \E u \in Users, n \in Names, o \in Orgs : Update(r, u, o, n)
    BY <2>3 DEF Update, Without
  <2>4. CASE \E op \in MemberOperations, u, t \in Users, o \in Orgs, to \in Roles \cup {"none"} :
               Ask(r, op, u, o, t, to)
    <3>1. PICK op \in MemberOperations, u \in Users, t \in Users, o \in Orgs,
               to \in Roles \cup {"none"} : Ask(r, op, u, o, t, to)
      BY <2>4
    <3>2. req'[r].op = op BY <1>t, <3>1 DEF Ask, TypeOK, Request, NoRequest
    <3> QED BY <3>2 DEF Searched, MemberOperations
  <2> QED BY <1>2, <2>1, <2>2, <2>3, <2>4 DEF Asked, MemberOperations
<1>3. ASSUME NEW r \in Requests, Handler(r)
      PROVE  req'[r].op # "update" /\ Searched(r)'
  <2>k. req[r].k \in Nat /\ req[r].tries \in Nat BY <1>t DEF TypeOK, Request
  <2>i. req[r].op # "update" /\ Searched(r) BY <1>i
  <2>1. ASSUME NEW pc \in PCs \ {"probe", "insert", "gaveUp"}, Goes(r, pc)
        PROVE  req'[r].op # "update" /\ Searched(r)'
    BY <1>t, <2>1, <2>i, GoesChangesPc DEF Searched
  <2>2. CASE Probe(r)
    <3>1. CASE req[r].op # "register"
      BY <1>t, <2>2, <2>i, <3>1, ProbeChanges DEF Searched
    <3>2. CASE req[r].op = "register"
      <4>1. req[r].org = None BY <3>2 DEF Shape, Fits
      <4>2. req[r].pc = "probe" /\ req'[r].op = "register" /\ req'[r].name = req[r].name
            /\ req'[r].tries = req[r].tries
        BY <1>t, <2>2, <3>2, ProbeChanges
      <4>3. \A j \in Nat : j < req[r].k \/ j < req[r].tries => TakenIn(slug, req[r].name, j)
        BY <2>i, <3>2, <4>2 DEF Searched
      <4>4. \A j \in Nat : j < req[r].k \/ j < req[r].tries => TakenIn(slug', req[r].name, j)
        BY <1>m, <4>3
      <4>5. CASE /\ req'[r].pc = "probe" /\ req'[r].k = req[r].k + 1
                 /\ TakenIn(slug, req[r].name, req[r].k)
        <5>1. TakenIn(slug', req[r].name, req[r].k) BY <1>m, <4>5
        <5>2. \A j \in Nat : j < req'[r].k \/ j < req'[r].tries =>
                j < req[r].k \/ j < req[r].tries \/ j = req[r].k
          BY <2>k, <4>2, <4>5
        <5>3. \A j \in Nat : j < req'[r].k \/ j < req'[r].tries => TakenIn(slug', req'[r].name, j)
          BY <4>2, <4>4, <5>1, <5>2 DEF TakenIn, Taken
        <5> QED BY <4>2, <4>5, <5>3 DEF Searched
      <4>6. CASE req'[r].pc = "insert" /\ req'[r].k = req[r].k /\ ~TakenIn(slug, req[r].name, req[r].k)
        <5>1. req[r].tries <= req[r].k BY <2>k, <4>3, <4>6
        <5> QED BY <4>2, <4>4, <4>6, <5>1 DEF Searched, TakenIn, Taken
      <4> QED BY <1>t, <2>2, <4>1, <4>5, <4>6, ProbeChanges DEF TakenIn, Taken
    <3> QED BY <3>1, <3>2
  <2>3. CASE \E o \in Orgs : Registers(r, o)
    <3>1. PICK o \in Orgs : Registers(r, o) BY <2>3
    <3>2. CASE Goes(r, "conflict") BY <2>1, <3>2
    <3>3. CASE Founds(r, o) BY <2>1, <3>3 DEF Founds
    <3>4. CASE Collides(r)
      <4>1. /\ req[r].op = "register" /\ req[r].pc = "insert" /\ TakenIn(slug, req[r].name, req[r].k)
            /\ req'[r].op = "register" /\ req'[r].name = req[r].name
        BY <1>t, <3>4, CollidesChanges DEF Collides, TakenIn, Taken
      <4>2. \A j \in Nat : j <= req[r].k => TakenIn(slug', req[r].name, j)
        BY <1>m, <2>i, <2>k, <4>1 DEF Searched
      <4>3. req[r].tries <= req[r].k BY <2>i, <4>1 DEF Searched
      <4>4. CASE req'[r].pc = "probe" /\ req'[r].k = 0 /\ req'[r].tries = req[r].tries + 1
        <5>1. \A j \in Nat : j < req'[r].k \/ j < req'[r].tries => j <= req[r].k
          BY <2>k, <4>3, <4>4
        <5> QED BY <4>1, <4>2, <4>4, <5>1 DEF Searched, TakenIn, Taken
      <4>5. CASE req'[r].pc = "gaveUp" /\ req[r].tries + 1 >= MaxAttempts
        <5>1. \A j \in 0..(MaxAttempts - 1) : j \in Nat /\ j <= req[r].k
          BY <2>k, <4>3, <4>5, AttemptsAssumption
        <5> QED BY <4>1, <4>2, <4>5, <5>1 DEF Searched, TakenIn, Taken
      <4> QED BY <1>t, <3>4, <4>4, <4>5, CollidesChanges
    <3> QED BY <3>1, <3>2, <3>3, <3>4, RegistersCases
  <2>4. CASE \E o \in Orgs : Creates(r, o)
    <3>1. PICK pc \in {"error", "ok"} : Goes(r, pc) BY <2>4 DEF Creates, Founds
    <3> QED BY <2>1, <3>1
  <2>5. CASE ReadForInvite(r) \/ ReadMembership(r) \/ Count(r) \/ Write(r)
    <3>1. PICK pc \in {"missing", "conflict", "write", "counting", "refused", "ok", "error"} :
            Goes(r, pc)
      <4>1. CASE ReadForInvite(r) BY <4>1 DEF ReadForInvite
      <4>2. CASE ReadMembership(r) BY <4>2 DEF ReadMembership
      <4>3. CASE Count(r) BY <4>3 DEF Count
      <4>4. CASE Write(r) BY <4>4 DEF Write
      <4> QED BY <2>5, <4>1, <4>2, <4>3, <4>4
    <3> QED BY <2>1, <3>1
  <2>6. ~ReadOrg(r) /\ ~Updates(r) BY <2>i DEF ReadOrg, Updates
  <2> QED BY <1>3, <2>2, <2>3, <2>4, <2>5, <2>6 DEF Handler
<1>4. CASE Next
  <2>1. PICK r \in Requests : Handler(r) \/ Asked(r) BY <1>4 DEF Next
  <2>2. \A q \in Requests \ {r} : req'[q] = req[q] BY <1>t, <2>1, LowersStays, AskedChanges
  <2> QED BY <1>0, <1>2, <1>3, <2>1, <2>2
<1> QED BY <1>1, <1>4

\* A registration gives up only when all the numbers it tried are taken, as long as no
\* organization changes its name.
THEOREM RegisterGivesUpForAReason == Spec => []GivesUpOnlyIfTaken
<1>1. Init => SearchInv
  BY DEF Init, NoRequest, SearchInv, Searched
<1>2. Shape /\ SearchInv /\ [Next]_vars => SearchInv'
  BY SearchStep
<1>3. Shape /\ SearchInv => GivesUpOnlyIfTaken
  <2> SUFFICES ASSUME Shape, SearchInv, Without({"update"}), NEW r \in Requests,
                      req[r].pc = "gaveUp"
               PROVE  \A j \in 0..(MaxAttempts - 1) : Taken(<<req[r].name, j>>, None)
    BY DEF GivesUpOnlyIfTaken
  <2>1. req[r].op = "register"
    BY DEF Shape, Fits
  <2> QED BY <2>1 DEF SearchInv, Searched, TakenIn, Taken
<1> QED
  BY ShapeInit, ShapeStep, <1>1, <1>2, <1>3, PTL DEF Spec

(***************************************************************************)
(* The demonstration data                                                  *)
(*                                                                         *)
(* Nobody uses the application while the script runs: no step is one of    *)
(* Accounts, and each one is what one of these says (StepIsOne).           *)
(***************************************************************************)

Begun   == {"idle", "count", "look", "find", "deleteOrg"}
Filling == {"user", "member", "story"}

SeedShape ==
  /\ script \in [Seeds -> Script]
  /\ registered \subseteq Users /\ DOMAIN slug \subseteq Orgs
  /\ role \in [Orgs -> [Users -> Roles \cup {"none"}]]
  /\ rows \in [Orgs -> Nat]
  /\ \A s \in Seeds :
       /\ script[s].pc \in Filling \cup {"deleteOrg"} => script[s].org \in Orgs
       /\ script[s].pc \in {"user", "member"} => script[s].n \in {1, 2}
       /\ script[s].pc = "story" => script[s].n = 3
       /\ script[s].pc \notin Filling => script[s].n = 1

Unasked == \A r \in Requests : req[r].pc = "new"

\* Where a step leaves the run s; the others stay where they are.
Becomes(s, pc, org, n) ==
  /\ script' \in [Seeds -> Script]
  /\ \A t \in Seeds \ {s} : script'[t] = script[t]
  /\ script'[s].pc = pc /\ script'[s].org = org /\ script'[s].n = n

Same == UNCHANGED <<registered, slug, role, rows>>

\* A query, which finds what it looks for or not.
Reads(s) ==
  /\ Same /\ UNCHANGED last
  /\ \/ script[s].pc \in {"count", "find"} /\ Becomes(s, "idle", None, 1)
     \/ script[s].pc = "count" /\ Becomes(s, "look", script[s].org, 1)
     \/ script[s].pc = "look" /\ ~Absent /\ Becomes(s, "find", script[s].org, 1)
     \/ script[s].pc \in {"look", "find"} /\ Absent /\ Becomes(s, "org", script[s].org, 1)
     \/ script[s].pc = "find" /\ \E o \in Orgs : Found(o) /\ Becomes(s, "deleteOrg", o, 1)

\* Why a query fails.
Reason(s) ==
  /\ script[s].pc \notin {"idle", "count", "look", "find"}
  /\ script[s].pc \in {"deleteOrg", "story"} => script[s].org \notin DOMAIN slug
  /\ script[s].pc = "deleteUsers" => audited \cap Demo \cap registered # {}
  /\ script[s].pc = "org" => ~Absent
  /\ script[s].pc = "user" => USUARIOS[script[s].n] \in registered
  /\ script[s].pc = "member" =>
       script[s].org \notin DOMAIN slug \/ USUARIOS[script[s].n] \notin registered

Stops(s) ==
  /\ Same /\ Becomes(s, "idle", None, 1) /\ script[s].pc # "idle"
  /\ \/ last' = "failed" /\ Reason(s)
     \/ last' = "crashed"

DropsOrg(s) ==
  LET o == script[s].org IN
  /\ script[s].pc = "deleteOrg" /\ Becomes(s, "deleteUsers", o, 1)
  /\ slug' = [x \in DOMAIN slug \ {o} |-> slug[x]]
  /\ role' = [role EXCEPT ![o] = [u \in Users |-> "none"]]
  /\ rows' = [rows EXCEPT ![o] = 0]
  /\ UNCHANGED <<registered, last>>

DropsUsers(s) ==
  /\ script[s].pc = "deleteUsers"
  /\ registered' = registered \ Demo
  /\ role' = [o \in Orgs |-> [u \in Users |-> IF u \in Demo THEN "none" ELSE role[o][u]]]
  /\ UNCHANGED <<slug, rows>>
  /\ \/ Becomes(s, "idle", None, 1) /\ last' = "removed"
     \/ Becomes(s, "org", None, 1) /\ UNCHANGED last

AddsOrg(s, o) ==
  /\ script[s].pc = "org" /\ Absent /\ o \notin DOMAIN slug
  /\ Becomes(s, "user", o, 1)
  /\ slug' = [x \in DOMAIN slug \cup {o} |-> IF x = o THEN SLUG_ORG ELSE slug[x]]
  /\ \A t \in Seeds : script[t].org # o
  /\ UNCHANGED <<registered, role, rows, last>>

AddsUser(s) ==
  LET u == USUARIOS[script[s].n] IN
  /\ script[s].pc = "user" /\ u \notin registered
  /\ Becomes(s, "member", script[s].org, script[s].n)
  /\ registered' = registered \cup {u}
  /\ UNCHANGED <<slug, role, rows, last>>

AddsMember(s) ==
  LET u == USUARIOS[script[s].n]
      o == script[s].org IN
  /\ script[s].pc = "member" /\ o \in DOMAIN slug /\ u \in registered
  /\ role' = [role EXCEPT ![o][u] = RoleOf[u]]
  /\ Becomes(s, IF script[s].n = 2 THEN "story" ELSE "user", o, script[s].n + 1)
  /\ UNCHANGED <<registered, slug, rows, last>>

Tells(s) ==
  LET o == script[s].org IN
  /\ script[s].pc = "story" /\ o \in DOMAIN slug
  /\ rows' = [rows EXCEPT ![o] = rows[o] + 1]
  /\ UNCHANGED <<registered, slug, role>>
  /\ \/ rows'[o] = Len(Story) /\ last' = "seeded" /\ Becomes(s, "idle", None, 1)
     \/ rows'[o] # Len(Story) /\ UNCHANGED last /\ Becomes(s, "story", o, 3)

Starts(s) ==
  /\ script[s].pc = "idle"
  /\ Without({"overlap"}) => \A t \in Seeds : script[t].pc = "idle"
  /\ Same /\ UNCHANGED last
  /\ \E pc \in {"count", "look", "find"} : Becomes(s, pc, script[s].org, 1)

\* A step of the run s.
OneOf(s) ==
  \/ Reads(s) \/ Stops(s) \/ DropsOrg(s) \/ DropsUsers(s) \/ AddsUser(s) \/ AddsMember(s)
  \/ Tells(s) \/ Starts(s)
  \/ \E o \in Orgs : AddsOrg(s, o)

Places == Working \cup {"idle"}

LEMMA Moved ==
  ASSUME SeedShape, NEW s \in Seeds, NEW pc \in Places, Move(s, pc)
  PROVE  Becomes(s, pc, script[s].org, script[s].n)
BY DEF SeedShape, Script, Places, Move, Becomes

LEMMA Ended ==
  ASSUME SeedShape, NEW s \in Seeds, script' = [script EXCEPT ![s] = Idle]
  PROVE  Becomes(s, "idle", None, 1)
<1>1. Idle \in Script
  BY DEF Idle, Script, Modes
<1> QED
  BY <1>1 DEF SeedShape, Becomes, Idle

\* What a run looks for.
LEMMA ReadsIs ==
  ASSUME SeedShape, NEW s \in Seeds, CountReal(s) \/ Look(s) \/ Find(s)
  PROVE  Reads(s)
<1>1. script[s] \in Script /\ script[s].pc \in {"count", "look", "find"} /\ script[s].n = 1
  BY DEF SeedShape, CountReal, Look, Find, Filling
<1>2. Same
  BY DEF CountReal, Look, Find, vars, Same
<1>3. CASE CountReal(s)
  <2>1. Move(s, "look") => Becomes(s, "look", script[s].org, 1)
    BY <1>1, Moved DEF Places, Working
  <2> QED BY <1>1, <1>2, <1>3, <2>1, Ended DEF CountReal, Returns, Reads
<1>4. CASE Look(s)
  <2>1. /\ Move(s, "org") => Becomes(s, "org", script[s].org, 1)
        /\ Move(s, "find") => Becomes(s, "find", script[s].org, 1)
    BY <1>1, Moved DEF Places, Working
  <2> QED BY <1>1, <1>2, <1>4, <2>1 DEF Look, Reads
<1>5. CASE Find(s)
  <2>1. Move(s, "org") => Becomes(s, "org", script[s].org, 1)
    BY <1>1, Moved DEF Places, Working
  <2>2. ASSUME NEW o \in Orgs, script' = [script EXCEPT ![s].pc = "deleteOrg", ![s].org = o]
        PROVE  Becomes(s, "deleteOrg", o, 1)
    BY <1>1, <2>2 DEF SeedShape, Becomes, Script, Working
  <2> QED BY <1>1, <1>2, <1>5, <2>1, <2>2, Ended DEF Find, Returns, Reads
<1> QED
  BY <1>3, <1>4, <1>5

\* What a run deletes.
LEMMA DropsIs ==
  ASSUME SeedShape, NEW s \in Seeds, DeleteOrg(s) \/ DeleteUsers(s)
  PROVE  Stops(s) \/ DropsOrg(s) \/ DropsUsers(s)
<1>1. script[s] \in Script /\ script[s].n = 1
  BY DEF SeedShape, DeleteOrg, DeleteUsers, Filling
<1>2. CASE DeleteOrg(s)
  <2>1. CASE script[s].org \notin DOMAIN slug
    <3>1. Ends(s, "failed") /\ Same /\ script[s].pc = "deleteOrg"
      BY <1>2, <2>1 DEF DeleteOrg, vars, Same
    <3> QED BY <2>1, <3>1, Ended DEF Ends, Stops, Reason
  <2>2. CASE script[s].org \in DOMAIN slug
    <3>1. Becomes(s, "deleteUsers", script[s].org, 1)
      BY <1>1, <1>2, <2>2, Moved DEF DeleteOrg, Places, Working
    <3> QED BY <1>2, <2>2, <3>1 DEF DeleteOrg, DropsOrg
  <2> QED BY <2>1, <2>2
<1>3. CASE DeleteUsers(s)
  <2>1. CASE audited \cap Demo \cap registered # {}
    <3>1. Ends(s, "failed") /\ Same /\ script[s].pc = "deleteUsers"
      BY <1>3, <2>1 DEF DeleteUsers, Same
    <3> QED BY <2>1, <3>1, Ended DEF Ends, Stops, Reason
  <2>2. CASE ~(audited \cap Demo \cap registered # {})
    <3>1. ASSUME script' = [script EXCEPT ![s].pc = "org", ![s].org = None]
          PROVE  Becomes(s, "org", None, 1)
      BY <1>1, <3>1 DEF SeedShape, Becomes, Script, Working
    <3> QED BY <1>3, <2>2, <3>1, Ended DEF DeleteUsers, Ends, DropsUsers
  <2> QED BY <2>1, <2>2
<1> QED
  BY <1>2, <1>3

\* What a run creates.
LEMMA OrgIs ==
  ASSUME SeedShape, NEW s \in Seeds, NEW o \in Orgs, CreateOrg(s, o)
  PROVE  Stops(s) \/ AddsOrg(s, o)
<1>1. script[s] \in Script /\ script[s].pc = "org" /\ script[s].n = 1
  BY DEF SeedShape, CreateOrg, Filling
<1>2. CASE ~Absent
  <2>1. Ends(s, "failed") /\ Same
    BY <1>2 DEF CreateOrg, Same
  <2> QED BY <1>1, <1>2, <2>1, Ended DEF Ends, Stops, Reason
<1>3. CASE Absent
  <2>1. script' = [script EXCEPT ![s].pc = "user", ![s].org = o]
    BY <1>3 DEF CreateOrg
  <2>2. Becomes(s, "user", o, 1)
    BY <1>1, <2>1 DEF SeedShape, Becomes, Script, Working
  <2> QED BY <1>1, <1>3, <2>2 DEF CreateOrg, AddsOrg
<1> QED
  BY <1>2, <1>3

LEMMA UserIs ==
  ASSUME SeedShape, NEW s \in Seeds, CreateUser(s)
  PROVE  Stops(s) \/ AddsUser(s)
<1>1. CASE USUARIOS[script[s].n] \in registered
  <2>1. Ends(s, "failed") /\ Same /\ script[s].pc = "user"
    BY <1>1 DEF CreateUser, Same
  <2> QED BY <1>1, <2>1, Ended DEF Ends, Stops, Reason
<1>2. CASE USUARIOS[script[s].n] \notin registered
  <2>1. Becomes(s, "member", script[s].org, script[s].n)
    BY <1>2, Moved DEF CreateUser, Places, Working
  <2> QED BY <1>2, <2>1 DEF CreateUser, AddsUser
<1> QED
  BY <1>1, <1>2

LEMMA MembersIs ==
  ASSUME SeedShape, NEW s \in Seeds, CreateMember(s)
  PROVE  Stops(s) \/ AddsMember(s)
<1> DEFINE u == USUARIOS[script[s].n]
           o == script[s].org
<1>1. script[s] \in Script /\ script[s].pc = "member" /\ script[s].n \in {1, 2}
  BY DEF SeedShape, CreateMember
<1>2. CASE o \notin DOMAIN slug \/ u \notin registered
  <2>1. Ends(s, "failed") /\ Same
    BY <1>2 DEF CreateMember, Same
  <2> QED BY <1>1, <1>2, <2>1, Ended DEF Ends, Stops, Reason
<1>3. CASE o \in DOMAIN slug /\ u \in registered
  <2>1. /\ role' = [role EXCEPT ![o][u] = RoleOf[u]]
        /\ UNCHANGED <<registered, slug, rows, last>>
    BY <1>3 DEF CreateMember
  <2>2. script' = [script EXCEPT ![s].n = script[s].n + 1,
                     ![s].pc = IF script[s].n = 2 THEN "story" ELSE "user"]
    <3>1. Len(USUARIOS) = 2
      BY DEF USUARIOS
    <3> QED BY <1>3, <3>1 DEF CreateMember
  <2>3. Becomes(s, IF script[s].n = 2 THEN "story" ELSE "user", o, script[s].n + 1)
    BY <1>1, <2>2 DEF SeedShape, Becomes, Script, Working
  <2> QED BY <1>1, <1>3, <2>1, <2>3 DEF AddsMember
<1> QED
  BY <1>2, <1>3

LEMMA TellsIs ==
  ASSUME SeedShape, NEW s \in Seeds, Tell(s)
  PROVE  Stops(s) \/ Tells(s)
<1> DEFINE o == script[s].org
<1>1. script[s] \in Script /\ script[s].pc = "story" /\ script[s].n = 3
  BY DEF SeedShape, Tell
<1>2. CASE o \notin DOMAIN slug
  <2>1. Ends(s, "failed") /\ Same
    BY <1>2 DEF Tell, Same, vars
  <2> QED BY <1>1, <1>2, <2>1, Ended DEF Ends, Stops, Reason
<1>3. CASE o \in DOMAIN slug
  <2>1. rows' = [rows EXCEPT ![o] = rows[o] + 1] /\ UNCHANGED <<registered, slug, role>>
    BY <1>3 DEF Tell, vars
  <2>2. CASE rows'[o] = Len(Story)
    <3>1. Ends(s, "seeded")
      BY <1>3, <2>2 DEF Tell
    <3> QED BY <1>1, <1>3, <2>1, <2>2, <3>1, Ended DEF Ends, Tells
  <2>3. CASE rows'[o] # Len(Story)
    <3>1. UNCHANGED <<script, last>>
      BY <1>3, <2>3 DEF Tell
    <3>2. Becomes(s, "story", o, 3)
      BY <1>1, <3>1 DEF SeedShape, Becomes
    <3> QED BY <1>1, <1>3, <2>1, <2>3, <3>1, <3>2 DEF Tells
  <2> QED BY <2>2, <2>3
<1> QED
  BY <1>2, <1>3

LEMMA StartsIs ==
  ASSUME SeedShape, NEW s \in Seeds, NEW mode \in Modes, Begin(s, mode)
  PROVE  Starts(s)
<1> DEFINE pc == CASE mode = "seed" -> "count" [] mode = "--forzar" -> "look" [] OTHER -> "find"
<1>1. script[s] \in Script /\ script[s].pc = "idle" /\ script[s].n = 1
  BY DEF SeedShape, Begin, Filling
<1>2. script' = [script EXCEPT ![s].mode = mode, ![s].pc = pc]
  BY DEF Begin
<1>3. pc \in {"count", "look", "find"}
  BY DEF Modes
<1>4. Becomes(s, pc, script[s].org, 1)
  <2> HIDE DEF pc
  <2> QED BY <1>1, <1>2, <1>3 DEF SeedShape, Becomes, Script, Working
<1>5. /\ Without({"overlap"}) => \A t \in Seeds : script[t].pc = "idle"
      /\ Same /\ UNCHANGED last
  BY DEF Begin, Without, vars, Same
<1> QED
  BY <1>1, <1>3, <1>4, <1>5 DEF Starts

\* Every step of the script is one of a run.
LEMMA StepsAreOne ==
  ASSUME SeedShape, NEW s \in Seeds, Steps(s)
  PROVE  UNCHANGED <<req, kinds, audited>> /\ OneOf(s)
<1>1. UNCHANGED <<req, kinds, audited>>
  BY DEF Steps, CountReal, Look, Find, DeleteOrg, DeleteUsers, CreateUser, CreateMember, Tell,
              Crash, CreateOrg, vars
<1>2. CASE Crash(s)
  BY <1>2, Ended DEF Crash, Ends, vars, Same, OneOf, Stops
<1>3. CASE CountReal(s) \/ Look(s) \/ Find(s)
  BY <1>1, <1>3, ReadsIs DEF OneOf
<1>4. CASE DeleteOrg(s) \/ DeleteUsers(s)
  BY <1>1, <1>4, DropsIs DEF OneOf
<1>5. CASE CreateUser(s) \/ CreateMember(s) \/ Tell(s)
  BY <1>1, <1>5, UserIs, MembersIs, TellsIs DEF OneOf
<1>6. CASE \E o \in Orgs : CreateOrg(s, o)
  BY <1>1, <1>6, OrgIs DEF OneOf
<1> QED BY <1>1, <1>2, <1>3, <1>4, <1>5, <1>6 DEF Steps

LEMMA BeginIsOne ==
  ASSUME SeedShape, NEW s \in Seeds, NEW mode \in Modes, Begin(s, mode)
  PROVE  UNCHANGED <<req, kinds, audited>> /\ OneOf(s)
<1>1. UNCHANGED <<req, kinds, audited>>
  BY DEF Begin, vars
<1>2. Starts(s)
  BY StartsIs
<1> QED BY <1>1, <1>2 DEF OneOf

\* While nobody uses the application every step is one of a run, or the AI takes a note.
LEMMA StepIsOne ==
  ASSUME SeedShape, Unasked, Without(Operations), SeedNext
  PROVE  /\ UNCHANGED <<req, kinds>>
         /\ \/ \E s \in Seeds : OneOf(s) /\ UNCHANGED audited
            \/ UNCHANGED <<script, registered, slug, role, rows, last>> /\ "ai" \in kinds
<1>1. ~Next
  <2> SUFFICES ASSUME NEW r \in Requests, Handler(r) \/ Asked(r) PROVE FALSE
    BY DEF Next
  <2>1. req[r].pc = "new"
    BY DEF Unasked
  <2>2. ~Handler(r)
    BY <2>1 DEF Handler, ReadOrg, Probe, Updates, ReadForInvite, ReadMembership, Count, Write,
                Registers, Creates
  <2>3. ~Asked(r)
    <3>1. \A op \in Operations : op \notin kinds
      BY DEF Without
    <3>2. ~\E u \in Users, n \in Names :
              Register(r, u, n) \/ Create(r, u, n) \/ \E o \in Orgs : Update(r, u, o, n)
      BY <3>1 DEF Register, Create, Update
    <3>3. \A op \in Operations, u, t \in Users, o \in Orgs, to \in Roles \cup {"none"} :
            ~Ask(r, op, u, o, t, to)
      BY <3>1 DEF Ask
    <3> QED BY <3>2, <3>3 DEF Asked
  <2> QED BY <2>2, <2>3
<1>2. CASE \E u \in Users : UseAi(u)
  BY <1>2 DEF UseAi, vars
<1> QED
  BY <1>1, <1>2, StepsAreOne, BeginIsOne DEF SeedNext

-----------------------------------------------------------------------------
\* There is one organization of the demonstration at most, and a run that fills or deletes one
\* that is there fills or deletes that one.
FoundInv ==
  /\ \A o, p \in Orgs : Found(o) /\ Found(p) => o = p
  /\ \A s \in Seeds :
       script[s].pc \in Filling \cup {"deleteOrg"} /\ script[s].org \in DOMAIN slug =>
         Found(script[s].org)

Seated(o, u) == u \in registered /\ role[o][u] = RoleOf[u]

\* Alone, a run knows what it has written so far.
Filled(s) ==
  LET n == script[s].n
      o == script[s].org IN
  /\ script[s].pc \in Filling \cup {"deleteOrg"} => o \in DOMAIN slug
  /\ script[s].pc \in Filling => (n > 1 => Seated(o, Ana)) /\ (n > 2 => Seated(o, Dani))
  /\ script[s].pc = "member" => USUARIOS[n] \in registered
  /\ script[s].pc \in {"deleteUsers", "org"} => Absent

AloneInv ==
  Without({"overlap"}) =>
    /\ \A s, t \in Seeds : script[s].pc # "idle" /\ script[t].pc # "idle" => s = t
    /\ \A s \in Seeds : Filled(s)

\* What was seeded is there until somebody begins to delete it.
ToldInv ==
  last = "seeded" /\ (\A s \in Seeds : script[s].pc \in Begun) =>
    \E o \in Orgs : Told(o) /\ (Without({"overlap"}) => Peopled(o))

\* Alone and not after an interruption, a run does not find what is in its way.
Vacant(s) ==
  /\ script[s].pc \in {"count", "look", "find", "org"} => (Absent => registered \cap Demo = {})
  /\ script[s].pc = "user" => (script[s].n = 1 => Ana \notin registered) /\ Dani \notin registered
  /\ script[s].pc = "member" /\ script[s].n = 1 => Dani \notin registered

RepairInv ==
  Without({"overlap", "ai"}) =>
    /\ audited = {}
    /\ last # "crashed" =>
         /\ \A s \in Seeds : Vacant(s)
         /\ Quiet /\ Absent => registered \cap Demo = {}

SeedInv == SeedShape /\ Unasked /\ FoundInv /\ AloneInv /\ ToldInv /\ RepairInv

LEMMA People ==
  /\ USUARIOS[1] = Ana /\ USUARIOS[2] = Dani /\ Ana \in Users /\ Dani \in Users /\ Ana # Dani
  /\ RoleOf[Ana] = "ADMIN" /\ RoleOf[Dani] = "EDITOR" /\ Demo = {Ana, Dani}
  /\ RoleOf \in [Demo -> Roles]
BY DemoAssumption, RolesAssumption, RunsAssumption DEF USUARIOS, RoleOf, Demo

LEMMA MemberIs ==
  ASSUME SeedShape, NEW s \in Seeds, AddsMember(s)
  PROVE  LET u == USUARIOS[script[s].n]
             o == script[s].org IN
         /\ u \in Demo /\ o \in Orgs
         /\ role' \in [Orgs -> [Users -> Roles \cup {"none"}]]
         /\ role'[o][u] = RoleOf[u]
         /\ \A v \in Users : v # u => role'[o][v] = role[o][v]
<1> DEFINE u == USUARIOS[script[s].n]
           o == script[s].org
<1>1. u \in Demo /\ u \in Users /\ o \in Orgs /\ RoleOf[u] \in Roles
  BY People DEF SeedShape, AddsMember, Filling
<1>2. role \in [Orgs -> [Users -> Roles \cup {"none"}]] /\ role' = [role EXCEPT ![o][u] = RoleOf[u]]
  BY DEF SeedShape, AddsMember
<1> HIDE DEF u, o
<1>3. /\ role' \in [Orgs -> [Users -> Roles \cup {"none"}]]
      /\ role'[o][u] = RoleOf[u]
      /\ \A v \in Users : v # u => role'[o][v] = role[o][v]
  BY <1>1, <1>2
<1> QED
  BY <1>1, <1>3 DEF u, o

LEMMA ShapeStays ==
  ASSUME SeedShape, NEW s \in Seeds, OneOf(s)
  PROVE  SeedShape'
<1>1. CASE Reads(s) \/ Stops(s) \/ Starts(s)
  BY <1>1 DEF Reads, Stops, Starts, Becomes, Same, SeedShape, Filling
<1>2. CASE DropsOrg(s)
  <2>1. script[s].org \in Orgs
    BY <1>2 DEF SeedShape, DropsOrg
  <2>2. /\ DOMAIN slug' \subseteq Orgs /\ rows' \in [Orgs -> Nat]
        /\ role' \in [Orgs -> [Users -> Roles \cup {"none"}]]
    BY <1>2, <2>1 DEF DropsOrg, SeedShape
  <2>3. Becomes(s, "deleteUsers", script[s].org, 1) /\ UNCHANGED registered
    BY <1>2 DEF DropsOrg
  <2> QED BY <2>1, <2>2, <2>3 DEF Becomes, SeedShape, Filling
<1>3. CASE DropsUsers(s)
  BY <1>3 DEF DropsUsers, Becomes, SeedShape, Filling
<1>4. ASSUME NEW o \in Orgs, AddsOrg(s, o) PROVE SeedShape'
  BY <1>4 DEF AddsOrg, Becomes, SeedShape, Filling
<1>5. CASE AddsUser(s)
  BY <1>5, People DEF AddsUser, Becomes, SeedShape, Filling
<1>6. CASE AddsMember(s)
  <2>1. role' \in [Orgs -> [Users -> Roles \cup {"none"}]]
    BY <1>6, MemberIs
  <2>2. /\ script[s].org \in Orgs /\ script[s].n \in {1, 2}
        /\ UNCHANGED <<registered, slug, rows>>
        /\ Becomes(s, IF script[s].n = 2 THEN "story" ELSE "user", script[s].org, script[s].n + 1)
    BY <1>6 DEF AddsMember, SeedShape, Filling
  <2> QED BY <2>1, <2>2 DEF Becomes, SeedShape, Filling
<1>7. CASE Tells(s)
  <2>1. script[s].org \in Orgs
    BY <1>7 DEF SeedShape, Tells, Filling
  <2>2. rows' \in [Orgs -> Nat]
    BY <1>7, <2>1 DEF Tells, SeedShape
  <2> QED BY <1>7, <2>1, <2>2 DEF Tells, Becomes, SeedShape, Filling
<1> QED
  BY <1>1, <1>2, <1>3, <1>4, <1>5, <1>6, <1>7 DEF OneOf

LEMMA FoundStays ==
  ASSUME SeedShape, FoundInv, NEW s \in Seeds, OneOf(s)
  PROVE  FoundInv'
<1>1. CASE UNCHANGED slug
  <2>1. ASSUME NEW t \in Seeds, t # s,
               (script[t].pc \in Filling \cup {"deleteOrg"} /\ script[t].org \in DOMAIN slug)'
        PROVE  Found(script[t].org)'
    <3>1. script'[t] = script[t]
      <4>1. Becomes(s, script'[s].pc, script'[s].org, script'[s].n)
        BY DEF OneOf, Reads, Stops, Starts, DropsOrg, DropsUsers, AddsOrg, AddsUser, AddsMember,
               Tells, Becomes
      <4> QED BY <2>1, <4>1 DEF Becomes
    <3> QED BY <1>1, <2>1, <3>1 DEF FoundInv, Found
  <2>2. ASSUME (script[s].pc \in Filling \cup {"deleteOrg"} /\ script[s].org \in DOMAIN slug)'
        PROVE  Found(script[s].org)'
    <3>1. CASE Reads(s) \/ Stops(s) \/ Starts(s) \/ DropsOrg(s) \/ DropsUsers(s)
      BY <1>1, <2>2, <3>1 DEF Reads, Stops, Starts, DropsOrg, DropsUsers, Becomes, FoundInv, Found,
                              Filling
    <3>2. CASE AddsUser(s) \/ AddsMember(s) \/ Tells(s)
      BY <1>1, <2>2, <3>2 DEF AddsUser, AddsMember, Tells, Becomes, FoundInv, Found, Filling
    <3>3. ASSUME NEW o \in Orgs, AddsOrg(s, o) PROVE FALSE
      BY <1>1, <3>3 DEF AddsOrg
    <3> QED BY <3>1, <3>2, <3>3 DEF OneOf
  <2> QED BY <1>1, <2>1, <2>2 DEF FoundInv, Found
<1>2. CASE DropsOrg(s)
  BY <1>2 DEF DropsOrg, Becomes, FoundInv, Found, Filling
<1>3. ASSUME NEW o \in Orgs, AddsOrg(s, o) PROVE FoundInv'
  BY <1>3 DEF AddsOrg, Becomes, FoundInv, Found, Filling, Absent
<1> QED
  BY <1>1, <1>2, <1>3
  DEF OneOf, Reads, Stops, Starts, DropsUsers, AddsUser, AddsMember, Tells, Same

\* Alone, the others are idle and the run goes on with what it wrote.
LEMMA AloneStays ==
  ASSUME SeedShape, FoundInv, AloneInv, NEW s \in Seeds, OneOf(s), UNCHANGED kinds
  PROVE  AloneInv'
<1> SUFFICES ASSUME Without({"overlap"})
             PROVE  /\ \A t, u \in Seeds : (script[t].pc # "idle" /\ script[u].pc # "idle")' => t = u
                    /\ \A t \in Seeds : Filled(t)'
  BY DEF AloneInv, Without
<1>1. Filled(s) /\ \A t \in Seeds \ {s} : script[t].pc = "idle"
  <2>1. CASE script[s].pc # "idle"
    BY <2>1 DEF AloneInv
  <2>2. CASE script[s].pc = "idle"
    <3>1. Starts(s)
      BY <2>2 DEF OneOf, Reads, Stops, DropsOrg, DropsUsers, AddsOrg, AddsUser, AddsMember, Tells
    <3> QED BY <3>1 DEF Starts, AloneInv
  <2> QED BY <2>1, <2>2
<1>2. \A t \in Seeds \ {s} : script'[t].pc = "idle"
  <2>1. Becomes(s, script'[s].pc, script'[s].org, script'[s].n)
    BY DEF OneOf, Reads, Stops, Starts, DropsOrg, DropsUsers, AddsOrg, AddsUser, AddsMember, Tells,
           Becomes
  <2> QED BY <1>1, <2>1 DEF Becomes
<1>3. \A t \in Seeds \ {s} : Filled(t)'
  BY <1>2 DEF Filled, Filling
<1>4. Filled(s)'
  <2>1. CASE Reads(s)
    BY <2>1 DEF Reads, Becomes, Same, Filled, Filling, Found, Absent
  <2>2. CASE Stops(s) \/ Starts(s)
    BY <2>2 DEF Stops, Starts, Becomes, Filled, Filling
  <2>3. CASE DropsOrg(s)
    <3>1. Absent'
      <4>1. script[s].org \in Orgs /\ Found(script[s].org)
        BY <1>1, <2>3 DEF DropsOrg, SeedShape, FoundInv, Filled, Filling
      <4>2. slug' = [x \in DOMAIN slug \ {script[s].org} |-> slug[x]]
        BY <2>3 DEF DropsOrg
      <4> QED BY <4>1, <4>2 DEF FoundInv, Absent, Found
    <3> QED BY <2>3, <3>1 DEF DropsOrg, Becomes, Filled, Filling
  <2>4. CASE DropsUsers(s)
    <3>1. Absent'
      <4>1. Absent
        BY <1>1, <2>4 DEF DropsUsers, Filled
      <4> QED BY <2>4, <4>1 DEF DropsUsers, Absent, Found
    <3> QED BY <2>4, <3>1 DEF DropsUsers, Becomes, Filled, Filling
  <2>5. ASSUME NEW o \in Orgs, AddsOrg(s, o) PROVE Filled(s)'
    BY <2>5 DEF AddsOrg, Becomes, Filled, Filling
  <2>6. CASE AddsUser(s)
    BY <1>1, <2>6 DEF AddsUser, Becomes, Filled, Filling, Seated
  <2>7. CASE AddsMember(s)
    <3>1. /\ script[s].n \in {1, 2} /\ script[s].org \in DOMAIN slug
          /\ USUARIOS[script[s].n] \in registered
          /\ script[s].n > 1 => Seated(script[s].org, Ana)
      BY <1>1, <2>7 DEF SeedShape, AddsMember, Filled, Filling
    <3>2. /\ UNCHANGED <<registered, slug>>
          /\ Becomes(s, IF script[s].n = 2 THEN "story" ELSE "user", script[s].org, script[s].n + 1)
      BY <2>7 DEF AddsMember
    <3>3. /\ (script'[s].n > 1 => Seated(script[s].org, Ana)')
          /\ (script'[s].n > 2 => Seated(script[s].org, Dani)')
      BY <2>7, <3>1, <3>2, MemberIs, People DEF Becomes, Seated
    <3> QED BY <3>1, <3>2, <3>3 DEF Becomes, Filled, Filling, Seated
  <2>8. CASE Tells(s)
    <3>1. /\ script[s].n = 3 /\ script[s].org \in DOMAIN slug
          /\ Seated(script[s].org, Ana) /\ Seated(script[s].org, Dani)
      BY <1>1, <2>8 DEF SeedShape, Tells, Filled, Filling
    <3>2. /\ UNCHANGED <<registered, slug, role>>
          /\ Becomes(s, "idle", None, 1) \/ Becomes(s, "story", script[s].org, 3)
      BY <2>8 DEF Tells
    <3> QED BY <3>1, <3>2 DEF Becomes, Filled, Filling, Seated
  <2> QED BY <2>1, <2>2, <2>3, <2>4, <2>5, <2>6, <2>7, <2>8 DEF OneOf
<1> QED
  BY <1>2, <1>3, <1>4

LEMMA ToldStays ==
  ASSUME SeedShape, FoundInv, AloneInv, ToldInv, NEW s \in Seeds, OneOf(s), UNCHANGED kinds
  PROVE  ToldInv'
<1> SUFFICES ASSUME last' = "seeded", \A t \in Seeds : script'[t].pc \in Begun
             PROVE  \E o \in Orgs : (Told(o) /\ (Without({"overlap"}) => Peopled(o)))'
  BY DEF ToldInv
<1>1. CASE Same /\ UNCHANGED last /\ script[s].pc \in Begun
  <2>1. \A t \in Seeds : script[t].pc \in Begun
    <3>1. Becomes(s, script'[s].pc, script'[s].org, script'[s].n)
      BY DEF OneOf, Reads, Stops, Starts, DropsOrg, DropsUsers, AddsOrg, AddsUser, AddsMember,
             Tells, Becomes
    <3> QED BY <1>1, <3>1 DEF Becomes
  <2>2. PICK o \in Orgs : Told(o) /\ (Without({"overlap"}) => Peopled(o))
    BY <1>1, <2>1 DEF ToldInv
  <2> QED BY <1>1, <2>2 DEF Same, Told, Found, Peopled, Without
<1>2. CASE Tells(s)
  <2>0. PICK o \in Orgs : o = script[s].org
    BY <1>2 DEF Tells, SeedShape, Filling
  <2>1. /\ script[s].pc = "story" /\ o \in DOMAIN slug /\ o \in Orgs /\ script[s].n = 3
        /\ UNCHANGED <<registered, slug, role>>
    BY <1>2, <2>0 DEF Tells, SeedShape, Filling
  <2>2. rows'[o] = Len(Story)
    <3>1. ~Becomes(s, "story", o, 3)
      BY DEF Becomes, Begun
    <3> QED BY <1>2, <2>0, <3>1 DEF Tells
  <2>3. Told(o)'
    BY <2>0, <2>1, <2>2 DEF FoundInv, Told, Found, Filling
  <2>4. Without({"overlap"}) => Peopled(o)
    BY <2>0, <2>1, People DEF AloneInv, Filled, Filling, Seated, Peopled
  <2> QED BY <2>1, <2>3, <2>4 DEF Peopled, Without
<1>3. ~Stops(s) /\ ~DropsOrg(s)
  BY DEF Stops, DropsOrg, Becomes, Begun
<1>4. ~DropsUsers(s) /\ (\A o \in Orgs : ~AddsOrg(s, o)) /\ ~AddsUser(s)
  BY DEF DropsUsers, AddsOrg, AddsUser, Becomes, Begun
<1>5. ~AddsMember(s)
  BY DEF AddsMember, Becomes, Begun
<1>6. CASE Reads(s) \/ Starts(s)
  BY <1>1, <1>6 DEF Reads, Starts, Begun
<1> QED
  BY <1>2, <1>3, <1>4, <1>5, <1>6 DEF OneOf

\* Alone and without the AI, a run that nothing interrupts has no reason to stop, unless one
\* before it was interrupted.
LEMMA NoReason ==
  ASSUME SeedShape, AloneInv, RepairInv, Without({"overlap", "ai"}), NEW s \in Seeds, Reason(s),
         script[s].pc \in Working
  PROVE  last = "crashed"
<1> SUFFICES ASSUME last # "crashed" PROVE FALSE
  OBVIOUS
<1>1. audited = {} /\ Vacant(s)
  BY DEF RepairInv
<1>2. Filled(s)
  BY DEF AloneInv, Without
<1>3. script[s].pc \in {"deleteOrg", "deleteUsers", "org", "user", "member", "story"}
  BY DEF Reason, Working
<1>4. script[s].pc = "user" => USUARIOS[script[s].n] \notin registered
  BY <1>1, People DEF SeedShape, Vacant
<1> QED
  BY <1>1, <1>2, <1>3, <1>4 DEF Reason, Filled, Filling

LEMMA RepairStays ==
  ASSUME SeedShape, FoundInv, AloneInv, RepairInv, NEW s \in Seeds, OneOf(s),
         UNCHANGED <<audited, kinds>>
  PROVE  RepairInv'
<1> SUFFICES ASSUME Without({"overlap", "ai"}), last' # "crashed"
             PROVE  /\ \A t \in Seeds : Vacant(t)'
                    /\ (Quiet /\ Absent)' => registered' \cap Demo = {}
  BY DEF RepairInv, Without
<1>1. /\ \A t \in Seeds : script[s].pc # "idle" /\ script[t].pc # "idle" => t = s
      /\ Filled(s) /\ Without({"overlap"})
  BY DEF AloneInv, Without
<1>2. \A t \in Seeds \ {s} : script'[t].pc = "idle"
  <2>1. Becomes(s, script'[s].pc, script'[s].org, script'[s].n)
    BY DEF OneOf, Reads, Stops, Starts, DropsOrg, DropsUsers, AddsOrg, AddsUser, AddsMember, Tells,
           Becomes
  <2>2. \A t \in Seeds \ {s} : script[t].pc = "idle"
    <3>1. script[s].pc = "idle" => Starts(s)
      BY DEF OneOf, Reads, Stops, DropsOrg, DropsUsers, AddsOrg, AddsUser, AddsMember, Tells
    <3> QED BY <1>1, <3>1 DEF Starts
  <2> QED BY <2>1, <2>2 DEF Becomes
<1>3. \A t \in Seeds \ {s} : Vacant(t)'
  BY <1>2 DEF Vacant
<1>4. SUFFICES Vacant(s)' /\ (script'[s].pc = "idle" /\ Absent' => registered' \cap Demo = {})
  BY <1>3 DEF Quiet
<1>5. last # "crashed" => Vacant(s) /\ (Quiet /\ Absent => registered \cap Demo = {})
  BY DEF RepairInv
<1>6. CASE Reads(s)
  BY <1>5, <1>6 DEF Reads, Becomes, Same, Vacant, Absent, Found
<1>7. CASE Starts(s)
  <2>1. Quiet
    BY <1>1, <1>7 DEF Starts, Quiet
  <2> QED BY <1>5, <1>7, <2>1 DEF Starts, Becomes, Same, Vacant, Absent, Found
<1>8. CASE Stops(s)
  <2>1. script'[s].pc = "idle" /\ Same /\ last' = "failed" /\ Reason(s) /\ audited = {}
    BY <1>8 DEF Stops, Becomes, RepairInv
  \* It fails at an email that is taken, and leaves its organization there for the next one.
  <2>2. script[s].pc = "user" /\ script[s].org \in DOMAIN slug
    <3>1. script[s].pc \in {"deleteOrg", "deleteUsers", "org", "user", "member", "story"}
      BY <2>1 DEF Reason, SeedShape, Script, Working
    <3> QED BY <1>1, <2>1, <3>1 DEF Reason, Filled, Filling
  <2>3. ~Absent'
    BY <2>1, <2>2 DEF FoundInv, SeedShape, Filling, Same, Absent, Found
  <2> QED BY <2>1, <2>3 DEF Vacant
<1>9. CASE DropsOrg(s)
  BY <1>9 DEF DropsOrg, Becomes, Vacant
<1>10. CASE DropsUsers(s)
  BY <1>10 DEF DropsUsers, Becomes, Vacant
<1>11. ASSUME NEW o \in Orgs, AddsOrg(s, o)
       PROVE  Vacant(s)' /\ (script'[s].pc = "idle" /\ Absent' => registered' \cap Demo = {})
  <2>1. registered \cap Demo = {} /\ script'[s].pc = "user" /\ UNCHANGED registered
    BY <1>5, <1>11 DEF AddsOrg, Becomes, Vacant
  <2> QED BY <2>1, People DEF Vacant
<1>12. CASE AddsUser(s)
  <2>1. /\ Vacant(s) /\ script[s].pc = "user" /\ script[s].n \in {1, 2}
        /\ registered' = registered \cup {USUARIOS[script[s].n]}
        /\ script'[s].pc = "member" /\ script'[s].n = script[s].n
    BY <1>5, <1>12 DEF AddsUser, Becomes, SeedShape
  <2> QED BY <2>1, People DEF Vacant
<1>13. CASE AddsMember(s)
  <2>1. /\ Vacant(s) /\ script[s].pc = "member" /\ script[s].n \in {1, 2}
        /\ script'[s].pc = (IF script[s].n = 2 THEN "story" ELSE "user")
        /\ script'[s].n = script[s].n + 1 /\ UNCHANGED registered
    BY <1>5, <1>13 DEF AddsMember, Becomes, SeedShape
  <2> QED BY <2>1, People DEF Vacant
<1>14. CASE Tells(s)
  <2>1. /\ script'[s].pc \in {"idle", "story"} /\ UNCHANGED slug
        /\ script[s].pc = "story" /\ script[s].org \in DOMAIN slug
    BY <1>14 DEF Tells, Becomes
  <2>2. ~Absent'
    BY <2>1 DEF FoundInv, SeedShape, Filling, Absent, Found
  <2> QED BY <2>1, <2>2 DEF Vacant
<1> QED
  BY <1>6, <1>7, <1>8, <1>9, <1>10, <1>11, <1>12, <1>13, <1>14 DEF OneOf

LEMMA SeedInitInv == SeedInit => SeedInv
<1> SUFFICES ASSUME SeedInit PROVE SeedInv
  OBVIOUS
<1>1. Idle \in Script /\ Idle.pc = "idle" /\ Idle.n = 1
  BY DEF Idle, Script, Modes
<1>2. SeedShape /\ Unasked
  <2>1. /\ registered \subseteq Users /\ DOMAIN slug \subseteq Orgs
        /\ role \in [Orgs -> [Users -> Roles \cup {"none"}]]
        /\ \A r \in Requests : req[r].pc = "new"
    <3>1. CASE Init
      BY <3>1 DEF Init, NoRequest
    <3>2. CASE ~Init
      <4>1. /\ registered = {} /\ slug = <<>>
            /\ role = [o \in Orgs |-> [u \in Users |-> "none"]]
            /\ req = [r \in Requests |-> NoRequest]
        BY <3>2 DEF SeedInit
      <4>2. DOMAIN slug = {}
        BY <4>1
      <4> QED BY <4>1, <4>2 DEF NoRequest
    <3> QED BY <3>1, <3>2
  <2> QED BY <1>1, <2>1 DEF SeedInit, SeedShape, Unasked, Filling
<1>3. Absent /\ registered \cap Demo = {} /\ Quiet /\ last = "none" /\ audited = {}
  BY <1>1 DEF SeedInit, Quiet, Absent, Found, SLUG_ORG
<1>4. FoundInv /\ AloneInv /\ ToldInv /\ RepairInv
  BY <1>3 DEF Quiet, FoundInv, AloneInv, Filled, Filling, ToldInv, RepairInv, Vacant, Absent
<1> QED
  BY <1>2, <1>4 DEF SeedInv

\* The requests change nothing of the script's while there are none.
LEMMA SeedNextInv ==
  ASSUME SeedInv, Without(Operations), [SeedNext]_allVars
  PROVE  SeedInv'
<1>1. CASE UNCHANGED allVars
  BY <1>1 DEF allVars, vars, seedVars, SeedInv, SeedShape, Unasked, FoundInv, AloneInv, Filled, ToldInv,
              Told, Peopled, Seated, RepairInv, Vacant, Quiet, Absent, Found, Without
<1>2. CASE SeedNext
  <2>1. UNCHANGED <<req, kinds>>
    BY <1>2, StepIsOne DEF SeedInv
  <2>2. ASSUME NEW s \in Seeds, OneOf(s), UNCHANGED audited PROVE SeedInv'
    BY <2>1, <2>2, ShapeStays, FoundStays, AloneStays, ToldStays, RepairStays DEF SeedInv, Unasked
  <2>3. CASE UNCHANGED <<script, registered, slug, role, rows, last>> /\ "ai" \in kinds
    BY <2>1, <2>3 DEF SeedInv, SeedShape, Unasked, FoundInv, AloneInv, Filled, ToldInv,
                      Told, Peopled, Seated, RepairInv, Found, Absent, Without
  <2> QED BY <1>2, <2>2, <2>3, StepIsOne DEF SeedInv
<1> QED
  BY <1>1, <1>2

\* What happens in a behaviour was chosen at its beginning.
LEMMA KindsStay ==
  ASSUME [SeedNext]_allVars
  PROVE  UNCHANGED kinds
<1>1. ASSUME NEW r \in Requests, Handler(r) PROVE UNCHANGED kinds
  BY <1>1 DEF Handler, ReadOrg, Probe, Updates, ReadForInvite, ReadMembership, Count, Write,
              Registers, Creates
<1>2. ASSUME NEW r \in Requests, Asked(r) PROVE UNCHANGED kinds
  <2>1. \A op \in Operations, u, t \in Users, o \in Orgs, to \in Roles \cup {"none"} :
          Ask(r, op, u, o, t, to) => UNCHANGED kinds
    BY DEF Ask
  <2>2. CASE \E u \in Users, n \in Names :
               Register(r, u, n) \/ Create(r, u, n) \/ \E o \in Orgs : Update(r, u, o, n)
    BY <2>2 DEF Register, Create, Update
  <2> QED BY <1>2, <2>1, <2>2 DEF Asked
<1>3. ASSUME NEW s \in Seeds, Steps(s) PROVE UNCHANGED kinds
  BY <1>3 DEF Steps, CountReal, Look, Find, DeleteOrg, DeleteUsers, CreateUser, CreateMember, Tell,
              Crash, CreateOrg, vars
<1>4. ASSUME NEW s \in Seeds, NEW mode \in Modes, Begin(s, mode) PROVE UNCHANGED kinds
  BY <1>4 DEF Begin, vars
<1>5. ASSUME NEW u \in Users, UseAi(u) PROVE UNCHANGED kinds
  BY <1>5 DEF UseAi, vars
<1> QED BY <1>1, <1>2, <1>3, <1>4, <1>5 DEF SeedNext, Next, allVars, vars

KeptSeeded == Without(Operations) => SeedInv

LEMMA AlwaysSeedInv == SeedSpec => []KeptSeeded
<1>1. SeedInit => KeptSeeded
  BY SeedInitInv DEF KeptSeeded
<1>2. KeptSeeded /\ [SeedNext]_allVars => KeptSeeded'
  <2> SUFFICES ASSUME KeptSeeded, [SeedNext]_allVars, Without(Operations)' PROVE SeedInv'
    BY DEF KeptSeeded
  <2>1. UNCHANGED kinds
    BY KindsStay
  <2> QED BY <2>1, SeedNextInv DEF KeptSeeded, Without
<1> QED
  BY <1>1, <1>2, PTL DEF SeedSpec

\* When the last run of the script to end has seeded, the organization of the demonstration and
\* its story are whole, however many runs overlapped or were interrupted, and if none overlapped
\* its users are too, whatever a run before had left half way.
THEOREM SeededMeansWhole == SeedSpec => []SeededIsWhole
<1>1. KeptSeeded => SeededIsWhole
  BY DEF KeptSeeded, SeedInv, ToldInv, SeededIsWhole, Quiet, Begun
<1> QED
  BY <1>1, AlwaysSeedInv, PTL

\* What a failed run of the script leaves, the next one repairs: where neither the AI was used nor
\* two runs overlap, only a run after one that was interrupted fails.
THEOREM FailureNeedsACrash == SeedSpec => FailsOnlyAfterCrash
<1>1. KeptSeeded /\ [SeedNext]_allVars =>
        [Without({"overlap", "ai"} \cup Operations) =>
           \A s \in Seeds :
             script[s].pc \notin {"idle", "count", "find"} /\ Ends(s, "failed") =>
               last = "crashed"]_allVars
  <2> SUFFICES ASSUME KeptSeeded, SeedNext, Without({"overlap", "ai"} \cup Operations),
                      NEW s \in Seeds, script[s].pc \notin {"idle", "count", "find"},
                      Ends(s, "failed")
               PROVE  last = "crashed"
    OBVIOUS
  <2>1. SeedInv /\ Without(Operations) /\ Without({"overlap", "ai"})
    BY DEF KeptSeeded, Without
  <2>2. script' = [script EXCEPT ![s] = Idle] /\ last' = "failed" /\ script[s].pc \in Working
    BY <2>1 DEF Ends, SeedInv, SeedShape, Script
  <2>3. script'[s].pc = "idle"
    BY <2>1, <2>2 DEF SeedInv, SeedShape, Idle
  <2>4. PICK t \in Seeds : OneOf(t) /\ UNCHANGED audited
    BY <2>1, <2>2, <2>3, StepIsOne DEF SeedInv, Working
  <2>5. t = s
    <3>1. Becomes(t, script'[t].pc, script'[t].org, script'[t].n)
      BY <2>4 DEF OneOf, Reads, Stops, Starts, DropsOrg, DropsUsers, AddsOrg, AddsUser, AddsMember,
                  Tells, Becomes
    <3> QED BY <2>2, <2>3, <3>1 DEF Becomes, Working
  <2>6. Stops(s) /\ Reason(s)
    BY <2>2, <2>3, <2>4, <2>5
    DEF OneOf, Reads, Stops, Starts, DropsOrg, DropsUsers, AddsOrg, AddsUser, AddsMember, Tells,
        Becomes
  <2> QED BY <2>1, <2>2, <2>6, NoReason DEF SeedInv
<1> QED
  BY <1>1, AlwaysSeedInv, PTL DEF SeedSpec, FailsOnlyAfterCrash

(***************************************************************************)
(* The script beside the requests                                          *)
(*                                                                         *)
(* Here the application may be in use while the script runs.               *)
(***************************************************************************)

\* Nothing hangs from an organization that is not there, nobody tells what is told, and no two
\* runs fill one organization.
RowsInv ==
  /\ rows \in [Orgs -> 0..Len(Story)]
  /\ \A o \in Orgs \ DOMAIN slug : rows[o] = 0
  /\ \A s \in Seeds : script[s].pc \in Filling => rows[script[s].org] < Len(Story)
  /\ \A s, t \in Seeds :
       script[s].pc \in Filling /\ script[t].pc \in Filling /\ script[s].org = script[t].org => s = t

SeedTypes ==
  /\ Shape /\ SeedShape /\ RowsInv
  /\ audited \subseteq Users /\ last \in Outcomes /\ runs \in 0..MaxRuns

\* A step of a run leaves the tables of Accounts with their types.
LEMMA OneKeepsShape ==
  ASSUME Shape, SeedShape, NEW s \in Seeds, OneOf(s), UNCHANGED <<req, kinds>>
  PROVE  Shape'
<1>1. SeedShape'
  BY ShapeStays
<1>2. slug' \in [DOMAIN slug' -> Slugs]
  <2>1. slug \in [DOMAIN slug -> Slugs]
    BY DEF Shape, TypeOK
  <2>2. CASE slug' = slug
    BY <2>1, <2>2
  <2>3. CASE DropsOrg(s)
    BY <2>1, <2>3 DEF DropsOrg
  <2>4. ASSUME NEW o \in Orgs, AddsOrg(s, o) PROVE slug' \in [DOMAIN slug' -> Slugs]
    <3>1. SLUG_ORG \in Slugs
      BY DemoAssumption DEF SLUG_ORG, Slugs
    <3> QED BY <2>1, <2>4, <3>1 DEF AddsOrg
  <2> QED BY <2>2, <2>3, <2>4 DEF OneOf, Reads, Stops, DropsUsers, AddsUser, AddsMember, Tells,
                                  Starts, Same
<1>3. TypeOK'
  BY <1>1, <1>2 DEF Shape, TypeOK, SeedShape
<1>4. \A r \in Requests : Fits(r)'
  BY DEF Shape, Fits, UnderWay
<1> QED
  BY <1>3, <1>4 DEF Shape

\* A step of a run and the story.
LEMMA OneKeepsRows ==
  ASSUME SeedShape, RowsInv, NEW s \in Seeds, OneOf(s)
  PROVE  RowsInv'
<1> DEFINE o == script[s].org
<1>0. Len(Story) = 11
  BY DEF Story
<1>1. ASSUME NEW pc, NEW p, NEW n, Becomes(s, pc, p, n), pc \notin Filling,
             rows' \in [Orgs -> 0..Len(Story)],
             \A x \in Orgs \ DOMAIN slug' : rows'[x] = 0,
             \A x \in Orgs : rows'[x] <= rows[x]
      PROVE  RowsInv'
  <2>1. \A t \in Seeds : script'[t].pc \in Filling => t # s /\ script'[t] = script[t]
    BY <1>1 DEF Becomes
  <2>2. \A t \in Seeds : script'[t].pc \in Filling => script[t].org \in Orgs
    BY <2>1 DEF SeedShape
  <2>3. \A t \in Seeds : script'[t].pc \in Filling => rows'[script'[t].org] < Len(Story)
    BY <1>0, <1>1, <2>1, <2>2 DEF RowsInv
  <2> QED BY <1>1, <2>1, <2>3 DEF RowsInv
<1>2. ASSUME NEW pc, NEW n, Becomes(s, pc, o, n), script[s].pc \in Filling,
             UNCHANGED <<rows, slug>>
      PROVE  RowsInv'
  BY <1>2 DEF Becomes, RowsInv
<1>3. \A x \in Orgs : rows[x] <= rows[x]
  BY <1>0 DEF RowsInv
<1>4. CASE Reads(s) \/ Stops(s) \/ Starts(s)
  <2>1. UNCHANGED <<rows, slug>>
    BY <1>4 DEF Reads, Stops, Starts, Same
  <2>2. PICK pc \in {"idle", "count", "look", "find", "org", "deleteOrg"}, p \in Orgs \cup {None, o} :
          Becomes(s, pc, p, 1)
    BY <1>4 DEF Reads, Stops, Starts
  <2>3. pc \notin Filling
    BY DEF Filling
  <2> QED BY <1>1, <1>3, <2>1, <2>2, <2>3 DEF RowsInv
<1>5. CASE DropsOrg(s)
  <2>1. o \in Orgs /\ Becomes(s, "deleteUsers", o, 1) /\ "deleteUsers" \notin Filling
    BY <1>5 DEF DropsOrg, SeedShape, Filling
  <2>2. rows' = [rows EXCEPT ![o] = 0] /\ DOMAIN slug' = DOMAIN slug \ {o}
    BY <1>5 DEF DropsOrg
  <2>3. rows \in [Orgs -> 0..Len(Story)]
    BY DEF RowsInv
  <2>4. rows' \in [Orgs -> 0..Len(Story)] /\ \A x \in Orgs : rows'[x] <= rows[x]
    BY <1>0, <2>1, <2>2, <2>3
  <2>5. \A x \in Orgs \ DOMAIN slug' : rows'[x] = 0
    BY <2>1, <2>2, <2>3 DEF RowsInv
  <2> QED BY <1>1, <2>1, <2>4, <2>5
<1>6. CASE DropsUsers(s)
  <2>1. PICK pc \in {"idle", "org"} : Becomes(s, pc, None, 1)
    BY <1>6 DEF DropsUsers
  <2>2. pc \notin Filling /\ UNCHANGED <<rows, slug>>
    BY <1>6 DEF DropsUsers, Filling
  <2> QED BY <1>1, <1>3, <2>1, <2>2 DEF RowsInv
<1>7. ASSUME NEW p \in Orgs, AddsOrg(s, p) PROVE RowsInv'
  <2>1. /\ p \notin DOMAIN slug /\ DOMAIN slug' = DOMAIN slug \cup {p} /\ rows' = rows
        /\ \A t \in Seeds : script[t].org # p
    BY <1>7 DEF AddsOrg
  <2>2. script'[s].org = p /\ \A t \in Seeds \ {s} : script'[t] = script[t]
    BY <1>7 DEF AddsOrg, Becomes
  <2>3. rows[p] = 0
    BY <2>1 DEF RowsInv
  <2> QED BY <1>0, <2>1, <2>2, <2>3 DEF RowsInv
<1>8. CASE AddsUser(s)
  BY <1>2, <1>8 DEF AddsUser, Filling
<1>9. CASE AddsMember(s)
  BY <1>2, <1>9 DEF AddsMember, Filling
<1>10. CASE Tells(s)
  <2>1. /\ o \in Orgs /\ script[s].pc \in Filling /\ o \in DOMAIN slug /\ slug' = slug
        /\ rows' = [rows EXCEPT ![o] = rows[o] + 1] /\ rows[o] < Len(Story)
    BY <1>10 DEF Tells, SeedShape, RowsInv, Filling
  <2>2. rows \in [Orgs -> 0..Len(Story)]
    BY DEF RowsInv
  <2>3. rows' \in [Orgs -> 0..Len(Story)] /\ \A x \in Orgs : x # o => rows'[x] = rows[x]
    BY <1>0, <2>1, <2>2
  <2>4. \A x \in Orgs \ DOMAIN slug' : rows'[x] = 0
    BY <2>1, <2>3 DEF RowsInv
  <2>5. ASSUME NEW t \in Seeds, script'[t].pc \in Filling
        PROVE  /\ script[t].pc \in Filling /\ script'[t].org = script[t].org
               /\ rows'[script'[t].org] < Len(Story)
    <3>1. CASE t # s
      <4>1. script'[t] = script[t]
        BY <1>10, <3>1 DEF Tells, Becomes
      <4>2. script[t].org # o /\ script[t].org \in Orgs
        BY <2>1, <2>5, <3>1, <4>1 DEF RowsInv, SeedShape
      <4> QED BY <2>3, <2>5, <4>1, <4>2 DEF RowsInv
    <3>2. CASE t = s
      <4>1. rows'[o] # Len(Story) /\ script'[s].org = o
        BY <1>10, <2>5, <3>2 DEF Tells, Becomes, Filling
      <4>2. rows'[o] \in 0..Len(Story)
        BY <2>1, <2>3
      <4> QED BY <1>0, <2>1, <3>2, <4>1, <4>2
    <3> QED BY <3>1, <3>2
  <2> QED BY <2>3, <2>4, <2>5 DEF RowsInv
<1> QED
  BY <1>4, <1>5, <1>6, <1>7, <1>8, <1>9, <1>10 DEF OneOf

LEMMA SeedTypesInit == SeedInit => SeedTypes
<1> SUFFICES ASSUME SeedInit PROVE SeedTypes
  OBVIOUS
<1>1. SeedShape
  BY SeedInitInv DEF SeedInv
<1>2. Shape
  <2>1. CASE Init
    BY <2>1, ShapeInit
  <2>2. CASE ~Init
    <3>1. /\ slug = <<>> /\ req = [r \in Requests |-> NoRequest]
          /\ kinds \in {k \in Environments : "seed" \in k}
      BY <2>2 DEF SeedInit
    <3>2. DOMAIN slug = {} /\ slug \in [DOMAIN slug -> Slugs]
      BY <3>1
    <3>3. NoRequest \in Request
      BY DEF NoRequest, Request
    <3>4. TypeOK
      BY <1>1, <3>1, <3>2, <3>3, EnvironmentsAssumption DEF SeedShape, TypeOK
    <3>5. \A r \in Requests : req[r].pc = "new" /\ req[r].op = "none"
      BY <3>1 DEF NoRequest
    <3> QED BY <3>4, <3>5 DEF Shape, Fits, UnderWay
  <2> QED BY <2>1, <2>2
<1>3. RowsInv
  <2>1. Len(Story) = 11
    BY DEF Story
  <2>2. rows = [o \in Orgs |-> 0] /\ \A s \in Seeds : script[s].pc = "idle"
    BY DEF SeedInit, Idle
  <2> QED BY <2>1, <2>2 DEF RowsInv, Filling
<1>4. audited \subseteq Users /\ last \in Outcomes /\ runs \in 0..MaxRuns
  BY RunsAssumption DEF SeedInit, Outcomes
<1> QED
  BY <1>1, <1>2, <1>3, <1>4 DEF SeedTypes

LEMMA SeedTypesStep == SeedTypes /\ [SeedNext]_allVars => SeedTypes'
<1> SUFFICES ASSUME SeedTypes, [SeedNext]_allVars PROVE SeedTypes'
  OBVIOUS
<1>t. Shape /\ SeedShape /\ RowsInv /\ audited \subseteq Users /\ last \in Outcomes /\ runs \in 0..MaxRuns
  BY DEF SeedTypes
\* A step that the script has no part in.
<1>1. ASSUME [Next]_vars, UNCHANGED <<script, rows, last, runs>>, audited' \subseteq Users
      PROVE  SeedTypes'
  <2>1. Shape' /\ DOMAIN slug \subseteq DOMAIN slug'
    BY <1>t, <1>1, ShapeStep, SlugGrows
  <2>2. SeedShape'
    BY <1>t, <1>1, <2>1 DEF SeedShape, Shape, TypeOK
  <2>3. RowsInv'
    BY <1>t, <1>1, <2>1 DEF RowsInv
  <2> QED BY <1>t, <1>1, <2>1, <2>2, <2>3 DEF SeedTypes
<1>2. CASE UNCHANGED allVars
  BY <1>t, <1>1, <1>2 DEF allVars, seedVars
<1>3. CASE Next /\ Ordinary /\ UNCHANGED seedVars
  BY <1>t, <1>1, <1>3 DEF seedVars
<1>4. ASSUME NEW u \in Users, UseAi(u) PROVE SeedTypes'
  BY <1>t, <1>1, <1>4 DEF UseAi
\* A step of a run.
<1>5. ASSUME NEW s \in Seeds, OneOf(s), UNCHANGED <<req, kinds, audited>>, runs' \in 0..MaxRuns
      PROVE  SeedTypes'
  <2>1. last' \in Outcomes
    BY <1>t, <1>5 DEF OneOf, Reads, Stops, DropsOrg, DropsUsers, AddsOrg, AddsUser, AddsMember, Tells,
                      Starts, Outcomes
  <2> QED BY <1>t, <1>5, <2>1, ShapeStays, OneKeepsShape, OneKeepsRows DEF SeedTypes
<1>6. ASSUME NEW s \in Seeds, Steps(s) PROVE SeedTypes'
  <2>1. UNCHANGED runs
    BY <1>6 DEF Steps, CountReal, Look, Find, DeleteOrg, DeleteUsers, CreateUser, CreateMember, Tell,
                Crash, CreateOrg
  <2> QED BY <1>t, <1>5, <1>6, <2>1, StepsAreOne
<1>7. ASSUME NEW s \in Seeds, NEW mode \in Modes, Begin(s, mode) PROVE SeedTypes'
  <2>1. runs' \in 0..MaxRuns
    BY <1>t, <1>7, RunsAssumption DEF Begin
  <2> QED BY <1>t, <1>5, <1>7, <2>1, BeginIsOne
<1> QED
  BY <1>2, <1>3, <1>4, <1>6, <1>7 DEF SeedNext

\* The tables of Accounts and what the script keeps have their types, however runs, requests and
\* crashes follow each other.
THEOREM SeedTypeCorrect == SeedSpec => [](TypeOK /\ SeedTypeOK)
<1>1. SeedTypes => TypeOK /\ SeedTypeOK
  BY DEF SeedTypes, Shape, SeedShape, RowsInv, SeedTypeOK
<1> QED
  BY SeedTypesInit, SeedTypesStep, <1>1, PTL DEF SeedSpec

-----------------------------------------------------------------------------
\* Where the script is not used, it stays where it was.
Unused == "seed" \notin kinds /\ Quiet

LEMMA UnusedStep == Unused /\ [SeedNext]_allVars => Unused' /\ [Next]_vars
<1> SUFFICES ASSUME Unused, [SeedNext]_allVars PROVE Unused' /\ [Next]_vars
  OBVIOUS
<1>1. \A s \in Seeds : script[s].pc = "idle"
  BY DEF Unused, Quiet
<1>2. ASSUME NEW s \in Seeds PROVE ~Steps(s) /\ \A mode \in Modes : ~Begin(s, mode)
  <2>1. ~Steps(s)
    BY <1>1 DEF Steps, CountReal, Look, Find, DeleteOrg, DeleteUsers, CreateUser, CreateMember, Tell,
                Crash, CreateOrg
  <2>2. \A mode \in Modes : ~Begin(s, mode)
    BY DEF Begin, Unused
  <2> QED BY <2>1, <2>2
<1>3. [Next]_vars /\ UNCHANGED script
  BY <1>2 DEF SeedNext, UseAi, allVars, seedVars
<1> QED
  BY <1>3, KindsStay DEF Unused, Quiet

\* Where the script is not used, the whole behaves as Accounts does.
THEOREM AccountsWithoutTheScript == SeedSpec /\ "seed" \notin kinds => Spec
<1>1. SeedInit /\ "seed" \notin kinds => Init /\ Unused
  BY DEF SeedInit, Unused, Quiet, Idle
<1> QED
  BY <1>1, UnusedStep, PTL DEF SeedSpec, Spec

\* Nor does an organization lose its last administrator beside the script (where it is used the
\* demonstration is an organization before it has users, and nothing is said).
THEOREM AdminBesideTheScript == SeedSpec => []HasAdmin
<1> DEFINE Used == "seed" \in kinds
<1>1. Used /\ [SeedNext]_allVars => Used'
  BY KindsStay
<1>2. Used => HasAdmin
  BY DEF HasAdmin, Without
<1>3. Used \/ "seed" \notin kinds
  OBVIOUS
<1> QED
  BY <1>1, <1>2, <1>3, AccountsWithoutTheScript, OrganizationsKeepAnAdmin, PTL DEF SeedSpec

\* Either the script is used or the application.
Apart == "seed" \notin kinds \/ Without(Operations)

\* A registration gives up only when the numbers it tried are taken, unless the script takes an
\* organization away while the application is in use.
THEOREM RegisterBesideTheScript == SeedSpec /\ Apart => []GivesUpOnlyIfTaken
<1>1. Without(Operations) /\ [SeedNext]_allVars => Without(Operations)'
  BY KindsStay DEF Without
<1>2. KeptSeeded /\ Without(Operations) => GivesUpOnlyIfTaken
  BY DEF KeptSeeded, SeedInv, Unasked, GivesUpOnlyIfTaken
<1>3. Apart => "seed" \notin kinds \/ Without(Operations)
  BY DEF Apart
<1> QED
  BY <1>1, <1>2, <1>3, AlwaysSeedInv, AccountsWithoutTheScript, RegisterGivesUpForAReason, PTL
     DEF SeedSpec

\* Only the last administrator is not let go, unless the script takes one away while the
\* application is in use.
THEOREM RefusalBesideTheScript == SeedSpec /\ Apart => RefusedOnlyLast
<1> DEFINE A == Without({"race"}) => \A r \in Requests :
                  req[r].pc # "refused" /\ req'[r].pc = "refused" =>
                    Admins(req[r].org) = {req[r].target}
<1>1. Without(Operations) /\ [SeedNext]_allVars => Without(Operations)'
  BY KindsStay DEF Without
<1>2. KeptSeeded /\ Without(Operations) /\ [SeedNext]_allVars => [A]_vars
  <2> SUFFICES ASSUME KeptSeeded, Without(Operations), SeedNext PROVE A
    BY DEF allVars
  <2>1. UNCHANGED req
    BY StepIsOne DEF KeptSeeded, SeedInv
  <2> QED BY <2>1
<1>3. Apart => "seed" \notin kinds \/ Without(Operations)
  BY DEF Apart
<1> QED
  BY <1>1, <1>2, <1>3, AlwaysSeedInv, AccountsWithoutTheScript, OnlyTheLastIsRefused, PTL
     DEF SeedSpec, RefusedOnlyLast

=============================================================================
