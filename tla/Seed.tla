-------------------------------- MODULE Seed ---------------------------------
(***************************************************************************)
(* The demonstration data, Backend/prisma/seed.ts: a script that somebody  *)
(* runs by hand, query by query and without a transaction, on the database *)
(* of Accounts. It may stop half way, two may run at a time, and what it   *)
(* wrote is in use in between.                                             *)
(***************************************************************************)
EXTENDS Accounts, Sequences

CONSTANTS
  Seeds,     \* runs of the script that are under way at a time
  MaxRuns,   \* bound: the runs of the script
  Ana, Dani, \* USUARIOS
  DemoName   \* the name that SLUG_ORG is made of

Demo == {Ana, Dani}
ASSUME DemoAssumption == Demo \subseteq Users /\ Ana # Dani /\ DemoName \in Names
ASSUME RunsAssumption == MaxRuns \in Nat \ {0} /\ "EDITOR" \in Roles

VARIABLES
  script,   \* the runs of the script that are under way
  rows,     \* Postgres: how much of the story hangs from each organization
  audited,  \* Postgres: who has an entry in ai_audit_logs
  last,     \* how the last run that found something to do has ended
  runs      \* how many were begun

seedVars == <<script, rows, audited, last, runs>>
allVars == <<vars, seedVars>>

SLUG_ORG == <<DemoName, 0>>
USUARIOS == <<Ana, Dani>>
RoleOf == [u \in Demo |-> IF u = Ana THEN "ADMIN" ELSE "EDITOR"]

\* What is written after the users, one query each, and every one by the id of one before.
Story == <<"project", "suite", "passing test", "failing test", "draft",
           "execution", "passing result", "its steps", "failing result", "its steps",
           "proposal">>

Working == {"count", "look", "find", "deleteOrg", "deleteUsers", "org", "user", "member", "story"}
Outcomes == {"none", "removed", "seeded", "failed", "crashed"}
Modes == {"seed", "--forzar", "--borrar"}

\* n is the place in USUARIOS; again says that borrar() was called by sembrar().
Idle == [pc |-> "idle", mode |-> "seed", org |-> None, n |-> 1]
Script == [pc : Working \cup {"idle"}, mode : Modes, org : Orgs \cup {None}, n : 1..3]

SeedTypeOK ==
  /\ script \in [Seeds -> Script]
  /\ rows \in [Orgs -> 0..Len(Story)]
  /\ audited \subseteq Users
  /\ last \in Outcomes
  /\ runs \in 0..MaxRuns

\* Who is who among the organizations: the one that borrar() and sembrar() find.
Found(o) == o \in DOMAIN slug /\ slug[o] = SLUG_ORG
Real == {o \in DOMAIN slug : slug[o] # SLUG_ORG}
Absent == \A o \in Orgs : ~Found(o)

\* The database is empty, or holds what Accounts begins with and nothing of the demonstration.
SeedInit ==
  /\ \/ Init
     \/ /\ registered = {} /\ slug = <<>>
        /\ role = [o \in Orgs |-> [u \in Users |-> "none"]]
        /\ req = [r \in Requests |-> NoRequest]
        /\ kinds \in {k \in Environments : "seed" \in k}
  /\ registered \cap Demo = {} /\ \A o \in DOMAIN slug : slug[o][1] # DemoName
  /\ script = [s \in Seeds |-> Idle]
  /\ rows = [o \in Orgs |-> 0]
  /\ audited = {} /\ last = "none" /\ runs = 0

Move(s, pc) == script' = [script EXCEPT ![s].pc = pc]

\* The process ends. prisma.$disconnect() undoes nothing.
Ends(s, outcome) == script' = [script EXCEPT ![s] = Idle] /\ last' = outcome

\* It ends before it wrote anything.
Returns(s) == script' = [script EXCEPT ![s] = Idle] /\ UNCHANGED last

-----------------------------------------------------------------------------
(* The script                                                              *)

Begin(s, mode) ==
  /\ "seed" \in kinds
  /\ script[s].pc = "idle" /\ runs < MaxRuns
  /\ "overlap" \in kinds \/ \A t \in Seeds : script[t].pc = "idle"
  /\ script' = [script EXCEPT ![s].mode = mode, ![s].pc =
                  CASE mode = "seed" -> "count" [] mode = "--forzar" -> "look" [] OTHER -> "find"]
  /\ runs' = runs + 1
  /\ UNCHANGED <<vars, rows, audited, last>>

\* hayDatosReales()
CountReal(s) ==
  /\ script[s].pc = "count"
  /\ IF Real # {} THEN Returns(s) ELSE Move(s, "look") /\ UNCHANGED last
  /\ UNCHANGED <<vars, rows, audited, runs>>

\* Mutant: what is there is left as it is.
LookOnly(s) ==
  /\ script[s].pc = "look"
  /\ IF Absent THEN Move(s, "org") /\ UNCHANGED last ELSE Ends(s, "seeded")
  /\ UNCHANGED <<vars, rows, audited, runs>>

\* Mutant: what is there is not removed first.
LookBlindly(s) ==
  /\ script[s].pc = "look"
  /\ Move(s, "org")
  /\ UNCHANGED <<vars, rows, audited, last, runs>>

\* sembrar(): is it there already?
Look(s) ==
  /\ script[s].pc = "look"
  /\ Move(s, IF Absent THEN "org" ELSE "find")
  /\ UNCHANGED <<vars, rows, audited, last, runs>>

\* borrar(): without the organization it returns, and leaves the users alone.
Find(s) ==
  /\ script[s].pc = "find"
  /\ \/ Absent /\ script[s].mode = "--borrar" /\ Returns(s)
     \/ Absent /\ script[s].mode # "--borrar" /\ Move(s, "org") /\ UNCHANGED last
     \/ \E o \in Orgs : Found(o) /\ UNCHANGED last
          /\ script' = [script EXCEPT ![s].pc = "deleteOrg", ![s].org = o]
  /\ UNCHANGED <<vars, rows, audited, runs>>

\* The organization and, by the cascades, all that hangs from it.
DeleteOrg(s) ==
  LET o == script[s].org IN
  /\ script[s].pc = "deleteOrg"
  /\ IF o \notin DOMAIN slug
     THEN Ends(s, "failed") /\ UNCHANGED <<vars, rows>>
     ELSE /\ slug' = [x \in DOMAIN slug \ {o} |-> slug[x]]
          /\ role' = [role EXCEPT ![o] = [u \in Users |-> "none"]]
          /\ rows' = [rows EXCEPT ![o] = 0]
          /\ Move(s, "deleteUsers")
          /\ UNCHANGED <<registered, req, kinds, last>>
  /\ UNCHANGED <<audited, runs>>

\* deleteMany: the users, and by the cascade every membership of theirs. One who has used the AI
\* cannot be deleted: ai_audit_logs.userId restricts it.
DeleteUsers(s) ==
  /\ script[s].pc = "deleteUsers"
  /\ IF audited \cap Demo \cap registered # {}
     THEN Ends(s, "failed") /\ UNCHANGED <<registered, role>>
     ELSE /\ registered' = registered \ Demo
          /\ role' = [o \in Orgs |-> [u \in Users |-> IF u \in Demo THEN "none" ELSE role[o][u]]]
          /\ IF script[s].mode = "--borrar" THEN Ends(s, "removed")
             ELSE script' = [script EXCEPT ![s].pc = "org", ![s].org = None] /\ UNCHANGED last
  /\ UNCHANGED <<slug, req, kinds, rows, audited, runs>>

\* Its id is nobody's: not one that another run still writes to.
CreateOrg(s, o) ==
  /\ script[s].pc = "org"
  /\ IF ~Absent
     THEN Ends(s, "failed") /\ UNCHANGED slug
     ELSE /\ o \in Orgs \ DOMAIN slug /\ \A t \in Seeds : script[t].org # o
          /\ slug' = [x \in DOMAIN slug \cup {o} |-> IF x = o THEN SLUG_ORG ELSE slug[x]]
          /\ script' = [script EXCEPT ![s].pc = "user", ![s].org = o] /\ UNCHANGED last
  /\ UNCHANGED <<registered, role, req, kinds, rows, audited, runs>>

CreateUser(s) ==
  LET u == USUARIOS[script[s].n] IN
  /\ script[s].pc = "user"
  /\ IF u \in registered
     THEN Ends(s, "failed") /\ UNCHANGED registered
     ELSE registered' = registered \cup {u} /\ Move(s, "member") /\ UNCHANGED last
  /\ UNCHANGED <<slug, role, req, kinds, rows, audited, runs>>

\* Every row after the first needs the one it refers to.
CreateMember(s) ==
  LET u == USUARIOS[script[s].n]
      o == script[s].org IN
  /\ script[s].pc = "member"
  /\ IF o \notin DOMAIN slug \/ u \notin registered
     THEN Ends(s, "failed") /\ UNCHANGED role
     ELSE /\ role' = [role EXCEPT ![o][u] = RoleOf[u]]
          /\ script' = [script EXCEPT ![s].n = @ + 1,
                          ![s].pc = IF script[s].n = Len(USUARIOS) THEN "story" ELSE "user"]
          /\ UNCHANGED last
  /\ UNCHANGED <<registered, slug, req, kinds, rows, audited, runs>>

\* The rest refers to the organization through the rows before, and to no user by a foreign key.
Tell(s) ==
  LET o == script[s].org IN
  /\ script[s].pc = "story"
  /\ IF o \notin DOMAIN slug
     THEN Ends(s, "failed") /\ UNCHANGED rows
     ELSE /\ rows' = [rows EXCEPT ![o] = @ + 1]
          /\ IF rows'[o] = Len(Story) THEN Ends(s, "seeded")
             ELSE UNCHANGED <<script, last>>
  /\ UNCHANGED <<vars, audited, runs>>

\* The process is killed, or a query fails.
Crash(s) ==
  /\ "crash" \in kinds
  /\ script[s].pc # "idle"
  /\ Ends(s, "crashed")
  /\ UNCHANGED <<vars, rows, audited, runs>>

\* AiAuditService.log(): a member asks for anything of the AI, or started the execution whose
\* broken selectors are looked at after it.
UseAi(u) ==
  /\ "ai" \in kinds
  /\ u \in registered \ audited
  /\ \E o \in DOMAIN slug : role[o][u] # "none"
  /\ audited' = audited \cup {u}
  /\ UNCHANGED <<vars, script, rows, last, runs>>

-----------------------------------------------------------------------------
Steps(s) ==
  \/ CountReal(s) \/ Look(s) \/ Find(s) \/ DeleteOrg(s) \/ DeleteUsers(s)
  \/ CreateUser(s) \/ CreateMember(s) \/ Tell(s) \/ Crash(s)
  \/ \E o \in Orgs : CreateOrg(s, o)

\* Without the script the demonstration's people and name are nobody's.
Ordinary ==
  "seed" \in kinds \/ \A r \in Requests :
    {req'[r].by, req'[r].target} \cap Demo = {} /\ req'[r].name # DemoName

SeedNext ==
  \/ Next /\ Ordinary /\ UNCHANGED seedVars
  \/ \E s \in Seeds : Steps(s) \/ \E mode \in Modes : Begin(s, mode)
  \/ \E u \in Users : UseAi(u)

SeedSpec == SeedInit /\ [][SeedNext]_allVars

-----------------------------------------------------------------------------
(* Properties                                                              *)

Quiet == \A s \in Seeds : script[s].pc = "idle"

\* The demonstration as the script leaves it: its organization with the story, and its two
\* users with their roles.
Told(o) == Found(o) /\ rows[o] = Len(Story)
Peopled(o) == Demo \subseteq registered /\ \A u \in Demo : role[o][u] = RoleOf[u]

\* When the last run to end has seeded, the demonstration is whole (the comment of the script:
\* running it twice leaves the database as running it once), whatever a run before has left half
\* way. Runs that overlap may take a user of each other's out of it, and nothing else. (Nobody
\* uses the application meanwhile.)
SeededIsWhole ==
  Quiet /\ last = "seeded" /\ Without(Operations) =>
    \E o \in Orgs : Told(o) /\ (Without({"overlap"}) => Peopled(o))

\* A run that nothing interrupts fails only after one that was interrupted: what a failed run
\* leaves, the next one repairs.
FailsOnlyAfterCrash ==
  [][Without({"overlap", "ai"} \cup Operations) =>
       \A s \in Seeds :
         script[s].pc \notin {"idle", "count", "find"} /\ Ends(s, "failed") => last = "crashed"]_allVars

=============================================================================
