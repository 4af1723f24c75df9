---------------------------- MODULE Memberships ----------------------------
(***************************************************************************)
(* The membership tables of the authorization service and the operations   *)
(* that change them: the plpgsql functions of 20260820000400_invariants,    *)
(* the triggers they fire, and the direct inserts of the org, team and role *)
(* routers.                                                                *)
(*                                                                         *)
(* A session is one request of one API replica.  Postgres runs it in READ   *)
(* COMMITTED: every statement sees what is committed when it starts, so     *)
(* each statement that reads shared rows or takes an advisory lock is a     *)
(* step, and other sessions run between two steps.  A transaction's writes  *)
(* become visible when it commits; its last statement and the commit are    *)
(* one step, which also releases its advisory locks, but for the one insert *)
(* that rests on a row it has not locked.                                  *)
(***************************************************************************)
EXTENDS Integers, FiniteSets

CONSTANTS
    Org, User, Team, Role, \* ids
    Session,               \* requests that may be in flight together
    None,                  \* SQL null
    TeamOrg,               \* teams.org_id
    DefaultTeam,           \* the team of each org with is_default
    RoleScope,             \* roles.scope: "org" or "team"
    RoleOrg,               \* roles.org_id; None for a built-in role
    RoleName,              \* roles.name, which requests give instead of an id
    RoleGrants,            \* the capabilities each role is made with
    Viewer, TeamAdmin,     \* the built-in team roles the triggers hand out
    SeedRoles, SeedTeams,  \* rows that exist at the start
    SeedOrgRole,           \* org_memberships at the start
    SeedTeamRole,          \* team_memberships at the start
    Requests               \* the requests clients may send

Capability == {"manage_org", "manage_members"}

OrgOps  == {"remove_org_member", "change_org_role"}
TeamOps == {"remove_team_member", "change_team_role", "delete_team"}
Ops     == OrgOps \cup TeamOps \cup
           {"add_org_member", "add_team_member", "create_team",
            "create_role", "delete_role"}

Request == [op : Ops, org : Org, team : Team \cup {None}, user : User,
            role : Role \cup {None}, actor : User]

\* What every deployment has: ids of different tables are different lock keys
\* (two keys hash alike with probability 2^-64), every org has a live default
\* team, and the built-in roles the triggers name are team roles.
ASSUME IdsAssumption ==
    /\ Org \cap Team = {} /\ Org \cap Role = {} /\ Team \cap Role = {}
    /\ None \notin Org \cup Team \cup Role \cup User \cup Session
    /\ None \notin Request

ASSUME CatalogAssumption ==
    /\ TeamOrg \in [Team -> Org]
    /\ DefaultTeam \in [Org -> Team]
    /\ \A o \in Org : TeamOrg[DefaultTeam[o]] = o
    /\ RoleScope \in [Role -> {"org", "team"}]
    /\ RoleOrg \in [Role -> Org \cup {None}]
    /\ RoleGrants \in [Role -> SUBSET Capability]
    /\ DOMAIN RoleName = Role
    /\ {Viewer, TeamAdmin} \subseteq Role
    /\ \A r \in {Viewer, TeamAdmin} : RoleScope[r] = "team" /\ RoleOrg[r] = None

\* The database before the first request: the built-in roles and the default
\* teams exist, an operator has given every org a first super-admin, and the
\* enrolment trigger has put every member of an org in its default team.
ASSUME SeedAssumption ==
    /\ SeedRoles \subseteq Role
    /\ \A r \in Role : RoleOrg[r] = None => r \in SeedRoles
    /\ SeedTeams \subseteq Team
    /\ \A o \in Org : DefaultTeam[o] \in SeedTeams
    /\ SeedOrgRole \in [Org -> [User -> Role \cup {None}]]
    /\ \A o \in Org, u \in User : LET r == SeedOrgRole[o][u] IN
          r # None => r \in SeedRoles /\ RoleScope[r] = "org" /\ RoleOrg[r] \in {None, o}
    /\ \A o \in Org : \E u \in User :
          SeedOrgRole[o][u] # None /\ "manage_org" \in RoleGrants[SeedOrgRole[o][u]]
    /\ SeedTeamRole \in [Team -> [User -> Role \cup {None}]]
    /\ \A t \in Team, u \in User : LET r == SeedTeamRole[t][u] IN
          r # None => /\ t \in SeedTeams /\ r \in SeedRoles /\ RoleScope[r] = "team"
                      /\ RoleOrg[r] \in {None, TeamOrg[t]}
    /\ \A o \in Org, u \in User :
          SeedOrgRole[o][u] # None => SeedTeamRole[DefaultTeam[o]][u] # None

\* A route names the ids its operation needs; a team id and its org agree.
ASSUME RequestsAssumption ==
    /\ Requests \subseteq Request
    /\ \A r \in Requests :
          /\ r.op \in TeamOps \cup {"add_team_member", "create_team"}
                => r.team \in Team /\ TeamOrg[r.team] = r.org
          /\ r.op \in {"change_org_role", "add_org_member", "add_team_member",
                       "change_team_role", "create_role", "delete_role"}
                => r.role \in Role

VARIABLES
    org_memberships,   \* role of each user in each org, None when no row
    team_memberships,  \* role of each user in each team, None when no row
    teams, roles,      \* "absent" (id not drawn yet), "live" or "deleted"
    role_capabilities, \* capabilities of each role
    lock_holder,       \* advisory locks: the session holding each key
    pc, req,           \* next statement and request of each session
    actor_flag,        \* p_actor_is_super_admin
    v_org_id,          \* the org a team function read for its team
    doomed             \* <<team, user>> rows deleted and not yet committed

tables == <<org_memberships, team_memberships, teams, roles, role_capabilities>>
local  == <<actor_flag, v_org_id, doomed>>
vars   == <<tables, lock_holder, pc, req, local>>

Key == Org \cup Team \cup Role

Label == {"idle", "insert", "insert_caps", "read_role", "read_actor", "read_team",
          "lock_org", "lock_team_org", "lock_team", "lock_role",
          "count", "check", "cascade", "write", "commit"}

\* The operations whose request names a role, and its scope.
NamedScope ==
    [add_org_member  |-> "org",  change_org_role  |-> "org",
     add_team_member |-> "team", change_team_role |-> "team"]

FirstStatement ==
    [add_org_member     |-> "insert",     remove_org_member |-> "lock_org",
     change_org_role    |-> "read_role",  create_team       |-> "insert",
     add_team_member    |-> "insert",     delete_team       |-> "read_team",
     remove_team_member |-> "read_actor", change_team_role  |-> "read_actor",
     create_role        |-> "insert",     delete_role       |-> "lock_role"]

-----------------------------------------------------------------------------
(* What the queries compute.                                               *)

Grants(r, c) == r \in Role /\ c \in role_capabilities[r]

OrgManagers(o) == {u \in User : Grants(org_memberships[o][u], "manage_org")}

TeamManagers(t) == {u \in User : Grants(team_memberships[t][u], "manage_members")}

InUse(r) == \/ \E o \in Org, u \in User : org_memberships[o][u] = r
            \/ \E t \in Team, u \in User : team_memberships[t][u] = r

\* Mutant: no foreign key notices that the role is gone.
RoleFitsOnce(r, scope, o) == RoleScope[r] = scope /\ RoleOrg[r] \in {None, o}

\* The membership triggers and the foreign key on role_id accept the role.
RoleFits(r, scope, o) == roles[r] = "live" /\ RoleScope[r] = scope /\ RoleOrg[r] \in {None, o}

\* The roles a name may stand for in an org.
Namesakes(r, scope, o) ==
    {x \in Role : /\ roles[x] = "live" /\ RoleScope[x] = scope
                  /\ RoleName[x] = RoleName[r] /\ RoleOrg[x] \in {None, o}}

\* What the routers make of the name of r: the org's own role of that name is
\* preferred to the built-in one.
Resolves(r, scope, o) ==
    /\ r \in Namesakes(r, scope, o)
    /\ RoleOrg[r] = o \/ \A x \in Namesakes(r, scope, o) : RoleOrg[x] # o

IsDefault(t) == t = DefaultTeam[TeamOrg[t]]

\* An insert of a row that an open transaction has deleted waits for it.
Doomed(t, u) == \E s \in Session : <<t, u>> \in doomed[s]

\* An org_memberships row is inserted and not yet committed: nobody sees it, but an
\* insert of the same row waits for it, and so does a delete of its role.
Enrols(s, o, u) ==
    pc[s] = "commit" /\ req[s].op = "add_org_member" /\ req[s].org = o /\ req[s].user = u

Enrolled(o, u) == \E s \in Session : Enrols(s, o, u)

Assigned(r) == \E s \in Session : pc[s] = "commit" /\ req[s].role = r

-----------------------------------------------------------------------------
(* How a session moves.                                                    *)

At(s, label, ops) == pc[s] = label /\ req[s].op \in ops

Goto(s, label) == pc' = [pc EXCEPT ![s] = label] /\ UNCHANGED req

\* Mutant: session-level locks, which outlive the transaction.
FinishHoldingLocks(s) ==
    /\ pc' = [pc EXCEPT ![s] = "idle"]
    /\ req' = [req EXCEPT ![s] = None]
    /\ actor_flag' = [actor_flag EXCEPT ![s] = FALSE]
    /\ v_org_id' = [v_org_id EXCEPT ![s] = None]
    /\ doomed' = [doomed EXCEPT ![s] = {}]
    /\ UNCHANGED lock_holder

\* Commit or rollback: the advisory locks go with the transaction.
Finish(s) ==
    /\ pc' = [pc EXCEPT ![s] = "idle"]
    /\ req' = [req EXCEPT ![s] = None]
    /\ lock_holder' = [k \in Key |-> IF lock_holder[k] = s THEN None ELSE lock_holder[k]]
    /\ actor_flag' = [actor_flag EXCEPT ![s] = FALSE]
    /\ v_org_id' = [v_org_id EXCEPT ![s] = None]
    /\ doomed' = [doomed EXCEPT ![s] = {}]

\* An exception, or a statement that matches no row: nothing is written.
FinishUnchanged(s) == Finish(s) /\ UNCHANGED tables

\* The key of the pg_advisory_xact_lock a session has come to: every function
\* that locks a team locks its org first.  (The first mutant has delete_team
\* take the two in the other order.)
TeamBeforeOrg(s) ==
    CASE pc[s] = "lock_org"      -> req[s].org
      [] pc[s] = "lock_team_org" -> IF req[s].op = "delete_team" THEN req[s].team ELSE v_org_id[s]
      [] pc[s] = "lock_team"     -> IF req[s].op = "delete_team" THEN v_org_id[s] ELSE req[s].team
      [] pc[s] = "lock_role"     -> req[s].role
      [] OTHER -> None

LockWanted(s) ==
    CASE pc[s] = "lock_org"      -> req[s].org
      [] pc[s] = "lock_team_org" -> v_org_id[s]
      [] pc[s] = "lock_team"     -> req[s].team
      [] pc[s] = "lock_role"     -> req[s].role
      [] OTHER -> None

\* Wait until no other session holds the key, then hold it; the null key of a
\* team that is gone locks nothing and returns at once.
TakeLock(s) ==
    LET k == LockWanted(s) IN
    \/ k = None /\ UNCHANGED lock_holder
    \/ /\ k # None /\ lock_holder[k] \in {None, s}
       /\ lock_holder' = [lock_holder EXCEPT ![k] = s]

-----------------------------------------------------------------------------
(* Operations on an organization's members.                                *)

\* Mutant: the enrolment trigger is missing.
AddOrgMemberOnly(s) ==
    /\ At(s, "insert", {"add_org_member"})
    /\ LET o == req[s].org  u == req[s].user  r == req[s].role IN
       /\ org_memberships[o][u] = None /\ RoleFits(r, "org", o)
       /\ org_memberships' = [org_memberships EXCEPT ![o][u] = r]
       /\ UNCHANGED <<team_memberships, teams, roles, role_capabilities>>
       /\ Finish(s)

\* POST /orgs/{org_id}/members: one insert; its triggers check the role and
\* enrol the new member in the default team as a viewer.
AddOrgMember(s) ==
    /\ At(s, "insert", {"add_org_member"})
    /\ LET o == req[s].org  u == req[s].user  r == req[s].role  t == DefaultTeam[o] IN
       \/ /\ org_memberships[o][u] # None \/ ~RoleFits(r, "org", o)
          /\ FinishUnchanged(s)
       \/ /\ org_memberships[o][u] = None /\ RoleFits(r, "org", o)
          /\ team_memberships[t][u] = None /\ ~Enrolled(o, u)
          /\ org_memberships' = [org_memberships EXCEPT ![o][u] = r]
          /\ team_memberships' = IF teams[t] = "live"
                                 THEN [team_memberships EXCEPT ![t][u] = Viewer]
                                 ELSE team_memberships
          /\ UNCHANGED <<teams, roles, role_capabilities>>
          /\ Finish(s)

\* The same insert for somebody who has a seat in the default team already: on
\* conflict the trigger does nothing, and does not lock the seat it found, which
\* may be gone when the insert commits.
FindSeat(s) ==
    /\ At(s, "insert", {"add_org_member"})
    /\ LET o == req[s].org  u == req[s].user  t == DefaultTeam[o] IN
       /\ org_memberships[o][u] = None /\ RoleFits(req[s].role, "org", o)
       /\ team_memberships[t][u] # None /\ ~Doomed(t, u) /\ ~Enrolled(o, u)
    /\ Goto(s, "commit")
    /\ UNCHANGED <<tables, lock_holder, local>>

CommitOrgMember(s) ==
    /\ At(s, "commit", {"add_org_member"})
    /\ org_memberships' = [org_memberships EXCEPT ![req[s].org][req[s].user] = req[s].role]
    /\ UNCHANGED <<team_memberships, teams, roles, role_capabilities>>
    /\ Finish(s)

\* Mutant: the check and the lock are skipped whatever the role grants.
ReadRoleAndTrust(s) ==
    /\ At(s, "read_role", {"change_org_role"})
    /\ Goto(s, "write")
    /\ UNCHANGED <<tables, lock_holder, local>>

\* change_org_role first asks whether the new role keeps manage_org: if it
\* does, neither the lock nor the count is needed.
ReadRole(s) ==
    /\ At(s, "read_role", {"change_org_role"})
    /\ Goto(s, IF Grants(req[s].role, "manage_org") THEN "write" ELSE "lock_org")
    /\ UNCHANGED <<tables, lock_holder, local>>

\* Mutant: the count is not serialised.
LockOrgNot(s) ==
    /\ At(s, "lock_org", OrgOps)
    /\ Goto(s, "count")
    /\ UNCHANGED <<tables, lock_holder, local>>

LockOrg(s) ==
    /\ At(s, "lock_org", OrgOps)
    /\ TakeLock(s)
    /\ Goto(s, "count")
    /\ UNCHANGED <<tables, local>>

\* Another super-admin must remain (ZA001).
CountSuperAdmins(s) ==
    /\ At(s, "count", OrgOps)
    /\ LET remaining == OrgManagers(req[s].org) \ {req[s].user} IN
       \/ remaining = {} /\ FinishUnchanged(s)
       \/ /\ remaining # {}
          /\ Goto(s, IF req[s].op = "remove_org_member" THEN "cascade" ELSE "write")
          /\ UNCHANGED <<tables, lock_holder, local>>

\* Mutant: the columns of the rows it deletes are mixed up.
CascadeSwapped(s) ==
    /\ At(s, "cascade", {"remove_org_member"})
    /\ LET o == req[s].org  u == req[s].user IN
       doomed' = [doomed EXCEPT ![s] =
          {<<u, t>> : t \in {x \in Team : TeamOrg[x] = o /\ team_memberships[x][u] # None}}]
    /\ Goto(s, "write")
    /\ UNCHANGED <<tables, lock_holder, actor_flag, v_org_id>>

\* The cascade out of the org's teams: the rows this statement sees are
\* deleted, which nobody else sees before the commit.
CascadeTeams(s) ==
    /\ At(s, "cascade", {"remove_org_member"})
    /\ LET o == req[s].org  u == req[s].user IN
       doomed' = [doomed EXCEPT ![s] =
          {<<t, u>> : t \in {x \in Team : TeamOrg[x] = o /\ team_memberships[x][u] # None}}]
    /\ Goto(s, "write")
    /\ UNCHANGED <<tables, lock_holder, actor_flag, v_org_id>>

RemoveOrgMember(s) ==
    /\ At(s, "write", {"remove_org_member"})
    /\ org_memberships' = [org_memberships EXCEPT ![req[s].org][req[s].user] = None]
    /\ team_memberships' = [t \in Team |-> [u \in User |->
          IF <<t, u>> \in doomed[s] THEN None ELSE team_memberships[t][u]]]
    /\ UNCHANGED <<teams, roles, role_capabilities>>
    /\ Finish(s)

\* An update of a row that is gone matches nothing and succeeds; one to a role
\* the trigger or the foreign key refuses raises.
ChangeOrgRole(s) ==
    /\ At(s, "write", {"change_org_role"})
    /\ LET o == req[s].org  u == req[s].user  r == req[s].role IN
       \/ /\ org_memberships[o][u] = None \/ ~RoleFits(r, "org", o)
          /\ FinishUnchanged(s)
       \/ /\ org_memberships[o][u] # None /\ RoleFits(r, "org", o)
          /\ org_memberships' = [org_memberships EXCEPT ![o][u] = r]
          /\ UNCHANGED <<team_memberships, teams, roles, role_capabilities>>
          /\ Finish(s)

-----------------------------------------------------------------------------
(* Operations on teams.                                                    *)

\* POST /orgs/{org_id}/teams: the trigger makes the creator the team's admin.
\* The insert of an id drawn before stands for a name already taken.
CreateTeam(s) ==
    /\ At(s, "insert", {"create_team"})
    /\ LET t == req[s].team IN
       \/ teams[t] # "absent" /\ FinishUnchanged(s)
       \/ /\ teams[t] = "absent"
          /\ teams' = [teams EXCEPT ![t] = "live"]
          /\ team_memberships' = [team_memberships EXCEPT ![t][req[s].actor] = TeamAdmin]
          /\ UNCHANGED <<org_memberships, roles, role_capabilities>>
          /\ Finish(s)

\* POST /teams/{team_id}/members: one insert that takes no advisory lock.  A
\* row that is there is a duplicate key, unless it is doomed: then the insert
\* waits to learn whether it goes.
AddTeamMember(s) ==
    /\ At(s, "insert", {"add_team_member"})
    /\ LET t == req[s].team  u == req[s].user  r == req[s].role
           valid == teams[t] = "live" /\ RoleFits(r, "team", TeamOrg[t])
       IN \/ /\ ~valid \/ (team_memberships[t][u] # None /\ ~Doomed(t, u))
             /\ FinishUnchanged(s)
          \/ /\ valid /\ team_memberships[t][u] = None
             /\ team_memberships' = [team_memberships EXCEPT ![t][u] = r]
             /\ UNCHANGED <<org_memberships, teams, roles, role_capabilities>>
             /\ Finish(s)

\* The router's own read, a transaction before the function's: is the caller
\* a super-admin of the team's org?
ReadActor(s) ==
    /\ At(s, "read_actor", {"remove_team_member", "change_team_role"})
    /\ \/ teams[req[s].team] # "live" /\ FinishUnchanged(s)
       \/ /\ teams[req[s].team] = "live"
          /\ actor_flag' = [actor_flag EXCEPT ![s] = req[s].actor \in OrgManagers(req[s].org)]
          /\ Goto(s, "read_team")
          /\ UNCHANGED <<tables, lock_holder, v_org_id, doomed>>

ReadTeam(s) ==
    /\ At(s, "read_team", TeamOps)
    /\ v_org_id' = [v_org_id EXCEPT ![s] =
          IF teams[req[s].team] = "live" THEN TeamOrg[req[s].team] ELSE None]
    /\ Goto(s, "lock_team_org")
    /\ UNCHANGED <<tables, lock_holder, actor_flag, doomed>>

\* Mutant: the function locks its team and not the org.
LockTeamOrgNot(s) ==
    /\ At(s, "lock_team_org", TeamOps)
    /\ Goto(s, "lock_team")
    /\ UNCHANGED <<tables, lock_holder, local>>

LockTeamOrg(s) ==
    /\ At(s, "lock_team_org", TeamOps)
    /\ TakeLock(s)
    /\ Goto(s, "lock_team")
    /\ UNCHANGED <<tables, local>>

LockTeam(s) ==
    /\ At(s, "lock_team", TeamOps)
    /\ TakeLock(s)
    /\ Goto(s, IF req[s].op = "delete_team" THEN "write" ELSE "check")
    /\ UNCHANGED <<tables, local>>

\* The team read at read_team is the org's default team.
IsDefaultTeam(s) == v_org_id[s] # None /\ IsDefault(req[s].team)

\* The caller may leave the team without an admin, or need not fear to.
MayLose(s) == actor_flag[s] \/ TeamManagers(req[s].team) \ {req[s].user} # {}

\* Mutant: nobody asks whether the team is the default one.
CheckRemovalOfAdmin(s) ==
    /\ At(s, "check", {"remove_team_member"})
    /\ \/ ~MayLose(s) /\ FinishUnchanged(s)
       \/ MayLose(s) /\ Goto(s, "write") /\ UNCHANGED <<tables, lock_holder, local>>

\* remove_team_member: not from the default team (ZA003), not the last admin
\* unless the caller was a super-admin (ZA002).
CheckRemoval(s) ==
    /\ At(s, "check", {"remove_team_member"})
    /\ LET allowed == ~IsDefaultTeam(s) /\ MayLose(s) IN
       \/ ~allowed /\ FinishUnchanged(s)
       \/ allowed /\ Goto(s, "write") /\ UNCHANGED <<tables, lock_holder, local>>

\* change_team_role: the same count, when the new role drops manage_members.
CheckDemotion(s) ==
    /\ At(s, "check", {"change_team_role"})
    /\ LET allowed == Grants(req[s].role, "manage_members") \/ MayLose(s) IN
       \/ ~allowed /\ FinishUnchanged(s)
       \/ allowed /\ Goto(s, "write") /\ UNCHANGED <<tables, lock_holder, local>>

RemoveTeamMember(s) ==
    /\ At(s, "write", {"remove_team_member"})
    /\ team_memberships' = [team_memberships EXCEPT ![req[s].team][req[s].user] = None]
    /\ UNCHANGED <<org_memberships, teams, roles, role_capabilities>>
    /\ Finish(s)

ChangeTeamRole(s) ==
    /\ At(s, "write", {"change_team_role"})
    /\ LET t == req[s].team  u == req[s].user  r == req[s].role IN
       \/ /\ team_memberships[t][u] = None \/ ~RoleFits(r, "team", TeamOrg[t])
          /\ FinishUnchanged(s)
       \/ /\ team_memberships[t][u] # None /\ RoleFits(r, "team", TeamOrg[t])
          /\ team_memberships' = [team_memberships EXCEPT ![t][u] = r]
          /\ UNCHANGED <<org_memberships, teams, roles, role_capabilities>>
          /\ Finish(s)

\* delete_team: never the default team (ZA003); the rows of its members go
\* with it.
DeleteTeam(s) ==
    /\ At(s, "write", {"delete_team"})
    /\ LET t == req[s].team IN
       \/ /\ IsDefaultTeam(s) \/ teams[t] # "live"
          /\ FinishUnchanged(s)
       \/ /\ ~IsDefaultTeam(s) /\ teams[t] = "live"
          /\ teams' = [teams EXCEPT ![t] = "deleted"]
          /\ team_memberships' = [team_memberships EXCEPT ![t] = [u \in User |-> None]]
          /\ UNCHANGED <<org_memberships, roles, role_capabilities>>
          /\ Finish(s)

-----------------------------------------------------------------------------
(* Operations on roles.                                                    *)

\* The unique constraint on org, name and scope: built-ins have no org, so a
\* custom role may take the name of one.
NameIsTaken(r) ==
    \E x \in Role : /\ roles[x] = "live" /\ RoleOrg[x] = RoleOrg[r]
                    /\ RoleName[x] = RoleName[r] /\ RoleScope[x] = RoleScope[r]

\* POST /orgs/{org_id}/roles is two inserts, two transactions: the role, then
\* what it grants.  Until the second, and for ever if it fails, the name means
\* a role that grants nothing.
InsertRole(s) ==
    /\ At(s, "insert", {"create_role"})
    /\ LET r == req[s].role IN
       \/ (roles[r] # "absent" \/ NameIsTaken(r)) /\ FinishUnchanged(s)
       \/ /\ roles[r] = "absent" /\ ~NameIsTaken(r)
          /\ roles' = [roles EXCEPT ![r] = "live"]
          /\ UNCHANGED <<org_memberships, team_memberships, teams, role_capabilities>>
          /\ Goto(s, "insert_caps")
          /\ UNCHANGED <<lock_holder, local>>

InsertRoleCapabilities(s) ==
    /\ At(s, "insert_caps", {"create_role"})
    /\ LET r == req[s].role IN
       \/ roles[r] # "live" /\ FinishUnchanged(s)
       \/ /\ roles[r] = "live"
          /\ role_capabilities' = [role_capabilities EXCEPT ![r] = RoleGrants[r]]
          /\ UNCHANGED <<org_memberships, team_memberships, teams, roles>>
          /\ Finish(s)

LockRole(s) ==
    /\ At(s, "lock_role", {"delete_role"})
    /\ TakeLock(s)
    /\ Goto(s, "count")
    /\ UNCHANGED <<tables, local>>

CountHolders(s) ==
    /\ At(s, "count", {"delete_role"})
    /\ \/ InUse(req[s].role) /\ FinishUnchanged(s)
       \/ ~InUse(req[s].role) /\ Goto(s, "write") /\ UNCHANGED <<tables, lock_holder, local>>

\* Built-in and unknown roles raise ZA004; the delete waits for a
\* membership that is being inserted, and one inserted since the count raises a
\* foreign-key violation.
DeleteRole(s) ==
    /\ At(s, "write", {"delete_role"})
    /\ LET r == req[s].role
           deletable == roles[r] = "live" /\ RoleOrg[r] # None /\ ~InUse(r)
       IN \/ ~deletable /\ FinishUnchanged(s)
          \/ /\ deletable /\ ~Assigned(r)
             /\ roles' = [roles EXCEPT ![r] = "deleted"]
             /\ role_capabilities' = [role_capabilities EXCEPT ![r] = {}]
             /\ UNCHANGED <<org_memberships, team_memberships, teams>>
             /\ Finish(s)

-----------------------------------------------------------------------------
\* The guard has let the request through, and the router has looked up the role
\* it names: a name that means no role ends it here (422).  Ids come from the
\* database: no request has a team's or a role's before the insert that draws it.
Begin(s) ==
    /\ pc[s] = "idle"
    /\ \E r \in Requests :
          /\ r.team # None /\ r.op # "create_team" => teams[r.team] # "absent"
          /\ r.op = "delete_role" => roles[r.role] # "absent"
          /\ r.op \in DOMAIN NamedScope => Resolves(r.role, NamedScope[r.op], r.org)
          /\ req' = [req EXCEPT ![s] = r]
          /\ pc' = [pc EXCEPT ![s] = FirstStatement[r.op]]
    /\ UNCHANGED <<tables, lock_holder, local>>

\* A lost connection, a cancelled statement or a killed replica at any point.
Abort(s) == pc[s] # "idle" /\ FinishUnchanged(s)

Step(s) ==
    \/ AddOrgMember(s) \/ FindSeat(s) \/ CommitOrgMember(s) \/ ReadRole(s) \/ LockOrg(s) \/ CountSuperAdmins(s)
    \/ CascadeTeams(s) \/ RemoveOrgMember(s) \/ ChangeOrgRole(s)
    \/ CreateTeam(s) \/ AddTeamMember(s)
    \/ ReadActor(s) \/ ReadTeam(s) \/ LockTeamOrg(s) \/ LockTeam(s)
    \/ CheckRemoval(s) \/ CheckDemotion(s)
    \/ RemoveTeamMember(s) \/ ChangeTeamRole(s) \/ DeleteTeam(s)
    \/ InsertRole(s) \/ InsertRoleCapabilities(s)
    \/ LockRole(s) \/ CountHolders(s) \/ DeleteRole(s)

Init ==
    /\ org_memberships = SeedOrgRole
    /\ team_memberships = SeedTeamRole
    /\ teams = [t \in Team |-> IF t \in SeedTeams THEN "live" ELSE "absent"]
    /\ roles = [r \in Role |-> IF r \in SeedRoles THEN "live" ELSE "absent"]
    /\ role_capabilities = [r \in Role |-> IF r \in SeedRoles THEN RoleGrants[r] ELSE {}]
    /\ lock_holder = [k \in Key |-> None]
    /\ pc = [s \in Session |-> "idle"]
    /\ req = [s \in Session |-> None]
    /\ actor_flag = [s \in Session |-> FALSE]
    /\ v_org_id = [s \in Session |-> None]
    /\ doomed = [s \in Session |-> {}]

Next == \E s \in Session : Begin(s) \/ Step(s) \/ Abort(s)

Spec == Init /\ [][Next]_vars

\* Postgres grants an advisory lock in the order of its queue and runs every
\* statement of a connection, so no session that can move waits for ever.
FairSpec == Spec /\ \A s \in Session : SF_vars(Step(s))

-----------------------------------------------------------------------------
(* What must hold.                                                         *)

\* Every variable holds what its column or local may hold.
TypeOK ==
    /\ org_memberships \in [Org -> [User -> Role \cup {None}]]
    /\ team_memberships \in [Team -> [User -> Role \cup {None}]]
    /\ teams \in [Team -> {"absent", "live", "deleted"}]
    /\ roles \in [Role -> {"absent", "live", "deleted"}]
    /\ role_capabilities \in [Role -> SUBSET Capability]
    /\ lock_holder \in [Key -> Session \cup {None}]
    /\ pc \in [Session -> Label]
    /\ req \in [Session -> Requests \cup {None}]
    /\ actor_flag \in [Session -> BOOLEAN]
    /\ v_org_id \in [Session -> Org \cup {None}]
    /\ doomed \in [Session -> SUBSET (Team \X User)]

\* Assumption 1 of the README: whatever removals, demotions and role changes
\* run together, an org never loses its last super-admin (ZA001).
OrgManageable == \A o \in Org : OrgManagers(o) # {}

Commits(s, op, o, u) ==
    pc[s] # "idle" /\ pc'[s] = "idle" /\ req[s].op = op /\ req[s].org = o /\ req[s].user = u

Unseated(o, u) == org_memberships[o][u] # None /\ team_memberships[DefaultTeam[o]][u] = None

LosesSeat(o, u) ==
    team_memberships[DefaultTeam[o]][u] # None /\ team_memberships'[DefaultTeam[o]][u] = None

\* Assumption 3: all members join the default team, and it cannot be left.  A seat
\* in it goes only with its holder's removal from the org; and a member is without
\* one only if he had it before he was a member and that removal committed between
\* the insert that found it and the insert's own commit.
DefaultSeatsAreKept ==
    [][\A o \in Org, u \in User :
          /\ LosesSeat(o, u) => \E s \in Session : Commits(s, "remove_org_member", o, u)
          /\ ~Unseated(o, u) /\ Unseated(o, u)' =>
                \E s \in Session : pc[s] = "commit" /\ Commits(s, "add_org_member", o, u)]_vars

IsProper(r, scope, o) == roles[r] = "live" /\ RoleScope[r] = scope /\ RoleOrg[r] \in {None, o}

\* A role that somebody holds exists, has the scope of the membership and is
\* built in or of the same org: delete_role racing an insert or an update
\* never leaves a membership with a role that is gone (ZA004, the triggers).
HeldRolesFit ==
    /\ \A o \in Org, u \in User :
          org_memberships[o][u] # None => IsProper(org_memberships[o][u], "org", o)
    /\ \A t \in Team, u \in User :
          team_memberships[t][u] # None =>
              teams[t] = "live" /\ IsProper(team_memberships[t][u], "team", TeamOrg[t])

\* Assumptions 12 and 20: a team that had an admin is left without one only by
\* the cascade of a removal from the org, or by a caller whose request read
\* that he was a super-admin (ZA002).
LosesLastAdmin(t) ==
    teams'[t] = "live" /\ TeamManagers(t) # {} /\ TeamManagers(t)' = {}

StrandingIsExcused ==
    [][\A t \in Team : LosesLastAdmin(t) =>
          \E s \in Session : /\ pc[s] = "write" /\ pc'[s] = "idle"
                             /\ req[s].op = "remove_org_member" \/ actor_flag[s]]_vars

\* The lock order of the functions (org, then team) leaves no set of sessions
\* that all wait for one another, whatever else they hold or have deleted.
WaitsFor(s, x) ==
    \/ LockWanted(s) # None /\ lock_holder[LockWanted(s)] = x /\ x # s
    \/ At(s, "insert", {"add_org_member"}) /\ <<DefaultTeam[req[s].org], req[s].user>> \in doomed[x]
    \/ At(s, "insert", {"add_team_member"}) /\ <<req[s].team, req[s].user>> \in doomed[x]
    \/ At(s, "insert", {"add_org_member"}) /\ Enrols(x, req[s].org, req[s].user)
    \/ At(s, "write", {"delete_role"}) /\ pc[x] = "commit" /\ req[x].role = req[s].role

NoDeadlock ==
    \A W \in SUBSET Session : W # {} => \E s \in W : \A x \in W : ~WaitsFor(s, x)

\* No request waits for ever: the locks of a finished or aborted transaction
\* are released, and nobody holds one while waiting for a lock of lower order.
RequestsFinish == \A s \in Session : pc[s] # "idle" ~> pc[s] = "idle"

\* Assumption 2: a removal from an org leaves the user in no team of the org.
RemovalCascades ==
    [][\A o \in Org, u \in User :
          org_memberships[o][u] # None /\ org_memberships'[o][u] = None
            => \A t \in Team : TeamOrg[t] = o => team_memberships'[t][u] = None]_vars

-----------------------------------------------------------------------------
\* What the functions promise to a client who sees only who belongs to an org
\* and who manages it: each change is one atomic change of a roster that never
\* runs out of managers.
Roster == INSTANCE OrgRoster WITH
    members  <- [o \in Org |-> {u \in User : org_memberships[o][u] # None}],
    managers <- [o \in Org |-> OrgManagers(o)]

RefinesRoster == Roster!Spec

=============================================================================
