--------------------------- MODULE MCMemberships ---------------------------
(***************************************************************************)
(* Small databases for Memberships: an org with its default team and one    *)
(* more team, a second org with its default team, the built-in roles of the *)
(* seed migration that matter to the counts, and two custom roles.  Each     *)
(* scenario is a set of requests; any number of them may be sent, in any    *)
(* order, by the sessions of the run.                                       *)
(***************************************************************************)
EXTENDS Memberships, TLC

CONSTANTS acme, general, eng,                \* an org and its teams
          globex, lobby,                     \* another org and its default team
          u1, u2, u3,                        \* users
          member, super_admin,               \* built-in org roles
          viewer, admin,                     \* built-in team roles
          owner, founder                     \* custom roles of acme

MCTeamOrg == [t \in Team |-> IF t = lobby THEN globex ELSE acme]
MCDefaultTeam == [o \in Org |-> IF o = globex THEN lobby ELSE general]
MCRoleScope == [r \in Role |-> IF r \in {viewer, admin} THEN "team" ELSE "org"]
MCRoleOrg == [r \in Role |-> IF r \in {owner, founder} THEN acme ELSE None]
\* acme's own roles have the name of a built-in one.
MCRoleName == [r \in Role |->
    CASE r \in {super_admin, owner, founder} -> "super_admin"
      [] r = member -> "member"
      [] r = viewer -> "viewer"
      [] r = admin -> "admin"]
MCRoleGrants == [r \in Role |->
    CASE r \in {super_admin, owner} -> {"manage_org"}
      [] r = admin -> {"manage_members"}
      [] OTHER -> {}]

BuiltIns == Role \ {owner, founder}
DefaultTeamsOnly == Team \ {eng}

\* u1 and u2 are super-admins, everybody else is outside.
TwoSuperAdmins == [o \in Org |-> [u \in User |->
    IF u \in {u1, u2} THEN super_admin ELSE None]]

\* The enrolment trigger's rows in the default team; u1 and u2 run eng, if it
\* is there at the start.
SeatsOfTwo == [t \in Team |-> [u \in User |->
    CASE t # eng /\ TwoSuperAdmins[MCTeamOrg[t]][u] # None -> viewer
      [] t = eng /\ t \in SeedTeams /\ u \in {u1, u2} -> admin
      [] OTHER -> None]]

Ask(op, t, u, r, a) ==
    [op |-> op, org |-> acme, team |-> t, user |-> u, role |-> r, actor |-> a]

OrgRoles == {r \in Role : MCRoleScope[r] = "org"}
TeamRoles == Role \ OrgRoles

Removals == {Ask("remove_org_member", None, u, None, u1) : u \in {u1, u2}}

\* u1 and u2 leave and are demoted; u1 takes roles of every kind; u3 comes to stay.
OrgRequests ==
    Removals
    \cup {Ask("change_org_role", None, u1, r, u1) : r \in OrgRoles}
    \cup {Ask("change_org_role", None, u2, r, u1) : r \in {member, super_admin}}
    \cup {Ask("add_org_member", None, u1, r, u1) : r \in {super_admin, owner}}
    \cup {Ask("add_org_member", None, u3, super_admin, u1)}

\* founder is made only to meet owner's name.
RoleRequests ==
    {Ask(op, None, u1, owner, u1) : op \in {"create_role", "delete_role"}}
    \cup {Ask("create_role", None, u1, founder, u1)}

\* Everything that changes who belongs to acme and who manages it, and u1's
\* changing places in both orgs, which share built-in roles and nothing else:
\* in globex the name of owner means the built-in role.
GovernanceRequests ==
    OrgRequests \cup RoleRequests
    \cup {[Ask(op, None, u1, r, u1) EXCEPT !.org = globex] :
        op \in {"change_org_role", "add_org_member"}, r \in {owner, super_admin}}
    \cup {[Ask("remove_org_member", None, u1, None, u1) EXCEPT !.org = globex],
          [Ask("add_team_member", lobby, u1, owner, u1) EXCEPT !.org = globex]}

\* The functions that lock an org, a team or a role, and the inserts that lock
\* nothing.  u1 acts, and loses the role that excuses him; u2 is promoted and
\* demoted.
TeamRequests ==
    Removals
    \cup {Ask("remove_team_member", eng, u, None, u1) : u \in User}
    \cup {Ask("change_team_role", eng, u2, r, u1) : r \in TeamRoles}
    \cup {Ask("delete_team", t, u1, None, u1) : t \in Team}
    \cup {Ask("add_team_member", eng, u, admin, u1) : u \in User}
    \cup {Ask("remove_team_member", general, u1, None, u1),
          Ask("change_org_role", None, u1, member, u1),
          Ask("create_team", eng, u1, None, u1),
          Ask("add_org_member", None, u1, super_admin, u1),
          Ask("delete_role", None, u1, viewer, u1)}

\* A removal from the org while a team of the org is made and filled.
RemovalAndInsert ==
    {Ask("remove_org_member", None, u1, None, u2), Ask("create_team", eng, u2, None, u2),
     Ask("add_team_member", eng, u1, viewer, u2)}

Symmetric == Permutations(Session)

=============================================================================
