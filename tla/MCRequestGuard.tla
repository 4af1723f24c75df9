-------------------------- MODULE MCRequestGuard --------------------------
(***************************************************************************)
(* A small deployment for RequestGuard: two orgs, three teams, a workflow   *)
(* in each org, a super-admin of one org who is a member of the other, an   *)
(* editor, an outsider, and three API keys of the super-admin's, of which   *)
(* one is for the org he is only a member of.                              *)
(***************************************************************************)
EXTENDS RequestGuard, TLC

CONSTANTS acme, globex,                    \* orgs
          general, eng, lobby,             \* teams, lobby in globex
          flow, leaflet,                   \* workflows of eng and of lobby
          draft,                           \* one of eng that is not there yet
          alice, bob, carol,               \* users
          member, super_admin, viewer, editor, admin,
          agent, runner, fresh             \* keys: agent reads and runs, runner
                                           \* only runs, fresh is not minted yet

MCTeamOrg == [t \in Team |-> IF t = lobby THEN globex ELSE acme]
MCWorkflowTeam == [w \in Workflow |-> IF w = leaflet THEN lobby ELSE eng]
MCDefaultTeam == [o \in Org |-> IF o = globex THEN lobby ELSE general]
MCKeyOwner == [k \in ApiKey |-> alice]
MCKeyOrg == [k \in ApiKey |-> IF k = runner THEN globex ELSE acme]
MCKeyScopes == [k \in ApiKey |->
    IF k = runner THEN {"workflow:run"} ELSE {"workflow:read", "workflow:run"}]

\* The seed migration's role_capabilities.
MCRoleGrants == [r \in Role |->
    CASE r = member -> {"create_team"}
      [] r = super_admin -> {"create_team", "manage_org", "manage_roles", "manage_api_keys"}
      [] r = viewer -> {"view", "run"}
      [] r = editor -> {"view", "run", "edit", "export"}
      [] r = admin -> {"view", "run", "edit", "export", "protect_export", "delete",
                       "manage_members"}]

MCOrgRole == [o \in Org |-> [u \in User |->
    CASE o = acme /\ u = alice -> super_admin
      [] o = acme /\ u = bob -> member
      [] o = globex /\ u # bob -> member
      [] OTHER -> None]]

MCTeamRole == [t \in Team |-> [u \in User |->
    CASE t = eng /\ u = bob -> editor
      [] t = general /\ u # carol -> viewer
      [] t = lobby /\ u # bob -> viewer
      [] OTHER -> None]]

AllButDraft == (Team \cup Workflow) \ {draft}
AllButFresh == ApiKey \ {fresh}

Ask(who, a, type, e, s, r) ==
    [route |-> "guarded", bearer |-> who, key |-> None, action |-> a, type |-> type,
     entity |-> e, subject |-> s, role |-> r]

AskKey(k, a, type, e) == [Ask(None, a, type, e, None, None) EXCEPT !.key = k]

Explain(who, a, type, e) == [Ask(who, a, type, e, None, None) EXCEPT !.route = "explain"]

\* bob works on flow while alice moves him about, and steps down herself.
Revocations ==
    {Ask(bob, a, "Workflow", flow, None, None) : a \in {"WorkflowView", "WorkflowUpdate"}}
    \cup {Explain(bob, "WorkflowDelete", "Workflow", flow),
          Ask(bob, "OrgView", "Organization", acme, None, None),
          Ask(alice, "OrgRemoveUser", "Organization", acme, bob, None),
          Ask(alice, "OrgChangeRole", "Organization", acme, bob, super_admin),
          Ask(alice, "OrgChangeRole", "Organization", acme, alice, member),
          Ask(alice, "TeamChangeRole", "Team", eng, bob, viewer),
          Ask(alice, "TeamRemoveMember", "Team", eng, bob, None)}

\* Everything a route guards, asked by who may do all of it and by who may do some.
\* bob is taken out of a team that may be gone by then, as may the workflows.  What
\* an outsider asks of acme is refused alike.
RouteRequests ==
    UNION {
        {Ask(u, a, "Workflow", w, None, None) :
            a \in {"WorkflowView", "WorkflowRun", "WorkflowUpdate", "WorkflowDelete",
                   "WorkflowExport", "WorkflowProtectExport"}, w \in {flow, leaflet}}
        \cup {Ask(u, "OrgView", "Organization", o, None, None) : o \in Org}
        \cup {Ask(u, "OrgAddUser", "Organization", acme, carol, member),
              Ask(u, "TeamCreate", "Organization", acme, eng, None),
              Ask(u, "TeamAddMember", "Team", eng, carol, viewer),
              Ask(u, "TeamRemoveMember", "Team", eng, bob, None),
              Ask(u, "TeamDelete", "Team", eng, None, None),
              Ask(u, "WorkflowCreate", "Team", eng, draft, None),
              Ask(u, "RoleCreate", "Organization", acme, None, None),
              Ask(u, "ApiKeyCreate", "Organization", acme, fresh, None),
              Ask(u, "ApiKeyCreate", "Organization", acme, None, None),
              Ask(u, "ApiKeyRevoke", "Organization", acme, agent, None),
              Ask(u, "ApiKeyRevoke", "Organization", acme, runner, None),
              Ask(u, "ApiKeyRevoke", "Organization", acme, fresh, None)}
        : u \in {alice, bob}}
    \cup {Ask(carol, a, "Workflow", w, None, None) :
            a \in {"WorkflowView", "WorkflowRun", "WorkflowDelete"}, w \in {flow, leaflet}}
    \cup {Ask(carol, "OrgView", "Organization", o, None, None) : o \in Org}
    \cup {Ask(carol, "TeamDelete", "Team", eng, None, None)}
    \cup {Explain(alice, a, "Organization", acme) : a \in {"OrgView", "WorkflowRun"}}
    \cup {Ask("invalid", "OrgView", "Organization", acme, None, None),
          Ask(None, "OrgView", "Organization", acme, None, None)}

\* Keys on every kind of action in both orgs.
KeyRequests ==
    {AskKey(k, a, "Workflow", w) : k \in ApiKey, w \in {flow, leaflet},
        a \in {"WorkflowView", "WorkflowRun", "WorkflowUpdate"}}
    \cup {AskKey(k, "TeamDelete", "Team", eng) : k \in ApiKey}
    \cup {AskKey(k, "OrgView", "Organization", o) : k \in ApiKey, o \in Org}

\* Keys that are minted, revoked and expired meanwhile, and users.
AllRequests == RouteRequests \cup KeyRequests

\* A key minted, and nothing else.
Minting == {Ask(alice, "ApiKeyCreate", "Organization", acme, fresh, None),
            AskKey(agent, "WorkflowView", "Workflow", flow)}

Symmetric == Permutations(Request)

=============================================================================
