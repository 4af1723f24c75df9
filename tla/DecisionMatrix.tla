-------------------------- MODULE DecisionMatrix --------------------------
(***************************************************************************)
(* docs/DECISION_MATRIX.md: who is allowed what, as the program's own       *)
(* engine answered when the page was generated, and the role grants of the  *)
(* seed migration.  t is the team of the rows and o its org.               *)
(***************************************************************************)
EXTENDS PolicyEngine

\* role_capabilities of the built-in roles.
SeedGrants ==
    [member |-> {"create_team"},
     super_admin |-> {"create_team", "manage_org", "manage_roles", "manage_api_keys"},
     viewer |-> {"view", "run"},
     editor |-> {"view", "run", "edit", "export"},
     admin |-> {"view", "run", "edit", "export", "protect_export", "delete", "manage_members"}]

\* The subjects of the page.  Its roles are the fixture's own, of which the built-in
\* ones of a team are read from the seed here; an auditor is a custom role.
Grants(role) ==
    CASE role \in {"viewer", "editor", "admin"} -> SeedGrants[role]
      [] role = "auditor" -> {"view"}
      [] role \in {"super_admin", "outsider", "anonymous"} -> {}

Subject(role, in_org, t, o) ==
    [capabilities |-> (Grants(role) \X {t})
                        \cup (IF role = "super_admin" THEN {<<"manage_org", o>>} ELSE {}),
     orgs |-> IF in_org THEN {o} ELSE {}]

Target(type, exported, visibility, protected, t, o) ==
    [type |-> type, org |-> o, holder |-> t, exported |-> exported,
     visibility |-> visibility, password_protected |-> protected]

\* The rows ask about team-1 where these actions are concerned, about wf-1 otherwise.
Resource(a, t, o) ==
    Target(IF a \in {"TeamAddMember", "TeamDelete", "WorkflowCreate"} THEN "Team" ELSE "Workflow",
           FALSE, "public", FALSE, t, o)

Session(method, verified, scopes, org) ==
    [auth_method |-> method, password_verified |-> verified,
     api_key_scopes |-> scopes, api_key_org |-> org]

\* MATRIX: what each role is allowed, and what it is denied.
Allowed ==
    [viewer |-> {"WorkflowView", "WorkflowRun"},
     editor |-> {"WorkflowView", "WorkflowRun", "WorkflowUpdate", "WorkflowCreate", "WorkflowExport"},
     admin |-> {"WorkflowView", "WorkflowUpdate", "WorkflowExport", "WorkflowProtectExport",
                "WorkflowDelete", "TeamAddMember", "TeamDelete"},
     auditor |-> {"WorkflowView"},
     super_admin |-> {"WorkflowView", "WorkflowUpdate", "WorkflowDelete", "TeamAddMember", "TeamDelete"},
     outsider |-> {}, anonymous |-> {}]

Denied ==
    [viewer |-> {"WorkflowUpdate", "WorkflowExport", "WorkflowDelete", "TeamAddMember"},
     editor |-> {"WorkflowProtectExport", "WorkflowDelete", "TeamAddMember"},
     admin |-> {}, auditor |-> {"WorkflowRun", "WorkflowUpdate"}, super_admin |-> {},
     outsider |-> {"WorkflowView", "WorkflowRun", "WorkflowUpdate"},
     anonymous |-> {"WorkflowView", "WorkflowRun"}]

\* EXPORT_MATRIX: exported, visibility, protected, verified, in_org, verdict.
ExportRows ==
    {<<FALSE, "public", FALSE, FALSE, FALSE, "Deny">>,
     <<TRUE, "public", FALSE, FALSE, FALSE, "Allow">>,
     <<TRUE, "public", TRUE, FALSE, FALSE, "Deny">>,
     <<TRUE, "public", TRUE, TRUE, FALSE, "Allow">>,
     <<TRUE, "org_only", FALSE, FALSE, FALSE, "Deny">>,
     <<TRUE, "org_only", FALSE, FALSE, TRUE, "Allow">>,
     <<TRUE, "org_only", TRUE, FALSE, TRUE, "Deny">>,
     <<TRUE, "org_only", TRUE, TRUE, TRUE, "Allow">>}

\* API_KEY_MATRIX: action, scopes, verdict for a super-admin's key.
KeyRows ==
    {<<"WorkflowRun", {"workflow:run"}, "Allow">>,
     <<"WorkflowView", {"workflow:run"}, "Deny">>,
     <<"WorkflowView", {"workflow:read"}, "Allow">>,
     <<"TeamDelete", {"workflow:run"}, "Deny">>,
     <<"TeamAddMember", {"workflow:run"}, "Deny">>,
     <<"OrgRemoveUser", {"workflow:run"}, "Deny">>}

-----------------------------------------------------------------------------
(* What the page says of the policies.                                     *)

RoleVerdict(role, a, t, o) ==
    Authorize(Subject(role, TRUE, t, o), a, Resource(a, t, o), Session("jwt", FALSE, {}, None))

RolesMatch(t, o) ==
    \A role \in DOMAIN Allowed :
        /\ \A a \in Allowed[role] : RoleVerdict(role, a, t, o) = "Allow"
        /\ \A a \in Denied[role] : RoleVerdict(role, a, t, o) = "Deny"

ExportsMatch(t, o) ==
    \A row \in ExportRows :
        Authorize(Subject("anonymous", row[5], t, o), "WorkflowRunExported",
                  Target("Workflow", row[1], row[2], row[3], t, o),
                  Session("anonymous", row[4], {}, None)) = row[6]

KeysMatch(t, o) ==
    \A row \in KeyRows :
        Authorize(Subject("super_admin", TRUE, t, o), row[1], Resource(row[1], t, o),
                  Session("api_key", FALSE, row[2], o)) = row[3]

=============================================================================
