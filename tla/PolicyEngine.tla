--------------------------- MODULE PolicyEngine ---------------------------
(***************************************************************************)
(* The Cedar policies of authz-core and the verdict its engine gives on a   *)
(* principal, an action, a resource and a context.                         *)
(*                                                                         *)
(* A principal is a set of Cap entities, written <<capability, team or      *)
(* org>>, and a set of orgs.  A resource is its type, its org, the team or  *)
(* org its Cap attributes belong to, and its export row.  A context says    *)
(* how the caller authenticated, and for an API key its scopes and org.     *)
(***************************************************************************)
CONSTANT None       \* an absent api_key_org

Capability == {"view", "run", "edit", "export", "protect_export", "delete",
               "manage_members", "create_team", "manage_org", "manage_roles",
               "manage_api_keys"}

ResourceType == {"Workflow", "Team", "Organization"}

GovernanceActions ==
    {"OrgAddUser", "OrgRemoveUser", "OrgChangeRole", "TeamCreate", "TeamDelete",
     "TeamAddMember", "TeamRemoveMember", "TeamChangeRole", "RoleCreate",
     "RoleDelete", "ApiKeyCreate", "ApiKeyRevoke"}

ReadActions == {"OrgView", "TeamView", "WorkflowList", "WorkflowView"}

RunActions == {"WorkflowRun", "WorkflowRunExported"}

WriteActions == {"WorkflowCreate", "WorkflowUpdate", "WorkflowDelete",
                 "WorkflowExport", "WorkflowProtectExport"}

Action == GovernanceActions \cup ReadActions \cup RunActions \cup WriteActions

\* The public route applies to super-admins like to anyone else.
OrgAdministrableActions == Action \ {"WorkflowRunExported"}

\* The scope an API key needs; no key can hold the last two.
ActionScope(a) ==
    CASE a \in ReadActions -> "workflow:read"
      [] a \in RunActions -> "workflow:run"
      [] a \in WriteActions -> "workflow:write"
      [] a \in GovernanceActions -> "governance:denied"

KnownScopes == {"workflow:read", "workflow:run"}

\* The capability attributes each resource type declares.
CapAttributes(type) ==
    CASE type = "Workflow" -> {"view", "run", "edit", "export", "protect_export", "delete"}
      [] type = "Team" -> {"view", "edit", "manage_members", "delete"}
      [] type = "Organization" -> {"create_team", "manage_roles", "manage_api_keys"}

\* The attribute the cap-* policy for an action reads, if one is for it.
CapPolicy ==
    [TeamView |-> "view", WorkflowView |-> "view", WorkflowList |-> "view",
     WorkflowRun |-> "run", WorkflowCreate |-> "edit", WorkflowUpdate |-> "edit",
     WorkflowExport |-> "export", WorkflowProtectExport |-> "protect_export",
     WorkflowDelete |-> "delete", TeamDelete |-> "delete",
     TeamAddMember |-> "manage_members", TeamRemoveMember |-> "manage_members",
     TeamChangeRole |-> "manage_members", TeamCreate |-> "create_team",
     RoleCreate |-> "manage_roles", RoleDelete |-> "manage_roles",
     ApiKeyCreate |-> "manage_api_keys", ApiKeyRevoke |-> "manage_api_keys"]

-----------------------------------------------------------------------------
(* Policies.                                                               *)

\* An applicable policy that reads an attribute the resource lacks errors.
Errors(a, resource) ==
    \/ a \in DOMAIN CapPolicy /\ CapPolicy[a] \notin CapAttributes(resource.type)
    \/ a = "WorkflowRunExported" /\ resource.type # "Workflow"

HasCap(principal, a, resource) ==
    a \in DOMAIN CapPolicy /\ <<CapPolicy[a], resource.holder>> \in principal.capabilities

IsOrgAdmin(principal, resource) ==
    <<"manage_org", resource.org>> \in principal.capabilities

Permits(principal, a, resource) ==
    \/ a = "OrgView" /\ resource.org \in principal.orgs
    \/ HasCap(principal, a, resource)
    \/ a \in OrgAdministrableActions /\ IsOrgAdmin(principal, resource)
    \/ a = "WorkflowRunExported"

\* must-be-exported, exported-requires-password, exported-org-members-only
ForbidsExported(principal, a, resource, context) ==
    /\ a = "WorkflowRunExported"
    /\ \/ ~resource.exported
       \/ resource.password_protected /\ ~context.password_verified
       \/ resource.visibility = "org_only" /\ resource.org \notin principal.orgs

\* Mutant: nobody compares the key's org with the resource's.
ForbidsAnyOrgKey(a, resource, context) ==
    /\ context.auth_method = "api_key"
    /\ \/ a \in GovernanceActions
       \/ ActionScope(a) \notin context.api_key_scopes

\* api-key-no-governance, api-key-single-org, api-key-scope-check
ForbidsKey(a, resource, context) ==
    /\ context.auth_method = "api_key"
    /\ \/ a \in GovernanceActions
       \/ context.api_key_org = None \/ resource.org # context.api_key_org
       \/ ActionScope(a) \notin context.api_key_scopes

\* D6: errors are looked at before the verdict; a forbid overrides any permit.
Authorize(principal, a, resource, context) ==
    IF Errors(a, resource) THEN "EngineError"
    ELSE IF /\ Permits(principal, a, resource)
            /\ ~ForbidsExported(principal, a, resource, context)
            /\ ~ForbidsKey(a, resource, context)
         THEN "Allow"
         ELSE "Deny"

\* The "can you see this at all?" action of each resource type.
VisibilityAction(type) ==
    CASE type = "Workflow" -> "WorkflowView"
      [] type = "Team" -> "TeamView"
      [] type = "Organization" -> "OrgView"

=============================================================================
