--------------------------- MODULE RequestGuard ---------------------------
(***************************************************************************)
(* The life of one guarded request: authentication, the capability slice    *)
(* read in two queries, the resource read, the visibility and the action    *)
(* ruling of requires(), the handler, and the audit row written after the   *)
(* response.  Requests run concurrently, and some of their handlers change  *)
(* the tables the others are being judged by.                              *)
(*                                                                         *)
(* Every database statement is a step.  What a handler writes to the        *)
(* membership tables is one step here; Memberships models it in full.       *)
(***************************************************************************)
EXTENDS PolicyEngine

CONSTANTS
    User, Org, Team, Workflow, ApiKey, Role,
    Request,                  \* requests in flight
    Call,                     \* what a client may ask, see CallType
    TeamOrg, WorkflowTeam,    \* org_id of a team, team_id of a workflow
    DefaultTeam,              \* the team an org enrols its members in
    RoleGrants,               \* capabilities of each role
    Viewer, TeamAdmin,        \* the roles the triggers hand out
    KeyOwner, KeyOrg,         \* user_id and org_id of an API key
    KeyScopes,                \* the scopes a key is minted with
    SeedOrgRole, SeedTeamRole, SeedRows, SeedKeys

Entity == Org \cup Team \cup Workflow

Route == {"guarded", "explain"}

\* The actions required of each type of resource, one or more routes each.
GuardedActions(type) ==
    CASE type = "Organization" -> {"OrgView", "OrgAddUser", "OrgRemoveUser", "OrgChangeRole",
                                   "TeamCreate", "RoleCreate", "ApiKeyCreate", "ApiKeyRevoke"}
      [] type = "Team" -> {"TeamDelete", "TeamAddMember", "TeamRemoveMember", "TeamChangeRole",
                           "WorkflowCreate"}
      [] type = "Workflow" -> {"WorkflowView", "WorkflowRun", "WorkflowUpdate", "WorkflowDelete",
                               "WorkflowExport", "WorkflowProtectExport"}

\* bearer: the subject of a JWT, "invalid" for one that fails to verify; key: the
\* key an x-api-key header matches; entity, type, action: what the route guards or
\* the explain body asks about; subject, role: what the handler works on.  Listing an
\* org's keys is required with ApiKeyCreate, and has no subject.
CallType == [route : Route, bearer : User \cup {None, "invalid"},
             key : ApiKey \cup {None}, action : Action, type : ResourceType,
             entity : Entity, subject : User \cup Team \cup Workflow \cup ApiKey \cup {None},
             role : Role \cup {None}]

ASSUME CallAssumption ==
    /\ Call \subseteq CallType
    /\ \A c \in Call :
        /\ c.entity \in CASE c.type = "Workflow" -> Workflow
                          [] c.type = "Team" -> Team
                          [] c.type = "Organization" -> Org
        /\ c.route = "guarded" =>
            /\ c.action \in GuardedActions(c.type)
            /\ c.action \in {"OrgAddUser", "OrgRemoveUser", "OrgChangeRole", "TeamAddMember",
                             "TeamRemoveMember", "TeamChangeRole"} => c.subject \in User
            /\ IF c.action \in {"OrgAddUser", "OrgChangeRole", "TeamAddMember", "TeamChangeRole"}
               THEN c.role \in Role ELSE c.role = None
            /\ c.action = "TeamCreate" => c.subject \in Team /\ TeamOrg[c.subject] = c.entity
            /\ c.action = "WorkflowCreate" =>
                  c.subject \in Workflow /\ WorkflowTeam[c.subject] = c.entity
            /\ c.action = "ApiKeyCreate" => c.subject \in ApiKey \cup {None}
            /\ c.action = "ApiKeyRevoke" => c.subject \in ApiKey

ASSUME TablesAssumption ==
    /\ Org \cap Team = {} /\ Team \cap Workflow = {}
    /\ None \notin User \cup Role \cup Org \cup Team \cup ApiKey
    /\ TeamOrg \in [Team -> Org] /\ WorkflowTeam \in [Workflow -> Team]
    /\ DefaultTeam \in [Org -> Team] /\ \A o \in Org : TeamOrg[DefaultTeam[o]] = o
    /\ RoleGrants \in [Role -> SUBSET Capability] /\ {Viewer, TeamAdmin} \subseteq Role
    /\ KeyOwner \in [ApiKey -> User] /\ KeyOrg \in [ApiKey -> Org]
    /\ KeyScopes \in [ApiKey -> SUBSET KnownScopes]
    /\ SeedOrgRole \in [Org -> [User -> Role \cup {None}]]
    /\ SeedTeamRole \in [Team -> [User -> Role \cup {None}]]
    /\ SeedRows \subseteq Team \cup Workflow /\ SeedKeys \subseteq ApiKey

VARIABLES
    org_memberships, team_memberships,  \* role of each user, None when no row
    rows,                    \* teams and workflows that exist
    api_keys,                \* "absent", "live", "revoked" or "expired"
    api_key_grants,          \* scopes of each key
    authz_audit_log,         \* rows written
    pc, call, principal,     \* of each request
    team_caps, org_entity,   \* the two halves of its capability slice
    ruling,                  \* the last decision the engine gave it
    status,                  \* of its response
    tasks,                   \* audit rows its response carries
    committed,               \* its handler has changed a row
    seen                     \* the principal's true entity, at each moment
                             \* from authentication to the ruling

tables  == <<org_memberships, team_memberships, rows, api_keys, api_key_grants>>
request == <<pc, call, principal, team_caps, org_entity, ruling, status, tasks, committed>>
vars    == <<tables, authz_audit_log, request, seen>>

-----------------------------------------------------------------------------
(* What the queries and the slice builder compute.                         *)

GrantsOf(role) == IF role = None THEN {} ELSE RoleGrants[role]

TeamCaps(u) == {g \in Capability \X Team : g[1] \in GrantsOf(team_memberships[g[2]][u])}

OrgCaps(u) == {g \in Capability \X Org : g[1] \in GrantsOf(org_memberships[g[2]][u])}

OrgsOf(u) == {o \in Org : org_memberships[o][u] # None}

\* What the tables say a user may do, were they read at one moment.
EntityOf(u) == [capabilities |-> TeamCaps(u) \cup OrgCaps(u), orgs |-> OrgsOf(u)]

\* What the request read of it, the two halves at two moments.
SliceOf(r) == [capabilities |-> team_caps[r] \cup org_entity[r].capabilities,
               orgs |-> org_entity[r].orgs]

\* An org's entity is built from the id alone; others need their row.
InSlice(c) == c.type = "Organization" \/ c.entity \in rows

\* Workflows have no export row here, so its attributes take their defaults.
ResourceOf(c) ==
    LET t == IF c.type = "Workflow" THEN WorkflowTeam[c.entity] ELSE c.entity
    IN [type |-> c.type,
        org |-> IF c.type = "Organization" THEN c.entity ELSE TeamOrg[t],
        holder |-> t,
        exported |-> FALSE, visibility |-> "public", password_protected |-> FALSE]

BuildContext(p) ==
    [auth_method |-> p.auth_method, password_verified |-> FALSE,
     api_key_scopes |-> p.api_key_scopes, api_key_org |-> p.api_key_org_id]

Anonymous == [subject |-> None, auth_method |-> "anonymous",
              api_key_scopes |-> {}, api_key_org_id |-> None]

\* The chain: a Bearer header decides, then x-api-key, then anonymous.  A key
\* that is unknown, revoked or expired counts as no credential.
PrincipalOf(c) ==
    IF c.bearer # None
    THEN [Anonymous EXCEPT !.subject = c.bearer, !.auth_method = "jwt"]
    ELSE IF c.key # None /\ api_keys[c.key] = "live"
    THEN [subject |-> KeyOwner[c.key], auth_method |-> "api_key",
          api_key_scopes |-> api_key_grants[c.key], api_key_org_id |-> KeyOrg[c.key]]
    ELSE Anonymous

Decide(entity, p, a, c) == Authorize(entity, a, ResourceOf(c), BuildContext(p))

\* Mutant: the draft that borrowed one action for every type.
ProbeWorkflowList(c) == "WorkflowList"

Probe(c) == VisibilityAction(c.type)

\* Deny and error always, Allow unless it is of a workflow read.
ShouldRecord(a, decision) == decision # "Allow" \/ a \notin {"WorkflowView", "WorkflowList"}

-----------------------------------------------------------------------------
(* A request up to the ruling.                                             *)

Init ==
    /\ org_memberships = SeedOrgRole
    /\ team_memberships = SeedTeamRole
    /\ rows = SeedRows
    /\ api_keys = [k \in ApiKey |-> IF k \in SeedKeys THEN "live" ELSE "absent"]
    /\ api_key_grants = [k \in ApiKey |-> IF k \in SeedKeys THEN KeyScopes[k] ELSE {}]
    /\ authz_audit_log = {}
    /\ pc = [r \in Request |-> "new"]
    /\ call = [r \in Request |-> None]
    /\ principal = [r \in Request |-> Anonymous]
    /\ team_caps = [r \in Request |-> {}]
    /\ org_entity = [r \in Request |-> [capabilities |-> {}, orgs |-> {}]]
    /\ ruling = [r \in Request |-> None]
    /\ status = [r \in Request |-> 0]
    /\ tasks = [r \in Request |-> {}]
    /\ committed = [r \in Request |-> FALSE]
    /\ seen = [r \in Request |-> {}]

\* The response leaves; the tasks it carries run after it.
Respond(r, code, audit) ==
    /\ status' = [status EXCEPT ![r] = code]
    /\ tasks' = [tasks EXCEPT ![r] = audit]
    /\ pc' = [pc EXCEPT ![r] = IF audit = {} THEN "done" ELSE "background"]

Authenticate(r) ==
    /\ pc[r] = "new"
    /\ \E c \in Call :
        LET p == PrincipalOf(c) IN
        /\ call' = [call EXCEPT ![r] = c]
        /\ principal' = [principal EXCEPT ![r] = p]
        /\ IF p.subject \notin User
           THEN Respond(r, 401, {})
           ELSE pc' = [pc EXCEPT ![r] = "team_rows"] /\ UNCHANGED <<status, tasks>>
    /\ UNCHANGED <<tables, authz_audit_log, team_caps, org_entity, ruling, committed>>

\* Mutant: a provider that outlives its request, with its memo.
ReadTeamRowsOnce(r) ==
    /\ pc[r] = "team_rows"
    /\ LET memo == {q \in Request : pc[q] = "done" /\ principal[q] = principal[r] /\ ruling[q] # None}
       IN team_caps' = [team_caps EXCEPT ![r] =
            IF memo = {} THEN TeamCaps(principal[r].subject)
            ELSE team_caps[CHOOSE q \in memo : TRUE]]
    /\ pc' = [pc EXCEPT ![r] = "org_rows"]
    /\ UNCHANGED <<tables, authz_audit_log, call, principal, org_entity, ruling, status,
                   tasks, committed>>

\* capability_slice, first query.
ReadTeamRows(r) ==
    /\ pc[r] = "team_rows"
    /\ team_caps' = [team_caps EXCEPT ![r] = TeamCaps(principal[r].subject)]
    /\ pc' = [pc EXCEPT ![r] = "org_rows"]
    /\ UNCHANGED <<tables, authz_audit_log, call, principal, org_entity, ruling, status,
                   tasks, committed>>

\* capability_slice, second query.
ReadOrgRows(r) ==
    /\ pc[r] = "org_rows"
    /\ LET u == principal[r].subject IN
       org_entity' = [org_entity EXCEPT ![r] = [capabilities |-> OrgCaps(u), orgs |-> OrgsOf(u)]]
    /\ pc' = [pc EXCEPT ![r] = "resource"]
    /\ UNCHANGED <<tables, authz_audit_log, call, principal, team_caps, ruling, status,
                   tasks, committed>>

AuditRow(r, a, decision) == [request |-> r, action |-> a, decision |-> decision]

\* _maybe_audit queues; explain never calls it.
Audit(r, a, decision) ==
    IF call[r].route = "guarded" /\ ShouldRecord(a, decision)
    THEN {AuditRow(r, a, decision)} ELSE {}

Refusal == [EngineError |-> 500, Deny |-> 403]

\* Mutant: the error handlers build responses without the queued tasks.
RefuseQuietly(r, a, decision, code) ==
    /\ ruling' = [ruling EXCEPT ![r] = [action |-> a, decision |-> decision]]
    /\ Respond(r, code, {})

\* The error handlers of the three authorization errors carry the tasks over.
Refuse(r, a, decision, code) ==
    /\ ruling' = [ruling EXCEPT ![r] = [action |-> a, decision |-> decision]]
    /\ Respond(r, code, Audit(r, a, decision))

\* explain returns the decision it is asked for, allowed or denied.
Explained(r, a, decision) ==
    /\ ruling' = [ruling EXCEPT ![r] = [action |-> a, decision |-> decision]]
    /\ Respond(r, 200, {})

\* The action itself, once the resource is known to be visible.
RuleAction(r) ==
    LET c == call[r]
        decision == Decide(SliceOf(r), principal[r], c.action, c)
    IN \/ /\ decision = "EngineError" \/ (decision = "Deny" /\ c.route = "guarded")
          /\ Refuse(r, c.action, decision, Refusal[decision])
       \/ /\ decision = "Allow" /\ c.route = "guarded"
          /\ ruling' = [ruling EXCEPT ![r] = [action |-> c.action, decision |-> decision]]
          /\ tasks' = [tasks EXCEPT ![r] = Audit(r, c.action, decision)]
          /\ pc' = [pc EXCEPT ![r] = "handler"]
          /\ UNCHANGED status
       \/ decision # "EngineError" /\ c.route = "explain" /\ Explained(r, c.action, decision)

\* Mutant: the action first, and 404 only for what is not there.
RuleActionOnly(r) ==
    /\ pc[r] = "resource"
    /\ \/ /\ ~InSlice(call[r])
          /\ Respond(r, 404, {})
          /\ UNCHANGED ruling
       \/ InSlice(call[r]) /\ RuleAction(r)
    /\ UNCHANGED <<tables, authz_audit_log, call, principal, team_caps, org_entity, committed>>

\* The resource is read and both rulings are made on the slice.
Rule(r) ==
    /\ pc[r] = "resource"
    /\ LET c == call[r]
           visibility == Decide(SliceOf(r), principal[r], Probe(c), c)
       IN \/ /\ ~InSlice(c)
             /\ Respond(r, 404, {})
             /\ UNCHANGED ruling
          \/ /\ InSlice(c) /\ visibility # "Allow"
             /\ Refuse(r, Probe(c), visibility, IF visibility = "Deny" THEN 404 ELSE 500)
          \/ InSlice(c) /\ visibility = "Allow" /\ RuleAction(r)
    /\ UNCHANGED <<tables, authz_audit_log, call, principal, team_caps, org_entity, committed>>

-----------------------------------------------------------------------------
(* Handlers.                                                               *)

Lists(c) == c.action = "ApiKeyCreate" /\ c.subject = None

\* Its handler writes to a table.
Writes(c) == c.action \notin ReadActions \cup {"WorkflowRun"} /\ ~Lists(c)

OrgManagedWithout(o, u) ==
    \E v \in User \ {u} : "manage_org" \in GrantsOf(org_memberships[o][v])

TeamManagedWithout(t, u) ==
    \E v \in User \ {u} : "manage_members" \in GrantsOf(team_memberships[t][v])

LosesLastSuperAdmin(c) ==
    /\ c.action \in {"OrgRemoveUser", "OrgChangeRole"}
    /\ "manage_org" \notin GrantsOf(c.role) /\ ~OrgManagedWithout(c.entity, c.subject)

LosesLastTeamAdmin(r, c) ==
    /\ c.action \in {"TeamRemoveMember", "TeamChangeRole"}
    /\ "manage_members" \notin GrantsOf(c.role) /\ ~TeamManagedWithout(c.entity, c.subject)
    /\ <<"manage_org", TeamOrg[c.entity]>> \notin OrgCaps(principal[r].subject)

HitsDefaultTeam(c) ==
    /\ c.action \in {"TeamDelete", "TeamRemoveMember"}
    /\ c.entity = DefaultTeam[TeamOrg[c.entity]]

\* What the functions refuse with an SQLSTATE of their own.
Violates(r, c) == LosesLastSuperAdmin(c) \/ LosesLastTeamAdmin(r, c) \/ HitsDefaultTeam(c)

\* The tables one handler changes, and how.  An update of no row is a success.
AddToOrg(c) ==
    /\ c.action = "OrgAddUser"
    /\ org_memberships[c.entity][c.subject] = None
    /\ org_memberships' = [org_memberships EXCEPT ![c.entity][c.subject] = c.role]
    /\ team_memberships' = [team_memberships EXCEPT ![DefaultTeam[c.entity]][c.subject] =
                                IF @ = None THEN Viewer ELSE @]
    /\ UNCHANGED <<rows, api_keys, api_key_grants>>

ChangeOrgRole(c) ==
    /\ c.action = "OrgChangeRole"
    /\ org_memberships' = [org_memberships EXCEPT ![c.entity][c.subject] =
                                IF @ = None THEN None ELSE c.role]
    /\ UNCHANGED <<team_memberships, rows, api_keys, api_key_grants>>

RemoveFromOrg(c) ==
    /\ c.action = "OrgRemoveUser"
    /\ org_memberships' = [org_memberships EXCEPT ![c.entity][c.subject] = None]
    /\ team_memberships' = [t \in Team |-> IF TeamOrg[t] = c.entity
                              THEN [team_memberships[t] EXCEPT ![c.subject] = None]
                              ELSE team_memberships[t]]
    /\ UNCHANGED <<rows, api_keys, api_key_grants>>

\* These three read the team's org first, which fails if the team is gone.
WriteTeamRole(c) ==
    /\ c.action \in {"TeamAddMember", "TeamChangeRole", "TeamRemoveMember"}
    /\ c.entity \in rows
    /\ c.action = "TeamAddMember" => team_memberships[c.entity][c.subject] = None
    /\ team_memberships' = [team_memberships EXCEPT ![c.entity][c.subject] =
            IF c.action = "TeamAddMember" THEN c.role ELSE IF @ = None THEN None ELSE c.role]
    /\ UNCHANGED <<org_memberships, rows, api_keys, api_key_grants>>

CreateRow(r, c) ==
    /\ c.action \in {"TeamCreate", "WorkflowCreate"}
    /\ c.subject \notin rows
    /\ c.action = "WorkflowCreate" => c.entity \in rows
    /\ rows' = rows \cup {c.subject}
    /\ team_memberships' = IF c.action = "TeamCreate"
            THEN [team_memberships EXCEPT ![c.subject][principal[r].subject] = TeamAdmin]
            ELSE team_memberships
    /\ UNCHANGED <<org_memberships, api_keys, api_key_grants>>

\* Foreign keys cascade from a team to its workflows and its memberships.
DeleteRow(c) ==
    /\ c.action \in {"TeamDelete", "WorkflowDelete"}
    /\ rows' = {e \in rows : e # c.entity /\ (e \in Workflow => WorkflowTeam[e] # c.entity)}
    /\ team_memberships' = [t \in Team |-> IF t = c.entity THEN [u \in User |-> None]
                                           ELSE team_memberships[t]]
    /\ UNCHANGED <<org_memberships, api_keys, api_key_grants>>

\* Mutant: the row is cleared instead of stamped.
RevokeKeyCleared(c) ==
    /\ c.action = "ApiKeyRevoke"
    /\ api_keys[c.subject] # "absent" /\ KeyOrg[c.subject] = c.entity
    /\ api_keys' = [api_keys EXCEPT ![c.subject] = None]
    /\ UNCHANGED <<org_memberships, team_memberships, rows, api_key_grants>>

\* Mutant: the update filters on the key's id only.
RevokeKeyOfAny(c) ==
    /\ c.action = "ApiKeyRevoke"
    /\ api_keys[c.subject] # "absent"
    /\ api_keys' = [api_keys EXCEPT ![c.subject] = "revoked"]
    /\ UNCHANGED <<org_memberships, team_memberships, rows, api_key_grants>>

RevokeKey(c) ==
    /\ c.action = "ApiKeyRevoke"
    /\ api_keys[c.subject] # "absent" /\ KeyOrg[c.subject] = c.entity
    /\ api_keys' = [api_keys EXCEPT ![c.subject] = "revoked"]
    /\ UNCHANGED <<org_memberships, team_memberships, rows, api_key_grants>>

\* Reads, runs, and writes to tables no ruling looks at.  Only unpublishing works
\* on a workflow that is gone.
LeaveTables(c) ==
    /\ Lists(c) \/ c.action \in {"OrgView", "WorkflowView", "WorkflowRun", "WorkflowUpdate",
                                 "WorkflowExport", "WorkflowProtectExport"}
    /\ c.action \in {"WorkflowView", "WorkflowUpdate", "WorkflowProtectExport"} => c.entity \in rows
    /\ UNCHANGED tables

\* The row an update or a delete is for is there; the other writes make theirs, or
\* have made sure of it.
FindsRow(c) ==
    CASE c.action = "OrgChangeRole" -> org_memberships[c.entity][c.subject] # None
      [] c.action = "OrgRemoveUser" ->
            \/ org_memberships[c.entity][c.subject] # None
            \/ \E t \in Team : TeamOrg[t] = c.entity /\ team_memberships[t][c.subject] # None
      [] c.action \in {"TeamChangeRole", "TeamRemoveMember"} ->
            team_memberships[c.entity][c.subject] # None
      [] c.action \in {"TeamDelete", "WorkflowDelete", "WorkflowExport"} -> c.entity \in rows
      [] OTHER -> TRUE

\* The one statement of a handler is committed.  What has no export row can be
\* unpublished, too, and nothing changes.
Commit(r) ==
    LET c == call[r] IN
    /\ pc[r] = "handler" /\ ~Violates(r, c)
    /\ \/ AddToOrg(c) \/ ChangeOrgRole(c) \/ RemoveFromOrg(c) \/ WriteTeamRole(c)
       \/ CreateRow(r, c) \/ DeleteRow(c) \/ RevokeKey(c) \/ LeaveTables(c)
    /\ \E found \in {FindsRow(c), FindsRow(c) /\ c.action # "WorkflowExport"} :
          committed' = [committed EXCEPT ![r] = Writes(c) /\ found]

\* Mutant: a handler builds its own response, which carries no tasks.
HandleQuietly(r) ==
    /\ Commit(r)
    /\ Respond(r, 200, {})
    /\ UNCHANGED <<authz_audit_log, call, principal, team_caps, org_entity, ruling>>

\* A handler that commits its one statement and answers.
Handle(r) ==
    /\ Commit(r)
    /\ Respond(r, 200, tasks[r])
    /\ UNCHANGED <<authz_audit_log, call, principal, team_caps, org_entity, ruling>>

\* The two-insert handlers: a key and its grants, a role and its capabilities.
CommitFirst(r) ==
    /\ pc[r] = "handler"
    /\ LET c == call[r] IN
       \/ /\ c.action = "ApiKeyCreate" /\ ~Lists(c) /\ api_keys[c.subject] = "absent"
          /\ KeyOwner[c.subject] = principal[r].subject /\ KeyOrg[c.subject] = c.entity
          /\ api_keys' = [api_keys EXCEPT ![c.subject] = "live"]
       \/ c.action = "RoleCreate" /\ UNCHANGED api_keys
    /\ committed' = [committed EXCEPT ![r] = TRUE]
    /\ UNCHANGED <<org_memberships, team_memberships, rows, api_key_grants>>

CommitSecond(r) ==
    /\ pc[r] = "second_insert"
    /\ api_key_grants' = IF call[r].action = "ApiKeyCreate"
            THEN [api_key_grants EXCEPT ![call[r].subject] = KeyScopes[call[r].subject]]
            ELSE api_key_grants
    /\ UNCHANGED <<org_memberships, team_memberships, rows, api_keys, committed>>

InsertFirst(r) ==
    /\ CommitFirst(r)
    /\ pc' = [pc EXCEPT ![r] = "second_insert"]
    /\ UNCHANGED <<authz_audit_log, call, principal, team_caps, org_entity, ruling, status, tasks>>

InsertSecond(r) ==
    /\ CommitSecond(r)
    /\ Respond(r, 200, tasks[r])
    /\ UNCHANGED <<authz_audit_log, call, principal, team_caps, org_entity, ruling>>

\* The database commits and its answer does not arrive: whatever the client raises
\* then is nobody's to handle, and makes a response without the queued tasks.
LoseReply(r) ==
    /\ Commit(r) \/ CommitFirst(r) \/ CommitSecond(r)
    /\ Writes(call[r])
    /\ Respond(r, 500, {})
    /\ UNCHANGED <<authz_audit_log, call, principal, team_caps, org_entity, ruling>>

\* Mutant: every error response carries the queued tasks.
FailAudited(r) ==
    /\ pc[r] \in {"handler", "second_insert"}
    /\ \E code \in {409, 422, 500} : Respond(r, code, tasks[r])
    /\ UNCHANGED <<tables, authz_audit_log, call, principal, team_caps, org_entity, ruling,
                   committed>>

\* Routes with a body, which may fail validation or name a role, capability or scope
\* that does not exist.
TakesBody == {"OrgAddUser", "OrgChangeRole", "TeamCreate", "TeamAddMember", "TeamChangeRole",
              "RoleCreate", "ApiKeyCreate", "WorkflowCreate", "WorkflowUpdate", "WorkflowExport",
              "WorkflowProtectExport"}

\* A function refuses (409), the body is refused before any write (422), or the
\* database fails (500) and has done nothing.  These responses are built without
\* the queued tasks.
Fail(r) ==
    /\ \/ /\ pc[r] = "handler" /\ Violates(r, call[r])
          /\ Respond(r, 409, {})
       \/ /\ pc[r] = "handler" /\ call[r].action \in TakesBody /\ ~Lists(call[r])
          /\ Respond(r, 422, {})
       \/ /\ pc[r] \in {"handler", "second_insert"} /\ call[r].action # "WorkflowRun"
          /\ Respond(r, 500, {})
    /\ UNCHANGED <<tables, authz_audit_log, call, principal, team_caps, org_entity, ruling,
                   committed>>

\* Revoking a key the org has not got raises what an invisible resource raises,
\* whose response carries the row that allowed the revocation.
RevokeNothing(r) ==
    /\ pc[r] = "handler" /\ call[r].action = "ApiKeyRevoke"
    /\ api_keys[call[r].subject] = "absent" \/ KeyOrg[call[r].subject] # call[r].entity
    /\ Respond(r, 404, tasks[r])
    /\ UNCHANGED <<tables, authz_audit_log, call, principal, team_caps, org_entity, ruling,
                   committed>>

\* AuditWriter.record, after the response; a write that fails is logged and dropped.
Record(r) ==
    /\ pc[r] = "background"
    /\ \/ authz_audit_log' = authz_audit_log \cup tasks[r] /\ pc' = [pc EXCEPT ![r] = "done"]
       \/ UNCHANGED authz_audit_log /\ pc' = [pc EXCEPT ![r] = "audit_lost"]
    /\ UNCHANGED <<tables, call, principal, team_caps, org_entity, ruling, status, tasks,
                   committed>>

ExpireKey(k) ==
    /\ api_keys[k] = "live"
    /\ api_keys' = [api_keys EXCEPT ![k] = "expired"]
    /\ UNCHANGED <<org_memberships, team_memberships, rows, api_key_grants, authz_audit_log,
                   request>>

\* A request watches its principal from its authentication to its ruling.
Watch ==
    seen' = [r \in Request |->
        CASE pc[r] \in {"team_rows", "org_rows"} -> seen[r] \cup {EntityOf(principal[r].subject)'}
          [] pc[r] = "new" /\ pc'[r] = "team_rows" -> {EntityOf(principal[r].subject)'}
          [] OTHER -> seen[r]]

Step(r) ==
    \/ Authenticate(r) \/ ReadTeamRows(r) \/ ReadOrgRows(r) \/ Rule(r)
    \/ Handle(r) \/ InsertFirst(r) \/ InsertSecond(r) \/ LoseReply(r) \/ Fail(r)
    \/ RevokeNothing(r) \/ Record(r)

Next ==
    /\ \/ \E r \in Request : Step(r)
       \/ \E k \in ApiKey : ExpireKey(k)
    /\ Watch

Spec == Init /\ [][Next]_vars

-----------------------------------------------------------------------------
(* Properties.                                                             *)

KeyStates == {"absent", "live", "revoked", "expired"}

Principals == [subject : User \cup {None, "invalid"}, auth_method : {"anonymous", "jwt", "api_key"},
               api_key_scopes : SUBSET KnownScopes, api_key_org_id : Org \cup {None}]

Entities == [capabilities : SUBSET (Capability \X (Team \cup Org)), orgs : SUBSET Org]

AuditRows == [request : Request, action : Action, decision : {"Allow", "Deny", "EngineError"}]

Rulings == [action : Action, decision : {"Allow", "Deny", "EngineError"}]

Labels == {"new", "team_rows", "org_rows", "resource", "handler", "second_insert",
           "background", "audit_lost", "done"}

\* The tables and what each request keeps have the shapes the code gives them,
\* and a request that is past authentication has a user and a call.
TypeOK ==
    /\ org_memberships \in [Org -> [User -> Role \cup {None}]]
    /\ team_memberships \in [Team -> [User -> Role \cup {None}]]
    /\ rows \subseteq Team \cup Workflow
    /\ api_keys \in [ApiKey -> KeyStates]
    /\ api_key_grants \in [ApiKey -> SUBSET KnownScopes]
    /\ authz_audit_log \subseteq AuditRows
    /\ pc \in [Request -> Labels]
    /\ call \in [Request -> Call \cup {None}]
    /\ principal \in [Request -> Principals]
    /\ team_caps \in [Request -> SUBSET (Capability \X Team)]
    /\ org_entity \in [Request -> [capabilities : SUBSET (Capability \X Org), orgs : SUBSET Org]]
    /\ ruling \in [Request -> Rulings \cup {None}]
    /\ status \in [Request -> {0, 200, 401, 403, 404, 409, 422, 500}]
    /\ tasks \in [Request -> SUBSET AuditRows]
    /\ committed \in [Request -> BOOLEAN]
    /\ seen \in [Request -> SUBSET Entities]

AllowedAs(r, entity, a) == Decide(entity, principal[r], a, call[r]) = "Allow"

\* "A permission change takes effect on the very next request": a handler runs
\* only if at one single moment after its request began the principal, as the
\* tables had him, could both see the resource and take the action on it.  The
\* slice is read in two queries with other requests' commits in between, and the
\* two rulings may rest on different halves of it.
AllowedAtOneMoment ==
    \A r \in Request : pc[r] \in {"handler", "second_insert"} =>
        \E entity \in seen[r] : /\ AllowedAs(r, entity, VisibilityAction(call[r].type))
                                /\ AllowedAs(r, entity, call[r].action)

\* Any answer but 401, 404 and 500 tells the caller that the resource exists: he
\* could see it at some moment since his request began.
OnlyVisibleIsDisclosed ==
    \A r \in Request : status[r] \in {200, 403, 409, 422} =>
        \E entity \in seen[r] : AllowedAs(r, entity, VisibilityAction(call[r].type))

\* On the routes the guard is on, a key reaches only the handlers that read or run,
\* only in the org it was minted in, and only within the scopes granted to it: one
\* that may not read passes none of them, for the guard rules on visibility first.
\* (A person's own lists, behind authentication alone, and the public route rule
\* otherwise or not at all.)
KeysStayConfined ==
    \A r \in Request : pc[r] \in {"handler", "second_insert"} /\ principal[r].auth_method = "api_key" =>
        /\ call[r].action \in ReadActions \cup RunActions
        /\ ResourceOf(call[r]).org = KeyOrg[call[r].key]
        /\ {"workflow:read", ActionScope(call[r].action)} \subseteq KeyScopes[call[r].key]

\* No guarded route asks the engine a question its policies cannot answer: the
\* 500 of D6 is a backstop, not an outcome.
RoutesNeverError ==
    \A r \in Request : ruling[r] # None /\ call[r].route = "guarded"
        => ruling[r].decision # "EngineError"

\* Every denial the engine gave a guarded request is in the log when the request
\* is over, unless the write of its row failed.
DenialsAreRecorded ==
    \A r \in Request :
        pc[r] = "done" /\ ruling[r] # None /\ call[r].route = "guarded" /\ ruling[r].decision = "Deny"
            => AuditRow(r, ruling[r].action, "Deny") \in authz_audit_log

\* Updates and deletes, which succeed on a row that is gone.
MayFindNothing == {"OrgChangeRole", "OrgRemoveUser", "TeamChangeRole", "TeamRemoveMember",
                   "TeamDelete", "WorkflowDelete", "WorkflowExport"}

\* The log says what happened: each row is the one ruling that decided its
\* request, and what it allows was answered with success.  Whatever was added,
\* minted or revoked by that is there, a change or a removal was made or found
\* nothing to do; only a revocation that found no key leaves an allowing row and
\* an error.
LogIsTrue ==
    \A row \in authz_audit_log :
        LET r == row.request IN
        /\ [action |-> row.action, decision |-> row.decision] = ruling[r]
        /\ row.decision = "Allow" =>
              \/ /\ status[r] = 200
                 /\ Writes(call[r]) => committed[r] \/ row.action \in MayFindNothing
              \/ status[r] = 404 /\ row.action = "ApiKeyRevoke" /\ ~committed[r]

\* The client can tell which changes the log may lack: when a request that changed
\* something is over, no write of a row having failed, it was answered with success
\* and its row is there, or with a 500.  No refusal has changed anything.
AnsweredChangesAreRecorded ==
    \A r \in Request : pc[r] = "done" /\ committed[r] =>
        \/ status[r] = 200 /\ AuditRow(r, call[r].action, "Allow") \in authz_audit_log
        \/ status[r] = 500

OrgOf(e) == TeamOrg[IF e \in Team THEN e ELSE WorkflowTeam[e]]

\* All the tables hold of an org.
HeldBy(o) ==
    [members |-> org_memberships[o],
     seats |-> [t \in {t \in Team : TeamOrg[t] = o} |-> team_memberships[t]],
     rows |-> {e \in rows : OrgOf(e) = o},
     keys |-> [k \in {k \in ApiKey : KeyOrg[k] = o} |-> <<api_keys[k], api_key_grants[k]>>]]

Expires(k) == api_keys[k] = "live" /\ api_keys'[k] = "expired"

\* r's handler goes on, on a resource of org o, for a caller who was allowed that at
\* a moment since he asked.
ActsOn(r, o) ==
    /\ pc[r] \in {"handler", "second_insert"} /\ pc'[r] # pc[r]
    /\ ResourceOf(call[r]).org = o
    /\ \E entity \in seen[r] : AllowedAs(r, entity, call[r].action)

ApartFrom(o) ==
    HeldBy(o)' # HeldBy(o) => \/ \E k \in ApiKey : KeyOrg[k] = o /\ Expires(k)
                              \/ \E r \in Request : ActsOn(r, o)

\* "The update must not touch a key" of "a different org": nothing an org has, its
\* members, seats, teams, workflows and keys, cascades and default team included, is
\* changed but by a request on that very org, allowed there at one moment.
TenantsAreApart == [][\A o \in Org : ApartFrom(o)]_vars

\* audit.py: "Denials and mutations are complete".
MutationsAreRecorded ==
    \A r \in Request : pc[r] = "done" /\ committed[r]
        => AuditRow(r, call[r].action, "Allow") \in authz_audit_log

=============================================================================
