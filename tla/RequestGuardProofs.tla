------------------------ MODULE RequestGuardProofs ------------------------
(***************************************************************************)
(* Proofs about RequestGuard, for any users, orgs, teams, roles, keys,      *)
(* requests and calls.                                                      *)
(*                                                                         *)
(* What a request has learned is its own: no other request writes it, and   *)
(* the moments it has seen only grow.  So the invariant is a conjunction    *)
(* over requests, each request's steps are checked against its own part,   *)
(* and the others' steps leave that part alone.                            *)
(***************************************************************************)
EXTENDS RequestGuard, TLAPS

-----------------------------------------------------------------------------
(* The engine.                                                             *)

\* When a ruling is Allow.
LEMMA RulingAllows ==
    ASSUME NEW entity, NEW p, NEW a, NEW c
    PROVE  /\ Decide(entity, p, a, c) \in {"Allow", "Deny", "EngineError"}
           /\ Decide(entity, p, a, c) = "Allow" <=>
                /\ ~Errors(a, ResourceOf(c))
                /\ Permits(entity, a, ResourceOf(c))
                /\ ~ForbidsExported(entity, a, ResourceOf(c), BuildContext(p))
                /\ ~ForbidsKey(a, ResourceOf(c), BuildContext(p))
           /\ Decide(entity, p, a, c) = "EngineError" <=> Errors(a, ResourceOf(c))
  BY DEF Decide, Authorize

\* What a call asks about.
LEMMA CallFacts ==
    ASSUME NEW c \in Call
    PROVE  /\ c \in CallType /\ c.type \in ResourceType /\ c.action \in Action
           /\ c.route \in Route
           /\ ResourceOf(c).type = c.type /\ ResourceOf(c).org \in Org
           /\ ResourceOf(c).holder \in Team \cup Org
           /\ c.type = "Organization" =>
                 ResourceOf(c).holder \in Org /\ ResourceOf(c).org = ResourceOf(c).holder
           /\ c.type # "Organization" => ResourceOf(c).holder \in Team
<1>1. c \in CallType /\ c.type \in ResourceType /\ c.action \in Action /\ c.route \in Route
  BY CallAssumption DEF CallType
<1>2. c.type \in {"Workflow", "Team", "Organization"}
  BY <1>1 DEF ResourceType
<1>3. c.entity \in CASE c.type = "Workflow" -> Workflow
                     [] c.type = "Team" -> Team
                     [] c.type = "Organization" -> Org
  BY CallAssumption
<1>4. TeamOrg \in [Team -> Org] /\ WorkflowTeam \in [Workflow -> Team]
  BY TablesAssumption
<1>5. CASE c.type = "Workflow"
  <2>1. c.entity \in Workflow
    BY <1>3, <1>5
  <2>2. WorkflowTeam[c.entity] \in Team
    BY <2>1, <1>4
  <2>3. TeamOrg[WorkflowTeam[c.entity]] \in Org
    BY <2>2, <1>4
  <2> QED
    BY <1>1, <1>5, <2>2, <2>3 DEF ResourceOf
<1>6. CASE c.type = "Team"
  <2>1. c.entity \in Team
    BY <1>3, <1>6
  <2>2. TeamOrg[c.entity] \in Org
    BY <2>1, <1>4
  <2> QED
    BY <1>1, <1>6, <2>1, <2>2 DEF ResourceOf
<1>7. CASE c.type = "Organization"
  <2>1. c.entity \in Org
    BY <1>3, <1>7
  <2> QED
    BY <1>1, <1>7, <2>1 DEF ResourceOf
<1> QED
  BY <1>2, <1>5, <1>6, <1>7

\* A guarded route's two questions have answers, and a super-admin of the
\* resource's org is permitted both.
LEMMA GuardedFacts ==
    ASSUME NEW c \in Call
    PROVE  /\ VisibilityAction(c.type) \in ReadActions
           /\ VisibilityAction(c.type) \in OrgAdministrableActions
           /\ VisibilityAction(c.type) = "OrgView" => c.type = "Organization"
           /\ ~Errors(VisibilityAction(c.type), ResourceOf(c))
           /\ c.route = "guarded" =>
                /\ c.action \in OrgAdministrableActions
                /\ c.action = "OrgView" => c.type = "Organization"
                /\ ~Errors(c.action, ResourceOf(c))
<1>1. c.type \in {"Workflow", "Team", "Organization"} /\ ResourceOf(c).type = c.type
  BY CallFacts DEF ResourceType
<1>2. c.route = "guarded" => c.action \in GuardedActions(c.type)
  BY CallAssumption
<1>3. CASE c.type = "Workflow"
  <2>1. c.route = "guarded" => c.action \in {"WorkflowView", "WorkflowRun", "WorkflowUpdate",
            "WorkflowDelete", "WorkflowExport", "WorkflowProtectExport"}
    BY <1>2, <1>3 DEF GuardedActions
  <2> QED
    BY <1>1, <1>3, <2>1 DEF VisibilityAction, Errors, CapPolicy, CapAttributes, ReadActions,
       OrgAdministrableActions, Action, GovernanceActions, RunActions, WriteActions
<1>4. CASE c.type = "Team"
  <2>1. c.route = "guarded" => c.action \in {"TeamDelete", "TeamAddMember", "TeamRemoveMember",
            "TeamChangeRole", "WorkflowCreate"}
    BY <1>2, <1>4 DEF GuardedActions
  <2> QED
    BY <1>1, <1>4, <2>1 DEF VisibilityAction, Errors, CapPolicy, CapAttributes, ReadActions,
       OrgAdministrableActions, Action, GovernanceActions, RunActions, WriteActions
<1>5. CASE c.type = "Organization"
  <2>1. c.route = "guarded" => c.action \in {"OrgView", "OrgAddUser", "OrgRemoveUser",
            "OrgChangeRole", "TeamCreate", "RoleCreate", "ApiKeyCreate", "ApiKeyRevoke"}
    BY <1>2, <1>5 DEF GuardedActions
  <2> QED
    BY <1>1, <1>5, <2>1 DEF VisibilityAction, Errors, CapPolicy, CapAttributes, ReadActions,
       OrgAdministrableActions, Action, GovernanceActions, RunActions, WriteActions
<1> QED
  BY <1>1, <1>3, <1>4, <1>5

\* The slice of a request, and two entities that hold its halves.
Slice(team, org) == [capabilities |-> team \cup org.capabilities, orgs |-> org.orgs]

Halves(team, org, e1, e2) ==
    /\ team \subseteq Capability \X Team /\ team \subseteq e1.capabilities
    /\ org.capabilities \subseteq Capability \X Org /\ org.capabilities \subseteq e2.capabilities
    /\ org.orgs \subseteq e2.orgs

\* What the org half permits it permits alone; for a super-admin, that is all.
LEMMA OrgHalf ==
    ASSUME NEW c \in Call, NEW team, NEW org, NEW e1, NEW e2, Halves(team, org, e1, e2),
           NEW a \in OrgAdministrableActions,
           c.type = "Organization" \/ IsOrgAdmin(Slice(team, org), ResourceOf(c)),
           Permits(Slice(team, org), a, ResourceOf(c))
    PROVE  Permits(e2, a, ResourceOf(c))
<1> DEFINE res == ResourceOf(c)
<1>1. res.org \in Org /\ (c.type = "Organization" => res.holder \in Org /\ res.org = res.holder)
  BY CallFacts
<1>2. a # "WorkflowRunExported"
  BY DEF OrgAdministrableActions
<1>3. ASSUME NEW cap, NEW o \in Org, <<cap, o>> \in Slice(team, org).capabilities
      PROVE  <<cap, o>> \in e2.capabilities
  <2>1. <<cap, o>> \in team \/ <<cap, o>> \in org.capabilities
    BY <1>3 DEF Slice
  <2>2. <<cap, o>> \notin team
    <3>1. o \notin Team
      BY TablesAssumption
    <3> QED
      BY <3>1 DEF Halves
  <2> QED
    BY <2>1, <2>2 DEF Halves
<1>4. IsOrgAdmin(Slice(team, org), res) => IsOrgAdmin(e2, res)
  BY <1>1, <1>3 DEF IsOrgAdmin
<1>5. c.type = "Organization" /\ HasCap(Slice(team, org), a, res) => HasCap(e2, a, res)
  BY <1>1, <1>3 DEF HasCap
<1>6. res.org \in Slice(team, org).orgs => res.org \in e2.orgs
  BY DEF Slice, Halves
<1> HIDE DEF res
<1>7. CASE IsOrgAdmin(Slice(team, org), res)
  BY <1>4, <1>7 DEF Permits, res
<1>8. CASE ~IsOrgAdmin(Slice(team, org), res)
  <2>1. c.type = "Organization"
    BY <1>8 DEF res
  <2>2. Permits(Slice(team, org), a, res)
    BY DEF res
  <2> QED
    BY <1>2, <1>5, <1>6, <1>8, <2>1, <2>2 DEF Permits, res
<1> QED
  BY <1>7, <1>8

\* What anyone else is permitted on a team or a workflow, the team half permits.
LEMMA TeamHalf ==
    ASSUME NEW c \in Call, NEW team, NEW org, NEW e1, NEW e2, Halves(team, org, e1, e2),
           NEW a \in OrgAdministrableActions,
           c.type # "Organization", a = "OrgView" => c.type = "Organization",
           ~IsOrgAdmin(Slice(team, org), ResourceOf(c)),
           Permits(Slice(team, org), a, ResourceOf(c))
    PROVE  Permits(e1, a, ResourceOf(c))
<1>1. a # "WorkflowRunExported" /\ a # "OrgView"
  BY DEF OrgAdministrableActions
<1>2. HasCap(Slice(team, org), a, ResourceOf(c))
  BY <1>1 DEF Permits
<1>3. ResourceOf(c).holder \in Team
  BY CallFacts
<1>4. <<CapPolicy[a], ResourceOf(c).holder>> \in team \cup org.capabilities
  BY <1>2 DEF HasCap, Slice
<1>5. <<CapPolicy[a], ResourceOf(c).holder>> \notin org.capabilities
  <2>1. ResourceOf(c).holder \notin Org
    BY <1>3, TablesAssumption
  <2> QED
    BY <2>1 DEF Halves
<1>6. <<CapPolicy[a], ResourceOf(c).holder>> \in e1.capabilities
  BY <1>4, <1>5 DEF Halves
<1>7. HasCap(e1, a, ResourceOf(c))
  BY <1>2, <1>6 DEF HasCap
<1> QED
  BY <1>7 DEF Permits

\* The forbids do not look at the principal's entity.
LEMMA PermitsDecide ==
    ASSUME NEW c, NEW p, NEW slice, NEW entity, NEW a \in OrgAdministrableActions,
           Decide(slice, p, a, c) = "Allow", Permits(entity, a, ResourceOf(c))
    PROVE  Decide(entity, p, a, c) = "Allow"
<1>1. a # "WorkflowRunExported"
  BY DEF OrgAdministrableActions
<1>2. ~ForbidsExported(entity, a, ResourceOf(c), BuildContext(p))
  BY <1>1 DEF ForbidsExported
<1>3. ~Errors(a, ResourceOf(c)) /\ ~ForbidsKey(a, ResourceOf(c), BuildContext(p))
  BY RulingAllows
<1> QED
  BY <1>2, <1>3, RulingAllows

\* Both rulings of a guarded request rest on one half, so one moment allowed both.
LEMMA OneMoment ==
    ASSUME NEW c \in Call, NEW p, NEW team, NEW org, NEW e1, NEW e2, Halves(team, org, e1, e2),
           Decide(Slice(team, org), p, VisibilityAction(c.type), c) = "Allow"
    PROVE  \E e \in {e1, e2} :
              /\ Decide(e, p, VisibilityAction(c.type), c) = "Allow"
              /\ c.route = "guarded" /\ Decide(Slice(team, org), p, c.action, c) = "Allow"
                    => Decide(e, p, c.action, c) = "Allow"
<1> DEFINE view == VisibilityAction(c.type)
           acts == c.route = "guarded" /\ Decide(Slice(team, org), p, c.action, c) = "Allow"
<1>1. /\ view \in OrgAdministrableActions /\ (view = "OrgView" => c.type = "Organization")
      /\ acts => /\ c.action \in OrgAdministrableActions
                 /\ c.action = "OrgView" => c.type = "Organization"
  BY GuardedFacts
<1>2. Permits(Slice(team, org), view, ResourceOf(c))
  BY RulingAllows
<1>3. acts => Permits(Slice(team, org), c.action, ResourceOf(c))
  BY RulingAllows
<1>4. Decide(Slice(team, org), p, view, c) = "Allow"
  OBVIOUS
<1> HIDE DEF view
<1>5. CASE c.type = "Organization" \/ IsOrgAdmin(Slice(team, org), ResourceOf(c))
  <2>1. Permits(e2, view, ResourceOf(c))
    BY <1>1, <1>2, <1>5, OrgHalf
  <2>2. acts => Permits(e2, c.action, ResourceOf(c))
    BY <1>1, <1>3, <1>5, OrgHalf
  <2>3. Decide(e2, p, view, c) = "Allow"
    BY <1>1, <1>4, <2>1, PermitsDecide
  <2>4. acts => Decide(e2, p, c.action, c) = "Allow"
    BY <1>1, <2>2, PermitsDecide
  <2> QED
    BY <2>3, <2>4 DEF view
<1>6. CASE ~(c.type = "Organization" \/ IsOrgAdmin(Slice(team, org), ResourceOf(c)))
  <2>1. Permits(e1, view, ResourceOf(c))
    BY <1>1, <1>2, <1>6, TeamHalf
  <2>2. acts => Permits(e1, c.action, ResourceOf(c))
    BY <1>1, <1>3, <1>6, TeamHalf
  <2>3. Decide(e1, p, view, c) = "Allow"
    BY <1>1, <1>4, <2>1, PermitsDecide
  <2>4. acts => Decide(e1, p, c.action, c) = "Allow"
    BY <1>1, <2>2, PermitsDecide
  <2> QED
    BY <2>3, <2>4 DEF view
<1> QED
  BY <1>5, <1>6

-----------------------------------------------------------------------------
(* Types.                                                                  *)

\* A request that is past authentication has a call, and one whose handler runs
\* has a guarded one.
CallsAreKnown ==
    \A r \in Request :
        /\ pc[r] # "new" => call[r] \in Call
        /\ pc[r] \in {"handler", "second_insert"} => call[r].route = "guarded"

Codes == {0, 200, 401, 403, 404, 409, 422, 500}

\* TypeOK but for what Watch adds.
ShapesOK ==
    /\ org_memberships \in [Org -> [User -> Role \cup {None}]]
    /\ team_memberships \in [Team -> [User -> Role \cup {None}]]
    /\ rows \subseteq Team \cup Workflow
    /\ api_keys \in [ApiKey -> KeyStates]
    /\ api_key_grants \in [ApiKey -> SUBSET KnownScopes]
    /\ authz_audit_log \subseteq AuditRows
    /\ pc \in [Request -> Labels]
    /\ call \in [Request -> Call \cup {None}]
    /\ principal \in [Request -> Principals]
    /\ team_caps \in [Request -> SUBSET (Capability \X Team)]
    /\ org_entity \in [Request -> [capabilities : SUBSET (Capability \X Org), orgs : SUBSET Org]]
    /\ ruling \in [Request -> Rulings \cup {None}]
    /\ status \in [Request -> Codes]
    /\ tasks \in [Request -> SUBSET AuditRows]
    /\ committed \in [Request -> BOOLEAN]

LEMMA ShapesAndSeen == TypeOK <=> ShapesOK /\ seen \in [Request -> SUBSET Entities]
  BY DEF TypeOK, ShapesOK, Codes

LEMMA WatchTyped ==
    ASSUME seen \in [Request -> SUBSET Entities], Watch
    PROVE  seen' \in [Request -> SUBSET Entities]
<1>1. ASSUME NEW r \in Request PROVE EntityOf(principal[r].subject)' \in Entities
  BY DEF EntityOf, TeamCaps, OrgCaps, OrgsOf, Entities
<1>2. ASSUME NEW r \in Request
      PROVE  (CASE pc[r] \in {"team_rows", "org_rows"} -> seen[r] \cup {EntityOf(principal[r].subject)'}
               [] pc[r] = "new" /\ pc'[r] = "team_rows" -> {EntityOf(principal[r].subject)'}
               [] OTHER -> seen[r]) \in SUBSET Entities
  <2>1. seen[r] \in SUBSET Entities /\ EntityOf(principal[r].subject)' \in Entities
    BY <1>1
  <2> HIDE DEF Watch
  <2>2. CASE pc[r] \in {"team_rows", "org_rows"}
    BY <2>1, <2>2
  <2>3. CASE pc[r] = "new" /\ pc'[r] = "team_rows"
    BY <2>1, <2>3
  <2>4. CASE pc[r] \notin {"team_rows", "org_rows"} /\ ~(pc[r] = "new" /\ pc'[r] = "team_rows")
    BY <2>1, <2>4
  <2> QED
    BY <2>2, <2>3, <2>4
<1> QED
  BY <1>2 DEF Watch

LEMMA RespondTyped ==
    ASSUME ShapesOK, NEW r \in Request, NEW code \in Codes, NEW audit \in SUBSET AuditRows,
           Respond(r, code, audit)
    PROVE  /\ pc' \in [Request -> Labels] /\ status' \in [Request -> Codes]
           /\ tasks' \in [Request -> SUBSET AuditRows]
  BY DEF Respond, ShapesOK, Labels

LEMMA AuditTyped ==
    ASSUME NEW r \in Request, NEW a \in Action, NEW d \in {"Allow", "Deny", "EngineError"}
    PROVE  /\ Audit(r, a, d) \in SUBSET AuditRows
           /\ [action |-> a, decision |-> d] \in Rulings
  BY DEF Audit, AuditRow, AuditRows, Rulings

LEMMA PrincipalTyped ==
    ASSUME ShapesOK, NEW c \in Call
    PROVE  PrincipalOf(c) \in Principals
<1>1. /\ c.bearer \in User \cup {None, "invalid"} /\ c.key \in ApiKey \cup {None}
  BY CallFacts DEF CallType
<1>2. Anonymous \in Principals
  BY DEF Anonymous, Principals
<1>3. CASE c.bearer # None
  BY <1>1, <1>3 DEF PrincipalOf, Anonymous, Principals
<1>4. CASE c.bearer = None /\ c.key # None /\ api_keys[c.key] = "live"
  <2>1. c.key \in ApiKey
    BY <1>1, <1>4
  <2>2. KeyOwner[c.key] \in User /\ KeyOrg[c.key] \in Org /\ api_key_grants[c.key] \in SUBSET KnownScopes
    BY <2>1, TablesAssumption DEF ShapesOK
  <2> QED
    BY <1>4, <2>2 DEF PrincipalOf, Principals
<1> QED
  BY <1>2, <1>3, <1>4 DEF PrincipalOf

LEMMA RefuseTyped ==
    ASSUME ShapesOK, NEW r \in Request, NEW a \in Action, NEW d \in {"Deny", "EngineError"},
           NEW code \in Codes, Refuse(r, a, d, code)
    PROVE  /\ pc' \in [Request -> Labels] /\ status' \in [Request -> Codes]
           /\ tasks' \in [Request -> SUBSET AuditRows]
           /\ ruling' \in [Request -> Rulings \cup {None}]
<1>1. Audit(r, a, d) \in SUBSET AuditRows /\ [action |-> a, decision |-> d] \in Rulings
  BY AuditTyped
<1>2. Respond(r, code, Audit(r, a, d))
  BY DEF Refuse
<1>3. ruling' \in [Request -> Rulings \cup {None}]
  BY <1>1 DEF Refuse, ShapesOK
<1> QED
  BY <1>1, <1>2, <1>3, RespondTyped

LEMMA RuleActionTyped ==
    ASSUME ShapesOK, NEW r \in Request, call[r] \in Call, RuleAction(r)
    PROVE  /\ pc' \in [Request -> Labels] /\ status' \in [Request -> Codes]
           /\ tasks' \in [Request -> SUBSET AuditRows]
           /\ ruling' \in [Request -> Rulings \cup {None}]
<1> DEFINE c == call[r]
           d == Decide(SliceOf(r), principal[r], c.action, c)
<1>1. c.action \in Action /\ d \in {"Allow", "Deny", "EngineError"}
  BY CallFacts, RulingAllows
<1>2. Audit(r, c.action, d) \in SUBSET AuditRows /\ [action |-> c.action, decision |-> d] \in Rulings
  BY <1>1, AuditTyped
<1> HIDE DEF d
<1>3. \/ d \in {"Deny", "EngineError"} /\ Refuse(r, c.action, d, Refusal[d])
      \/ /\ ruling' = [ruling EXCEPT ![r] = [action |-> c.action, decision |-> d]]
         /\ tasks' = [tasks EXCEPT ![r] = Audit(r, c.action, d)]
         /\ pc' = [pc EXCEPT ![r] = "handler"] /\ status' = status
      \/ Explained(r, c.action, d)
  BY <1>1 DEF RuleAction, d
<1>4. CASE d \in {"Deny", "EngineError"} /\ Refuse(r, c.action, d, Refusal[d])
  <2>1. Refusal[d] \in Codes
    BY <1>4 DEF Refusal, Codes
  <2> QED
    BY <1>1, <1>4, <2>1, RefuseTyped
<1>5. CASE /\ ruling' = [ruling EXCEPT ![r] = [action |-> c.action, decision |-> d]]
           /\ tasks' = [tasks EXCEPT ![r] = Audit(r, c.action, d)]
           /\ pc' = [pc EXCEPT ![r] = "handler"] /\ status' = status
  BY <1>2, <1>5 DEF ShapesOK, Labels
<1>6. CASE Explained(r, c.action, d)
  <2>1. Respond(r, 200, {}) /\ 200 \in Codes /\ {} \in SUBSET AuditRows
    BY <1>6 DEF Explained, Codes
  <2>2. ruling' \in [Request -> Rulings \cup {None}]
    BY <1>2, <1>6 DEF Explained, ShapesOK
  <2> QED
    BY <2>1, <2>2, RespondTyped
<1> QED
  BY <1>3, <1>4, <1>5, <1>6

\* What a handler works on.
LEMMA HandlerFacts ==
    ASSUME NEW c \in Call, c.route = "guarded"
    PROVE  /\ c.action \in {"OrgAddUser", "OrgChangeRole"} =>
                 c.entity \in Org /\ c.subject \in User /\ c.role \in Role
           /\ c.action = "OrgRemoveUser" => c.entity \in Org /\ c.subject \in User /\ c.role = None
           /\ c.action \in {"TeamAddMember", "TeamChangeRole", "TeamRemoveMember"} =>
                 c.entity \in Team /\ c.subject \in User /\ c.role \in Role \cup {None}
           /\ c.action = "TeamCreate" => c.subject \in Team
           /\ c.action = "WorkflowCreate" => c.subject \in Workflow
           /\ c.action \in {"ApiKeyCreate", "ApiKeyRevoke"} => c.subject \in ApiKey \cup {None}
<1>1. c.type \in {"Workflow", "Team", "Organization"} /\ c.action \in GuardedActions(c.type)
  BY CallFacts, CallAssumption DEF ResourceType
<1>2. c.entity \in CASE c.type = "Workflow" -> Workflow
                     [] c.type = "Team" -> Team
                     [] c.type = "Organization" -> Org
  BY CallAssumption
<1>3. c.action \in {"OrgAddUser", "OrgChangeRole", "OrgRemoveUser"} => c.type = "Organization"
  BY <1>1 DEF GuardedActions
<1>4. c.action \in {"TeamAddMember", "TeamChangeRole", "TeamRemoveMember"} => c.type = "Team"
  BY <1>1 DEF GuardedActions
<1>5. /\ c.action \in {"OrgAddUser", "OrgRemoveUser", "OrgChangeRole", "TeamAddMember",
                       "TeamRemoveMember", "TeamChangeRole"} => c.subject \in User
      /\ IF c.action \in {"OrgAddUser", "OrgChangeRole", "TeamAddMember", "TeamChangeRole"}
         THEN c.role \in Role ELSE c.role = None
      /\ c.action = "TeamCreate" => c.subject \in Team
      /\ c.action = "WorkflowCreate" => c.subject \in Workflow
      /\ c.action = "ApiKeyCreate" => c.subject \in ApiKey \cup {None}
      /\ c.action = "ApiKeyRevoke" => c.subject \in ApiKey
  BY CallAssumption
<1> QED
  BY <1>2, <1>3, <1>4, <1>5

\* A handler leaves the membership tables, the rows and the keys in shape.
LEMMA HandlerTyped ==
    ASSUME ShapesOK, NEW r \in Request, NEW c \in Call, c.route = "guarded",
           \/ AddToOrg(c) \/ ChangeOrgRole(c) \/ RemoveFromOrg(c) \/ WriteTeamRole(c)
           \/ CreateRow(r, c) \/ DeleteRow(c) \/ RevokeKey(c) \/ LeaveTables(c)
    PROVE  /\ org_memberships' \in [Org -> [User -> Role \cup {None}]]
           /\ team_memberships' \in [Team -> [User -> Role \cup {None}]]
           /\ rows' \subseteq Team \cup Workflow
           /\ api_keys' \in [ApiKey -> KeyStates]
           /\ api_key_grants' \in [ApiKey -> SUBSET KnownScopes]
<1> USE DEF ShapesOK
<1>0. Viewer \in Role /\ TeamAdmin \in Role
  BY TablesAssumption
<1>1. CASE AddToOrg(c)
  <2> DEFINE dt == DefaultTeam[c.entity]
             role == IF team_memberships[dt][c.subject] = None THEN Viewer
                     ELSE team_memberships[dt][c.subject]
  <2>1. c.subject \in User /\ c.role \in Role /\ c.entity \in Org
    BY <1>1, HandlerFacts DEF AddToOrg
  <2>2. dt \in Team
    BY <2>1, TablesAssumption
  <2>3. role \in Role \cup {None}
    BY <1>0, <2>1, <2>2
  <2>4. team_memberships' = [team_memberships EXCEPT ![dt][c.subject] = role]
    BY <1>1 DEF AddToOrg
  <2> HIDE DEF dt, role
  <2>5. team_memberships' \in [Team -> [User -> Role \cup {None}]]
    BY <2>3, <2>4
  <2> QED
    BY <1>1, <2>1, <2>5 DEF AddToOrg
<1>2. CASE ChangeOrgRole(c)
  <2>1. c.subject \in User /\ c.role \in Role
    BY <1>2, HandlerFacts DEF ChangeOrgRole
  <2> QED
    BY <1>2, <2>1 DEF ChangeOrgRole
<1>3. CASE RemoveFromOrg(c)
  BY <1>3 DEF RemoveFromOrg
<1>4. CASE WriteTeamRole(c)
  <2>1. c.role \in Role \cup {None}
    BY <1>4, HandlerFacts DEF WriteTeamRole
  <2> QED
    BY <1>4, <2>1 DEF WriteTeamRole
<1>5. CASE CreateRow(r, c)
  <2>1. c.subject \in Team \cup Workflow
    BY <1>5, HandlerFacts DEF CreateRow
  <2> QED
    BY <1>0, <1>5, <2>1 DEF CreateRow
<1>6. CASE DeleteRow(c)
  BY <1>6 DEF DeleteRow
<1>7. CASE RevokeKey(c)
  BY <1>7 DEF RevokeKey, KeyStates
<1>8. CASE LeaveTables(c)
  BY <1>8 DEF LeaveTables, tables
<1> QED
  BY <1>1, <1>2, <1>3, <1>4, <1>5, <1>6, <1>7, <1>8

Commits(r) == Commit(r) \/ CommitFirst(r) \/ CommitSecond(r)

TablesOK ==
    /\ org_memberships \in [Org -> [User -> Role \cup {None}]]
    /\ team_memberships \in [Team -> [User -> Role \cup {None}]]
    /\ rows \subseteq Team \cup Workflow
    /\ api_keys \in [ApiKey -> KeyStates]
    /\ api_key_grants \in [ApiKey -> SUBSET KnownScopes]
    /\ committed \in [Request -> BOOLEAN]

\* The one statement of a handler notes what it has changed, for its request only: an
\* insert or a revocation always something, an update or a delete what it found.
LEMMA CommitNotes ==
    ASSUME ShapesOK, NEW r \in Request, Commit(r)
    PROVE  /\ pc[r] = "handler"
           /\ committed' \in [Request -> BOOLEAN]
           /\ \A q \in Request : q # r => committed'[q] = committed[q]
           /\ Writes(call[r]) => committed'[r] \/ call[r].action \in MayFindNothing
           /\ \/ AddToOrg(call[r]) \/ ChangeOrgRole(call[r]) \/ RemoveFromOrg(call[r])
              \/ WriteTeamRole(call[r]) \/ CreateRow(r, call[r]) \/ DeleteRow(call[r])
              \/ RevokeKey(call[r]) \/ LeaveTables(call[r])
<1> DEFINE c == call[r]
<1>1. PICK found \in {FindsRow(c), FindsRow(c) /\ c.action # "WorkflowExport"} :
            committed' = [committed EXCEPT ![r] = Writes(c) /\ found]
  BY DEF Commit
<1>2. c.action \notin MayFindNothing => FindsRow(c) /\ c.action # "WorkflowExport"
  BY DEF FindsRow, MayFindNothing
<1>3. committed'[r] = (Writes(c) /\ found)
  BY <1>1 DEF ShapesOK
<1>4. c.action \notin MayFindNothing => found
  BY <1>1, <1>2
<1> QED
  BY <1>1, <1>3, <1>4 DEF Commit, ShapesOK

LEMMA CommitsTyped ==
    ASSUME ShapesOK, CallsAreKnown, NEW r \in Request, Commits(r)
    PROVE  TablesOK'
<1> DEFINE c == call[r]
<1>1. c \in Call /\ c.route = "guarded"
  BY DEF CallsAreKnown, Commits, Commit, CommitFirst, CommitSecond
<1>2. CASE Commit(r)
  <2>1. \/ AddToOrg(c) \/ ChangeOrgRole(c) \/ RemoveFromOrg(c) \/ WriteTeamRole(c)
        \/ CreateRow(r, c) \/ DeleteRow(c) \/ RevokeKey(c) \/ LeaveTables(c)
    BY <1>2, CommitNotes
  <2>2. committed' \in [Request -> BOOLEAN]
    BY <1>2, CommitNotes
  <2> HIDE DEF c
  <2> QED
    BY <1>1, <2>1, <2>2, HandlerTyped DEF TablesOK
<1>3. CASE CommitFirst(r)
  BY <1>3 DEF CommitFirst, ShapesOK, TablesOK, KeyStates
<1>4. CASE CommitSecond(r)
  <2>1. api_key_grants' \in [ApiKey -> SUBSET KnownScopes]
    <3>1. CASE c.subject \in ApiKey
      <4>1. KeyScopes[c.subject] \in SUBSET KnownScopes
        BY <3>1, TablesAssumption
      <4> QED
        BY <1>4, <4>1 DEF CommitSecond, ShapesOK
    <3>2. CASE c.subject \notin ApiKey
      BY <1>4, <3>2 DEF CommitSecond, ShapesOK
    <3> QED
      BY <3>1, <3>2
  <2> QED
    BY <1>4, <2>1 DEF CommitSecond, ShapesOK, TablesOK
<1> QED
  BY <1>2, <1>3, <1>4 DEF Commits

LEMMA StepTyped ==
    ASSUME ShapesOK, CallsAreKnown, NEW r \in Request, Step(r)
    PROVE  ShapesOK'
<1> DEFINE c == call[r]
<1>0. (pc[r] # "new" => c \in Call) /\ (pc[r] \in {"handler", "second_insert"} => c.route = "guarded")
  BY DEF CallsAreKnown
<1>1. CASE Authenticate(r)
  <2>1. PICK k \in Call :
            /\ call' = [call EXCEPT ![r] = k]
            /\ principal' = [principal EXCEPT ![r] = PrincipalOf(k)]
            /\ \/ Respond(r, 401, {})
               \/ pc' = [pc EXCEPT ![r] = "team_rows"] /\ UNCHANGED <<status, tasks>>
    BY <1>1 DEF Authenticate
  <2>2. PrincipalOf(k) \in Principals
    BY PrincipalTyped
  <2>3. principal' \in [Request -> Principals] /\ call' \in [Request -> Call \cup {None}]
    BY <2>1, <2>2 DEF ShapesOK
  <2>4. /\ pc' \in [Request -> Labels] /\ status' \in [Request -> Codes]
        /\ tasks' \in [Request -> SUBSET AuditRows]
    <3>1. CASE Respond(r, 401, {})
      <4>1. 401 \in Codes /\ {} \in SUBSET AuditRows
        BY DEF Codes
      <4> QED
        BY <3>1, <4>1, RespondTyped
    <3>2. CASE pc' = [pc EXCEPT ![r] = "team_rows"] /\ UNCHANGED <<status, tasks>>
      BY <3>2 DEF ShapesOK, Labels
    <3> QED
      BY <2>1, <3>1, <3>2
  <2> QED
    BY <1>1, <2>3, <2>4 DEF Authenticate, ShapesOK, tables
<1>2. CASE ReadTeamRows(r)
  <2>1. TeamCaps(principal[r].subject) \in SUBSET (Capability \X Team)
    BY DEF TeamCaps
  <2> QED
    BY <1>2, <2>1 DEF ReadTeamRows, ShapesOK, tables, Labels
<1>3. CASE ReadOrgRows(r)
  <2>1. [capabilities |-> OrgCaps(principal[r].subject), orgs |-> OrgsOf(principal[r].subject)]
            \in [capabilities : SUBSET (Capability \X Org), orgs : SUBSET Org]
    BY DEF OrgCaps, OrgsOf
  <2> QED
    BY <1>3, <2>1 DEF ReadOrgRows, ShapesOK, tables, Labels
<1>4. CASE Rule(r)
  <2> DEFINE v == Decide(SliceOf(r), principal[r], Probe(c), c)
  <2>1. c \in Call /\ v \in {"Allow", "Deny", "EngineError"} /\ Probe(c) \in Action
    <3>1. c \in Call
      BY <1>0, <1>4 DEF Rule
    <3> QED
      BY <3>1, GuardedFacts, RulingAllows DEF Probe, Action
  <2> HIDE DEF v
  <2>2. /\ pc' \in [Request -> Labels] /\ status' \in [Request -> Codes]
        /\ tasks' \in [Request -> SUBSET AuditRows]
        /\ ruling' \in [Request -> Rulings \cup {None}]
    <3>1. \/ Respond(r, 404, {}) /\ ruling' = ruling
          \/ v \in {"Deny", "EngineError"}
               /\ Refuse(r, Probe(c), v, IF v = "Deny" THEN 404 ELSE 500)
          \/ RuleAction(r)
      BY <1>4, <2>1 DEF Rule, v
    <3>2. 404 \in Codes /\ 500 \in Codes /\ {} \in SUBSET AuditRows
      BY DEF Codes
    <3>3. CASE Respond(r, 404, {}) /\ ruling' = ruling
      BY <3>2, <3>3, RespondTyped DEF ShapesOK
    <3>4. CASE v \in {"Deny", "EngineError"} /\ Refuse(r, Probe(c), v, IF v = "Deny" THEN 404 ELSE 500)
      BY <2>1, <3>2, <3>4, RefuseTyped
    <3>5. CASE RuleAction(r)
      BY <2>1, <3>5, RuleActionTyped
    <3> QED
      BY <3>1, <3>3, <3>4, <3>5
  <2> QED
    BY <1>4, <2>2 DEF Rule, ShapesOK, tables
<1>5. CASE Handle(r) \/ InsertSecond(r)
  <2>1. /\ Respond(r, 200, tasks[r]) /\ 200 \in Codes /\ tasks[r] \in SUBSET AuditRows
        /\ UNCHANGED <<authz_audit_log, call, principal, team_caps, org_entity, ruling>>
    BY <1>5 DEF Handle, InsertSecond, ShapesOK, Codes
  <2>2. /\ pc' \in [Request -> Labels] /\ status' \in [Request -> Codes]
        /\ tasks' \in [Request -> SUBSET AuditRows]
    BY <2>1, RespondTyped
  <2>3. TablesOK'
    BY <1>5, CommitsTyped DEF Handle, InsertSecond, Commits
  <2> QED
    BY <2>1, <2>2, <2>3 DEF ShapesOK, TablesOK
<1>6. CASE InsertFirst(r)
  <2>1. TablesOK'
    BY <1>6, CommitsTyped DEF InsertFirst, Commits
  <2> QED
    BY <1>6, <2>1 DEF InsertFirst, ShapesOK, TablesOK, Labels
<1>7. CASE LoseReply(r)
  <2>1. /\ Respond(r, 500, {}) /\ 500 \in Codes /\ {} \in SUBSET AuditRows
        /\ UNCHANGED <<authz_audit_log, call, principal, team_caps, org_entity, ruling>>
    BY <1>7 DEF LoseReply, Codes
  <2>2. /\ pc' \in [Request -> Labels] /\ status' \in [Request -> Codes]
        /\ tasks' \in [Request -> SUBSET AuditRows]
    BY <2>1, RespondTyped
  <2>3. TablesOK'
    BY <1>7, CommitsTyped DEF LoseReply, Commits
  <2> QED
    BY <2>1, <2>2, <2>3 DEF ShapesOK, TablesOK
<1>8. CASE Fail(r)
  <2>1. PICK code \in {409, 422, 500} : Respond(r, code, {})
    BY <1>8 DEF Fail
  <2>2. code \in Codes /\ {} \in SUBSET AuditRows
    BY DEF Codes
  <2>3. /\ pc' \in [Request -> Labels] /\ status' \in [Request -> Codes]
        /\ tasks' \in [Request -> SUBSET AuditRows]
    BY <2>1, <2>2, RespondTyped
  <2> QED
    BY <1>8, <2>3 DEF Fail, ShapesOK, tables
<1>9. CASE RevokeNothing(r)
  <2>1. Respond(r, 404, tasks[r]) /\ 404 \in Codes /\ tasks[r] \in SUBSET AuditRows
    BY <1>9 DEF RevokeNothing, ShapesOK, Codes
  <2>2. /\ pc' \in [Request -> Labels] /\ status' \in [Request -> Codes]
        /\ tasks' \in [Request -> SUBSET AuditRows]
    BY <2>1, RespondTyped
  <2> QED
    BY <1>9, <2>2 DEF RevokeNothing, ShapesOK, tables
<1>10. CASE Record(r)
  BY <1>10 DEF Record, ShapesOK, tables, Labels
<1> QED
  BY <1>1, <1>2, <1>3, <1>4, <1>5, <1>6, <1>7, <1>8, <1>9, <1>10 DEF Step

-----------------------------------------------------------------------------
(* What a request knows.                                                   *)

Early == {"new", "team_rows", "org_rows", "resource"}
Working == {"handler", "second_insert"}

\* Nothing is answered or ruled before the ruling; a handler runs on an Allow.
InOrder(r) ==
    /\ pc[r] # "new" => call[r] \in Call
    /\ pc[r] \in Early => status[r] = 0 /\ ruling[r] = None /\ tasks[r] = {}
    /\ pc[r] \in Working =>
          /\ call[r].route = "guarded" /\ status[r] = 0
          /\ ruling[r] = [action |-> call[r].action, decision |-> "Allow"]
    /\ pc[r] = "second_insert" => committed[r]

Visible(r) == \E entity \in seen[r] : AllowedAs(r, entity, VisibilityAction(call[r].type))

\* Each half of its slice was true at a moment it saw, and what it does or
\* discloses was allowed at one.
RightsWereSeen(r) ==
    /\ pc[r] \in {"org_rows", "resource"} => \E e \in seen[r] : team_caps[r] \subseteq e.capabilities
    /\ pc[r] = "resource" => \E e \in seen[r] : /\ org_entity[r].capabilities \subseteq e.capabilities
                                               /\ org_entity[r].orgs \subseteq e.orgs
    /\ pc[r] \in Working => \E e \in seen[r] : /\ AllowedAs(r, e, VisibilityAction(call[r].type))
                                              /\ AllowedAs(r, e, call[r].action)
    /\ status[r] \in {200, 403, 409, 422} => Visible(r)

\* An API key's request carries what the key was minted with, or less.
KeyIsHeld(r) ==
    pc[r] # "new" /\ principal[r].auth_method = "api_key" =>
        /\ call[r].key \in ApiKey
        /\ principal[r].api_key_scopes \subseteq KeyScopes[call[r].key]
        /\ principal[r].api_key_org_id = KeyOrg[call[r].key]

\* An allowing row that its response carries tells what happened.
AllowIsTrue(r) ==
    \/ /\ status[r] = 200
       /\ Writes(call[r]) => committed[r] \/ ruling[r].action \in MayFindNothing
    \/ status[r] = 404 /\ ruling[r].action = "ApiKeyRevoke"

\* The queued row is that of the ruling, and a denial has one until it is written.
Accounted(r) ==
    /\ ruling[r] # None /\ call[r].route = "guarded" => ruling[r].decision # "EngineError"
    /\ \A t \in tasks[r] :
          ruling[r] \in Rulings /\ t = AuditRow(r, ruling[r].action, ruling[r].decision)
    /\ ruling[r] # None /\ call[r].route = "guarded" /\ ruling[r].decision = "Deny"
          => AuditRow(r, ruling[r].action, "Deny") \in tasks[r]
    /\ pc[r] \notin Early \cup Working /\ tasks[r] # {} /\ ruling[r].decision = "Allow"
          => AllowIsTrue(r)
    /\ pc[r] = "done" => tasks[r] \subseteq authz_audit_log

Own(r) == InOrder(r) /\ RightsWereSeen(r) /\ KeyIsHeld(r) /\ Accounted(r)

\* The log holds the rows of requests that are over.
LogIsOver ==
    \A row \in authz_audit_log :
        /\ row.request \in Request /\ pc[row.request] = "done"
        /\ row \in tasks[row.request]

ScopesAreMinted == \A k \in ApiKey : api_key_grants[k] \subseteq KeyScopes[k]

GuardInv == ShapesOK /\ (\A r \in Request : Own(r)) /\ LogIsOver /\ ScopesAreMinted

-----------------------------------------------------------------------------
(* Other requests' steps.                                                  *)

Same(q) ==
    /\ pc'[q] = pc[q] /\ call'[q] = call[q] /\ principal'[q] = principal[q]
    /\ team_caps'[q] = team_caps[q] /\ org_entity'[q] = org_entity[q]
    /\ ruling'[q] = ruling[q] /\ status'[q] = status[q] /\ tasks'[q] = tasks[q]
    /\ committed'[q] = committed[q]

LEMMA SameKeeps ==
    ASSUME NEW q \in Request, Same(q), seen[q] \subseteq seen'[q],
           authz_audit_log \subseteq authz_audit_log', Own(q)
    PROVE  Own(q)'
<1> USE DEF Same
<1>1. InOrder(q)'
  BY DEF Own, InOrder
<1>2. \A e, a : AllowedAs(q, e, a)' = AllowedAs(q, e, a)
  BY DEF AllowedAs
<1>3. RightsWereSeen(q)'
  BY <1>2 DEF Own, RightsWereSeen, Visible
<1>4. KeyIsHeld(q)'
  BY DEF Own, KeyIsHeld
<1>5. Accounted(q)'
  BY DEF Own, Accounted, AllowIsTrue
<1> QED
  BY <1>1, <1>3, <1>4, <1>5 DEF Own

LEMMA WatchGrows ==
    ASSUME Watch, NEW q \in Request, ~(pc[q] = "new" /\ pc'[q] = "team_rows")
    PROVE  /\ seen[q] \subseteq seen'[q]
           /\ pc[q] \in {"team_rows", "org_rows"} => EntityOf(principal[q].subject)' \in seen'[q]
<1>1. seen'[q] = CASE pc[q] \in {"team_rows", "org_rows"} -> seen[q] \cup {EntityOf(principal[q].subject)'}
                   [] pc[q] = "new" /\ pc'[q] = "team_rows" -> {EntityOf(principal[q].subject)'}
                   [] OTHER -> seen[q]
  BY DEF Watch
<1>2. CASE pc[q] \in {"team_rows", "org_rows"}
  BY <1>1, <1>2
<1>3. CASE pc[q] \notin {"team_rows", "org_rows"}
  BY <1>1, <1>3
<1> QED
  BY <1>2, <1>3

LEMMA StepIsLocal ==
    ASSUME ShapesOK, NEW r \in Request, NEW q \in Request, q # r, Step(r)
    PROVE  Same(q) /\ authz_audit_log \subseteq authz_audit_log'
<1> USE DEF ShapesOK, Same
<1>0. ASSUME NEW code, NEW audit, Respond(r, code, audit)
      PROVE  pc'[q] = pc[q] /\ status'[q] = status[q] /\ tasks'[q] = tasks[q]
  BY <1>0 DEF Respond
<1>1. CASE Authenticate(r)
  <2>1. PICK k \in Call :
            /\ call' = [call EXCEPT ![r] = k]
            /\ principal' = [principal EXCEPT ![r] = PrincipalOf(k)]
            /\ \/ Respond(r, 401, {})
               \/ pc' = [pc EXCEPT ![r] = "team_rows"] /\ UNCHANGED <<status, tasks>>
    BY <1>1 DEF Authenticate
  <2>2. pc'[q] = pc[q] /\ status'[q] = status[q] /\ tasks'[q] = tasks[q]
    BY <1>0, <2>1
  <2> QED
    BY <1>1, <2>1, <2>2 DEF Authenticate
<1>2. CASE ReadTeamRows(r)
  BY <1>2 DEF ReadTeamRows
<1>3. CASE ReadOrgRows(r)
  BY <1>3 DEF ReadOrgRows
<1>4. CASE Rule(r)
  <2>1. ASSUME NEW a, NEW d, NEW code, Refuse(r, a, d, code)
        PROVE  /\ pc'[q] = pc[q] /\ status'[q] = status[q] /\ tasks'[q] = tasks[q]
               /\ ruling'[q] = ruling[q]
    BY <1>0, <2>1 DEF Refuse
  <2>2. ASSUME RuleAction(r)
        PROVE  /\ pc'[q] = pc[q] /\ status'[q] = status[q] /\ tasks'[q] = tasks[q]
               /\ ruling'[q] = ruling[q]
    <3> DEFINE d == Decide(SliceOf(r), principal[r], call[r].action, call[r])
    <3>1. \/ Refuse(r, call[r].action, d, Refusal[d])
          \/ /\ ruling' = [ruling EXCEPT ![r] = [action |-> call[r].action, decision |-> d]]
             /\ tasks' = [tasks EXCEPT ![r] = Audit(r, call[r].action, d)]
             /\ pc' = [pc EXCEPT ![r] = "handler"] /\ status' = status
          \/ Explained(r, call[r].action, d)
      BY <2>2 DEF RuleAction
    <3> HIDE DEF d
    <3>2. CASE Refuse(r, call[r].action, d, Refusal[d])
      BY <2>1, <3>2
    <3>3. CASE /\ ruling' = [ruling EXCEPT ![r] = [action |-> call[r].action, decision |-> d]]
               /\ tasks' = [tasks EXCEPT ![r] = Audit(r, call[r].action, d)]
               /\ pc' = [pc EXCEPT ![r] = "handler"] /\ status' = status
      BY <3>3
    <3>4. CASE Explained(r, call[r].action, d)
      BY <1>0, <3>4 DEF Explained
    <3> QED
      BY <3>1, <3>2, <3>3, <3>4
  <2>3. \/ Respond(r, 404, {}) /\ ruling' = ruling
        \/ \E a, d, code : Refuse(r, a, d, code)
        \/ RuleAction(r)
    BY <1>4 DEF Rule
  <2>4. /\ pc'[q] = pc[q] /\ status'[q] = status[q] /\ tasks'[q] = tasks[q]
        /\ ruling'[q] = ruling[q]
    BY <1>0, <2>1, <2>2, <2>3
  <2> QED
    BY <1>4, <2>4 DEF Rule
<1>5. ASSUME Commits(r) PROVE committed'[q] = committed[q]
  <2>1. CASE Commit(r)
    BY <2>1, CommitNotes
  <2> QED
    BY <1>5, <2>1 DEF Commits, CommitFirst, CommitSecond
<1>6. CASE InsertFirst(r)
  BY <1>5, <1>6 DEF InsertFirst, Commits
<1>7. CASE Handle(r) \/ InsertSecond(r) \/ LoseReply(r)
  <2>1. /\ UNCHANGED <<authz_audit_log, call, principal, team_caps, org_entity, ruling>>
        /\ Respond(r, 200, tasks[r]) \/ Respond(r, 500, {})
        /\ Commits(r)
    BY <1>7 DEF Handle, InsertSecond, LoseReply, Commits
  <2>2. pc'[q] = pc[q] /\ status'[q] = status[q] /\ tasks'[q] = tasks[q]
    BY <1>0, <2>1
  <2> QED
    BY <1>5, <2>1, <2>2
<1>8. CASE Fail(r)
  <2>1. pc'[q] = pc[q] /\ status'[q] = status[q] /\ tasks'[q] = tasks[q]
    BY <1>0, <1>8 DEF Fail
  <2> QED
    BY <1>8, <2>1 DEF Fail
<1>9. CASE RevokeNothing(r)
  <2>1. pc'[q] = pc[q] /\ status'[q] = status[q] /\ tasks'[q] = tasks[q]
    BY <1>0, <1>9 DEF RevokeNothing
  <2> QED
    BY <1>9, <2>1 DEF RevokeNothing
<1>10. CASE Record(r)
  BY <1>10 DEF Record
<1> QED
  BY <1>1, <1>2, <1>3, <1>4, <1>5, <1>6, <1>7, <1>8, <1>9, <1>10 DEF Step

-----------------------------------------------------------------------------
(* A request's own steps.                                                  *)

LEMMA Responds ==
    ASSUME ShapesOK, NEW r \in Request, NEW code, NEW audit, Respond(r, code, audit)
    PROVE  /\ status'[r] = code /\ tasks'[r] = audit
           /\ pc'[r] = IF audit = {} THEN "done" ELSE "background"
  BY DEF Respond, ShapesOK

LEMMA AuthenticateOwns ==
    ASSUME ShapesOK, ScopesAreMinted, NEW r \in Request, Own(r), Authenticate(r)
    PROVE  Own(r)'
<1>1. PICK c \in Call :
          /\ call' = [call EXCEPT ![r] = c]
          /\ principal' = [principal EXCEPT ![r] = PrincipalOf(c)]
          /\ \/ Respond(r, 401, {})
             \/ pc' = [pc EXCEPT ![r] = "team_rows"] /\ UNCHANGED <<status, tasks>>
  BY DEF Authenticate
<1>2. call'[r] = c /\ principal'[r] = PrincipalOf(c) /\ ruling'[r] = None
  <2>1. pc[r] = "new" /\ ruling' = ruling /\ ruling[r] = None
    BY DEF Authenticate, Own, InOrder, Early
  <2> QED
    BY <1>1, <2>1 DEF ShapesOK
<1>3. /\ tasks'[r] = {}
      /\ \/ status'[r] = 401 /\ pc'[r] = "done"
         \/ status'[r] = 0 /\ pc'[r] = "team_rows"
  <2>1. status[r] = 0 /\ tasks[r] = {}
    BY DEF Authenticate, Own, InOrder, Early
  <2>2. CASE Respond(r, 401, {})
    BY <2>2, Responds
  <2>3. CASE pc' = [pc EXCEPT ![r] = "team_rows"] /\ UNCHANGED <<status, tasks>>
    BY <2>1, <2>3 DEF ShapesOK
  <2> QED
    BY <1>1, <2>2, <2>3
<1>4. InOrder(r)'
  BY <1>2, <1>3 DEF InOrder, Early, Working
<1>5. RightsWereSeen(r)'
  BY <1>3 DEF RightsWereSeen, Working
<1>6. KeyIsHeld(r)'
  <2>1. ASSUME PrincipalOf(c).auth_method = "api_key"
        PROVE  /\ c.key \in ApiKey /\ PrincipalOf(c).api_key_org_id = KeyOrg[c.key]
               /\ PrincipalOf(c).api_key_scopes = api_key_grants[c.key]
    <3>1. c.key \in ApiKey \cup {None}
      BY CallFacts DEF CallType
    <3>2. c.bearer = None /\ c.key # None
      BY <2>1 DEF PrincipalOf, Anonymous
    <3> QED
      BY <2>1, <3>1, <3>2 DEF PrincipalOf, Anonymous
  <2> QED
    BY <1>2, <2>1 DEF KeyIsHeld, ScopesAreMinted
<1>7. Accounted(r)'
  BY <1>2, <1>3 DEF Accounted
<1> QED
  BY <1>4, <1>5, <1>6, <1>7 DEF Own

\* What the queries read was true when they read it, and Watch recorded it.
LEMMA ReadTeamRowsOwns ==
    ASSUME ShapesOK, NEW r \in Request, Own(r), ReadTeamRows(r), Watch
    PROVE  Own(r)'
<1>1. pc[r] = "team_rows" /\ pc'[r] = "org_rows" /\ team_caps'[r] = TeamCaps(principal[r].subject)
  BY DEF ReadTeamRows, ShapesOK
<1>2. /\ call' = call /\ principal' = principal /\ ruling' = ruling /\ status' = status
      /\ tasks' = tasks /\ team_memberships' = team_memberships
  BY DEF ReadTeamRows, tables
<1>3. EntityOf(principal[r].subject)' \in seen'[r]
  BY <1>1, WatchGrows
<1>4. team_caps'[r] \subseteq (EntityOf(principal[r].subject)').capabilities
  BY <1>1, <1>2 DEF EntityOf, TeamCaps
<1>5. InOrder(r)'
  BY <1>1, <1>2 DEF Own, InOrder, Early, Working
<1>6. RightsWereSeen(r)'
  <2>1. status'[r] = 0
    BY <1>1, <1>2 DEF Own, InOrder, Early
  <2> QED
    BY <1>1, <1>3, <1>4, <2>1 DEF RightsWereSeen, Working
<1>7. KeyIsHeld(r)'
  BY <1>1, <1>2 DEF Own, KeyIsHeld
<1>8. Accounted(r)'
  <2>1. ruling'[r] = None /\ tasks'[r] = {}
    BY <1>1, <1>2 DEF Own, InOrder, Early
  <2> QED
    BY <1>1, <2>1 DEF Accounted
<1> QED
  BY <1>5, <1>6, <1>7, <1>8 DEF Own

LEMMA ReadOrgRowsOwns ==
    ASSUME ShapesOK, NEW r \in Request, Own(r), ReadOrgRows(r), Watch
    PROVE  Own(r)'
<1> DEFINE u == principal[r].subject
<1>1. /\ pc[r] = "org_rows" /\ pc'[r] = "resource"
      /\ org_entity'[r] = [capabilities |-> OrgCaps(u), orgs |-> OrgsOf(u)]
  BY DEF ReadOrgRows, ShapesOK
<1>2. /\ call' = call /\ principal' = principal /\ ruling' = ruling /\ status' = status
      /\ tasks' = tasks /\ team_caps' = team_caps /\ org_memberships' = org_memberships
  BY DEF ReadOrgRows, tables
<1>3. EntityOf(u)' \in seen'[r] /\ seen[r] \subseteq seen'[r]
  BY <1>1, WatchGrows
<1>4. /\ org_entity'[r].capabilities \subseteq (EntityOf(u)').capabilities
      /\ org_entity'[r].orgs \subseteq (EntityOf(u)').orgs
  BY <1>1, <1>2 DEF EntityOf, OrgCaps, OrgsOf
<1>5. \E e \in seen'[r] : team_caps'[r] \subseteq e.capabilities
  BY <1>1, <1>2, <1>3 DEF Own, RightsWereSeen
<1>6. InOrder(r)'
  BY <1>1, <1>2 DEF Own, InOrder, Early, Working
<1>7. RightsWereSeen(r)'
  <2>1. status'[r] = 0
    BY <1>1, <1>2 DEF Own, InOrder, Early
  <2> QED
    BY <1>1, <1>3, <1>4, <1>5, <2>1 DEF RightsWereSeen, Working
<1>8. KeyIsHeld(r)'
  BY <1>1, <1>2 DEF Own, KeyIsHeld
<1>9. Accounted(r)'
  <2>1. ruling'[r] = None /\ tasks'[r] = {}
    BY <1>1, <1>2 DEF Own, InOrder, Early
  <2> QED
    BY <1>1, <2>1 DEF Accounted
<1> QED
  BY <1>6, <1>7, <1>8, <1>9 DEF Own

\* A ruled request that was allowed to see the resource saw a moment that allowed it,
\* and one that allowed the action too if that was ruled on and allowed.
LEMMA SliceWasSeen ==
    ASSUME ShapesOK, NEW r \in Request, Own(r), pc[r] = "resource",
           Decide(SliceOf(r), principal[r], VisibilityAction(call[r].type), call[r]) = "Allow"
    PROVE  /\ Visible(r)
           /\ /\ call[r].route = "guarded"
              /\ Decide(SliceOf(r), principal[r], call[r].action, call[r]) = "Allow"
              => \E e \in seen[r] : /\ AllowedAs(r, e, VisibilityAction(call[r].type))
                                    /\ AllowedAs(r, e, call[r].action)
<1>1. call[r] \in Call
  BY DEF Own, InOrder
<1>2. PICK e1 \in seen[r] : team_caps[r] \subseteq e1.capabilities
  BY DEF Own, RightsWereSeen
<1>3. PICK e2 \in seen[r] : /\ org_entity[r].capabilities \subseteq e2.capabilities
                            /\ org_entity[r].orgs \subseteq e2.orgs
  BY DEF Own, RightsWereSeen
<1>4. Halves(team_caps[r], org_entity[r], e1, e2)
  BY <1>2, <1>3 DEF Halves, ShapesOK
<1>5. SliceOf(r) = Slice(team_caps[r], org_entity[r])
  BY DEF SliceOf, Slice
<1>6. \E e \in {e1, e2} :
          /\ Decide(e, principal[r], VisibilityAction(call[r].type), call[r]) = "Allow"
          /\ /\ call[r].route = "guarded"
             /\ Decide(Slice(team_caps[r], org_entity[r]), principal[r], call[r].action, call[r]) = "Allow"
             => Decide(e, principal[r], call[r].action, call[r]) = "Allow"
  BY <1>1, <1>4, <1>5, OneMoment
<1> QED
  BY <1>2, <1>3, <1>5, <1>6 DEF Visible, AllowedAs

LEMMA Refuses ==
    ASSUME ShapesOK, NEW r \in Request, NEW a, NEW d \in {"Deny", "EngineError"}, NEW code,
           Refuse(r, a, d, code)
    PROVE  /\ status'[r] = code /\ ruling'[r] = [action |-> a, decision |-> d]
           /\ tasks'[r] = IF call[r].route = "guarded" THEN {AuditRow(r, a, d)} ELSE {}
           /\ pc'[r] \in {"done", "background"} /\ (pc'[r] = "done" => tasks'[r] = {})
<1>1. Respond(r, code, Audit(r, a, d))
  BY DEF Refuse
<1>2. Audit(r, a, d) = IF call[r].route = "guarded" THEN {AuditRow(r, a, d)} ELSE {}
  BY DEF Audit, ShouldRecord
<1>3. ruling'[r] = [action |-> a, decision |-> d]
  BY DEF Refuse, ShapesOK
<1> QED
  BY <1>1, <1>2, <1>3, Responds

\* How a ruling ends: hidden, refused, allowed to a handler, or explained.
MayView(r) == Decide(SliceOf(r), principal[r], VisibilityAction(call[r].type), call[r]) = "Allow"

MayAct(r) == Decide(SliceOf(r), principal[r], call[r].action, call[r]) = "Allow"

IsOver(r) == pc'[r] \in {"done", "background"} /\ (pc'[r] = "done" => tasks'[r] = {})

EndsHidden(r) == IsOver(r) /\ status'[r] = 404 /\ ruling'[r] = None /\ tasks'[r] = {}

EndsRefused(r, a, d) ==
    /\ IsOver(r) /\ ruling'[r] = [action |-> a, decision |-> d]
    /\ tasks'[r] = IF call[r].route = "guarded" THEN {AuditRow(r, a, d)} ELSE {}
    /\ d = "EngineError" => call[r].route # "guarded"
    /\ status'[r] \in {404, 500} \/ (status'[r] = 403 /\ MayView(r))

EndsAllowed(r) ==
    /\ MayView(r) /\ MayAct(r) /\ call[r].route = "guarded"
    /\ pc'[r] = "handler" /\ status'[r] = 0
    /\ ruling'[r] = [action |-> call[r].action, decision |-> "Allow"]
    /\ tasks'[r] \subseteq {AuditRow(r, call[r].action, "Allow")}
    /\ ShouldRecord(call[r].action, "Allow") => AuditRow(r, call[r].action, "Allow") \in tasks'[r]

EndsExplained(r) ==
    MayView(r) /\ call[r].route # "guarded" /\ IsOver(r) /\ status'[r] = 200 /\ tasks'[r] = {}

LEMMA RuleEnds ==
    ASSUME ShapesOK, NEW r \in Request, Own(r), Rule(r)
    PROVE  \/ EndsHidden(r)
           \/ \E a \in Action, d \in {"Deny", "EngineError"} : EndsRefused(r, a, d)
           \/ EndsAllowed(r)
           \/ EndsExplained(r)
<1> DEFINE c == call[r]
           v == Decide(SliceOf(r), principal[r], VisibilityAction(c.type), c)
           d == Decide(SliceOf(r), principal[r], c.action, c)
<1>1. c \in Call /\ pc[r] = "resource" /\ status[r] = 0 /\ ruling[r] = None
  BY DEF Rule, Own, InOrder, Early
<1>2. /\ v \in {"Allow", "Deny"} /\ VisibilityAction(c.type) \in Action
      /\ d \in {"Allow", "Deny", "EngineError"} /\ (c.route = "guarded" => d # "EngineError")
      /\ c.action \in Action
  BY <1>1, RulingAllows, GuardedFacts, CallFacts DEF Action
<1>3. \/ Respond(r, 404, {}) /\ ruling' = ruling
      \/ v = "Deny" /\ Refuse(r, VisibilityAction(c.type), "Deny", 404)
      \/ v = "Allow" /\ RuleAction(r)
  BY <1>2 DEF Rule, Probe
<1>4. RuleAction(r) =>
        \/ d = "EngineError" /\ Refuse(r, c.action, d, 500)
        \/ d = "Deny" /\ c.route = "guarded" /\ Refuse(r, c.action, d, 403)
        \/ /\ d = "Allow" /\ c.route = "guarded"
           /\ ruling' = [ruling EXCEPT ![r] = [action |-> c.action, decision |-> d]]
           /\ tasks' = [tasks EXCEPT ![r] = Audit(r, c.action, d)]
           /\ pc' = [pc EXCEPT ![r] = "handler"] /\ status' = status
        \/ c.route = "explain" /\ Respond(r, 200, {})
  BY DEF RuleAction, Refusal, Explained
<1>5. (v = "Allow" <=> MayView(r)) /\ (d = "Allow" <=> MayAct(r))
  BY DEF MayView, MayAct
<1>6. ASSUME NEW a, NEW dec \in {"Deny", "EngineError"}, NEW code, Refuse(r, a, dec, code)
      PROVE  /\ status'[r] = code /\ ruling'[r] = [action |-> a, decision |-> dec]
             /\ tasks'[r] = IF call[r].route = "guarded" THEN {AuditRow(r, a, dec)} ELSE {}
             /\ pc'[r] \in {"done", "background"} /\ (pc'[r] = "done" => tasks'[r] = {})
  BY <1>6, Refuses
<1>7. "Deny" \in {"Deny", "EngineError"} /\ "EngineError" \in {"Deny", "EngineError"}
  OBVIOUS
<1> HIDE DEF v, d
<1> USE DEF IsOver, EndsHidden, EndsRefused, EndsAllowed, EndsExplained
<1>8. CASE Respond(r, 404, {}) /\ ruling' = ruling
  <2>1. status'[r] = 404 /\ tasks'[r] = {} /\ pc'[r] = "done"
    BY <1>8, Responds
  <2> QED
    BY <1>1, <1>8, <2>1
<1>9. CASE v = "Deny" /\ Refuse(r, VisibilityAction(c.type), "Deny", 404)
  <2>1. /\ status'[r] = 404 /\ ruling'[r] = [action |-> VisibilityAction(c.type), decision |-> "Deny"]
        /\ tasks'[r] = IF c.route = "guarded" THEN {AuditRow(r, VisibilityAction(c.type), "Deny")} ELSE {}
        /\ pc'[r] \in {"done", "background"} /\ (pc'[r] = "done" => tasks'[r] = {})
    BY <1>9, <1>6, <1>7
  <2>2. EndsRefused(r, VisibilityAction(c.type), "Deny")
    BY <2>1
  <2> QED
    BY <1>2, <2>2
<1>10. CASE d = "EngineError" /\ Refuse(r, c.action, d, 500)
  <2>1. /\ status'[r] = 500 /\ ruling'[r] = [action |-> c.action, decision |-> "EngineError"]
        /\ tasks'[r] = IF c.route = "guarded" THEN {AuditRow(r, c.action, "EngineError")} ELSE {}
        /\ pc'[r] \in {"done", "background"} /\ (pc'[r] = "done" => tasks'[r] = {})
    <3>1. Refuse(r, c.action, "EngineError", 500)
      BY <1>10
    <3> QED
      BY <3>1, <1>6, <1>7
  <2>2. EndsRefused(r, c.action, "EngineError")
    BY <1>2, <1>10, <2>1
  <2> QED
    BY <1>2, <2>2
<1>11. CASE v = "Allow" /\ d = "Deny" /\ Refuse(r, c.action, d, 403)
  <2>1. /\ status'[r] = 403 /\ ruling'[r] = [action |-> c.action, decision |-> "Deny"]
        /\ tasks'[r] = IF c.route = "guarded" THEN {AuditRow(r, c.action, "Deny")} ELSE {}
        /\ pc'[r] \in {"done", "background"} /\ (pc'[r] = "done" => tasks'[r] = {})
    <3>1. Refuse(r, c.action, "Deny", 403)
      BY <1>11
    <3> QED
      BY <3>1, <1>6, <1>7
  <2>2. EndsRefused(r, c.action, "Deny")
    BY <1>5, <1>11, <2>1
  <2> QED
    BY <1>2, <2>2
<1>12. CASE /\ v = "Allow" /\ d = "Allow" /\ c.route = "guarded"
            /\ ruling' = [ruling EXCEPT ![r] = [action |-> c.action, decision |-> d]]
            /\ tasks' = [tasks EXCEPT ![r] = Audit(r, c.action, d)]
            /\ pc' = [pc EXCEPT ![r] = "handler"] /\ status' = status
  <2>1. Audit(r, c.action, d) \subseteq {AuditRow(r, c.action, "Allow")}
    BY <1>12 DEF Audit
  <2>2. /\ pc'[r] = "handler" /\ status'[r] = 0
        /\ ruling'[r] = [action |-> c.action, decision |-> "Allow"]
        /\ tasks'[r] \subseteq {AuditRow(r, c.action, "Allow")}
    BY <1>1, <1>12, <2>1 DEF ShapesOK
  <2>3. ShouldRecord(c.action, "Allow") => AuditRow(r, c.action, "Allow") \in tasks'[r]
    BY <1>12 DEF Audit, ShapesOK
  <2> QED
    BY <1>5, <1>12, <2>2, <2>3
<1>13. CASE v = "Allow" /\ c.route = "explain" /\ Respond(r, 200, {})
  <2>1. status'[r] = 200 /\ tasks'[r] = {} /\ pc'[r] = "done"
    BY <1>13, Responds
  <2> QED
    BY <1>5, <1>13, <2>1
<1> QED
  BY <1>3, <1>4, <1>8, <1>9, <1>10, <1>11, <1>12, <1>13

LEMMA RuleOwns ==
    ASSUME ShapesOK, NEW r \in Request, Own(r), Rule(r), Watch
    PROVE  Own(r)'
<1> DEFINE c == call[r]
<1>1. /\ pc[r] = "resource" /\ c \in Call /\ c.action \in Action
      /\ call' = call /\ principal' = principal /\ committed' = committed
  BY CallFacts DEF Rule, Own, InOrder
<1>2. /\ \A e, a : AllowedAs(r, e, a)' = AllowedAs(r, e, a)
      /\ seen[r] \subseteq seen'[r]
  BY <1>1, WatchGrows DEF AllowedAs
<1>3. MayView(r) => Visible(r)'
  BY <1>1, <1>2, SliceWasSeen DEF Visible, MayView
<1>4. MayView(r) /\ MayAct(r) /\ c.route = "guarded" =>
        \E e \in seen'[r] : /\ AllowedAs(r, e, VisibilityAction(c.type))'
                            /\ AllowedAs(r, e, c.action)'
  BY <1>1, <1>2, SliceWasSeen DEF MayView, MayAct
<1>5. KeyIsHeld(r)'
  BY <1>1 DEF Own, KeyIsHeld
<1>6. /\ InOrder(r)'
      /\ pc'[r] \in {"done", "background", "handler"}
      /\ pc'[r] = "handler" => MayView(r) /\ MayAct(r) /\ c.route = "guarded"
      /\ status'[r] \in {200, 403, 409, 422} => MayView(r)
      /\ Accounted(r)'
  <2> USE DEF InOrder, Early, Working, Accounted, IsOver
  <2>1. CASE EndsHidden(r)
    BY <1>1, <2>1 DEF EndsHidden
  <2>2. ASSUME NEW a \in Action, NEW d \in {"Deny", "EngineError"}, EndsRefused(r, a, d)
        PROVE  <1>6!1 /\ <1>6!2 /\ <1>6!3 /\ <1>6!4 /\ <1>6!5
    <3>1. ruling'[r] \in Rulings /\ ruling'[r].action = a /\ ruling'[r].decision = d
      BY <2>2 DEF Rulings, EndsRefused
    <3>2. InOrder(r)' /\ pc'[r] \in {"done", "background"}
          /\ (status'[r] \in {200, 403, 409, 422} => MayView(r))
      BY <1>1, <2>2 DEF EndsRefused
    <3>3. Accounted(r)'
      BY <1>1, <2>2, <3>1 DEF EndsRefused
    <3> QED
      BY <3>2, <3>3
  <2>3. CASE EndsAllowed(r)
    <3>1. ruling'[r] \in Rulings /\ ruling'[r].action = c.action /\ ruling'[r].decision = "Allow"
      BY <1>1, <2>3 DEF Rulings, EndsAllowed
    <3>2. InOrder(r)'
      BY <1>1, <2>3 DEF EndsAllowed
    <3>3. Accounted(r)'
      BY <1>1, <2>3, <3>1 DEF EndsAllowed
    <3> QED
      BY <2>3, <3>2, <3>3 DEF EndsAllowed
  <2>4. CASE EndsExplained(r)
    BY <1>1, <2>4 DEF EndsExplained
  <2> QED
    BY <2>1, <2>2, <2>3, <2>4, RuleEnds
<1>7. RightsWereSeen(r)'
  BY <1>1, <1>3, <1>4, <1>6 DEF RightsWereSeen, Working
<1> QED
  BY <1>5, <1>6, <1>7 DEF Own

\* A handler's answer, with the rows it carries.
LEMMA AnswerOwns ==
    ASSUME ShapesOK, NEW r \in Request, Own(r), Watch, pc[r] \in Working,
           call' = call, principal' = principal, ruling' = ruling,
           NEW code \in {200, 404, 409, 422, 500}, NEW audit, audit \subseteq tasks[r],
           Respond(r, code, audit), audit # {} => AllowIsTrue(r)'
    PROVE  Own(r)'
<1>1. /\ status'[r] = code /\ tasks'[r] = audit
      /\ pc'[r] \in {"done", "background"} /\ (pc'[r] = "done" => audit = {})
  BY Responds
<1>2. /\ call[r] \in Call /\ call[r].route = "guarded" /\ ruling'[r] = ruling[r]
      /\ ruling[r] = [action |-> call[r].action, decision |-> "Allow"]
  BY DEF Own, InOrder, Working
<1>3. \E e \in seen'[r] : AllowedAs(r, e, VisibilityAction(call[r].type))'
  <2>1. PICK e \in seen[r] : AllowedAs(r, e, VisibilityAction(call[r].type))
    BY DEF Own, RightsWereSeen
  <2>2. e \in seen'[r]
    <3>1. pc[r] # "new"
      BY DEF Working
    <3> QED
      BY <3>1, WatchGrows
  <2>3. AllowedAs(r, e, VisibilityAction(call[r].type))'
    BY <2>1 DEF AllowedAs
  <2> QED
    BY <2>2, <2>3
<1>4. InOrder(r)'
  BY <1>1, <1>2 DEF InOrder, Early, Working
<1>5. RightsWereSeen(r)'
  BY <1>1, <1>3 DEF RightsWereSeen, Visible, Working
<1>6. KeyIsHeld(r)'
  <2>1. pc[r] # "new"
    BY DEF Working
  <2> QED
    BY <2>1 DEF Own, KeyIsHeld
<1>7. Accounted(r)'
  <2>1. ruling[r].decision = "Allow"
    BY <1>2
  <2>2. \A t \in audit : ruling[r] \in Rulings /\ t = AuditRow(r, ruling[r].action, ruling[r].decision)
    BY DEF Own, Accounted
  <2> QED
    BY <1>1, <1>2, <2>1, <2>2 DEF Accounted, AuditRow
<1> QED
  BY <1>4, <1>5, <1>6, <1>7 DEF Own

LEMMA HandlerOwns ==
    ASSUME ShapesOK, NEW r \in Request, Own(r), Watch,
           Handle(r) \/ InsertSecond(r) \/ LoseReply(r) \/ Fail(r) \/ RevokeNothing(r)
    PROVE  Own(r)'
<1>1. CASE Handle(r)
  <2>1. /\ call' = call /\ principal' = principal /\ ruling' = ruling
        /\ Respond(r, 200, tasks[r]) /\ Commit(r)
    BY <1>1 DEF Handle
  <2>2. /\ pc[r] \in Working
        /\ Writes(call[r]) => committed'[r] \/ call[r].action \in MayFindNothing
    BY <2>1, CommitNotes DEF Working
  <2>3. AllowIsTrue(r)'
    <3>1. status'[r] = 200
      BY <2>1, Responds
    <3>2. Writes(call[r])' = Writes(call[r])
      BY <2>1 DEF Writes, Lists
    <3>3. ruling'[r].action = call[r].action
      BY <2>1, <2>2 DEF Own, InOrder
    <3> QED
      BY <2>1, <2>2, <3>1, <3>2, <3>3 DEF AllowIsTrue, MayFindNothing
  <2> QED
    BY <2>1, <2>2, <2>3, AnswerOwns
<1>2. CASE InsertSecond(r)
  <2>1. /\ pc[r] \in Working /\ call' = call /\ principal' = principal /\ ruling' = ruling
        /\ Respond(r, 200, tasks[r]) /\ committed'[r]
    BY <1>2 DEF InsertSecond, CommitSecond, Working, Own, InOrder
  <2>2. AllowIsTrue(r)'
    <3>1. status'[r] = 200
      BY <2>1, Responds
    <3> QED
      BY <2>1, <3>1 DEF AllowIsTrue
  <2> QED
    BY <2>1, <2>2, AnswerOwns
<1>3. CASE LoseReply(r)
  <2>1. /\ call' = call /\ principal' = principal /\ ruling' = ruling
        /\ Respond(r, 500, {}) /\ pc[r] \in Working
    BY <1>3 DEF LoseReply, Commit, CommitFirst, CommitSecond, Working
  <2>2. 500 \in {200, 404, 409, 422, 500} /\ {} \subseteq tasks[r]
    OBVIOUS
  <2> QED
    BY <2>1, <2>2, AnswerOwns
<1>4. CASE Fail(r)
  <2>1. /\ pc[r] \in Working /\ call' = call /\ principal' = principal /\ ruling' = ruling
        /\ \E code \in {409, 422, 500} : Respond(r, code, {})
    BY <1>4 DEF Fail, Working
  <2>2. PICK code \in {409, 422, 500} : Respond(r, code, {})
    BY <2>1
  <2>3. code \in {200, 404, 409, 422, 500} /\ {} \subseteq tasks[r]
    OBVIOUS
  <2> QED
    BY <2>1, <2>2, <2>3, AnswerOwns
<1>5. CASE RevokeNothing(r)
  <2>1. /\ pc[r] \in Working /\ call' = call /\ principal' = principal /\ ruling' = ruling
        /\ Respond(r, 404, tasks[r]) /\ call[r].action = "ApiKeyRevoke"
    BY <1>5 DEF RevokeNothing, Working
  <2>2. AllowIsTrue(r)'
    <3>1. status'[r] = 404
      BY <2>1, Responds
    <3>2. ruling'[r].action = "ApiKeyRevoke"
      BY <2>1 DEF Own, InOrder
    <3> QED
      BY <3>1, <3>2 DEF AllowIsTrue
  <2> QED
    BY <2>1, <2>2, AnswerOwns
<1> QED
  BY <1>1, <1>2, <1>3, <1>4, <1>5

LEMMA InsertFirstOwns ==
    ASSUME ShapesOK, NEW r \in Request, Own(r), Watch, InsertFirst(r)
    PROVE  Own(r)'
<1>1. /\ pc[r] = "handler" /\ pc'[r] = "second_insert" /\ committed'[r]
      /\ call' = call /\ principal' = principal /\ ruling' = ruling /\ status' = status
      /\ tasks' = tasks
  BY DEF InsertFirst, CommitFirst, ShapesOK
<1>2. seen[r] \subseteq seen'[r]
  BY <1>1, WatchGrows
<1>3. \A e, a : AllowedAs(r, e, a)' = AllowedAs(r, e, a)
  BY <1>1 DEF AllowedAs
<1>4. InOrder(r)'
  BY <1>1 DEF Own, InOrder, Early, Working
<1>5. RightsWereSeen(r)'
  <2>1. status'[r] = 0
    BY <1>1 DEF Own, InOrder, Working
  <2>2. \E e \in seen[r] : /\ AllowedAs(r, e, VisibilityAction(call[r].type))
                           /\ AllowedAs(r, e, call[r].action)
    BY <1>1 DEF Own, RightsWereSeen, Working
  <2> QED
    BY <1>1, <1>2, <1>3, <2>1, <2>2 DEF RightsWereSeen
<1>6. KeyIsHeld(r)'
  BY <1>1 DEF Own, KeyIsHeld
<1>7. Accounted(r)'
  BY <1>1 DEF Own, Accounted, Working
<1> QED
  BY <1>4, <1>5, <1>6, <1>7 DEF Own

LEMMA RecordOwns ==
    ASSUME ShapesOK, NEW r \in Request, Own(r), Watch, Record(r)
    PROVE  Own(r)'
<1>1. /\ pc[r] = "background" /\ call' = call /\ principal' = principal /\ ruling' = ruling
      /\ status' = status /\ tasks' = tasks /\ committed' = committed
      /\ pc'[r] \in {"done", "audit_lost"}
      /\ pc'[r] = "done" => tasks[r] \subseteq authz_audit_log'
  BY DEF Record, ShapesOK
<1>2. seen[r] \subseteq seen'[r]
  BY <1>1, WatchGrows
<1>3. \A e, a : AllowedAs(r, e, a)' = AllowedAs(r, e, a)
  BY <1>1 DEF AllowedAs
<1>4. InOrder(r)'
  BY <1>1 DEF Own, InOrder, Early, Working
<1>5. RightsWereSeen(r)'
  BY <1>1, <1>2, <1>3 DEF Own, RightsWereSeen, Visible, Working
<1>6. KeyIsHeld(r)'
  BY <1>1 DEF Own, KeyIsHeld
<1>7. Accounted(r)'
  <2>1. AllowIsTrue(r)' <=> AllowIsTrue(r)
    BY <1>1 DEF AllowIsTrue, Writes, Lists
  <2> QED
    BY <1>1, <2>1 DEF Own, Accounted, Early, Working
<1> QED
  BY <1>4, <1>5, <1>6, <1>7 DEF Own

LEMMA StepOwns ==
    ASSUME ShapesOK, ScopesAreMinted, NEW r \in Request, Own(r), Watch, Step(r)
    PROVE  Own(r)'
  BY AuthenticateOwns, ReadTeamRowsOwns, ReadOrgRowsOwns, RuleOwns, HandlerOwns, InsertFirstOwns,
     RecordOwns DEF Step

-----------------------------------------------------------------------------
(* The invariant.                                                          *)

LEMMA OwnAreKnown ==
    ASSUME \A r \in Request : Own(r)
    PROVE  CallsAreKnown
  BY DEF CallsAreKnown, Own, InOrder, Working

LEMMA InitGuard ==
    ASSUME Init
    PROVE  GuardInv /\ TypeOK
<1> USE DEF Init
<1>1. ShapesOK
  <2>1. Anonymous \in Principals
    BY DEF Anonymous, Principals
  <2>2. /\ api_keys \in [ApiKey -> KeyStates]
        /\ api_key_grants \in [ApiKey -> SUBSET KnownScopes]
        /\ rows \subseteq Team \cup Workflow
        /\ org_memberships \in [Org -> [User -> Role \cup {None}]]
        /\ team_memberships \in [Team -> [User -> Role \cup {None}]]
    BY TablesAssumption DEF KeyStates
  <2>3. /\ principal \in [Request -> Principals]
        /\ org_entity \in [Request -> [capabilities : SUBSET (Capability \X Org), orgs : SUBSET Org]]
    BY <2>1
  <2> QED
    BY <2>2, <2>3 DEF ShapesOK, Codes, Labels
<1>2. ASSUME NEW r \in Request PROVE Own(r)
  BY DEF Own, InOrder, RightsWereSeen, KeyIsHeld, Accounted, Early, Working
<1>3. LogIsOver /\ ScopesAreMinted
  BY TablesAssumption DEF LogIsOver, ScopesAreMinted
<1>4. seen \in [Request -> SUBSET Entities]
  OBVIOUS
<1> QED
  BY <1>1, <1>2, <1>3, <1>4, ShapesAndSeen DEF GuardInv

LEMMA LogStaysOver ==
    ASSUME GuardInv, NEW r \in Request, Step(r)
    PROVE  LogIsOver'
<1>1. ShapesOK /\ Own(r) /\ LogIsOver
  BY DEF GuardInv
<1>2. pc[r] # "done"
  BY DEF Step, Authenticate, ReadTeamRows, ReadOrgRows, Rule, Handle, InsertFirst, InsertSecond,
         LoseReply, Commit, CommitFirst, CommitSecond, Fail, RevokeNothing, Record
<1>3. ASSUME NEW row \in authz_audit_log
      PROVE  /\ row.request \in Request /\ pc'[row.request] = "done"
             /\ row \in tasks'[row.request]
  <2>1. row.request \in Request /\ pc[row.request] = "done" /\ row \in tasks[row.request]
    BY <1>1 DEF LogIsOver
  <2>2. row.request # r
    BY <1>2, <2>1
  <2>3. Same(row.request)
    BY <1>1, <2>1, <2>2, StepIsLocal
  <2> QED
    BY <2>1, <2>3 DEF Same
<1>4. CASE Record(r) /\ authz_audit_log' = authz_audit_log \cup tasks[r]
                     /\ pc' = [pc EXCEPT ![r] = "done"]
  <2>1. pc'[r] = "done" /\ tasks' = tasks
    BY <1>1, <1>4 DEF Record, ShapesOK
  <2>2. \A row \in tasks[r] : row.request = r
    BY <1>1 DEF Own, Accounted, AuditRow
  <2> QED
    BY <1>3, <1>4, <2>1, <2>2 DEF LogIsOver
<1>5. CASE authz_audit_log' = authz_audit_log
  BY <1>3, <1>5 DEF LogIsOver
<1> QED
  BY <1>4, <1>5 DEF Step, Authenticate, ReadTeamRows, ReadOrgRows, Rule, Handle, InsertFirst,
     InsertSecond, LoseReply, Fail, RevokeNothing, Record

LEMMA ScopesStayMinted ==
    ASSUME GuardInv, NEW r \in Request, Step(r)
    PROVE  ScopesAreMinted'
<1>1. ShapesOK /\ ScopesAreMinted
  BY DEF GuardInv
<1>2. CASE api_key_grants' = api_key_grants
  BY <1>1, <1>2 DEF ScopesAreMinted
<1>3. CASE CommitSecond(r)
  BY <1>1, <1>3 DEF CommitSecond, ScopesAreMinted, ShapesOK
<1>4. CASE Commit(r)
  <2>1. api_key_grants' = api_key_grants
    BY <1>4 DEF Commit, AddToOrg, ChangeOrgRole, RemoveFromOrg, WriteTeamRole, CreateRow, DeleteRow,
       RevokeKey, LeaveTables, tables
  <2> QED
    BY <1>2, <2>1
<1> QED
  BY <1>2, <1>3, <1>4 DEF Step, Authenticate, ReadTeamRows, ReadOrgRows, Rule, Handle, InsertFirst,
     InsertSecond, LoseReply, CommitFirst, Fail, RevokeNothing, Record, tables

LEMMA NextGuard ==
    ASSUME GuardInv, [Next]_vars
    PROVE  GuardInv'
<1>1. ShapesOK /\ (\A r \in Request : Own(r)) /\ LogIsOver /\ ScopesAreMinted
  BY DEF GuardInv
<1>2. ASSUME NEW r \in Request, Step(r), Watch
      PROVE  GuardInv'
  <2>1. ShapesOK'
    BY <1>1, <1>2, OwnAreKnown, StepTyped
  <2>2. ASSUME NEW q \in Request PROVE Own(q)'
    <3>1. CASE q = r
      BY <1>1, <1>2, <3>1, StepOwns
    <3>2. CASE q # r
      <4>1. Same(q) /\ authz_audit_log \subseteq authz_audit_log'
        BY <1>1, <1>2, <3>2, StepIsLocal
      <4>2. seen[q] \subseteq seen'[q]
        BY <1>2, <4>1, WatchGrows DEF Same
      <4> QED
        BY <1>1, <4>1, <4>2, SameKeeps
    <3> QED
      BY <3>1, <3>2
  <2>3. LogIsOver' /\ ScopesAreMinted'
    BY <1>2, LogStaysOver, ScopesStayMinted
  <2> QED
    BY <2>1, <2>2, <2>3 DEF GuardInv
<1>3. ASSUME NEW k \in ApiKey, ExpireKey(k), Watch
      PROVE  GuardInv'
  <2>1. UNCHANGED <<request, authz_audit_log, api_key_grants>>
    BY <1>3 DEF ExpireKey
  <2>2. ShapesOK'
    BY <1>1, <1>3 DEF ShapesOK, ExpireKey, request, KeyStates
  <2>3. ASSUME NEW q \in Request PROVE Own(q)'
    <3>1. Same(q)
      BY <2>1 DEF request, Same
    <3>2. seen[q] \subseteq seen'[q]
      BY <1>3, <3>1, WatchGrows DEF Same
    <3> QED
      BY <1>1, <2>1, <3>1, <3>2, SameKeeps
  <2>4. LogIsOver' /\ ScopesAreMinted'
    BY <1>1, <2>1 DEF LogIsOver, ScopesAreMinted, request
  <2> QED
    BY <2>2, <2>3, <2>4 DEF GuardInv
<1>4. CASE UNCHANGED vars
  <2>1. UNCHANGED <<request, tables, authz_audit_log, seen>>
    BY <1>4 DEF vars
  <2>2. ShapesOK'
    BY <1>1, <2>1 DEF ShapesOK, request, tables
  <2>3. ASSUME NEW q \in Request PROVE Own(q)'
    <3>1. Same(q)
      BY <2>1 DEF request, Same
    <3> QED
      BY <1>1, <2>1, <3>1, SameKeeps
  <2>4. LogIsOver' /\ ScopesAreMinted'
    BY <1>1, <2>1 DEF LogIsOver, ScopesAreMinted, request, tables
  <2> QED
    BY <2>2, <2>3, <2>4 DEF GuardInv
<1> QED
  BY <1>2, <1>3, <1>4 DEF Next

-----------------------------------------------------------------------------
(* Theorems.                                                               *)

\* What the proofs rest on holds of every behaviour: each request has read and
\* been ruled on as require() orders it, whatever the others commit in between.
THEOREM GuardInvariant == Spec => []GuardInv
<1>1. Init => GuardInv
  BY InitGuard
<1>2. GuardInv /\ [Next]_vars => GuardInv'
  BY NextGuard
<1> QED
  BY <1>1, <1>2, PTL DEF Spec

\* The tables and what each request keeps have the shapes the code gives them.
THEOREM GuardTypeCorrect == Spec => []TypeOK
<1>1. Init => TypeOK
  BY InitGuard
<1>2. GuardInv /\ GuardInv' /\ TypeOK /\ [Next]_vars => TypeOK'
  <2> SUFFICES ASSUME GuardInv', TypeOK, [Next]_vars PROVE TypeOK'
    OBVIOUS
  <2>1. ShapesOK'
    BY DEF GuardInv
  <2>2. seen \in [Request -> SUBSET Entities]
    BY ShapesAndSeen
  <2>3. seen' \in [Request -> SUBSET Entities]
    BY <2>2, WatchTyped DEF Next, vars
  <2> QED
    BY <2>1, <2>3 DEF TypeOK, ShapesOK, Codes
<1> QED
  BY <1>1, <1>2, GuardInvariant, PTL DEF Spec

\* "A permission change takes effect on the very next request": a handler runs only
\* on rights that were all held at one moment since the request began, though the
\* slice is read in two queries and other requests commit between them.
THEOREM HandlersRunOnRightsOfOneMoment == Spec => []AllowedAtOneMoment
<1>1. GuardInv => AllowedAtOneMoment
  BY DEF GuardInv, Own, RightsWereSeen, Working, AllowedAtOneMoment
<1> QED
  BY <1>1, GuardInvariant, PTL

\* Every status that confirms a resource, the refusals of the functions and of the
\* body included, is given to a caller who could see it since his request began.
THEOREM NothingInvisibleIsDisclosed == Spec => []OnlyVisibleIsDisclosed
<1>1. GuardInv => OnlyVisibleIsDisclosed
  BY DEF GuardInv, Own, RightsWereSeen, Visible, OnlyVisibleIsDisclosed
<1> QED
  BY <1>1, GuardInvariant, PTL

\* On the routes that are guarded a key reaches only handlers that read or run, in its
\* own org, within the scopes it was minted with, and only if it may read.  The lists
\* of a person's own and the public route are no such routes.
THEOREM KeysAreConfined == Spec => []KeysStayConfined
<1>1. ASSUME GuardInv, NEW r \in Request, pc[r] \in Working, principal[r].auth_method = "api_key"
      PROVE  /\ call[r].action \in ReadActions \cup RunActions
             /\ ResourceOf(call[r]).org = KeyOrg[call[r].key]
             /\ {"workflow:read", ActionScope(call[r].action)} \subseteq KeyScopes[call[r].key]
  <2> DEFINE a == call[r].action
             res == ResourceOf(call[r])
             p == principal[r]
             v == VisibilityAction(call[r].type)
  <2>1. Own(r) /\ call[r] \in Call /\ a \in Action
    BY <1>1, CallFacts DEF GuardInv, Own, InOrder, Working
  <2>2. PICK e \in seen[r] : AllowedAs(r, e, v) /\ AllowedAs(r, e, a)
    BY <1>1, <2>1 DEF Own, RightsWereSeen
  <2>3. ~ForbidsKey(a, res, BuildContext(p)) /\ ~ForbidsKey(v, res, BuildContext(p))
    BY <2>2, RulingAllows DEF AllowedAs
  <2>4. /\ p.api_key_scopes \subseteq KeyScopes[call[r].key]
        /\ p.api_key_org_id = KeyOrg[call[r].key] /\ call[r].key \in ApiKey
    BY <1>1, <2>1 DEF Own, KeyIsHeld, Working
  <2>5. v \in ReadActions /\ ActionScope(v) = "workflow:read"
    <3>1. v \in ReadActions
      BY <2>1, GuardedFacts
    <3> HIDE DEF v
    <3>2. v \notin WriteActions /\ v \notin RunActions /\ v \notin GovernanceActions
      BY <3>1 DEF WriteActions, ReadActions, RunActions, GovernanceActions
    <3> QED
      BY <3>1, <3>2 DEF ActionScope
  <2> HIDE DEF a, res, p, v
  <2>6. /\ a \notin GovernanceActions /\ res.org = p.api_key_org_id
        /\ ActionScope(a) \in p.api_key_scopes /\ "workflow:read" \in p.api_key_scopes
    BY <1>1, <2>3, <2>5 DEF ForbidsKey, BuildContext, p
  <2>7. ActionScope(a) \in KnownScopes
    <3>1. KeyScopes[call[r].key] \subseteq KnownScopes
      BY <2>4, TablesAssumption
    <3> QED
      BY <2>4, <2>6, <3>1
  <2>8. a \in ReadActions \cup RunActions
    <3>1. a \in GovernanceActions \cup ReadActions \cup RunActions \cup WriteActions
      BY <2>1 DEF Action
    <3>2. ASSUME a \in WriteActions PROVE ActionScope(a) = "workflow:write"
      <4>1. a \notin ReadActions /\ a \notin RunActions /\ a \notin GovernanceActions
        BY <3>2 DEF WriteActions, ReadActions, RunActions, GovernanceActions
      <4> QED
        BY <3>2, <4>1 DEF ActionScope
    <3> QED
      BY <2>6, <2>7, <3>1, <3>2 DEF KnownScopes
  <2> QED
    BY <2>4, <2>6, <2>8 DEF a, res
<1>2. GuardInv => KeysStayConfined
  BY <1>1 DEF KeysStayConfined, Working
<1> QED
  BY <1>2, GuardInvariant, PTL

\* No guarded route asks the engine a question its policies cannot answer.
THEOREM GuardsNeverError == Spec => []RoutesNeverError
<1>1. GuardInv => RoutesNeverError
  BY DEF GuardInv, Own, Accounted, RoutesNeverError
<1> QED
  BY <1>1, GuardInvariant, PTL

\* The denial a guarded request was given is in the log when the request is over,
\* unless the write of its row failed.
THEOREM DenialsReachTheLog == Spec => []DenialsAreRecorded
<1>1. GuardInv => DenialsAreRecorded
  BY DEF GuardInv, Own, Accounted, DenialsAreRecorded
<1> QED
  BY <1>1, GuardInvariant, PTL

-----------------------------------------------------------------------------
(* What handlers change, and whose.                                        *)

TwoInserts == {"ApiKeyCreate", "RoleCreate"}

\* Nothing is changed before the handler; a handler that may change something has
\* its row queued; what is over and has changed something carries that row or is a
\* 500; the key being minted is of the org that was asked.
Answers(r) ==
    /\ pc[r] \in Early \cup {"handler"} => ~committed[r]
    /\ pc[r] \in Working /\ Writes(call[r]) => AuditRow(r, call[r].action, "Allow") \in tasks[r]
    /\ pc[r] = "second_insert" =>
          /\ call[r].action \in TwoInserts /\ Writes(call[r])
          /\ call[r].action = "ApiKeyCreate" =>
                call[r].subject \in ApiKey /\ KeyOrg[call[r].subject] = call[r].entity
    /\ pc[r] \notin Early \cup Working /\ committed[r] =>
          \/ status[r] = 200 /\ AuditRow(r, call[r].action, "Allow") \in tasks[r]
          \/ status[r] = 500

LEMMA WritesAreRecorded == ASSUME NEW c, Writes(c) PROVE ShouldRecord(c.action, "Allow")
BY DEF Writes, ShouldRecord, ReadActions

LEMMA InsertFirstAnswers ==
    ASSUME ShapesOK, NEW r \in Request, Own(r), Answers(r), InsertFirst(r)
    PROVE  Answers(r)'
<1> DEFINE c == call[r]
<1>1. /\ pc[r] = "handler" /\ pc'[r] = "second_insert" /\ committed'[r]
      /\ call' = call /\ tasks' = tasks /\ c \in Call /\ c.route = "guarded"
  BY DEF InsertFirst, CommitFirst, ShapesOK, Own, InOrder, Working
<1>2. \/ /\ c.action = "ApiKeyCreate" /\ ~Lists(c) /\ KeyOrg[c.subject] = c.entity
      \/ c.action = "RoleCreate"
  BY DEF InsertFirst, CommitFirst
<1>3. c.action \in TwoInserts /\ Writes(c)
  BY <1>2 DEF TwoInserts, Writes, Lists, ReadActions
<1>4. c.action = "ApiKeyCreate" => c.subject \in ApiKey /\ KeyOrg[c.subject] = c.entity
  BY <1>1, <1>2, HandlerFacts DEF Lists
<1>5. AuditRow(r, c.action, "Allow") \in tasks[r]
  BY <1>1, <1>3 DEF Answers, Working
<1> HIDE DEF c
<1>6. call'[r] = c /\ Writes(c)' /\ AuditRow(r, c.action, "Allow") \in tasks'[r]
  BY <1>1, <1>3, <1>5 DEF c, Writes, Lists, AuditRow
<1> QED
  BY <1>1, <1>3, <1>4, <1>6 DEF Answers, Early, Working, Writes, Lists

LEMMA HandlerAnswers ==
    ASSUME ShapesOK, NEW r \in Request, Own(r), Answers(r),
           Handle(r) \/ InsertSecond(r) \/ LoseReply(r) \/ Fail(r) \/ RevokeNothing(r)
    PROVE  Answers(r)'
<1>1. CASE Handle(r)
  <2>1. pc[r] = "handler" /\ call' = call /\ Respond(r, 200, tasks[r])
    BY <1>1 DEF Handle, Commit
  <2>2. committed'[r] => Writes(call[r])
    <3>1. PICK found \in {FindsRow(call[r]), FindsRow(call[r]) /\ call[r].action # "WorkflowExport"} :
                committed' = [committed EXCEPT ![r] = Writes(call[r]) /\ found]
      BY <1>1 DEF Handle, Commit
    <3> QED
      BY <3>1 DEF ShapesOK
  <2>3. status'[r] = 200 /\ tasks'[r] = tasks[r] /\ pc'[r] \in {"done", "background"}
    BY <2>1, Responds
  <2> QED
    BY <2>1, <2>2, <2>3 DEF Answers, Early, Working
<1>2. CASE InsertSecond(r)
  <2>1. pc[r] = "second_insert" /\ call' = call /\ Respond(r, 200, tasks[r])
    BY <1>2 DEF InsertSecond, CommitSecond
  <2>2. status'[r] = 200 /\ tasks'[r] = tasks[r] /\ pc'[r] \in {"done", "background"}
    BY <2>1, Responds
  <2> QED
    BY <2>1, <2>2 DEF Answers, Early, Working
<1>3. CASE LoseReply(r)
  <2>1. Respond(r, 500, {})
    BY <1>3 DEF LoseReply
  <2>2. status'[r] = 500 /\ pc'[r] \in {"done", "background"}
    BY <2>1, Responds
  <2> QED
    BY <2>2 DEF Answers, Early, Working
<1>4. CASE Fail(r)
  <2>1. call' = call /\ committed' = committed
        /\ \/ pc[r] = "handler" /\ \E code \in {409, 422, 500} : Respond(r, code, {})
           \/ pc[r] = "second_insert" /\ Respond(r, 500, {})
    BY <1>4 DEF Fail
  <2>2. /\ pc[r] \in Working /\ pc'[r] = "done"
        /\ pc[r] = "second_insert" => status'[r] = 500
    BY <2>1, Responds DEF Working
  <2> QED
    BY <2>1, <2>2 DEF Answers, Early, Working
<1>5. CASE RevokeNothing(r)
  <2>1. pc[r] = "handler" /\ call' = call /\ committed' = committed /\ Respond(r, 404, tasks[r])
    BY <1>5 DEF RevokeNothing
  <2>2. pc'[r] \in {"done", "background"}
    BY <2>1, Responds
  <2> QED
    BY <2>1, <2>2 DEF Answers, Early, Working
<1> QED
  BY <1>1, <1>2, <1>3, <1>4, <1>5

LEMMA StepAnswers ==
    ASSUME ShapesOK, NEW r \in Request, Own(r), Answers(r), Step(r)
    PROVE  Answers(r)'
<1>1. CASE Authenticate(r) \/ ReadTeamRows(r) \/ ReadOrgRows(r)
  <2>1. pc[r] \in Early /\ committed' = committed /\ pc'[r] \in {"team_rows", "org_rows", "resource", "done"}
    <3>1. CASE Authenticate(r)
      <4>1. pc'[r] \in {"team_rows", "done"}
        BY <3>1, Responds DEF Authenticate, ShapesOK
      <4> QED
        BY <3>1, <4>1 DEF Authenticate, Early
    <3> QED
      BY <1>1, <3>1 DEF ReadTeamRows, ReadOrgRows, ShapesOK, Early
  <2> QED
    BY <2>1 DEF Answers, Early, Working
<1>2. CASE Rule(r)
  <2>1. pc[r] = "resource" /\ call' = call /\ committed' = committed /\ ~committed[r]
    BY <1>2 DEF Rule, Answers, Early
  <2>2. \/ pc'[r] \in {"done", "background"}
        \/ EndsAllowed(r)
    BY <1>2, RuleEnds DEF EndsHidden, EndsRefused, EndsExplained, IsOver
  <2>3. CASE pc'[r] \in {"done", "background"}
    BY <2>1, <2>3 DEF Answers, Early, Working
  <2>4. CASE EndsAllowed(r)
    <3>1. Writes(call[r]) => AuditRow(r, call[r].action, "Allow") \in tasks'[r]
      BY <2>4, WritesAreRecorded DEF EndsAllowed
    <3>2. pc'[r] = "handler"
      BY <2>4 DEF EndsAllowed
    <3> QED
      BY <2>1, <3>1, <3>2 DEF Answers, Early, Working, Writes, Lists, AuditRow
  <2> QED
    BY <2>2, <2>3, <2>4
<1>3. CASE InsertFirst(r)
  BY <1>3, InsertFirstAnswers
<1>4. CASE Handle(r) \/ InsertSecond(r) \/ LoseReply(r) \/ Fail(r) \/ RevokeNothing(r)
  BY <1>4, HandlerAnswers
<1>5. CASE Record(r)
  <2>1. /\ pc[r] = "background" /\ pc'[r] \in {"done", "audit_lost"}
        /\ UNCHANGED <<call, status, tasks, committed>>
    BY <1>5 DEF Record, ShapesOK
  <2> QED
    BY <2>1 DEF Answers, Early, Working
<1> QED
  BY <1>1, <1>2, <1>3, <1>4, <1>5 DEF Step

LEMMA SameAnswers ==
    ASSUME NEW q \in Request, Same(q), Answers(q)
    PROVE  Answers(q)'
BY DEF Same, Answers, Writes, Lists, AuditRow

LEMMA NextAnswers ==
    ASSUME GuardInv, \A q \in Request : Answers(q), [Next]_vars, NEW q \in Request
    PROVE  Answers(q)'
<1>1. ASSUME NEW r \in Request, Step(r) PROVE Answers(q)'
  <2>1. CASE q = r
    BY <1>1, <2>1, StepAnswers DEF GuardInv
  <2>2. CASE q # r
    BY <1>1, <2>2, StepIsLocal, SameAnswers DEF GuardInv
  <2> QED
    BY <2>1, <2>2
<1>2. CASE (\E k \in ApiKey : ExpireKey(k)) \/ UNCHANGED vars
  <2>1. Same(q)
    BY <1>2 DEF ExpireKey, vars, request, Same
  <2> QED
    BY <2>1, SameAnswers
<1> QED
  BY <1>1, <1>2 DEF Next

LEMMA AnswersHold == Spec => [](GuardInv /\ \A q \in Request : Answers(q))
<1>1. Init => \A q \in Request : Answers(q)
  BY DEF Init, Answers, Early, Working
<1>2. GuardInv /\ (\A q \in Request : Answers(q)) /\ [Next]_vars => (\A q \in Request : Answers(q))'
  BY NextAnswers
<1> QED
  BY <1>1, <1>2, GuardInvariant, PTL DEF Spec

\* A change that is answered with success is in the log once its request is over; the
\* only ones that may be missing, no audit write having failed, were answered with a
\* 500, their reply lost or their second insert failed.
THEOREM AnsweredChangesReachTheLog == Spec => []AnsweredChangesAreRecorded
<1>1. GuardInv /\ (\A q \in Request : Answers(q)) => AnsweredChangesAreRecorded
  BY DEF GuardInv, Own, Accounted, Answers, Early, Working, AnsweredChangesAreRecorded
<1> QED
  BY <1>1, AnswersHold, PTL

\* A row of the log is the ruling of its request.  What an allowing row lets happen was
\* answered with success and, if it adds, mints or revokes, has happened; a change or
\* a removal has, or found nothing to do; a revocation of no key is a 404 and changed
\* nothing.
THEOREM LogTellsTheTruth == Spec => []LogIsTrue
<1>1. ASSUME GuardInv, \A q \in Request : Answers(q), NEW row \in authz_audit_log
      PROVE  /\ [action |-> row.action, decision |-> row.decision] = ruling[row.request]
             /\ row.decision = "Allow" =>
                   \/ /\ status[row.request] = 200
                      /\ Writes(call[row.request]) =>
                            committed[row.request] \/ row.action \in MayFindNothing
                   \/ /\ status[row.request] = 404 /\ row.action = "ApiKeyRevoke"
                      /\ ~committed[row.request]
  <2> DEFINE r == row.request
  <2>1. /\ r \in Request /\ pc[r] = "done" /\ row \in tasks[r]
    BY <1>1 DEF GuardInv, LogIsOver
  <2>2. Accounted(r) /\ Answers(r)
    BY <1>1, <2>1 DEF GuardInv, Own
  <2>3. ruling[r] \in Rulings /\ row = AuditRow(r, ruling[r].action, ruling[r].decision)
    BY <2>1, <2>2 DEF Accounted
  <2>4. row.action = ruling[r].action /\ row.decision = ruling[r].decision
    BY <2>3 DEF AuditRow
  <2>5. [action |-> row.action, decision |-> row.decision] = ruling[r]
    BY <2>3, <2>4 DEF Rulings
  <2>6. row.decision = "Allow" => AllowIsTrue(r)
    BY <2>1, <2>2, <2>4 DEF Accounted, Early, Working
  <2>7. status[r] = 404 => ~committed[r]
    BY <2>1, <2>2 DEF Answers, Early, Working
  <2> QED
    BY <2>4, <2>5, <2>6, <2>7 DEF AllowIsTrue
<1>2. GuardInv /\ (\A q \in Request : Answers(q)) => LogIsTrue
  BY <1>1 DEF LogIsTrue
<1> QED
  BY <1>2, AnswersHold, PTL

-----------------------------------------------------------------------------
(* What an org holds.                                                      *)

\* Where the resource of a route that writes is, and what it works on.
LEMMA HomeFacts ==
    ASSUME NEW c \in Call, c.route = "guarded"
    PROVE  /\ c.action \in {"OrgAddUser", "OrgChangeRole", "OrgRemoveUser", "TeamCreate",
                            "ApiKeyCreate", "ApiKeyRevoke"} =>
                 c.entity \in Org /\ ResourceOf(c).org = c.entity
           /\ c.action \in {"TeamAddMember", "TeamChangeRole", "TeamRemoveMember", "TeamDelete",
                            "WorkflowCreate"} =>
                 c.entity \in Team /\ ResourceOf(c).org = OrgOf(c.entity)
           /\ c.action = "WorkflowDelete" => c.entity \in Workflow /\ ResourceOf(c).org = OrgOf(c.entity)
           /\ c.action = "TeamCreate" => c.subject \in Team /\ OrgOf(c.subject) = c.entity
           /\ c.action = "WorkflowCreate" => c.subject \in Workflow /\ OrgOf(c.subject) = OrgOf(c.entity)
<1>1. c.type \in {"Workflow", "Team", "Organization"} /\ c.action \in GuardedActions(c.type)
  BY CallFacts, CallAssumption DEF ResourceType
<1>2. c.entity \in CASE c.type = "Workflow" -> Workflow
                     [] c.type = "Team" -> Team
                     [] c.type = "Organization" -> Org
  BY CallAssumption
<1>3. Team \cap Workflow = {}
  BY TablesAssumption
<1>4. CASE c.type = "Organization"
  <2>1. /\ c.action \in {"OrgView", "OrgAddUser", "OrgRemoveUser", "OrgChangeRole", "TeamCreate",
                         "RoleCreate", "ApiKeyCreate", "ApiKeyRevoke"}
        /\ c.entity \in Org /\ ResourceOf(c).org = c.entity
    BY <1>1, <1>2, <1>4 DEF GuardedActions, ResourceOf
  <2>2. c.action = "TeamCreate" => c.subject \in Team /\ TeamOrg[c.subject] = c.entity
    BY CallAssumption
  <2> QED
    BY <2>1, <2>2 DEF OrgOf
<1>5. CASE c.type = "Team"
  <2>1. /\ c.action \in {"TeamDelete", "TeamAddMember", "TeamRemoveMember", "TeamChangeRole",
                         "WorkflowCreate"}
        /\ c.entity \in Team /\ ResourceOf(c).org = TeamOrg[c.entity]
    BY <1>1, <1>2, <1>5 DEF GuardedActions, ResourceOf
  <2>2. c.action = "WorkflowCreate" => c.subject \in Workflow /\ WorkflowTeam[c.subject] = c.entity
    BY CallAssumption
  <2> QED
    BY <1>3, <2>1, <2>2 DEF OrgOf
<1>6. CASE c.type = "Workflow"
  <2>1. /\ c.action \in {"WorkflowView", "WorkflowRun", "WorkflowUpdate", "WorkflowDelete",
                         "WorkflowExport", "WorkflowProtectExport"}
        /\ c.entity \in Workflow /\ ResourceOf(c).org = TeamOrg[WorkflowTeam[c.entity]]
    BY <1>1, <1>2, <1>6 DEF GuardedActions, ResourceOf
  <2> QED
    BY <1>3, <2>1 DEF OrgOf
<1> QED
  BY <1>1, <1>4, <1>5, <1>6

\* What an org holds is the same if each part of it is.
LEMMA HeldSame ==
    ASSUME ShapesOK, ShapesOK', NEW o \in Org,
           org_memberships'[o] = org_memberships[o],
           \A t \in Team : TeamOrg[t] = o => team_memberships'[t] = team_memberships[t],
           \A e \in Team \cup Workflow : OrgOf(e) = o => (e \in rows' <=> e \in rows),
           \A k \in ApiKey : KeyOrg[k] = o =>
                api_keys'[k] = api_keys[k] /\ api_key_grants'[k] = api_key_grants[k]
    PROVE  HeldBy(o)' = HeldBy(o)
<1>1. [t \in {t \in Team : TeamOrg[t] = o} |-> team_memberships'[t]]
        = [t \in {t \in Team : TeamOrg[t] = o} |-> team_memberships[t]]
  OBVIOUS
<1>2. {e \in rows' : OrgOf(e) = o} = {e \in rows : OrgOf(e) = o}
  BY DEF ShapesOK
<1>3. [k \in {k \in ApiKey : KeyOrg[k] = o} |-> <<api_keys'[k], api_key_grants'[k]>>]
        = [k \in {k \in ApiKey : KeyOrg[k] = o} |-> <<api_keys[k], api_key_grants[k]>>]
  OBVIOUS
<1>4. HeldBy(o)' = [members |-> org_memberships'[o],
                    seats |-> [t \in {t \in Team : TeamOrg[t] = o} |-> team_memberships'[t]],
                    rows |-> {e \in rows' : OrgOf(e) = o},
                    keys |-> [k \in {k \in ApiKey : KeyOrg[k] = o} |->
                                <<api_keys'[k], api_key_grants'[k]>>]]
  BY DEF HeldBy, OrgOf
<1> QED
  BY <1>1, <1>2, <1>3, <1>4 DEF HeldBy

LEMMA TablesSame ==
    ASSUME ShapesOK, ShapesOK', NEW o \in Org, UNCHANGED tables
    PROVE  HeldBy(o)' = HeldBy(o)
BY HeldSame DEF tables

\* A handler that commits one statement touches the org of its resource alone: the
\* team an org enrols its members in, the seats of a removed member and what a
\* deleted team takes with it are of that org.
LEMMA HandlerStaysHome ==
    ASSUME ShapesOK, ShapesOK', NEW r \in Request, NEW c \in Call, c.route = "guarded",
           NEW o \in Org, ResourceOf(c).org # o,
           \/ AddToOrg(c) \/ ChangeOrgRole(c) \/ RemoveFromOrg(c) \/ WriteTeamRole(c)
           \/ CreateRow(r, c) \/ DeleteRow(c) \/ RevokeKey(c) \/ LeaveTables(c)
    PROVE  HeldBy(o)' = HeldBy(o)
<1> DEFINE Members == org_memberships'[o] = org_memberships[o]
           Seats == \A t \in Team : TeamOrg[t] = o => team_memberships'[t] = team_memberships[t]
           Rows == \A e \in Team \cup Workflow : OrgOf(e) = o => (e \in rows' <=> e \in rows)
           Keys == \A k \in ApiKey : KeyOrg[k] = o =>
                        api_keys'[k] = api_keys[k] /\ api_key_grants'[k] = api_key_grants[k]
<1>1. SUFFICES Members /\ Seats /\ Rows /\ Keys
  BY HeldSame
<1>2. Team \cap Workflow = {} /\ WorkflowTeam \in [Workflow -> Team]
  BY TablesAssumption
<1>3. CASE AddToOrg(c)
  <2>1. c.entity \in Org /\ c.entity # o /\ c.subject \in User
    BY <1>3, HomeFacts, HandlerFacts DEF AddToOrg
  <2>2. DefaultTeam[c.entity] \in Team /\ TeamOrg[DefaultTeam[c.entity]] = c.entity
    BY <2>1, TablesAssumption
  <2>3. Members /\ Seats
    BY <1>3, <2>1, <2>2 DEF AddToOrg, ShapesOK
  <2> QED
    BY <1>3, <2>3 DEF AddToOrg
<1>4. CASE ChangeOrgRole(c)
  <2>1. c.entity \in Org /\ c.entity # o
    BY <1>4, HomeFacts DEF ChangeOrgRole
  <2> QED
    BY <1>4, <2>1 DEF ChangeOrgRole, ShapesOK
<1>5. CASE RemoveFromOrg(c)
  <2>1. c.entity \in Org /\ c.entity # o
    BY <1>5, HomeFacts DEF RemoveFromOrg
  <2> QED
    BY <1>5, <2>1 DEF RemoveFromOrg, ShapesOK
<1>6. CASE WriteTeamRole(c)
  <2>1. c.entity \in Team /\ TeamOrg[c.entity] # o
    BY <1>6, HomeFacts DEF WriteTeamRole, OrgOf
  <2> QED
    BY <1>6, <2>1 DEF WriteTeamRole, ShapesOK
<1>7. CASE CreateRow(r, c)
  <2>1. OrgOf(c.subject) # o /\ (c.action = "TeamCreate" => TeamOrg[c.subject] # o)
    BY <1>7, HomeFacts DEF CreateRow, OrgOf
  <2> QED
    BY <1>7, <2>1 DEF CreateRow, ShapesOK
<1>8. CASE DeleteRow(c)
  <2>1. c.entity \in Team \cup Workflow /\ OrgOf(c.entity) # o
    BY <1>8, HomeFacts DEF DeleteRow
  <2>2. Seats
    BY <1>2, <1>8, <2>1 DEF DeleteRow, OrgOf
  <2>3. ASSUME NEW e \in Workflow, OrgOf(e) = o PROVE WorkflowTeam[e] # c.entity
    BY <1>2, <2>1, <2>3 DEF OrgOf
  <2>4. Rows
    BY <1>8, <2>1, <2>3 DEF DeleteRow
  <2> QED
    BY <1>8, <2>2, <2>4 DEF DeleteRow
<1>9. CASE RevokeKey(c)
  <2>1. c.entity \in Org /\ c.entity # o /\ KeyOrg[c.subject] # o
    BY <1>9, HomeFacts DEF RevokeKey
  <2> QED
    BY <1>9, <2>1 DEF RevokeKey, ShapesOK
<1>10. CASE LeaveTables(c)
  BY <1>10 DEF LeaveTables, tables
<1> QED
  BY <1>3, <1>4, <1>5, <1>6, <1>7, <1>8, <1>9, <1>10

\* So do the two inserts of a key.
LEMMA InsertsStayHome ==
    ASSUME ShapesOK, ShapesOK', NEW r \in Request, Own(r), Answers(r),
           CommitFirst(r) \/ CommitSecond(r), NEW o \in Org, ResourceOf(call[r]).org # o
    PROVE  HeldBy(o)' = HeldBy(o)
<1> DEFINE c == call[r]
<1>1. c \in Call /\ c.route = "guarded"
  BY DEF Own, InOrder, CommitFirst, CommitSecond, Working
<1>2. c.action = "ApiKeyCreate" => c.entity # o
  BY <1>1, HomeFacts
<1>3. CASE CommitFirst(r)
  <2>1. UNCHANGED <<org_memberships, team_memberships, rows, api_key_grants>>
    BY <1>3 DEF CommitFirst
  <2>2. \/ KeyOrg[c.subject] # o /\ api_keys' = [api_keys EXCEPT ![c.subject] = "live"]
        \/ api_keys' = api_keys
    BY <1>2, <1>3 DEF CommitFirst
  <2> HIDE DEF c
  <2>3. \A k \in ApiKey : KeyOrg[k] = o => api_keys'[k] = api_keys[k]
    BY <2>2 DEF ShapesOK
  <2> QED
    BY <2>1, <2>3, HeldSame
<1>4. CASE CommitSecond(r)
  <2>1. UNCHANGED <<org_memberships, team_memberships, rows, api_keys>>
    BY <1>4 DEF CommitSecond
  <2>2. \/ /\ KeyOrg[c.subject] # o
           /\ api_key_grants' = [api_key_grants EXCEPT ![c.subject] = KeyScopes[c.subject]]
        \/ api_key_grants' = api_key_grants
    BY <1>2, <1>4 DEF CommitSecond, Answers
  <2> HIDE DEF c
  <2>3. \A k \in ApiKey : KeyOrg[k] = o => api_key_grants'[k] = api_key_grants[k]
    BY <2>2 DEF ShapesOK
  <2> QED
    BY <2>1, <2>3, HeldSame
<1> QED
  BY <1>3, <1>4

\* A step of a request that changes what an org holds acts on that org.
LEMMA StepActs ==
    ASSUME GuardInv, ShapesOK', NEW r \in Request, Answers(r), Step(r),
           NEW o \in Org, HeldBy(o)' # HeldBy(o)
    PROVE  ActsOn(r, o)
<1>1. ShapesOK /\ Own(r)
  BY DEF GuardInv
<1>2. ~UNCHANGED tables
  BY <1>1, TablesSame
<1>3. Commits(r) /\ (InsertFirst(r) \/ \E code, audit : Respond(r, code, audit))
  BY <1>2 DEF Step, Authenticate, ReadTeamRows, ReadOrgRows, Rule, Fail, RevokeNothing, Record,
     Handle, InsertFirst, InsertSecond, LoseReply, Commits
<1>4. pc[r] \in Working /\ call[r] \in Call /\ call[r].route = "guarded"
  BY <1>1, <1>3 DEF Commits, Commit, CommitFirst, CommitSecond, Own, InOrder, Working
<1>5. pc'[r] # pc[r]
  <2>1. CASE \E code, audit : Respond(r, code, audit)
    <3>1. pc'[r] \in {"done", "background"}
      BY <1>1, <2>1, Responds
    <3> QED
      BY <1>4, <3>1 DEF Working
  <2>2. CASE InsertFirst(r)
    BY <1>1, <2>2 DEF InsertFirst, CommitFirst, ShapesOK
  <2> QED
    BY <1>3, <2>1, <2>2
<1>6. ResourceOf(call[r]).org = o
  <2>1. CASE Commit(r)
    <3> DEFINE c == call[r]
    <3>1. \/ AddToOrg(c) \/ ChangeOrgRole(c) \/ RemoveFromOrg(c) \/ WriteTeamRole(c)
          \/ CreateRow(r, c) \/ DeleteRow(c) \/ RevokeKey(c) \/ LeaveTables(c)
      BY <2>1 DEF Commit
    <3>2. c \in Call /\ c.route = "guarded"
      BY <1>4
    <3> HIDE DEF c
    <3>3. ResourceOf(c).org = o
      BY <1>1, <3>1, <3>2, HandlerStaysHome
    <3> QED
      BY <3>3 DEF c
  <2>2. CASE CommitFirst(r) \/ CommitSecond(r)
    BY <1>1, <2>2, InsertsStayHome
  <2> QED
    BY <1>3, <2>1, <2>2 DEF Commits
<1>7. \E entity \in seen[r] : AllowedAs(r, entity, call[r].action)
  BY <1>1, <1>4 DEF Own, RightsWereSeen
<1> QED
  BY <1>4, <1>5, <1>6, <1>7 DEF ActsOn, Working

LEMMA NextIsApart ==
    ASSUME GuardInv, GuardInv', \A q \in Request : Answers(q), [Next]_vars, NEW o \in Org
    PROVE  ApartFrom(o)
<1> SUFFICES ASSUME HeldBy(o)' # HeldBy(o)
             PROVE  \/ \E k \in ApiKey : KeyOrg[k] = o /\ Expires(k)
                    \/ \E r \in Request : ActsOn(r, o)
  BY DEF ApartFrom
<1>1. ShapesOK /\ ShapesOK'
  BY DEF GuardInv
<1>2. ASSUME NEW r \in Request, Step(r) PROVE ActsOn(r, o)
  BY <1>1, <1>2, StepActs
<1>3. ASSUME NEW k \in ApiKey, ExpireKey(k) PROVE KeyOrg[k] = o /\ Expires(k)
  <2>1. /\ UNCHANGED <<org_memberships, team_memberships, rows, api_key_grants>>
        /\ api_keys[k] = "live" /\ api_keys' = [api_keys EXCEPT ![k] = "expired"]
    BY <1>3 DEF ExpireKey
  <2>2. Expires(k) /\ \A j \in ApiKey \ {k} : api_keys'[j] = api_keys[j]
    BY <1>1, <2>1 DEF Expires, ShapesOK
  <2>3. ASSUME KeyOrg[k] # o PROVE FALSE
    BY <1>1, <2>1, <2>2, <2>3, HeldSame
  <2> QED
    BY <2>2, <2>3
<1>4. CASE UNCHANGED vars
  BY <1>1, <1>4, TablesSame DEF vars
<1> QED
  BY <1>2, <1>3, <1>4 DEF Next

\* "The update must not touch a key" of "a different org": no request changes what an
\* org has, its members, seats, teams, workflows and keys, but one on a resource of
\* that org whose caller was allowed it at a moment since he asked.
THEOREM TenantsStayApart == Spec => TenantsAreApart
<1> DEFINE Inv == GuardInv /\ \A q \in Request : Answers(q)
<1>1. Inv /\ Inv' /\ [Next]_vars => [\A o \in Org : ApartFrom(o)]_vars
  BY NextIsApart
<1>2. Spec => []Inv
  BY AnswersHold
<1> HIDE DEF Inv
<1> QED
  BY <1>1, <1>2, PTL DEF Spec, TenantsAreApart

=============================================================================
