------------------------ MODULE PolicyEngineProofs ------------------------
(***************************************************************************)
(* What the policies promise together, for every principal, action,         *)
(* resource and context: which rights count, whose, and that neither a key  *)
(* nor a grant elsewhere ever adds one.                                    *)
(***************************************************************************)
EXTENDS DecisionMatrix, TLAPS

\* Whatever p holds, q holds.
HoldsLess(p, q) == p.capabilities \subseteq q.capabilities /\ p.orgs \subseteq q.orgs

\* p and q hold the same at the resource: at its holder, and in its org.
SameAt(p, q, resource) ==
    /\ \A c \in Capability : <<c, resource.holder>> \in p.capabilities
                                 <=> <<c, resource.holder>> \in q.capabilities
    /\ <<"manage_org", resource.org>> \in p.capabilities
           <=> <<"manage_org", resource.org>> \in q.capabilities
    /\ resource.org \in p.orgs <=> resource.org \in q.orgs

\* p holds nothing at the resource and is no member of its org.
Stranger(p, resource) ==
    /\ \A c \in Capability : <<c, resource.holder>> \notin p.capabilities
    /\ <<"manage_org", resource.org>> \notin p.capabilities
    /\ resource.org \notin p.orgs

LEMMA CapPoliciesReadCapabilities == \A a \in DOMAIN CapPolicy : CapPolicy[a] \in Capability
BY DEF CapPolicy, Capability

LEMMA AllowedMeans ==
    ASSUME NEW p, NEW a, NEW resource, NEW context
    PROVE  Authorize(p, a, resource, context) = "Allow"
               <=> /\ ~Errors(a, resource)
                   /\ Permits(p, a, resource)
                   /\ ~ForbidsExported(p, a, resource, context)
                   /\ ~ForbidsKey(a, resource, context)
BY DEF Authorize

LEMMA ErrorMeans ==
    ASSUME NEW p, NEW a, NEW resource, NEW context
    PROVE  Authorize(p, a, resource, context) = "EngineError" <=> Errors(a, resource)
BY DEF Authorize

-----------------------------------------------------------------------------
(* Rights.                                                                 *)

\* Rights only add up: a principal who holds all that another one holds is
\* allowed all that the other one is.  A capability slice that lacks some of what
\* its caller holds can only deny; one that has kept a right he has lost may allow.
THEOREM MoreRightsAllowMore ==
    ASSUME NEW p, NEW q, NEW a, NEW resource, NEW context,
           HoldsLess(p, q), Authorize(p, a, resource, context) = "Allow"
    PROVE  Authorize(q, a, resource, context) = "Allow"
<1>1. /\ ~Errors(a, resource) /\ Permits(p, a, resource)
      /\ ~ForbidsExported(p, a, resource, context) /\ ~ForbidsKey(a, resource, context)
  BY AllowedMeans
<1>2. Permits(q, a, resource)
  BY <1>1 DEF Permits, HasCap, IsOrgAdmin, HoldsLess
<1>3. ~ForbidsExported(q, a, resource, context)
  BY <1>1 DEF ForbidsExported, HoldsLess
<1> QED  BY <1>1, <1>2, <1>3, AllowedMeans

\* Tenants are apart: what a principal holds in any other team or org, however
\* much it is, changes no verdict on a resource.
THEOREM VerdictsAreLocal ==
    ASSUME NEW p, NEW q, NEW a, NEW resource, NEW context, SameAt(p, q, resource)
    PROVE  Authorize(p, a, resource, context) = Authorize(q, a, resource, context)
<1>1. HasCap(p, a, resource) <=> HasCap(q, a, resource)
  BY CapPoliciesReadCapabilities DEF HasCap, SameAt
<1>2. Permits(p, a, resource) <=> Permits(q, a, resource)
  BY <1>1 DEF Permits, IsOrgAdmin, SameAt
<1>3. ForbidsExported(p, a, resource, context) <=> ForbidsExported(q, a, resource, context)
  BY DEF ForbidsExported, SameAt
<1> QED  BY <1>2, <1>3 DEF Authorize

\* A caller who holds nothing here, signed in elsewhere or anonymous, is allowed
\* one thing at most: to run a published workflow that is open to everyone.
THEOREM StrangersOnlyRunExports ==
    ASSUME NEW p, NEW a, NEW resource, NEW context,
           Stranger(p, resource), Authorize(p, a, resource, context) = "Allow"
    PROVE  /\ a = "WorkflowRunExported"
           /\ resource.exported /\ resource.visibility # "org_only"
           /\ resource.password_protected => context.password_verified
<1>1. Permits(p, a, resource) /\ ~ForbidsExported(p, a, resource, context)
  BY AllowedMeans
<1>2. ~HasCap(p, a, resource)
  BY CapPoliciesReadCapabilities DEF HasCap, Stranger
<1>3. a = "WorkflowRunExported"
  BY <1>1, <1>2 DEF Permits, IsOrgAdmin, Stranger
<1> QED  BY <1>1, <1>3 DEF ForbidsExported, Stranger

\* No capability gets past the terms of a publication: on the public route two
\* callers are judged alike unless one is a member of the org and the other is
\* not; the org's super-admin needs the password too.
THEOREM ExportsIgnoreCapabilities ==
    ASSUME NEW p, NEW q, NEW resource, NEW context,
           resource.org \in p.orgs <=> resource.org \in q.orgs
    PROVE  Authorize(p, "WorkflowRunExported", resource, context)
               = Authorize(q, "WorkflowRunExported", resource, context)
<1>1. /\ Permits(p, "WorkflowRunExported", resource)
      /\ Permits(q, "WorkflowRunExported", resource)
  BY DEF Permits
<1>2. ForbidsExported(p, "WorkflowRunExported", resource, context)
          <=> ForbidsExported(q, "WorkflowRunExported", resource, context)
  BY DEF ForbidsExported
<1> QED  BY <1>1, <1>2 DEF Authorize

\* With his own token a super-admin may do everything in his org that is asked of a
\* resource of the right type, but for the public route, whose terms bind him too.
THEOREM SuperAdminsAreAllowed ==
    ASSUME NEW p, NEW a \in OrgAdministrableActions, NEW resource, NEW context,
           IsOrgAdmin(p, resource), context.auth_method # "api_key", ~Errors(a, resource)
    PROVE  Authorize(p, a, resource, context) = "Allow"
<1>1. a # "WorkflowRunExported"
  BY DEF OrgAdministrableActions
<1>2. Permits(p, a, resource)
  BY DEF Permits
<1>3. ~ForbidsExported(p, a, resource, context) /\ ~ForbidsKey(a, resource, context)
  BY <1>1 DEF ForbidsExported, ForbidsKey
<1> QED  BY <1>2, <1>3, AllowedMeans

-----------------------------------------------------------------------------
(* Keys.                                                                   *)

\* A key is never worth more than its owner: what he is allowed through a key he
\* is allowed with his own token, whatever orgs and scopes the key has.
THEOREM KeysNeverExceedTheirOwner ==
    ASSUME NEW p, NEW a, NEW resource, NEW key, NEW token,
           token.auth_method # "api_key",
           key.password_verified = token.password_verified,
           Authorize(p, a, resource, key) = "Allow"
    PROVE  Authorize(p, a, resource, token) = "Allow"
<1>1. /\ ~Errors(a, resource) /\ Permits(p, a, resource)
      /\ ~ForbidsExported(p, a, resource, key)
  BY AllowedMeans
<1>2. ~ForbidsExported(p, a, resource, token)
  BY <1>1 DEF ForbidsExported
<1>3. ~ForbidsKey(a, resource, token)
  BY DEF ForbidsKey
<1> QED  BY <1>1, <1>2, <1>3, AllowedMeans

\* Scopes only add up: of two keys of one org, the one with fewer scopes is
\* allowed less.
THEOREM MoreScopesAllowMore ==
    ASSUME NEW p, NEW a, NEW resource, NEW narrow, NEW wide,
           narrow.auth_method = "api_key", wide.auth_method = "api_key",
           narrow.api_key_org = wide.api_key_org,
           narrow.password_verified = wide.password_verified,
           narrow.api_key_scopes \subseteq wide.api_key_scopes,
           Authorize(p, a, resource, narrow) = "Allow"
    PROVE  Authorize(p, a, resource, wide) = "Allow"
<1>1. /\ ~Errors(a, resource) /\ Permits(p, a, resource)
      /\ ~ForbidsExported(p, a, resource, narrow) /\ ~ForbidsKey(a, resource, narrow)
  BY AllowedMeans
<1>2. ~ForbidsExported(p, a, resource, wide)
  BY <1>1 DEF ForbidsExported
<1>3. ~ForbidsKey(a, resource, wide)
  BY <1>1 DEF ForbidsKey
<1> QED  BY <1>1, <1>2, <1>3, AllowedMeans

LEMMA WritesNeedTheirScope ==
    ASSUME NEW a \in WriteActions
    PROVE  ActionScope(a) \notin KnownScopes
BY DEF ActionScope, WriteActions, ReadActions, RunActions, GovernanceActions, KnownScopes

\* A key with any scopes there are reads and runs in its own org and does nothing
\* else: the two other scopes an action can need are no rows of api_key_scopes.
THEOREM KeysReadAndRunAtHome ==
    ASSUME NEW p, NEW a \in Action, NEW resource, NEW key,
           key.auth_method = "api_key", key.api_key_scopes \subseteq KnownScopes,
           Authorize(p, a, resource, key) = "Allow"
    PROVE  a \in ReadActions \cup RunActions /\ resource.org = key.api_key_org
<1>1. ~ForbidsKey(a, resource, key)
  BY AllowedMeans
<1>2. a \notin GovernanceActions /\ resource.org = key.api_key_org
      /\ ActionScope(a) \in KnownScopes
  BY <1>1 DEF ForbidsKey
<1>3. a \notin WriteActions
  BY <1>2, WritesNeedTheirScope
<1> QED  BY <1>2, <1>3 DEF Action

-----------------------------------------------------------------------------
(* Errors.                                                                 *)

\* The visibility question a guard asks of a resource of any type has an answer.
THEOREM VisibilityNeverErrors ==
    ASSUME NEW type \in ResourceType, NEW p, NEW resource, NEW context,
           resource.type = type
    PROVE  Authorize(p, VisibilityAction(type), resource, context) # "EngineError"
<1>1. ~Errors(VisibilityAction(type), resource)
  BY DEF ResourceType, VisibilityAction, Errors, CapPolicy, CapAttributes
<1> QED  BY <1>1, ErrorMeans

-----------------------------------------------------------------------------
(* The published matrix.                                                   *)

\* What the rows' subjects hold at the team and in its org.
LEMMA SubjectsHold ==
    ASSUME NEW role \in DOMAIN Allowed, NEW in_org, NEW t, NEW o, NEW a, NEW resource,
           resource.holder = t, resource.org = o
    PROVE  /\ IsOrgAdmin(Subject(role, in_org, t, o), resource) <=> role = "super_admin"
           /\ HasCap(Subject(role, in_org, t, o), a, resource)
                <=> a \in DOMAIN CapPolicy /\ CapPolicy[a] \in Grants(role)
<1> DEFINE s == Subject(role, in_org, t, o)
<1>1. role \in {"viewer", "editor", "admin", "auditor", "super_admin", "outsider", "anonymous"}
  BY DEF Allowed
<1>2. "manage_org" \notin Grants(role)
  BY <1>1 DEF Grants, SeedGrants
<1>3. a \in DOMAIN CapPolicy => CapPolicy[a] # "manage_org"
  BY DEF CapPolicy
<1>4. \A c : <<c, t>> \in s.capabilities <=>
                c \in Grants(role) \/ (role = "super_admin" /\ <<c, t>> = <<"manage_org", o>>)
  BY DEF Subject
<1>5. <<"manage_org", o>> \in s.capabilities <=> role = "super_admin"
  BY <1>2 DEF Subject
<1>6. IsOrgAdmin(s, resource) <=> role = "super_admin"
  BY <1>5 DEF IsOrgAdmin
<1>7. HasCap(s, a, resource) <=> a \in DOMAIN CapPolicy /\ CapPolicy[a] \in Grants(role)
  BY <1>3, <1>4 DEF HasCap
<1> QED
  BY <1>6, <1>7

\* A row about a role is decided by its grants, or by its being a super-admin.
LEMMA RoleRows ==
    ASSUME NEW role \in DOMAIN Allowed, NEW a \in OrgAdministrableActions, a # "OrgView",
           NEW t, NEW o, ~Errors(a, Resource(a, t, o))
    PROVE  RoleVerdict(role, a, t, o) =
             IF \/ role = "super_admin"
                \/ a \in DOMAIN CapPolicy /\ CapPolicy[a] \in Grants(role)
             THEN "Allow" ELSE "Deny"
<1> DEFINE s == Subject(role, TRUE, t, o)
           res == Resource(a, t, o)
           context == Session("jwt", FALSE, {}, None)
<1>1. res.holder = t /\ res.org = o
  BY DEF Resource, Target
<1>2. a # "WorkflowRunExported"
  BY DEF OrgAdministrableActions
<1>3. ~ForbidsExported(s, a, res, context) /\ ~ForbidsKey(a, res, context)
  BY <1>2 DEF ForbidsExported, ForbidsKey, Session
<1>4. Permits(s, a, res) <=> \/ role = "super_admin"
                             \/ a \in DOMAIN CapPolicy /\ CapPolicy[a] \in Grants(role)
  BY <1>1, <1>2, SubjectsHold DEF Permits
<1> HIDE DEF s, res, context
<1>5. Authorize(s, a, res, context) = IF Permits(s, a, res) THEN "Allow" ELSE "Deny"
  BY <1>3 DEF Authorize, res
<1> QED
  BY <1>4, <1>5 DEF RoleVerdict, s, res, context

\* The attributes that the rows' actions read are there.
LEMMA RowsAreAnswered ==
    ASSUME NEW t, NEW o,
           NEW a \in {"WorkflowView", "WorkflowRun", "WorkflowUpdate", "WorkflowCreate",
                      "WorkflowExport", "WorkflowProtectExport", "WorkflowDelete",
                      "TeamAddMember", "TeamDelete", "OrgRemoveUser"}
    PROVE  ~Errors(a, Resource(a, t, o))
<1>1. Resource(a, t, o).type =
        IF a \in {"TeamAddMember", "TeamDelete", "WorkflowCreate"} THEN "Team" ELSE "Workflow"
  BY DEF Resource, Target
<1> QED
  BY <1>1 DEF Errors, CapPolicy, CapAttributes

\* Every row of the published page is what these policies say, of any team and any
\* org, and with the grants the seed gives the built-in roles: the page was generated
\* with a fixture's grants, which are another copy.
THEOREM PublishedMatrixHolds ==
    ASSUME NEW t, NEW o, o # None
    PROVE  RolesMatch(t, o) /\ ExportsMatch(t, o) /\ KeysMatch(t, o)
<1>1. ASSUME NEW role \in DOMAIN Allowed, NEW a \in Allowed[role] \cup Denied[role]
      PROVE  RoleVerdict(role, a, t, o) = IF a \in Allowed[role] THEN "Allow" ELSE "Deny"
  <2>1. role \in {"viewer", "editor", "admin", "auditor", "super_admin", "outsider", "anonymous"}
    BY DEF Allowed
  <2>2. a \in {"WorkflowView", "WorkflowRun", "WorkflowUpdate", "WorkflowCreate",
               "WorkflowExport", "WorkflowProtectExport", "WorkflowDelete",
               "TeamAddMember", "TeamDelete"}
    BY <1>1, <2>1 DEF Allowed, Denied
  <2>3. a \in OrgAdministrableActions /\ a # "OrgView"
    BY <2>2 DEF OrgAdministrableActions, Action, GovernanceActions, RunActions, WriteActions, ReadActions
  <2>4. RoleVerdict(role, a, t, o) =
          IF role = "super_admin" \/ (a \in DOMAIN CapPolicy /\ CapPolicy[a] \in Grants(role))
          THEN "Allow" ELSE "Deny"
    BY <2>2, <2>3, RowsAreAnswered, RoleRows
  <2>5. a \in Allowed[role]
          <=> role = "super_admin" \/ (a \in DOMAIN CapPolicy /\ CapPolicy[a] \in Grants(role))
    BY <1>1, <2>1 DEF Allowed, Denied, CapPolicy, Grants, SeedGrants
  <2> QED
    BY <2>4, <2>5
<1>2. RolesMatch(t, o)
  <2>1. ASSUME NEW role \in DOMAIN Allowed, NEW a \in Denied[role] PROVE a \notin Allowed[role]
    BY DEF Allowed, Denied
  <2> QED
    BY <1>1, <2>1 DEF RolesMatch
<1>3. ExportsMatch(t, o)
  <2>1. ASSUME NEW exported \in BOOLEAN, NEW visibility, NEW protected \in BOOLEAN,
               NEW verified \in BOOLEAN, NEW in_org \in BOOLEAN
        PROVE  Authorize(Subject("anonymous", in_org, t, o), "WorkflowRunExported",
                         Target("Workflow", exported, visibility, protected, t, o),
                         Session("anonymous", verified, {}, None))
                 = IF /\ exported /\ (protected => verified)
                      /\ visibility = "org_only" => in_org
                   THEN "Allow" ELSE "Deny"
    BY DEF Authorize, Errors, CapPolicy, Permits, ForbidsExported, ForbidsKey, Subject, Target, Session
  <2> DEFINE Runs(row) == /\ row[1] /\ (row[3] => row[4])
                          /\ row[2] = "org_only" => row[5]
             Fits(row) == /\ row[1] \in BOOLEAN /\ row[3] \in BOOLEAN
                          /\ row[4] \in BOOLEAN /\ row[5] \in BOOLEAN
                          /\ row[6] = IF Runs(row) THEN "Allow" ELSE "Deny"
  <2>2. /\ Fits(<<FALSE, "public", FALSE, FALSE, FALSE, "Deny">>)
        /\ Fits(<<TRUE, "public", FALSE, FALSE, FALSE, "Allow">>)
        /\ Fits(<<TRUE, "public", TRUE, FALSE, FALSE, "Deny">>)
        /\ Fits(<<TRUE, "public", TRUE, TRUE, FALSE, "Allow">>)
        /\ Fits(<<TRUE, "org_only", FALSE, FALSE, FALSE, "Deny">>)
        /\ Fits(<<TRUE, "org_only", FALSE, FALSE, TRUE, "Allow">>)
        /\ Fits(<<TRUE, "org_only", TRUE, FALSE, TRUE, "Deny">>)
        /\ Fits(<<TRUE, "org_only", TRUE, TRUE, TRUE, "Allow">>)
    OBVIOUS
  <2> HIDE DEF Fits
  <2>3. \A row \in ExportRows : Fits(row)
    BY <2>2 DEF ExportRows
  <2>4. ASSUME NEW row \in ExportRows
        PROVE  Authorize(Subject("anonymous", row[5], t, o), "WorkflowRunExported",
                         Target("Workflow", row[1], row[2], row[3], t, o),
                         Session("anonymous", row[4], {}, None)) = row[6]
    BY <2>1, <2>3, <2>4 DEF Fits
  <2> QED
    BY <2>4 DEF ExportsMatch
<1>4. KeysMatch(t, o)
  <2> DEFINE s == Subject("super_admin", TRUE, t, o)
  <2>1. ASSUME NEW a \in OrgAdministrableActions, ~Errors(a, Resource(a, t, o)), NEW scopes
        PROVE  Authorize(s, a, Resource(a, t, o), Session("api_key", FALSE, scopes, o))
                 = IF a \notin GovernanceActions /\ ActionScope(a) \in scopes THEN "Allow" ELSE "Deny"
    <3> DEFINE res == Resource(a, t, o)
               context == Session("api_key", FALSE, scopes, o)
    <3>1. res.holder = t /\ res.org = o
      BY DEF Resource, Target
    <3>2. Permits(s, a, res)
      <4>1. "super_admin" \in DOMAIN Allowed
        BY DEF Allowed
      <4>2. IsOrgAdmin(s, res)
        BY <3>1, <4>1, SubjectsHold
      <4> QED
        BY <4>2 DEF Permits
    <3>3. ~ForbidsExported(s, a, res, context)
      BY DEF ForbidsExported, OrgAdministrableActions
    <3>4. ForbidsKey(a, res, context) <=> a \in GovernanceActions \/ ActionScope(a) \notin scopes
      BY <3>1 DEF ForbidsKey, Session
    <3> HIDE DEF s, res, context
    <3>5. Authorize(s, a, res, context) = IF ForbidsKey(a, res, context) THEN "Deny" ELSE "Allow"
      BY <2>1, <3>2, <3>3 DEF Authorize, res
    <3> QED
      BY <3>4, <3>5 DEF res, context
  <2>2. ASSUME NEW row \in KeyRows
        PROVE  /\ row[1] \in OrgAdministrableActions /\ ~Errors(row[1], Resource(row[1], t, o))
               /\ row[3] = IF row[1] \notin GovernanceActions /\ ActionScope(row[1]) \in row[2]
                           THEN "Allow" ELSE "Deny"
    <3>1. row[1] \in {"WorkflowView", "WorkflowRun", "TeamDelete", "TeamAddMember", "OrgRemoveUser"}
      BY DEF KeyRows
    <3>2. row[1] \in OrgAdministrableActions
      BY <3>1 DEF OrgAdministrableActions, Action, GovernanceActions, RunActions, WriteActions, ReadActions
    <3>3. ActionScope("WorkflowView") = "workflow:read" /\ ActionScope("WorkflowRun") = "workflow:run"
      BY DEF ActionScope, ReadActions, RunActions, WriteActions, GovernanceActions
    <3>4. /\ {"TeamDelete", "TeamAddMember", "OrgRemoveUser"} \subseteq GovernanceActions
          /\ "WorkflowView" \notin GovernanceActions /\ "WorkflowRun" \notin GovernanceActions
      BY DEF GovernanceActions
    <3> QED
      BY <3>1, <3>2, <3>3, <3>4, RowsAreAnswered DEF KeyRows
  <2> HIDE DEF s
  <2> QED
    BY <2>1, <2>2 DEF KeysMatch, s
<1> QED
  BY <1>2, <1>3, <1>4

=============================================================================
