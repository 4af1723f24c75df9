CONSTANTS
    None = None
    acme = acme
    globex = globex
    general = general
    eng = eng
    lobby = lobby
    flow = flow
    leaflet = leaflet
    draft = draft
    alice = alice
    bob = bob
    carol = carol
    member = member
    super_admin = super_admin
    viewer = viewer
    editor = editor
    admin = admin
    agent = agent
    runner = runner
    fresh = fresh
    Org = {acme, globex}
    User = {alice, bob, carol}
    Team = {general, eng, lobby}
    Workflow = {flow, leaflet, draft}
    Role = {member, super_admin, viewer, editor, admin}
    ApiKey = {agent, runner, fresh}
    Request = {r1, r2}
    TeamOrg <- MCTeamOrg
    WorkflowTeam <- MCWorkflowTeam
    DefaultTeam <- MCDefaultTeam
    RoleGrants <- MCRoleGrants
    Viewer = viewer
    TeamAdmin = admin
    KeyOwner <- MCKeyOwner
    KeyOrg <- MCKeyOrg
    KeyScopes <- MCKeyScopes
    SeedOrgRole <- MCOrgRole
    SeedTeamRole <- MCTeamRole
    SeedRows <- AllButDraft
    SeedKeys <- AllButFresh
    Call <- AllRequests
SPECIFICATION Spec
SYMMETRY Symmetric
CHECK_DEADLOCK FALSE
INVARIANTS TypeOK RoutesNeverError OnlyVisibleIsDisclosed DenialsAreRecorded LogIsTrue KeysStayConfined AnsweredChangesAreRecorded
PROPERTIES TenantsAreApart
