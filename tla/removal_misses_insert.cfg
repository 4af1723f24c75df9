CONSTANTS
    None = None
    acme = acme
    globex = globex
    general = general
    eng = eng
    lobby = lobby
    u1 = u1
    u2 = u2
    u3 = u3
    member = member
    super_admin = super_admin
    viewer = viewer
    admin = admin
    owner = owner
    founder = founder
    Org = {acme}
    User = {u1, u2}
    Team = {general, eng}
    Role = {member, super_admin, viewer, admin}
    Session = {s1, s2}
    TeamOrg <- MCTeamOrg
    DefaultTeam <- MCDefaultTeam
    RoleScope <- MCRoleScope
    RoleOrg <- MCRoleOrg
    RoleName <- MCRoleName
    RoleGrants <- MCRoleGrants
    Viewer = viewer
    TeamAdmin = admin
    SeedRoles <- BuiltIns
    SeedTeams <- DefaultTeamsOnly
    SeedOrgRole <- TwoSuperAdmins
    SeedTeamRole <- SeatsOfTwo
    Requests <- RemovalAndInsert
SPECIFICATION Spec
SYMMETRY Symmetric
PROPERTIES RemovalCascades
