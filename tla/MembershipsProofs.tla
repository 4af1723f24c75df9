------------------------- MODULE MembershipsProofs -------------------------
(***************************************************************************)
(* Proofs about Memberships, for any orgs, users, teams, roles, sessions    *)
(* and requests that meet its assumptions.                                 *)
(***************************************************************************)
EXTENDS Memberships, TLAPS

-----------------------------------------------------------------------------
(* Updates of tables.                                                      *)

LEMMA Update ==
    ASSUME NEW D, NEW R, NEW f \in [D -> R], NEW x, NEW v \in R
    PROVE  [f EXCEPT ![x] = v] \in [D -> R]
  OBVIOUS

LEMMA UpdateCell ==
    ASSUME NEW D, NEW E, NEW R, NEW f \in [D -> [E -> R]], NEW x, NEW y, NEW v \in R
    PROVE  [f EXCEPT ![x][y] = v] \in [D -> [E -> R]]
  OBVIOUS

-----------------------------------------------------------------------------
(* Type correctness.                                                       *)

\* A session between two statements has a request.
BusyOK == \A s \in Session : pc[s] # "idle" => req[s] \in Requests

TablesType ==
    /\ org_memberships \in [Org -> [User -> Role \cup {None}]]
    /\ team_memberships \in [Team -> [User -> Role \cup {None}]]
    /\ teams \in [Team -> {"absent", "live", "deleted"}]
    /\ roles \in [Role -> {"absent", "live", "deleted"}]
    /\ role_capabilities \in [Role -> SUBSET Capability]

SessionsType ==
    /\ lock_holder \in [Key -> Session \cup {None}]
    /\ pc \in [Session -> Label]
    /\ req \in [Session -> Requests \cup {None}]
    /\ actor_flag \in [Session -> BOOLEAN]
    /\ v_org_id \in [Session -> Org \cup {None}]
    /\ doomed \in [Session -> SUBSET (Team \X User)]
    /\ BusyOK

\* The fields of the request of a session that is not idle, by operation.
LEMMA RequestFields ==
    ASSUME NEW r \in Requests
    PROVE  /\ r.op \in Ops /\ r.org \in Org /\ r.user \in User /\ r.actor \in User
           /\ r.team \in Team \cup {None} /\ r.role \in Role \cup {None}
           /\ r.op \in TeamOps \cup {"add_team_member", "create_team"}
                => r.team \in Team /\ TeamOrg[r.team] = r.org
           /\ r.op \in {"change_org_role", "add_org_member", "add_team_member",
                        "change_team_role", "create_role", "delete_role"}
                => r.role \in Role
  BY RequestsAssumption DEF Request

LEMMA BusyFields ==
    ASSUME SessionsType, NEW s \in Session, pc[s] # "idle"
    PROVE  /\ req[s].op \in Ops /\ req[s].org \in Org
           /\ req[s].user \in User /\ req[s].actor \in User
           /\ req[s].team \in Team \cup {None} /\ req[s].role \in Role \cup {None}
           /\ req[s].op \in TeamOps \cup {"add_team_member", "create_team"}
                => req[s].team \in Team /\ TeamOrg[req[s].team] = req[s].org
           /\ req[s].op \in {"change_org_role", "add_org_member", "add_team_member",
                            "change_team_role", "create_role", "delete_role"}
                => req[s].role \in Role
  BY RequestFields DEF SessionsType, BusyOK

\* Ending a transaction keeps the types of what belongs to the session.
LEMMA FinishType ==
    ASSUME SessionsType, NEW s \in Session, Finish(s)
    PROVE  SessionsType'
  BY DEF SessionsType, BusyOK, Finish, Label

LEMMA GotoType ==
    ASSUME SessionsType, NEW s \in Session, pc[s] # "idle", NEW l \in Label, Goto(s, l),
           lock_holder' \in [Key -> Session \cup {None}], 
           actor_flag' \in [Session -> BOOLEAN],
           v_org_id' \in [Session -> Org \cup {None}],
           doomed' \in [Session -> SUBSET (Team \X User)]
    PROVE  SessionsType'
  BY DEF SessionsType, BusyOK, Goto

LEMMA LockWantedType ==
    ASSUME SessionsType, NEW s \in Session, pc[s] # "idle", LockWanted(s) # None
    PROVE  LockWanted(s) \in Key
  BY RequestFields DEF SessionsType, BusyOK, LockWanted, Key

LEMMA TakeLockType ==
    ASSUME SessionsType, NEW s \in Session, pc[s] # "idle", TakeLock(s)
    PROVE  lock_holder' \in [Key -> Session \cup {None}]
  BY LockWantedType DEF SessionsType, TakeLock

\* A step that writes no table and moves on, taking a lock or not.
LEMMA MoveType ==
    ASSUME SessionsType, NEW s \in Session, pc[s] # "idle", NEW l \in Label, Goto(s, l),
           TakeLock(s) \/ UNCHANGED lock_holder, UNCHANGED local
    PROVE  SessionsType'
  BY GotoType, TakeLockType DEF SessionsType, local

LEMMA InitType == Init => TablesType /\ SessionsType
  BY IdsAssumption, CatalogAssumption, SeedAssumption
  DEF Init, TablesType, SessionsType, BusyOK, Label

LEMMA StepType ==
    ASSUME TablesType, SessionsType, NEW s \in Session, Begin(s) \/ Step(s) \/ Abort(s)
    PROVE  TablesType' /\ SessionsType'
<1>1. CASE Begin(s)
  <2>1. TablesType'
    BY <1>1 DEF Begin, tables, TablesType
  <2>2. PICK r \in Requests : req' = [req EXCEPT ![s] = r] /\ pc' = [pc EXCEPT ![s] = FirstStatement[r.op]]
    BY <1>1 DEF Begin
  <2>3. FirstStatement[r.op] \in Label
    BY <2>2, RequestFields DEF FirstStatement, Label, Ops, OrgOps, TeamOps
  <2> QED
    BY <1>1, <2>1, <2>2, <2>3 DEF Begin, local, SessionsType, BusyOK
<1>2. CASE Abort(s)
  BY <1>2, FinishType DEF Abort, FinishUnchanged, tables, TablesType
<1>3. CASE FinishUnchanged(s)
  BY <1>3, FinishType DEF FinishUnchanged, tables, TablesType
<1>4. CASE UNCHANGED tables /\ pc[s] # "idle" /\ UNCHANGED local
           /\ (TakeLock(s) \/ UNCHANGED lock_holder) /\ \E l \in Label : Goto(s, l)
  BY <1>4, MoveType DEF tables, TablesType
<1>a. ASSUME Finish(s), TablesType' PROVE TablesType' /\ SessionsType'
  BY <1>a, FinishType
<1>b. UNCHANGED tables => TablesType'
  BY DEF tables, TablesType
<1>5. CASE AddOrgMember(s)
  <2>1. Finish(s)
    BY <1>5 DEF AddOrgMember, FinishUnchanged
  <2>2. req[s].user \in User /\ req[s].org \in Org /\ req[s].role \in Role
    BY <1>5, BusyFields DEF AddOrgMember, At, TeamOps
  <2>3. ASSUME ~UNCHANGED tables PROVE TablesType'
    <3>1. /\ org_memberships' = [org_memberships EXCEPT ![req[s].org][req[s].user] = req[s].role]
          /\ \/ team_memberships' = team_memberships
             \/ team_memberships' = [team_memberships EXCEPT ![DefaultTeam[req[s].org]][req[s].user] = Viewer]
          /\ UNCHANGED <<teams, roles, role_capabilities>>
      BY <1>5, <2>3 DEF AddOrgMember, FinishUnchanged
    <3>2. Viewer \in Role
      BY <1>5, <2>2, CatalogAssumption DEF AddOrgMember, TablesType
    <3>3. org_memberships' \in [Org -> [User -> Role \cup {None}]]
      <4>1. req[s].role \in Role \cup {None}
        BY <2>2
      <4> QED
        BY <3>1, <4>1, UpdateCell DEF TablesType
    <3>4. team_memberships' \in [Team -> [User -> Role \cup {None}]]
      <4>1. CASE team_memberships' = team_memberships
        BY <4>1 DEF TablesType
      <4>2. CASE team_memberships' = [team_memberships EXCEPT ![DefaultTeam[req[s].org]][req[s].user] = Viewer]
        <5>1. Viewer \in Role \cup {None}
          BY <3>2
        <5> QED
          BY <4>2, <5>1, UpdateCell DEF TablesType
      <4> QED
        BY <3>1, <4>1, <4>2
    <3> QED
      BY <3>1, <3>3, <3>4 DEF TablesType
  <2> QED
    BY <1>a, <1>b, <2>1, <2>3
<1>27. CASE FindSeat(s)
  BY <1>4, <1>27 DEF FindSeat, At, Label
<1>28. CASE CommitOrgMember(s)
  <2>1. req[s].role \in Role \cup {None}
    BY <1>28, BusyFields DEF CommitOrgMember, At
  <2>2. TablesType'
    BY <1>28, <2>1, UpdateCell DEF CommitOrgMember, TablesType
  <2> QED
    BY <1>28, <1>a, <2>2 DEF CommitOrgMember
<1>6. CASE RemoveOrgMember(s)
  <2>1. Finish(s)
    BY <1>6 DEF RemoveOrgMember, FinishUnchanged
  <2>2. req[s].user \in User /\ req[s].org \in Org
    BY <1>6, BusyFields DEF RemoveOrgMember, At, TeamOps
  <2>3. ~UNCHANGED tables => TablesType'
    BY <1>6, <2>2, CatalogAssumption DEF RemoveOrgMember, FinishUnchanged, TablesType
  <2> QED
    BY <1>a, <1>b, <2>1, <2>3
<1>7. CASE ChangeOrgRole(s)
  <2>1. Finish(s)
    BY <1>7 DEF ChangeOrgRole, FinishUnchanged
  <2>2. req[s].user \in User /\ req[s].org \in Org /\ req[s].role \in Role
    BY <1>7, BusyFields DEF ChangeOrgRole, At, TeamOps
  <2>3. ASSUME ~UNCHANGED tables PROVE TablesType'
    <3>1. /\ org_memberships' = [org_memberships EXCEPT ![req[s].org][req[s].user] = req[s].role]
          /\ UNCHANGED <<team_memberships, teams, roles, role_capabilities>>
      BY <1>7, <2>3 DEF ChangeOrgRole, FinishUnchanged
    <3>2. req[s].role \in Role
      BY <1>7, <2>2, CatalogAssumption DEF ChangeOrgRole, TablesType
    <3> QED
      BY <2>2, <3>1, <3>2, UpdateCell DEF TablesType
  <2> QED
    BY <1>a, <1>b, <2>1, <2>3
<1>8. CASE CreateTeam(s)
  <2>1. Finish(s)
    BY <1>8 DEF CreateTeam, FinishUnchanged
  <2>2. req[s].team \in Team /\ req[s].actor \in User
    BY <1>8, BusyFields DEF CreateTeam, At, TeamOps
  <2>3. ASSUME ~UNCHANGED tables PROVE TablesType'
    <3>1. /\ teams' = [teams EXCEPT ![req[s].team] = "live"]
          /\ team_memberships' = [team_memberships EXCEPT ![req[s].team][req[s].actor] = TeamAdmin]
          /\ UNCHANGED <<org_memberships, roles, role_capabilities>>
      BY <1>8, <2>3 DEF CreateTeam, FinishUnchanged
    <3>2. TeamAdmin \in Role
      BY <1>8, <2>2, CatalogAssumption DEF CreateTeam, TablesType
    <3> QED
      BY <2>2, <3>1, <3>2, UpdateCell DEF TablesType
  <2> QED
    BY <1>a, <1>b, <2>1, <2>3
<1>9. CASE AddTeamMember(s)
  <2>1. Finish(s)
    BY <1>9 DEF AddTeamMember, FinishUnchanged
  <2>2. req[s].team \in Team /\ req[s].user \in User /\ req[s].role \in Role
    BY <1>9, BusyFields DEF AddTeamMember, At, TeamOps
  <2>3. ASSUME ~UNCHANGED tables PROVE TablesType'
    <3>1. /\ team_memberships' = [team_memberships EXCEPT ![req[s].team][req[s].user] = req[s].role]
          /\ UNCHANGED <<org_memberships, teams, roles, role_capabilities>>
      BY <1>9, <2>3 DEF AddTeamMember, FinishUnchanged
    <3>2. req[s].role \in Role
      BY <1>9, <2>2, CatalogAssumption DEF AddTeamMember, TablesType
    <3> QED
      BY <2>2, <3>1, <3>2, UpdateCell DEF TablesType
  <2> QED
    BY <1>a, <1>b, <2>1, <2>3
<1>10. CASE RemoveTeamMember(s)
  <2>1. Finish(s)
    BY <1>10 DEF RemoveTeamMember, FinishUnchanged
  <2>2. req[s].team \in Team /\ req[s].user \in User
    BY <1>10, BusyFields DEF RemoveTeamMember, At, TeamOps
  <2>3. ~UNCHANGED tables => TablesType'
    BY <1>10, <2>2, CatalogAssumption DEF RemoveTeamMember, FinishUnchanged, TablesType
  <2> QED
    BY <1>a, <1>b, <2>1, <2>3
<1>11. CASE ChangeTeamRole(s)
  <2>1. Finish(s)
    BY <1>11 DEF ChangeTeamRole, FinishUnchanged
  <2>2. req[s].team \in Team /\ req[s].user \in User /\ req[s].role \in Role
    BY <1>11, BusyFields DEF ChangeTeamRole, At, TeamOps
  <2>3. ASSUME ~UNCHANGED tables PROVE TablesType'
    <3>1. /\ team_memberships' = [team_memberships EXCEPT ![req[s].team][req[s].user] = req[s].role]
          /\ UNCHANGED <<org_memberships, teams, roles, role_capabilities>>
      BY <1>11, <2>3 DEF ChangeTeamRole, FinishUnchanged
    <3>2. req[s].role \in Role
      BY <1>11, <2>2, CatalogAssumption DEF ChangeTeamRole, TablesType
    <3> QED
      BY <2>2, <3>1, <3>2, UpdateCell DEF TablesType
  <2> QED
    BY <1>a, <1>b, <2>1, <2>3
<1>12. CASE DeleteTeam(s)
  <2>1. Finish(s)
    BY <1>12 DEF DeleteTeam, FinishUnchanged
  <2>2. req[s].team \in Team
    BY <1>12, BusyFields DEF DeleteTeam, At, TeamOps
  <2>3. ASSUME ~UNCHANGED tables PROVE TablesType'
    <3>1. /\ teams' = [teams EXCEPT ![req[s].team] = "deleted"]
          /\ team_memberships' = [team_memberships EXCEPT ![req[s].team] = [u \in User |-> None]]
          /\ UNCHANGED <<org_memberships, roles, role_capabilities>>
      BY <1>12, <2>3 DEF DeleteTeam, FinishUnchanged
    <3>2. [u \in User |-> None] \in [User -> Role \cup {None}]
      BY <1>12, <2>2, CatalogAssumption DEF DeleteTeam, TablesType
    <3> QED
      BY <2>2, <3>1, <3>2, Update DEF TablesType
  <2> QED
    BY <1>a, <1>b, <2>1, <2>3
<1>13. CASE InsertRoleCapabilities(s)
  <2>1. Finish(s)
    BY <1>13 DEF InsertRoleCapabilities, FinishUnchanged
  <2>2. req[s].role \in Role
    BY <1>13, BusyFields DEF InsertRoleCapabilities, At, TeamOps
  <2>3. ASSUME ~UNCHANGED tables PROVE TablesType'
    <3>1. /\ role_capabilities' = [role_capabilities EXCEPT ![req[s].role] = RoleGrants[req[s].role]]
          /\ UNCHANGED <<org_memberships, team_memberships, teams, roles>>
      BY <1>13, <2>3 DEF InsertRoleCapabilities, FinishUnchanged
    <3>2. RoleGrants[req[s].role] \in SUBSET Capability
      BY <2>2, CatalogAssumption
    <3> QED
      BY <3>1, <3>2, Update DEF TablesType
  <2> QED
    BY <1>a, <1>b, <2>1, <2>3
<1>14. CASE DeleteRole(s)
  <2>1. Finish(s)
    BY <1>14 DEF DeleteRole, FinishUnchanged
  <2>2. req[s].role \in Role
    BY <1>14, BusyFields DEF DeleteRole, At, TeamOps
  <2>3. ~UNCHANGED tables => TablesType'
    BY <1>14, <2>2, CatalogAssumption DEF DeleteRole, FinishUnchanged, TablesType
  <2> QED
    BY <1>a, <1>b, <2>1, <2>3
<1>15. CASE InsertRole(s)
  <2>1. CASE roles[req[s].role] = "absent" /\ ~FinishUnchanged(s)
    <3>1. TablesType'
      BY <1>15, <2>1, BusyFields DEF InsertRole, At, TablesType
    <3>2. SessionsType'
      BY <1>15, <2>1, MoveType DEF InsertRole, At, Label
    <3> QED
      BY <3>1, <3>2
  <2> QED
    BY <1>3, <1>15, <2>1 DEF InsertRole
<1>16. CASE CascadeTeams(s)
  <2>1. SessionsType'
    <3>1. doomed' \in [Session -> SUBSET (Team \X User)]
      BY <1>16, BusyFields DEF CascadeTeams, At, SessionsType
    <3> QED
      BY <1>16, <3>1, GotoType DEF CascadeTeams, At, Label, SessionsType
  <2> QED
    BY <1>16, <2>1 DEF CascadeTeams, tables, TablesType
<1>17. CASE ReadActor(s)
  <2>1. CASE ~FinishUnchanged(s)
    <3>1. SessionsType'
      <4>1. actor_flag' \in [Session -> BOOLEAN]
        <5>1. (req[s].actor \in OrgManagers(req[s].org)) \in BOOLEAN
          OBVIOUS
        <5> QED
          BY <1>17, <2>1, <5>1 DEF ReadActor, SessionsType
      <4> QED
        BY <1>17, <2>1, <4>1, GotoType DEF ReadActor, At, Label, SessionsType
    <3> QED
      BY <1>17, <2>1, <3>1 DEF ReadActor, tables, TablesType
  <2> QED
    BY <1>3, <2>1
<1>18. CASE ReadTeam(s)
  <2>1. SessionsType'
    <3>1. v_org_id' \in [Session -> Org \cup {None}]
      BY <1>18, BusyFields, CatalogAssumption DEF ReadTeam, At, SessionsType
    <3> QED
      BY <1>18, <3>1, GotoType DEF ReadTeam, At, Label, SessionsType
  <2> QED
    BY <1>18, <2>1 DEF ReadTeam, tables, TablesType
<1>19. CASE ReadRole(s)
  BY <1>4, <1>19 DEF ReadRole, At, Label
<1>20. CASE LockOrg(s)
  BY <1>4, <1>20 DEF LockOrg, At, Label
<1>21. CASE CountSuperAdmins(s)
  BY <1>3, <1>4, <1>21 DEF CountSuperAdmins, At, Label
<1>22. CASE LockTeamOrg(s) \/ LockTeam(s)
  BY <1>4, <1>22 DEF LockTeamOrg, LockTeam, At, Label
<1>23. CASE CheckRemoval(s)
  BY <1>3, <1>4, <1>23 DEF CheckRemoval, At, Label
<1>24. CASE CheckDemotion(s)
  BY <1>3, <1>4, <1>24 DEF CheckDemotion, At, Label
<1>25. CASE LockRole(s)
  BY <1>4, <1>25 DEF LockRole, At, Label
<1>26. CASE CountHolders(s)
  BY <1>3, <1>4, <1>26 DEF CountHolders, At, Label
<1> QED
  BY <1>1, <1>2, <1>5, <1>6, <1>7, <1>8, <1>9, <1>10, <1>11, <1>12, <1>13, <1>14, <1>15,
     <1>16, <1>17, <1>18, <1>19, <1>20, <1>21, <1>22, <1>23, <1>24, <1>25, <1>26, <1>27, <1>28 DEF Step

LEMMA TypeStutter == TablesType /\ SessionsType /\ UNCHANGED vars => TablesType' /\ SessionsType'
  BY DEF vars, tables, local, TablesType, SessionsType, BusyOK

\* Every reachable state is well typed.
THEOREM TypeCorrect == Spec => []TypeOK
<1>1. TablesType /\ SessionsType /\ [Next]_vars => (TablesType /\ SessionsType)'
  BY StepType, TypeStutter DEF Next
<1>2. TablesType /\ SessionsType => TypeOK
  BY DEF TablesType, SessionsType, TypeOK
<1> QED
  BY InitType, <1>1, <1>2, PTL DEF Spec

-----------------------------------------------------------------------------
(* What a step of one session leaves to the others.                        *)

\* A step changes the registers of its own session alone, and takes a free
\* lock or gives back its own.
LEMMA StepShape ==
    ASSUME SessionsType, NEW s \in Session, Begin(s) \/ Step(s) \/ Abort(s)
    PROVE  /\ \A x \in Session \ {s} :
                 /\ pc'[x] = pc[x] /\ req'[x] = req[x] /\ actor_flag'[x] = actor_flag[x]
                 /\ v_org_id'[x] = v_org_id[x] /\ doomed'[x] = doomed[x]
           /\ \A k \in Key : \/ lock_holder'[k] = lock_holder[k]
                             \/ lock_holder[k] = s /\ lock_holder'[k] = None
                             \/ lock_holder[k] = None /\ lock_holder'[k] = s
<1> USE DEF SessionsType
<1>1. CASE Finish(s)
  BY <1>1 DEF Finish
<1>2. CASE Begin(s)
  BY <1>2 DEF Begin, local
<1>3. CASE \E l \in Label : Goto(s, l) /\ (UNCHANGED lock_holder \/ TakeLock(s)) /\ UNCHANGED local
  BY <1>3 DEF Goto, TakeLock, local
<1>4. CASE CascadeTeams(s) \/ ReadActor(s) \/ ReadTeam(s)
  BY <1>1, <1>4 DEF CascadeTeams, ReadActor, ReadTeam, Goto, FinishUnchanged
<1>5. CASE Abort(s) \/ AddOrgMember(s) \/ CommitOrgMember(s) \/ RemoveOrgMember(s) \/ ChangeOrgRole(s) \/ CreateTeam(s)
           \/ AddTeamMember(s) \/ RemoveTeamMember(s) \/ ChangeTeamRole(s) \/ DeleteTeam(s)
           \/ InsertRoleCapabilities(s) \/ DeleteRole(s)
  BY <1>1, <1>5 DEF Abort, FinishUnchanged, AddOrgMember, CommitOrgMember, RemoveOrgMember,
     ChangeOrgRole, CreateTeam, AddTeamMember, RemoveTeamMember, ChangeTeamRole, DeleteTeam, InsertRoleCapabilities, DeleteRole
<1>6. CASE InsertRole(s) \/ ReadRole(s) \/ LockOrg(s) \/ CountSuperAdmins(s) \/ LockTeamOrg(s)
           \/ LockTeam(s) \/ LockRole(s) \/ CountHolders(s) \/ FindSeat(s)
  BY <1>1, <1>3, <1>6 DEF FinishUnchanged, FindSeat, InsertRole, ReadRole, LockOrg, CountSuperAdmins, LockTeamOrg,
     LockTeam, LockRole, CountHolders, Label
<1>7. CASE CheckRemoval(s) \/ CheckDemotion(s)
  BY <1>1, <1>3, <1>7 DEF FinishUnchanged, CheckRemoval, CheckDemotion, Label
<1> QED
  BY <1>2, <1>4, <1>5, <1>6, <1>7 DEF Step

-----------------------------------------------------------------------------
(* An insert that is about to commit.                                      *)

\* Nobody else gives the user a row in the org, nor takes the role away.
Pending(s) ==
    pc[s] = "commit" =>
        /\ req[s].op = "add_org_member"
        /\ org_memberships[req[s].org][req[s].user] = None
        /\ RoleFits(req[s].role, "org", req[s].org)
        /\ \A x \in Session \ {s} : ~Enrols(x, req[s].org, req[s].user)

PendingInv == TablesType /\ SessionsType /\ \A s \in Session : Pending(s)

\* What a pending insert rests on is kept by the steps of the others.
LEMMA PendingTables ==
    ASSUME PendingInv, NEW s \in Session, Begin(s) \/ Step(s) \/ Abort(s),
           NEW x \in Session, x # s, pc[x] = "commit"
    PROVE  /\ org_memberships'[req[x].org][req[x].user] = None
           /\ roles'[req[x].role] = "live"
<1> USE DEF PendingInv, TablesType, At
<1>1. /\ req[x].op = "add_org_member" /\ org_memberships[req[x].org][req[x].user] = None
      /\ roles[req[x].role] = "live" /\ ~Enrols(s, req[x].org, req[x].user)
  BY DEF Pending, RoleFits
<1>2. req[x].org \in Org /\ req[x].user \in User /\ req[x].role \in Role
  BY <1>1, BusyFields
<1>3. CASE UNCHANGED <<org_memberships, roles>>
  BY <1>1, <1>3
<1>4. CASE AddOrgMember(s) /\ ~UNCHANGED tables
  <2>1. ~Enrols(x, req[s].org, req[s].user)
    BY <1>4 DEF AddOrgMember, FinishUnchanged, Enrolled
  <2>2. ~(req[s].org = req[x].org /\ req[s].user = req[x].user)
    BY <1>1, <2>1 DEF Enrols
  <2> QED
    BY <1>1, <1>2, <1>4, <2>2 DEF AddOrgMember, FinishUnchanged
<1>5. CASE CommitOrgMember(s)
  <2>1. ~(req[s].org = req[x].org /\ req[s].user = req[x].user)
    BY <1>1, <1>5 DEF CommitOrgMember, Enrols
  <2> QED
    BY <1>1, <1>2, <1>5, <2>1 DEF CommitOrgMember
<1>6. CASE RemoveOrgMember(s)
  BY <1>1, <1>2, <1>6 DEF RemoveOrgMember
<1>7. CASE ChangeOrgRole(s) /\ ~UNCHANGED tables
  <2>1. /\ org_memberships' = [org_memberships EXCEPT ![req[s].org][req[s].user] = req[s].role]
        /\ org_memberships[req[s].org][req[s].user] # None /\ UNCHANGED roles
    BY <1>7 DEF ChangeOrgRole, FinishUnchanged
  <2> QED
    BY <1>1, <1>2, <2>1
<1>8. CASE InsertRole(s) /\ ~UNCHANGED tables
  BY <1>1, <1>2, <1>8 DEF InsertRole, FinishUnchanged
<1>9. CASE DeleteRole(s) /\ ~UNCHANGED tables
  <2>1. req[s].role # req[x].role
    BY <1>9 DEF DeleteRole, FinishUnchanged, Assigned
  <2> QED
    BY <1>1, <1>2, <1>9, <2>1 DEF DeleteRole, FinishUnchanged
<1> QED
  BY <1>3, <1>4, <1>5, <1>6, <1>7, <1>8, <1>9 DEF Step, Begin, Abort, FinishUnchanged, tables, FindSeat,
     CreateTeam, AddTeamMember, RemoveTeamMember, ChangeTeamRole, DeleteTeam, CascadeTeams, ReadActor,
     ReadTeam, InsertRoleCapabilities, ReadRole, LockOrg, CountSuperAdmins, LockTeamOrg, LockTeam,
     LockRole, CountHolders, CheckRemoval, CheckDemotion

\* A session comes to the commit by finding a seat, for a row nobody else enrols.
LEMMA PendingBegins ==
    ASSUME SessionsType, NEW s \in Session, Begin(s) \/ Step(s) \/ Abort(s), pc'[s] = "commit"
    PROVE  FindSeat(s)
<1> USE DEF SessionsType, At
<1>1. CASE Finish(s)
  BY <1>1 DEF Finish
<1>2. CASE Begin(s)
  BY <1>2, RequestFields DEF Begin, FirstStatement, Ops, OrgOps, TeamOps
<1> QED
  BY <1>1, <1>2 DEF Step, Abort, FinishUnchanged, Goto, AddOrgMember, CommitOrgMember, RemoveOrgMember,
     ChangeOrgRole, CreateTeam, AddTeamMember, RemoveTeamMember, ChangeTeamRole, DeleteTeam, CascadeTeams,
     ReadActor, ReadTeam, InsertRole, InsertRoleCapabilities, ReadRole, LockOrg, CountSuperAdmins,
     LockTeamOrg, LockTeam, LockRole, CountHolders, DeleteRole, CheckRemoval, CheckDemotion

LEMMA PendingStep ==
    ASSUME PendingInv, NEW s \in Session, Begin(s) \/ Step(s) \/ Abort(s), NEW x \in Session
    PROVE  Pending(x)'
<1> SUFFICES ASSUME pc'[x] = "commit" PROVE Pending(x)'
  BY DEF Pending
<1> USE DEF PendingInv
<1>0. \A y \in Session \ {s} : pc'[y] = pc[y] /\ req'[y] = req[y]
  BY StepShape
<1>1. pc'[s] = "commit" => /\ FindSeat(s) /\ req'[s] = req[s]
                           /\ req[s].op = "add_org_member" /\ UNCHANGED tables
                           /\ ~Enrolled(req[s].org, req[s].user)
  BY PendingBegins DEF FindSeat, Goto, At
<1>2. CASE x = s
  <2>1. \A y \in Session \ {s} : ~Enrols(y, req[s].org, req[s].user)'
    BY <1>0, <1>1, <1>2 DEF Enrolled, Enrols
  <2> QED
    BY <1>1, <1>2, <2>1 DEF FindSeat, Pending, RoleFits, tables
<1>3. CASE x # s
  <2>1. pc[x] = "commit" /\ req'[x] = req[x] /\ Pending(x)
    BY <1>0, <1>3
  <2>2. org_memberships'[req[x].org][req[x].user] = None /\ roles'[req[x].role] = "live"
    BY <1>3, <2>1, PendingTables
  <2>3. \A y \in Session \ {x} : ~Enrols(y, req[x].org, req[x].user)'
    <3>1. ASSUME NEW y \in Session \ {x}, y # s PROVE ~Enrols(y, req[x].org, req[x].user)'
      BY <1>0, <2>1, <3>1 DEF Enrols, Pending
    <3>2. ~Enrols(s, req[x].org, req[x].user)'
      BY <1>1, <2>1 DEF Enrols, Enrolled, Pending
    <3> QED
      BY <3>1, <3>2
  <2> QED
    BY <2>1, <2>2, <2>3 DEF Pending, RoleFits
<1> QED
  BY <1>2, <1>3

LEMMA PendingAlways == Spec => []PendingInv
<1>1. Init => PendingInv
  BY InitType DEF Init, PendingInv, Pending
<1>2. ASSUME PendingInv, [Next]_vars PROVE PendingInv'
  <2>1. CASE UNCHANGED vars
    BY <1>2, <2>1, TypeStutter DEF vars, tables, PendingInv, Pending, RoleFits, Enrols
  <2>2. CASE \E s \in Session : Begin(s) \/ Step(s) \/ Abort(s)
    BY <1>2, <2>2, StepType, PendingStep DEF PendingInv
  <2> QED
    BY <1>2, <2>1, <2>2 DEF Next
<1> QED
  BY <1>1, <1>2, PTL DEF Spec

-----------------------------------------------------------------------------
(* An org never loses its last super-admin.                                *)

OthersRemain(s) == OrgManagers(req[s].org) \ {req[s].user} # {}

\* The capabilities of a role come in one insert and go with the role.
CapabilitiesOK == \A r \in Role : role_capabilities[r] \in {{}, RoleGrants[r]}

\* What the lock on the org and the count under it establish until the write.
CountStands(s) ==
    /\ At(s, "count", OrgOps) => lock_holder[req[s].org] = s
    /\ pc[s] \in {"cascade", "write"} /\ req[s].op = "remove_org_member"
          => lock_holder[req[s].org] = s /\ OthersRemain(s)
    /\ At(s, "write", {"change_org_role"})
          => \/ lock_holder[req[s].org] = s /\ OthersRemain(s)
             \/ Grants(req[s].role, "manage_org")
             \/ roles[req[s].role] = "deleted"

ManagersInv ==
    /\ TablesType /\ SessionsType
    /\ CapabilitiesOK
    /\ \A s \in Session : CountStands(s)

\* A step keeps every manager of an org, or it is by the holder of the org's
\* lock and keeps all but one, with another there.
LEMMA ManagersStep ==
    ASSUME ManagersInv, PendingInv, NEW s \in Session, Begin(s) \/ Step(s) \/ Abort(s), NEW o \in Org
    PROVE  \/ OrgManagers(o) \subseteq OrgManagers(o)'
           \/ /\ lock_holder[o] = s
              /\ \E u \in User : /\ OrgManagers(o) \ {u} # {}
                                 /\ OrgManagers(o) \ {u} \subseteq OrgManagers(o)'
<1>1. CASE UNCHANGED <<org_memberships, role_capabilities>>
  BY <1>1 DEF OrgManagers, Grants
<1> USE DEF ManagersInv, TablesType
<1>2. CASE AddOrgMember(s)
  <2>1. CASE ~UNCHANGED tables
    <3>1. \A u \in User : org_memberships[o][u] # None => org_memberships'[o][u] = org_memberships[o][u]
      BY <1>2, <2>1, BusyFields, SMTT(30) DEF AddOrgMember, At, FinishUnchanged
    <3>2. UNCHANGED role_capabilities
      BY <1>2 DEF AddOrgMember, FinishUnchanged, tables
    <3> QED
      BY <3>1, <3>2, IdsAssumption, CatalogAssumption DEF OrgManagers, Grants
  <2> QED
    BY <1>1, <2>1 DEF tables
<1>7. CASE CommitOrgMember(s)
  <2>1. /\ org_memberships' = [org_memberships EXCEPT ![req[s].org][req[s].user] = req[s].role]
        /\ org_memberships[req[s].org][req[s].user] = None
        /\ UNCHANGED role_capabilities
    BY <1>7 DEF CommitOrgMember, At, PendingInv, Pending
  <2>2. \A u \in User : org_memberships[o][u] # None => org_memberships'[o][u] = org_memberships[o][u]
    BY <2>1
  <2> QED
    BY <2>1, <2>2, IdsAssumption DEF OrgManagers, Grants
<1>3. CASE RemoveOrgMember(s)
  <2>1. lock_holder[req[s].org] = s /\ OthersRemain(s)
    BY <1>3 DEF RemoveOrgMember, At, CountStands
  <2>2. /\ org_memberships' = [org_memberships EXCEPT ![req[s].org][req[s].user] = None]
        /\ UNCHANGED role_capabilities
    BY <1>3 DEF RemoveOrgMember
  <2>3. req[s].org \in Org /\ req[s].user \in User
    BY <1>3, BusyFields DEF RemoveOrgMember, At
  <2>4. CASE o = req[s].org
    BY <2>1, <2>2, <2>3, <2>4 DEF OrgManagers, Grants, OthersRemain
  <2>5. CASE o # req[s].org
    BY <2>2, <2>3, <2>5 DEF OrgManagers, Grants
  <2> QED
    BY <2>4, <2>5
<1>4. CASE ChangeOrgRole(s)
  <2>1. CASE ~UNCHANGED tables
    <3>1. /\ org_memberships' = [org_memberships EXCEPT ![req[s].org][req[s].user] = req[s].role]
          /\ UNCHANGED role_capabilities
          /\ roles[req[s].role] = "live"
      BY <1>4, <2>1 DEF ChangeOrgRole, FinishUnchanged, RoleFits
    <3>2. req[s].org \in Org /\ req[s].user \in User /\ req[s].role \in Role
      BY <1>4, BusyFields DEF ChangeOrgRole, At
    <3>3. \/ lock_holder[req[s].org] = s /\ OthersRemain(s)
          \/ Grants(req[s].role, "manage_org")
      BY <1>4, <3>1 DEF ChangeOrgRole, At, CountStands
    <3>4. CASE o = req[s].org /\ Grants(req[s].role, "manage_org")
      BY <3>1, <3>2, <3>4 DEF OrgManagers, Grants
    <3>5. CASE o = req[s].org /\ lock_holder[req[s].org] = s /\ OthersRemain(s)
      BY <3>1, <3>2, <3>5 DEF OrgManagers, Grants, OthersRemain
    <3>6. CASE o # req[s].org
      BY <3>1, <3>2, <3>6 DEF OrgManagers, Grants
    <3> QED
      BY <3>3, <3>4, <3>5, <3>6
  <2> QED
    BY <1>1, <2>1 DEF tables
<1>5. CASE InsertRoleCapabilities(s)
  <2>1. CASE ~UNCHANGED tables
    <3>1. /\ role_capabilities' = [role_capabilities EXCEPT ![req[s].role] = RoleGrants[req[s].role]]
          /\ UNCHANGED org_memberships
      BY <1>5, <2>1 DEF InsertRoleCapabilities, FinishUnchanged
    <3>2. req[s].role \in Role
      BY <1>5, BusyFields DEF InsertRoleCapabilities, At
    <3>3. \A r \in Role : role_capabilities[r] \subseteq role_capabilities'[r]
      BY <3>1, <3>2 DEF CapabilitiesOK
    <3> QED
      BY <3>1, <3>3 DEF OrgManagers, Grants
  <2> QED
    BY <1>1, <2>1 DEF tables
<1>6. CASE DeleteRole(s)
  <2>1. CASE ~UNCHANGED tables
    <3>1. /\ role_capabilities' = [role_capabilities EXCEPT ![req[s].role] = {}]
          /\ UNCHANGED org_memberships
          /\ ~InUse(req[s].role)
      BY <1>6, <2>1 DEF DeleteRole, FinishUnchanged
    <3>2. \A u \in User : org_memberships[o][u] # req[s].role
      BY <3>1 DEF InUse
    <3> QED
      BY <3>1, <3>2 DEF OrgManagers, Grants
  <2> QED
    BY <1>1, <2>1 DEF tables
<1> QED
  BY <1>1, <1>2, <1>3, <1>4, <1>5, <1>6, <1>7 DEF Step, Begin, Abort, FinishUnchanged, tables, FindSeat,
     CreateTeam, AddTeamMember, RemoveTeamMember, ChangeTeamRole, DeleteTeam, CascadeTeams, ReadActor, ReadTeam,
     InsertRole, ReadRole, LockOrg, CountSuperAdmins, LockTeamOrg, LockTeam, LockRole, CountHolders,
     CheckRemoval, CheckDemotion

\* A role loses capabilities only by being deleted, which is for good.
LEMMA RolesStep ==
    ASSUME ManagersInv, NEW s \in Session, Begin(s) \/ Step(s) \/ Abort(s)
    PROVE  /\ CapabilitiesOK'
           /\ \A r \in Role :
                 /\ role_capabilities[r] \subseteq role_capabilities'[r] \/ roles'[r] = "deleted"
                 /\ roles[r] = "deleted" => roles'[r] = "deleted"
<1> USE DEF ManagersInv, TablesType, CapabilitiesOK
<1>1. CASE UNCHANGED <<roles, role_capabilities>>
  BY <1>1
<1>2. CASE InsertRole(s)
  BY <1>1, <1>2, BusyFields DEF InsertRole, At, FinishUnchanged, tables
<1>3. CASE InsertRoleCapabilities(s)
  BY <1>1, <1>3, BusyFields DEF InsertRoleCapabilities, At, FinishUnchanged, tables
<1>4. CASE DeleteRole(s)
  BY <1>1, <1>4, BusyFields DEF DeleteRole, At, FinishUnchanged, tables
<1> QED
  BY <1>1, <1>2, <1>3, <1>4 DEF Step, Begin, Abort, FinishUnchanged, tables, AddOrgMember,
     FindSeat, CommitOrgMember, RemoveOrgMember, ChangeOrgRole, CreateTeam, AddTeamMember,
     RemoveTeamMember, ChangeTeamRole, DeleteTeam, CascadeTeams, ReadActor, ReadTeam, ReadRole, LockOrg,
     CountSuperAdmins, LockTeamOrg, LockTeam, LockRole, CountHolders, CheckRemoval, CheckDemotion

\* What another session has counted stands: whoever shrinks the set of
\* managers of an org holds its lock.
LEMMA CountStandsForOthers ==
    ASSUME ManagersInv, PendingInv, NEW s \in Session, Begin(s) \/ Step(s) \/ Abort(s),
           NEW x \in Session, x # s
    PROVE  CountStands(x)'
<1>1. pc'[x] = pc[x] /\ req'[x] = req[x]
  BY StepShape DEF ManagersInv
<1>2. ASSUME pc[x] # "idle", lock_holder[req[x].org] = x PROVE lock_holder'[req[x].org] = x
  <2>1. req[x].org \in Key
    BY <1>2, BusyFields DEF ManagersInv, Key
  <2> QED
    BY <1>2, <2>1, StepShape, IdsAssumption DEF ManagersInv
<1>3. ASSUME pc[x] # "idle", lock_holder[req[x].org] = x, OthersRemain(x) PROVE OthersRemain(x)'
  <2>1. req[x].org \in Org
    BY <1>3, BusyFields DEF ManagersInv
  <2>2. \A o \in Org : lock_holder[o] # s => OrgManagers(o) \subseteq OrgManagers(o)'
    BY ManagersStep
  <2>3. PICK o \in Org : o = req[x].org /\ o = req'[x].org
    BY <1>1, <2>1
  <2>4. OrgManagers(o) \subseteq OrgManagers(o)'
    BY <1>3, <2>2, <2>3
  <2> QED
    BY <1>1, <1>3, <2>3, <2>4 DEF OthersRemain
<1>4. ASSUME pc[x] # "idle", req[x].op = "change_org_role",
             Grants(req[x].role, "manage_org") \/ roles[req[x].role] = "deleted"
      PROVE  Grants(req[x].role, "manage_org")' \/ roles'[req[x].role] = "deleted"
  <2>1. req[x].role \in Role
    BY <1>4, BusyFields DEF ManagersInv
  <2> QED
    BY <1>1, <1>4, <2>1, RolesStep DEF Grants
<1> QED
  BY <1>1, <1>2, <1>3, <1>4 DEF ManagersInv, CountStands, At

\* The session's own step: the lock, then the count, then the write.
LEMMA CountStandsForSelf ==
    ASSUME ManagersInv, NEW s \in Session, Begin(s) \/ Step(s) \/ Abort(s)
    PROVE  CountStands(s)'
<1> USE DEF CountStands, At
<1>1. CASE Finish(s)
  BY <1>1 DEF Finish, ManagersInv, SessionsType
<1>2. CASE Begin(s)
  BY <1>2, RequestFields DEF Begin, FirstStatement, Ops, OrgOps, TeamOps, ManagersInv, SessionsType
<1>3. CASE LockOrg(s)
  <2>1. LockWanted(s) = req[s].org /\ req[s].org \in Org
    BY <1>3, BusyFields DEF LockOrg, LockWanted, ManagersInv
  <2>2. lock_holder'[req[s].org] = s
    BY <1>3, <2>1, IdsAssumption DEF LockOrg, TakeLock, ManagersInv, SessionsType, Key
  <2> QED
    BY <1>3, <2>2 DEF LockOrg, Goto, OrgOps, ManagersInv, SessionsType
<1>4. CASE CountSuperAdmins(s)
  <2>1. CASE FinishUnchanged(s)
    BY <1>1, <2>1 DEF FinishUnchanged
  <2>2. CASE ~FinishUnchanged(s)
    BY <1>4, <2>2 DEF CountSuperAdmins, OthersRemain, OrgManagers, Grants, Goto, OrgOps, tables,
       ManagersInv, SessionsType
  <2> QED
    BY <2>1, <2>2
<1>5. CASE CascadeTeams(s)
  BY <1>5 DEF CascadeTeams, OthersRemain, OrgManagers, Grants, Goto, tables, ManagersInv, SessionsType
<1>6. CASE ReadRole(s)
  BY <1>6 DEF ReadRole, Grants, Goto, tables, ManagersInv, SessionsType
<1>7. CASE pc'[s] \notin {"count", "cascade", "write"} \/ req'[s].op \notin OrgOps
  BY <1>7 DEF OrgOps
<1>8. CASE \E l \in Label : Goto(s, l) /\ req[s].op \notin OrgOps
  BY <1>7, <1>8 DEF Goto
<1>9. CASE InsertRole(s) \/ ReadActor(s) \/ ReadTeam(s) \/ LockTeamOrg(s) \/ LockTeam(s)
           \/ CheckRemoval(s) \/ CheckDemotion(s) \/ LockRole(s) \/ CountHolders(s) \/ FindSeat(s)
  BY <1>1, <1>8, <1>9 DEF FindSeat, InsertRole, ReadActor, ReadTeam, LockTeamOrg, LockTeam, CheckRemoval,
     CheckDemotion, LockRole, CountHolders, FinishUnchanged, OrgOps, TeamOps, Label
<1> QED
  BY <1>1, <1>2, <1>3, <1>4, <1>5, <1>6, <1>9 DEF Step, Abort, FinishUnchanged, AddOrgMember,
     CommitOrgMember, RemoveOrgMember, ChangeOrgRole, CreateTeam, AddTeamMember, RemoveTeamMember, ChangeTeamRole,
     DeleteTeam, InsertRoleCapabilities, DeleteRole

LEMMA ManagersInit == Init => ManagersInv /\ OrgManageable
<1> SUFFICES ASSUME Init PROVE ManagersInv /\ OrgManageable
  OBVIOUS
<1>1. TablesType /\ SessionsType
  BY InitType
<1>2. CapabilitiesOK
  BY DEF Init, CapabilitiesOK
<1>3. \A s \in Session : CountStands(s)
  BY DEF Init, CountStands, At
<1>4. OrgManageable
  <2> SUFFICES ASSUME NEW o \in Org PROVE OrgManagers(o) # {}
    BY DEF OrgManageable
  <2>1. PICK u \in User : SeedOrgRole[o][u] # None /\ "manage_org" \in RoleGrants[SeedOrgRole[o][u]]
    BY SeedAssumption
  <2>2. SeedOrgRole[o][u] \in SeedRoles /\ SeedOrgRole[o][u] \in Role
    BY <2>1, SeedAssumption
  <2> QED
    BY <2>1, <2>2 DEF Init, OrgManagers, Grants
<1> QED
  BY <1>1, <1>2, <1>3, <1>4 DEF ManagersInv

\* No interleaving of requests leaves an org without a super-admin.
THEOREM OrgsStayManageable == Spec => []OrgManageable
<1>1. ASSUME ManagersInv, OrgManageable, PendingInv, [Next]_vars PROVE ManagersInv' /\ OrgManageable'
  <2>1. CASE UNCHANGED vars
    BY <1>1, <2>1, TypeStutter DEF vars, tables, local, ManagersInv, CapabilitiesOK, CountStands, At,
       OthersRemain, OrgManageable, OrgManagers, Grants
  <2>2. ASSUME NEW s \in Session, Begin(s) \/ Step(s) \/ Abort(s)
        PROVE  ManagersInv' /\ OrgManageable'
    <3>1. OrgManageable'
      BY <1>1, <2>2, ManagersStep DEF OrgManageable
    <3>2. TablesType' /\ SessionsType'
      BY <1>1, <2>2, StepType DEF ManagersInv
    <3>3. CapabilitiesOK'
      BY <1>1, <2>2, RolesStep
    <3>4. \A x \in Session : CountStands(x)'
      BY <1>1, <2>2, CountStandsForOthers, CountStandsForSelf
    <3> QED
      BY <3>1, <3>2, <3>3, <3>4 DEF ManagersInv
  <2> QED
    BY <1>1, <2>1, <2>2 DEF Next
<1> QED
  BY ManagersInit, PendingAlways, <1>1, PTL DEF Spec

-----------------------------------------------------------------------------
(* Sessions never wait for each other in a circle.                         *)

\* The lock order: a session that still has its first lock to take holds none,
\* one at its second holds orgs only; rows are doomed at the very end.
LocksOrdered(s) ==
    /\ pc[s] \notin {"lock_team", "count", "check", "cascade", "write"}
          => \A k \in Key : lock_holder[k] # s
    /\ pc[s] = "lock_team" => \A k \in Key : lock_holder[k] = s => k \in Org
    /\ pc[s] # "write" => doomed[s] = {}

LocksInv == TablesType /\ SessionsType /\ \A s \in Session : LocksOrdered(s)

LEMMA LocksOrderedForOthers ==
    ASSUME LocksInv, NEW s \in Session, Begin(s) \/ Step(s) \/ Abort(s),
           NEW x \in Session, x # s
    PROVE  LocksOrdered(x)'
<1>1. pc'[x] = pc[x] /\ doomed'[x] = doomed[x]
  BY StepShape DEF LocksInv
<1>2. \A k \in Key : lock_holder'[k] = x => lock_holder[k] = x
  BY StepShape, IdsAssumption DEF LocksInv
<1> QED
  BY <1>1, <1>2 DEF LocksInv, LocksOrdered

LEMMA LocksOrderedForSelf ==
    ASSUME LocksInv, NEW s \in Session, Begin(s) \/ Step(s) \/ Abort(s)
    PROVE  LocksOrdered(s)'
<1> USE DEF LocksOrdered, LocksInv, SessionsType
<1>1. CASE Finish(s)
  BY <1>1, IdsAssumption DEF Finish
<1>2. CASE Begin(s)
  BY <1>2, RequestFields DEF Begin, FirstStatement, Ops, OrgOps, TeamOps, local
<1>3. CASE LockTeamOrg(s)
  <2>1. LockWanted(s) = v_org_id[s]
    BY <1>3 DEF LockTeamOrg, At, LockWanted
  <2>2. \A k \in Key : lock_holder'[k] = s => k \in Org
    BY <1>3, <2>1, IdsAssumption DEF LockTeamOrg, At, TakeLock, Key
  <2> QED
    BY <1>3, <2>2 DEF LockTeamOrg, At, Goto, local
<1>4. CASE LockOrg(s) \/ LockRole(s) \/ LockTeam(s)
  BY <1>4 DEF LockOrg, LockRole, LockTeam, At, Goto, local
<1>5. CASE CascadeTeams(s)
  BY <1>5 DEF CascadeTeams, At, Goto
<1>6. CASE ReadActor(s)
  BY <1>1, <1>6 DEF ReadActor, At, Goto, FinishUnchanged
<1>7. CASE ReadTeam(s)
  BY <1>7 DEF ReadTeam, At, Goto
<1>8. CASE ReadRole(s) \/ FindSeat(s)
  BY <1>8 DEF ReadRole, FindSeat, At, Goto, local
<1>9. CASE InsertRole(s)
  BY <1>1, <1>9 DEF InsertRole, At, Goto, FinishUnchanged, local
<1>10. CASE CountSuperAdmins(s) \/ CountHolders(s)
  BY <1>1, <1>10 DEF CountSuperAdmins, CountHolders, At, Goto, FinishUnchanged, local
<1>11. CASE CheckRemoval(s) \/ CheckDemotion(s)
  BY <1>1, <1>11 DEF CheckRemoval, CheckDemotion, At, Goto, FinishUnchanged, local
<1> QED
  BY <1>1, <1>2, <1>3, <1>4, <1>5, <1>6, <1>7, <1>8, <1>9, <1>10, <1>11 DEF Step, Abort,
     FinishUnchanged, AddOrgMember, CommitOrgMember, RemoveOrgMember, ChangeOrgRole, CreateTeam,
     AddTeamMember, RemoveTeamMember, ChangeTeamRole, DeleteTeam, InsertRoleCapabilities, DeleteRole

\* Two sessions in the middle of a line that waits: the second has come to the lock
\* of a team, and holds no team.
LEMMA MiddleWaiter ==
    ASSUME LocksInv, NEW w \in Session, NEW s \in Session, NEW x \in Session, NEW y \in Session,
           WaitsFor(w, s), WaitsFor(s, x), WaitsFor(x, y)
    PROVE  /\ pc[s] = "lock_team"
           /\ pc[w] # "lock_team"
<1> USE DEF LocksInv, LocksOrdered, SessionsType
<1>0. ASSUME NEW a \in Session, NEW b \in Session, WaitsFor(a, b)
      PROVE  \/ pc[a] \in {"lock_org", "lock_team_org", "lock_team", "lock_role", "insert"}
             \/ pc[a] = "write" /\ pc[b] = "commit"
  BY <1>0 DEF WaitsFor, LockWanted, At
<1>1. pc[s] \in {"lock_org", "lock_team_org", "lock_team", "lock_role", "insert"}
  BY <1>0
<1>2. \/ \E k \in Key : lock_holder[k] = s
      \/ doomed[s] # {}
  <2>1. CASE LockWanted(w) # None /\ lock_holder[LockWanted(w)] = s
    <3>1. pc[w] # "idle"
      BY <2>1 DEF LockWanted
    <3> QED
      BY <2>1, <3>1, LockWantedType
  <2> QED
    BY <1>1, <2>1 DEF WaitsFor, Enrols
<1>3. pc[s] = "lock_team"
  BY <1>1, <1>2
<1>4. pc[w] # "lock_team"
  <2> SUFFICES ASSUME pc[w] = "lock_team" PROVE FALSE
    OBVIOUS
  <2>1. LockWanted(w) = req[w].team /\ lock_holder[req[w].team] = s
    BY <1>3 DEF WaitsFor, LockWanted, At
  <2>2. req[w].team \in Team \/ LockWanted(w) = None
    BY <2>1, BusyFields
  <2>3. req[w].team \in Team /\ req[w].team \in Key
    BY <1>3, <2>1, <2>2 DEF WaitsFor, Key, At
  <2> QED
    BY <1>3, <2>1, <2>3, IdsAssumption
<1> QED
  BY <1>3, <1>4

\* No set of sessions waits for itself.
THEOREM NoWaitingCircle == Spec => []NoDeadlock
<1>1. Init => LocksInv
  BY InitType, IdsAssumption DEF Init, LocksInv, LocksOrdered
<1>2. ASSUME LocksInv, [Next]_vars PROVE LocksInv'
  <2>1. CASE UNCHANGED vars
    BY <1>2, <2>1, TypeStutter DEF vars, local, LocksInv, LocksOrdered
  <2>2. ASSUME NEW s \in Session, Begin(s) \/ Step(s) \/ Abort(s) PROVE LocksInv'
    <3>1. TablesType' /\ SessionsType'
      BY <1>2, <2>2, StepType DEF LocksInv
    <3>2. \A x \in Session : LocksOrdered(x)'
      BY <1>2, <2>2, LocksOrderedForOthers, LocksOrderedForSelf
    <3> QED
      BY <3>1, <3>2 DEF LocksInv
  <2> QED
    BY <1>2, <2>1, <2>2 DEF Next
<1>3. LocksInv => NoDeadlock
  <2> SUFFICES ASSUME LocksInv, NEW W \in SUBSET Session, W # {},
                      \A s \in W : \E x \in W : WaitsFor(s, x)
               PROVE  FALSE
    BY DEF NoDeadlock
  <2>1. PICK s0 \in W : TRUE
    OBVIOUS
  <2>2. PICK s1 \in W : WaitsFor(s0, s1)
    OBVIOUS
  <2>3. PICK s2 \in W : WaitsFor(s1, s2)
    OBVIOUS
  <2>4. PICK s3 \in W : WaitsFor(s2, s3)
    OBVIOUS
  <2>5. PICK s4 \in W : WaitsFor(s3, s4)
    OBVIOUS
  <2> QED
    BY <2>2, <2>3, <2>4, <2>5, MiddleWaiter
<1> QED
  BY <1>1, <1>2, <1>3, PTL DEF Spec

-----------------------------------------------------------------------------
(* Memberships never name a role that is gone or does not fit.             *)

BuiltInsLive == \A r \in Role : r \in SeedRoles => roles[r] # "absent" /\ (RoleOrg[r] = None => roles[r] = "live")

HeldInv == TablesType /\ SessionsType /\ BuiltInsLive /\ HeldRolesFit

LEMMA HeldStep ==
    ASSUME HeldInv, PendingInv, NEW s \in Session, Begin(s) \/ Step(s) \/ Abort(s)
    PROVE  BuiltInsLive' /\ HeldRolesFit'
<1> USE DEF HeldInv, TablesType, BuiltInsLive
<1>1. CASE UNCHANGED tables
  BY <1>1 DEF tables, HeldRolesFit, RoleFits, IsProper
<1>v. /\ Viewer \in Role /\ TeamAdmin \in Role
      /\ \A o \in Org : RoleFits(Viewer, "team", o) /\ RoleFits(TeamAdmin, "team", o)
  BY CatalogAssumption, SeedAssumption DEF RoleFits
<1>2. CASE AddOrgMember(s) /\ ~UNCHANGED tables
  <2>1. /\ org_memberships' = [org_memberships EXCEPT ![req[s].org][req[s].user] = req[s].role]
        /\ RoleFits(req[s].role, "org", req[s].org)
        /\ UNCHANGED <<teams, roles>>
    BY <1>2 DEF AddOrgMember, FinishUnchanged
  <2>2. \A t \in Team, u \in User :
           \/ team_memberships'[t][u] = team_memberships[t][u]
           \/ team_memberships'[t][u] = Viewer /\ teams[t] = "live"
    BY <1>2 DEF AddOrgMember, FinishUnchanged
  <2>3. req[s].org \in Org /\ req[s].user \in User
    BY <1>2, BusyFields DEF AddOrgMember, At
  <2>4. \A t \in Team : TeamOrg[t] \in Org
    BY CatalogAssumption
  <2>5. \A o \in Org, u \in User :
           org_memberships'[o][u] # None => RoleFits(org_memberships'[o][u], "org", o)
    BY <2>1, <2>3 DEF HeldRolesFit, RoleFits, IsProper
  <2>6. \A t \in Team, u \in User : team_memberships'[t][u] # None =>
           teams[t] = "live" /\ RoleFits(team_memberships'[t][u], "team", TeamOrg[t])
    BY <1>v, <2>2, <2>4 DEF HeldRolesFit, RoleFits, IsProper
  <2> QED
    BY <2>1, <2>5, <2>6 DEF HeldRolesFit, RoleFits, IsProper
<1>12. CASE CommitOrgMember(s)
  <2>1. /\ org_memberships' = [org_memberships EXCEPT ![req[s].org][req[s].user] = req[s].role]
        /\ RoleFits(req[s].role, "org", req[s].org)
        /\ UNCHANGED <<team_memberships, teams, roles>>
    BY <1>12 DEF CommitOrgMember, At, PendingInv, Pending
  <2> QED
    BY <2>1 DEF HeldRolesFit, RoleFits, IsProper
<1>3. CASE RemoveOrgMember(s)
  <2>1. UNCHANGED <<teams, roles>>
    BY <1>3 DEF RemoveOrgMember
  <2>2. \A o \in Org, u \in User : org_memberships'[o][u] \in {None, org_memberships[o][u]}
    BY <1>3, BusyFields DEF RemoveOrgMember, At
  <2>3. \A t \in Team, u \in User : team_memberships'[t][u] \in {None, team_memberships[t][u]}
    BY <1>3 DEF RemoveOrgMember
  <2> QED
    BY <2>1, <2>2, <2>3 DEF HeldRolesFit, RoleFits, IsProper
<1>4. CASE ChangeOrgRole(s) /\ ~UNCHANGED tables
  <2>1. /\ org_memberships' = [org_memberships EXCEPT ![req[s].org][req[s].user] = req[s].role]
        /\ RoleFits(req[s].role, "org", req[s].org)
        /\ UNCHANGED <<team_memberships, teams, roles>>
    BY <1>4 DEF ChangeOrgRole, FinishUnchanged
  <2>2. req[s].org \in Org /\ req[s].user \in User
    BY <1>4, BusyFields DEF ChangeOrgRole, At
  <2> QED
    BY <2>1, <2>2 DEF HeldRolesFit, RoleFits, IsProper
<1>5. CASE CreateTeam(s) /\ ~UNCHANGED tables
  <2>1. /\ team_memberships' = [team_memberships EXCEPT ![req[s].team][req[s].actor] = TeamAdmin]
        /\ teams' = [teams EXCEPT ![req[s].team] = "live"]
        /\ UNCHANGED <<org_memberships, roles>>
    BY <1>5 DEF CreateTeam, FinishUnchanged
  <2>2. req[s].team \in Team /\ req[s].actor \in User /\ TeamOrg[req[s].team] \in Org
    BY <1>5, BusyFields, CatalogAssumption DEF CreateTeam, At
  <2> QED
    BY <1>v, <2>1, <2>2 DEF HeldRolesFit, RoleFits, IsProper
<1>6. CASE (AddTeamMember(s) \/ ChangeTeamRole(s)) /\ ~UNCHANGED tables
  <2>1. /\ team_memberships' = [team_memberships EXCEPT ![req[s].team][req[s].user] = req[s].role]
        /\ RoleFits(req[s].role, "team", TeamOrg[req[s].team])
        /\ UNCHANGED <<org_memberships, teams, roles>>
    BY <1>6 DEF AddTeamMember, ChangeTeamRole, FinishUnchanged
  <2>2. req[s].team \in Team /\ req[s].user \in User
    BY <1>6, BusyFields DEF AddTeamMember, ChangeTeamRole, At, TeamOps
  <2>3. teams[req[s].team] = "live"
    BY <1>6, <2>2, SMTT(30) DEF AddTeamMember, ChangeTeamRole, FinishUnchanged, HeldRolesFit, RoleFits, IsProper
  <2> QED
    BY <2>1, <2>2, <2>3 DEF HeldRolesFit, RoleFits, IsProper
<1>7. CASE RemoveTeamMember(s)
  <2>1. UNCHANGED <<org_memberships, teams, roles>>
    BY <1>7 DEF RemoveTeamMember
  <2>2. \A t \in Team, u \in User : team_memberships'[t][u] \in {None, team_memberships[t][u]}
    BY <1>7, BusyFields DEF RemoveTeamMember, At, TeamOps
  <2> QED
    BY <2>1, <2>2 DEF HeldRolesFit, RoleFits, IsProper
<1>8. CASE DeleteTeam(s) /\ ~UNCHANGED tables
  <2>1. /\ teams' = [teams EXCEPT ![req[s].team] = "deleted"]
        /\ team_memberships' = [team_memberships EXCEPT ![req[s].team] = [u \in User |-> None]]
        /\ UNCHANGED <<org_memberships, roles>>
    BY <1>8 DEF DeleteTeam, FinishUnchanged
  <2>2. req[s].team \in Team
    BY <1>8, BusyFields DEF DeleteTeam, At, TeamOps
  <2> QED
    BY <2>1, <2>2 DEF HeldRolesFit, RoleFits, IsProper
<1>9. CASE InsertRole(s) /\ ~UNCHANGED tables
  <2>1. /\ roles' = [roles EXCEPT ![req[s].role] = "live"] /\ roles[req[s].role] = "absent"
        /\ UNCHANGED <<org_memberships, team_memberships, teams>>
    BY <1>9 DEF InsertRole, FinishUnchanged
  <2>2. req[s].role \in Role
    BY <1>9, BusyFields DEF InsertRole, At
  <2>3. \A r \in Role : roles[r] = "live" => roles'[r] = "live"
    BY <2>1, <2>2
  <2> QED
    BY <2>1, <2>2, <2>3 DEF HeldRolesFit, RoleFits, IsProper
<1>10. CASE InsertRoleCapabilities(s)
  <2>1. UNCHANGED <<org_memberships, team_memberships, teams, roles>>
    BY <1>10 DEF InsertRoleCapabilities, FinishUnchanged, tables
  <2> QED
    BY <2>1 DEF HeldRolesFit, RoleFits, IsProper
<1>11. CASE DeleteRole(s) /\ ~UNCHANGED tables
  <2>1. /\ roles' = [roles EXCEPT ![req[s].role] = "deleted"]
        /\ RoleOrg[req[s].role] # None /\ ~InUse(req[s].role)
        /\ UNCHANGED <<org_memberships, team_memberships, teams>>
    BY <1>11 DEF DeleteRole, FinishUnchanged
  <2>2. \A r \in Role : r # req[s].role => roles'[r] = roles[r]
    BY <2>1
  <2>3. BuiltInsLive'
    BY <1>11, <2>1, <2>2, BusyFields DEF DeleteRole, At
  <2>4. HeldRolesFit'
    BY <2>1, <2>2 DEF HeldRolesFit, RoleFits, IsProper, InUse
  <2> QED
    BY <2>3, <2>4
<1> QED
  BY <1>1, <1>2, <1>3, <1>4, <1>5, <1>6, <1>7, <1>8, <1>9, <1>10, <1>11, <1>12 DEF Step, Begin, Abort,
     FinishUnchanged, tables, FindSeat, CascadeTeams, ReadActor, ReadTeam, ReadRole,
     LockOrg, CountSuperAdmins, LockTeamOrg, LockTeam, LockRole, CountHolders, CheckRemoval, CheckDemotion

LEMMA HeldInit == Init => HeldInv
<1> SUFFICES ASSUME Init PROVE BuiltInsLive /\ HeldRolesFit
  BY InitType DEF HeldInv
<1> USE DEF Init
<1>1. BuiltInsLive
  BY SeedAssumption DEF BuiltInsLive
<1>2. ASSUME NEW o \in Org, NEW u \in User, SeedOrgRole[o][u] # None
      PROVE  RoleFits(SeedOrgRole[o][u], "org", o)
  BY <1>2, SeedAssumption DEF RoleFits
<1>3. ASSUME NEW t \in Team, NEW u \in User, SeedTeamRole[t][u] # None
      PROVE  t \in SeedTeams /\ RoleFits(SeedTeamRole[t][u], "team", TeamOrg[t])
  BY <1>3, SeedAssumption DEF RoleFits
<1> QED
  BY <1>1, <1>2, <1>3 DEF HeldRolesFit, RoleFits, IsProper

\* Creating and deleting roles in any interleaving with memberships leaves no
\* member with a role that is gone, of another scope or of another org.
THEOREM HeldRolesStayFit == Spec => []HeldRolesFit
<1>1. ASSUME HeldInv, PendingInv, [Next]_vars PROVE HeldInv'
  <2>1. CASE UNCHANGED vars
    BY <1>1, <2>1, TypeStutter DEF vars, tables, HeldInv, BuiltInsLive, HeldRolesFit, RoleFits, IsProper
  <2>2. CASE \E s \in Session : Begin(s) \/ Step(s) \/ Abort(s)
    BY <1>1, <2>2, StepType, HeldStep DEF HeldInv
  <2> QED
    BY <1>1, <2>1, <2>2 DEF Next
<1>2. HeldInv => HeldRolesFit
  BY DEF HeldInv
<1> QED
  BY HeldInit, PendingAlways, <1>1, <1>2, PTL DEF Spec

-----------------------------------------------------------------------------
(* The default team keeps its members while they are in the org.           *)

\* A team function that read its team, a default team, read its org; one that
\* removes a member has found that the team is not a default team; and the
\* cascade deletes rows of one user in the teams of one org.
DefaultTeamKnown(s) ==
    /\ pc[s] \in {"lock_team_org", "lock_team", "check", "write"} /\ req[s].op \in TeamOps
          /\ IsDefault(req[s].team) => v_org_id[s] # None
    /\ At(s, "write", {"remove_team_member"}) => ~IsDefault(req[s].team)
    /\ At(s, "write", {"remove_org_member"})
          => \A t \in Team, u \in User :
                <<t, u>> \in doomed[s] => TeamOrg[t] = req[s].org /\ u = req[s].user

DefaultTeamsLive == \A o \in Org : teams[DefaultTeam[o]] = "live"

DefaultInv ==
    /\ TablesType /\ SessionsType
    /\ DefaultTeamsLive
    /\ \A s \in Session : DefaultTeamKnown(s)

LEMMA DefaultTeamIsDefault ==
    ASSUME NEW o \in Org
    PROVE  DefaultTeam[o] \in Team /\ TeamOrg[DefaultTeam[o]] = o /\ IsDefault(DefaultTeam[o])
  BY CatalogAssumption DEF IsDefault

\* A default team is never deleted, a seat in it goes with its holder's removal
\* from the org, and no other member is left without one than one who enrols in
\* reliance on the seat he has.
SeatsKept(s) ==
    \A o \in Org, u \in User :
        /\ LosesSeat(o, u) => Commits(s, "remove_org_member", o, u)
        /\ ~Unseated(o, u) /\ Unseated(o, u)'
              => pc[s] = "commit" /\ Commits(s, "add_org_member", o, u)

LEMMA SeatsStep ==
    ASSUME DefaultInv, NEW s \in Session, Begin(s) \/ Step(s) \/ Abort(s)
    PROVE  DefaultTeamsLive' /\ SeatsKept(s)
<1> USE DEF DefaultInv, TablesType, DefaultTeamsLive
<1>1. CASE UNCHANGED <<org_memberships, team_memberships, teams>>
  BY <1>1 DEF SeatsKept, LosesSeat, Unseated
<1>a. ASSUME UNCHANGED teams,
             \A o \in Org, u \in User :
                /\ team_memberships[DefaultTeam[o]][u] # None => team_memberships'[DefaultTeam[o]][u] # None
                /\ org_memberships'[o][u] # None => org_memberships[o][u] # None
      PROVE  DefaultTeamsLive' /\ SeatsKept(s)
  BY <1>a DEF SeatsKept, LosesSeat, Unseated
<1>2. CASE AddOrgMember(s) /\ ~UNCHANGED tables
  <2>1. /\ org_memberships' = [org_memberships EXCEPT ![req[s].org][req[s].user] = req[s].role]
        /\ team_memberships' = IF teams[DefaultTeam[req[s].org]] = "live"
              THEN [team_memberships EXCEPT ![DefaultTeam[req[s].org]][req[s].user] = Viewer]
              ELSE team_memberships
        /\ UNCHANGED teams
    BY <1>2 DEF AddOrgMember, FinishUnchanged
  <2>2. req[s].org \in Org /\ req[s].user \in User
    BY <1>2, BusyFields DEF AddOrgMember, At
  <2>3. Viewer # None
    BY CatalogAssumption, IdsAssumption
  <2>4. \A t \in Team, u \in User : team_memberships[t][u] # None => team_memberships'[t][u] # None
    BY <2>1, <2>3
  <2>5. team_memberships'[DefaultTeam[req[s].org]][req[s].user] # None
    BY <2>1, <2>2, <2>3, DefaultTeamIsDefault
  <2>6. ASSUME NEW o \in Org, NEW u \in User
        PROVE  ~LosesSeat(o, u) /\ (Unseated(o, u)' => Unseated(o, u))
    <3>1. ~LosesSeat(o, u)
      BY <2>4, DefaultTeamIsDefault DEF LosesSeat
    <3>2. CASE o = req[s].org /\ u = req[s].user
      BY <2>5, <3>1, <3>2 DEF Unseated
    <3>3. CASE org_memberships'[o][u] = org_memberships[o][u]
      BY <3>1, <3>3 DEF LosesSeat, Unseated
    <3> QED
      BY <2>1, <2>2, <3>1, <3>2, <3>3
  <2> QED
    BY <2>1, <2>6 DEF SeatsKept
<1>9. CASE CommitOrgMember(s)
  <2>1. /\ org_memberships' = [org_memberships EXCEPT ![req[s].org][req[s].user] = req[s].role]
        /\ UNCHANGED <<team_memberships, teams>>
        /\ pc[s] = "commit" /\ pc'[s] = "idle" /\ req[s].op = "add_org_member"
    BY <1>9 DEF CommitOrgMember, At, Finish, SessionsType
  <2>2. ASSUME NEW o \in Org, NEW u \in User, ~Unseated(o, u), Unseated(o, u)'
        PROVE  o = req[s].org /\ u = req[s].user
    BY <2>1, <2>2 DEF Unseated
  <2>3. \A o \in Org, u \in User : ~LosesSeat(o, u)
    BY <2>1 DEF LosesSeat
  <2> QED
    BY <2>1, <2>2, <2>3 DEF SeatsKept, Commits
<1>3. CASE RemoveOrgMember(s)
  <2>1. /\ org_memberships' = [org_memberships EXCEPT ![req[s].org][req[s].user] = None]
        /\ team_memberships' = [t \in Team |-> [u \in User |->
              IF <<t, u>> \in doomed[s] THEN None ELSE team_memberships[t][u]]]
        /\ UNCHANGED teams
        /\ pc[s] = "write" /\ pc'[s] = "idle" /\ req[s].op = "remove_org_member"
    BY <1>3 DEF RemoveOrgMember, At, Finish, SessionsType
  <2>2. req[s].org \in Org /\ req[s].user \in User
    BY <1>3, BusyFields DEF RemoveOrgMember, At
  <2>3. \A t \in Team, u \in User :
           <<t, u>> \in doomed[s] => TeamOrg[t] = req[s].org /\ u = req[s].user
    BY <1>3 DEF RemoveOrgMember, At, DefaultTeamKnown
  <2>4. ASSUME NEW o \in Org, NEW u \in User, ~(o = req[s].org /\ u = req[s].user)
        PROVE  ~LosesSeat(o, u) /\ (Unseated(o, u)' => Unseated(o, u))
    <3>1. <<DefaultTeam[o], u>> \notin doomed[s]
      BY <2>3, <2>4, DefaultTeamIsDefault
    <3>2. team_memberships'[DefaultTeam[o]][u] = team_memberships[DefaultTeam[o]][u]
      BY <2>1, <3>1, DefaultTeamIsDefault
    <3>3. org_memberships'[o][u] = org_memberships[o][u]
      BY <2>1, <2>2, <2>4
    <3> QED
      BY <3>2, <3>3 DEF LosesSeat, Unseated
  <2>5. org_memberships'[req[s].org][req[s].user] = None
    BY <2>1, <2>2
  <2>6. ASSUME NEW o \in Org, NEW u \in User
        PROVE  /\ LosesSeat(o, u) => Commits(s, "remove_org_member", o, u)
               /\ Unseated(o, u)' => Unseated(o, u)
    <3>1. CASE o = req[s].org /\ u = req[s].user
      BY <2>1, <2>5, <3>1 DEF Commits, Unseated
    <3> QED
      BY <2>4, <3>1
  <2> QED
    BY <2>1, <2>6 DEF SeatsKept
<1>4. CASE ChangeOrgRole(s) /\ ~UNCHANGED tables
  <2>1. \A o \in Org, u \in User : org_memberships'[o][u] # None => org_memberships[o][u] # None
    BY <1>4, BusyFields DEF ChangeOrgRole, At, FinishUnchanged
  <2> QED
    BY <1>a, <1>4, <2>1 DEF ChangeOrgRole, FinishUnchanged
<1>5. CASE CreateTeam(s) /\ ~UNCHANGED tables
  <2>1. TeamAdmin # None
    BY CatalogAssumption, IdsAssumption
  <2>2. \A t \in Team, u \in User : team_memberships[t][u] # None => team_memberships'[t][u] # None
    BY <1>5, <2>1 DEF CreateTeam, FinishUnchanged
  <2>3. \A t \in Team : teams[t] = "live" => teams'[t] = "live"
    BY <1>5 DEF CreateTeam, FinishUnchanged
  <2>4. UNCHANGED org_memberships
    BY <1>5 DEF CreateTeam, FinishUnchanged
  <2> QED
    BY <2>2, <2>3, <2>4, DefaultTeamIsDefault DEF SeatsKept, LosesSeat, Unseated
<1>6. CASE (AddTeamMember(s) \/ ChangeTeamRole(s)) /\ ~UNCHANGED tables
  <2>1. req[s].role # None
    BY <1>6, BusyFields, IdsAssumption DEF AddTeamMember, ChangeTeamRole, At
  <2>2. \A t \in Team, u \in User : team_memberships[t][u] # None => team_memberships'[t][u] # None
    BY <1>6, <2>1 DEF AddTeamMember, ChangeTeamRole, FinishUnchanged
  <2> QED
    BY <1>a, <1>6, <2>2, DefaultTeamIsDefault DEF AddTeamMember, ChangeTeamRole, FinishUnchanged
<1>7. CASE RemoveTeamMember(s)
  <2>1. /\ team_memberships' = [team_memberships EXCEPT ![req[s].team][req[s].user] = None]
        /\ UNCHANGED <<org_memberships, teams>>
        /\ ~IsDefault(req[s].team)
    BY <1>7 DEF RemoveTeamMember, DefaultTeamKnown
  <2>2. \A o \in Org, u \in User : team_memberships'[DefaultTeam[o]][u] = team_memberships[DefaultTeam[o]][u]
    BY <2>1, DefaultTeamIsDefault
  <2> QED
    BY <1>a, <2>1, <2>2
<1>8. CASE DeleteTeam(s) /\ ~UNCHANGED tables
  <2>1. /\ teams' = [teams EXCEPT ![req[s].team] = "deleted"]
        /\ team_memberships' = [team_memberships EXCEPT ![req[s].team] = [u \in User |-> None]]
        /\ UNCHANGED org_memberships
        /\ ~IsDefaultTeam(s)
    BY <1>8 DEF DeleteTeam, FinishUnchanged
  <2>2. ~IsDefault(req[s].team)
    BY <1>8, <2>1 DEF DeleteTeam, At, IsDefaultTeam, DefaultTeamKnown, TeamOps
  <2>3. \A o \in Org : /\ team_memberships'[DefaultTeam[o]] = team_memberships[DefaultTeam[o]]
                       /\ teams'[DefaultTeam[o]] = teams[DefaultTeam[o]]
    BY <2>1, <2>2, DefaultTeamIsDefault
  <2> QED
    BY <2>1, <2>3 DEF SeatsKept, LosesSeat, Unseated
<1> QED
  BY <1>1, <1>2, <1>3, <1>4, <1>5, <1>6, <1>7, <1>8, <1>9 DEF InsertRole, InsertRoleCapabilities,
     DeleteRole, Step, Begin, Abort, FinishUnchanged, tables, FindSeat, CascadeTeams, ReadActor, ReadTeam,
     ReadRole, LockOrg, CountSuperAdmins, LockTeamOrg, LockTeam, LockRole, CountHolders, CheckRemoval,
     CheckDemotion

LEMMA DefaultTeamKnownForSelf ==
    ASSUME DefaultInv, NEW s \in Session, Begin(s) \/ Step(s) \/ Abort(s)
    PROVE  DefaultTeamKnown(s)'
<1> USE DEF DefaultTeamKnown, DefaultInv, SessionsType, IsDefault, At
<1>1. CASE Finish(s)
  BY <1>1 DEF Finish
<1>2. CASE Begin(s)
  BY <1>2, RequestFields DEF Begin, FirstStatement, Ops, OrgOps, TeamOps
<1>3. CASE ReadTeam(s)
  <2>1. req[s].team \in Team /\ req[s].op \in TeamOps
    BY <1>3, BusyFields DEF ReadTeam
  <2>2. IsDefault(req[s].team) => v_org_id'[s] # None
    BY <1>3, <2>1, CatalogAssumption, IdsAssumption DEF ReadTeam, DefaultTeamsLive
  <2> QED
    BY <1>3, <2>1, <2>2 DEF ReadTeam, Goto
<1>4. CASE LockTeamOrg(s) \/ LockTeam(s)
  BY <1>4 DEF LockTeamOrg, LockTeam, Goto, local, TeamOps
<1>5. CASE CheckRemoval(s)
  BY <1>1, <1>5 DEF CheckRemoval, IsDefaultTeam, Goto, local, FinishUnchanged, TeamOps
<1>6. CASE CheckDemotion(s)
  BY <1>1, <1>6 DEF CheckDemotion, Goto, local, FinishUnchanged, TeamOps
<1>7. CASE CascadeTeams(s)
  BY <1>7, BusyFields DEF CascadeTeams, Goto, TeamOps
<1>8. CASE ReadActor(s)
  BY <1>1, <1>8 DEF ReadActor, Goto, FinishUnchanged
<1>9. CASE LockOrg(s) \/ LockRole(s) \/ InsertRole(s) \/ ReadRole(s) \/ FindSeat(s)
  BY <1>1, <1>9 DEF LockOrg, LockRole, FindSeat, InsertRole, ReadRole, Goto, FinishUnchanged, TeamOps
<1>10. CASE CountSuperAdmins(s) \/ CountHolders(s)
  BY <1>1, <1>10 DEF CountSuperAdmins, CountHolders, Goto, FinishUnchanged, OrgOps, TeamOps
<1> QED
  BY <1>1, <1>2, <1>3, <1>4, <1>5, <1>6, <1>7, <1>8, <1>9, <1>10 DEF Step, Abort,
     FinishUnchanged, AddOrgMember, CommitOrgMember, RemoveOrgMember, ChangeOrgRole, CreateTeam,
     AddTeamMember, RemoveTeamMember, ChangeTeamRole, DeleteTeam, InsertRoleCapabilities, DeleteRole

LEMMA DefaultInit == Init => DefaultInv
<1> SUFFICES ASSUME Init PROVE DefaultInv
  OBVIOUS
<1>1. DefaultTeamsLive
  BY SeedAssumption, CatalogAssumption DEF Init, DefaultTeamsLive
<1> QED
  BY <1>1, InitType DEF Init, DefaultInv, DefaultTeamKnown, At

\* Nobody leaves a default team but by a removal from its org, however the
\* operations interleave; a member is without a seat only if such a removal took
\* the one his enrolment had found, before the enrolment committed.
THEOREM DefaultTeamKeepsMembers == Spec => DefaultSeatsAreKept
<1> DEFINE Kept == \A o \in Org, u \in User :
          /\ LosesSeat(o, u) => \E s \in Session : Commits(s, "remove_org_member", o, u)
          /\ ~Unseated(o, u) /\ Unseated(o, u)' =>
                \E s \in Session : pc[s] = "commit" /\ Commits(s, "add_org_member", o, u)
<1>1. ASSUME DefaultInv, [Next]_vars PROVE DefaultInv' /\ [Kept]_vars
  <2>1. CASE UNCHANGED vars
    BY <1>1, <2>1, TypeStutter DEF vars, tables, local, DefaultInv, DefaultTeamsLive,
       DefaultTeamKnown, At, IsDefault
  <2>2. ASSUME NEW s \in Session, Begin(s) \/ Step(s) \/ Abort(s) PROVE DefaultInv' /\ Kept
    <3>1. \A x \in Session \ {s} : DefaultTeamKnown(x)'
      BY <1>1, <2>2, StepShape DEF DefaultInv, DefaultTeamKnown, At, IsDefault
    <3>2. DefaultTeamKnown(s)'
      BY <1>1, <2>2, DefaultTeamKnownForSelf
    <3>3. DefaultTeamsLive' /\ SeatsKept(s)
      BY <1>1, <2>2, SeatsStep
    <3>4. Kept
      BY <3>3 DEF SeatsKept
    <3> QED
      BY <1>1, <2>2, <3>1, <3>2, <3>3, <3>4, StepType DEF DefaultInv
  <2> QED
    BY <1>1, <2>1, <2>2 DEF Next
<1> QED
  BY DefaultInit, <1>1, PTL DEF Spec, DefaultSeatsAreKept

-----------------------------------------------------------------------------
(* The operations implement the abstract roster.                           *)

Members == [o \in Org |-> {u \in User : org_memberships[o][u] # None}]
Managers == [o \in Org |-> OrgManagers(o)]

\* A role whose capabilities are still to come is of one org.
RoleMadeHere(s) == pc[s] = "insert_caps" => RoleOrg[req[s].role] # None

RosterInv == ManagersInv /\ HeldInv /\ PendingInv /\ \A s \in Session : RoleMadeHere(s)

LEMMA RoleMadeHereStep ==
    ASSUME RosterInv, NEW s \in Session, Begin(s) \/ Step(s) \/ Abort(s), NEW x \in Session
    PROVE  RoleMadeHere(x)'
<1> USE DEF RoleMadeHere, RosterInv, ManagersInv, SessionsType
<1>1. CASE x # s
  BY <1>1, StepShape
<1>2. CASE x = s
  <2>1. CASE Finish(s)
    BY <1>2, <2>1 DEF Finish
  <2>2. CASE Begin(s)
    BY <1>2, <2>2, RequestFields DEF Begin, FirstStatement, Ops, OrgOps, TeamOps
  <2>3. CASE InsertRole(s)
    <3>1. CASE roles[req[s].role] = "absent"
      <4>1. req[s].role \in Role
        BY <2>3, BusyFields DEF InsertRole, At
      <4>2. RoleOrg[req[s].role] # None
        BY <3>1, <4>1, SeedAssumption DEF HeldInv, BuiltInsLive
      <4> QED
        BY <1>2, <2>1, <2>3, <4>2 DEF InsertRole, Goto, FinishUnchanged
    <3> QED
      BY <2>1, <2>3, <3>1 DEF InsertRole, FinishUnchanged
  <2>4. CASE pc'[s] # "insert_caps"
    BY <1>2, <2>4
  <2> QED
    BY <2>1, <2>2, <2>3, <2>4 DEF Step, Abort, FinishUnchanged, AddOrgMember, RemoveOrgMember,
       FindSeat, CommitOrgMember, ChangeOrgRole, CreateTeam, AddTeamMember, RemoveTeamMember,
       ChangeTeamRole, DeleteTeam, InsertRoleCapabilities, DeleteRole, CascadeTeams, ReadActor, ReadTeam, ReadRole, LockOrg,
       CountSuperAdmins, LockTeamOrg, LockTeam, LockRole, CountHolders, CheckRemoval, CheckDemotion, Goto
<1> QED
  BY <1>1, <1>2

LEMMA RosterStep ==
    ASSUME RosterInv, NEW s \in Session, Begin(s) \/ Step(s) \/ Abort(s)
    PROVE  UNCHANGED <<Members, Managers>> \/ Roster!Next
<1> USE DEF RosterInv, HeldInv, TablesType
<1>0. /\ Members \in [Org -> SUBSET User] /\ Managers \in [Org -> SUBSET User]
      /\ Members' \in [Org -> SUBSET User] /\ Managers' \in [Org -> SUBSET User]
  BY DEF Members, Managers, OrgManagers
<1>1. CASE UNCHANGED <<org_memberships, role_capabilities>>
  BY <1>1 DEF Members, Managers, OrgManagers, Grants
<1> DEFINE o == req[s].org
           u == req[s].user
           r == req[s].role
<1>f. pc[s] # "idle" => o \in Org /\ u \in User
  BY BusyFields
<1> USE DEF At
<1>2. CASE (AddOrgMember(s) /\ ~UNCHANGED tables) \/ CommitOrgMember(s)
  <2>1. /\ org_memberships[o][u] = None /\ r \in Role
        /\ org_memberships' = [org_memberships EXCEPT ![o][u] = r]
        /\ UNCHANGED role_capabilities
    <3>1. CASE AddOrgMember(s) /\ ~UNCHANGED tables
      BY <3>1, BusyFields DEF AddOrgMember, FinishUnchanged
    <3>2. CASE CommitOrgMember(s)
      BY <3>2, BusyFields DEF CommitOrgMember, PendingInv, Pending
    <3> QED
      BY <1>2, <3>1, <3>2
  <2>2. o \in Org /\ u \in User
    BY <1>2, <1>f DEF AddOrgMember, CommitOrgMember
  <2> HIDE DEF o, u, r
  <2>a. r # None
    BY <2>1, IdsAssumption
  <2>3. u \notin Members[o] /\ Members' = [Members EXCEPT ![o] = @ \cup {u}]
    <3>1. \A p \in Org, x \in User :
             org_memberships'[p][x] # None <=> org_memberships[p][x] # None \/ (p = o /\ x = u)
      BY <2>1, <2>2, <2>a
    <3>2. \A p \in Org : Members'[p] = IF p = o THEN Members[p] \cup {u} ELSE Members[p]
      BY <2>2, <3>1 DEF Members
    <3> QED
      BY <1>0, <2>1, <2>2, <3>2 DEF Members
  <2>4. \/ UNCHANGED Managers
        \/ Managers' = [Managers EXCEPT ![o] = @ \cup {u}]
    <3>1. CASE Grants(r, "manage_org")
      <4>1. \A p \in Org : p # o => OrgManagers(p)' = OrgManagers(p)
        BY <2>1, <2>2 DEF OrgManagers, Grants
      <4>2. \A p \in Org : p = o => OrgManagers(p)' = OrgManagers(p) \cup {u}
        BY <2>1, <2>2, <3>1 DEF OrgManagers, Grants
      <4> QED
        BY <2>2, <4>1, <4>2 DEF Managers
    <3>2. CASE ~Grants(r, "manage_org")
      BY <2>1, <2>2, <3>2, IdsAssumption DEF Managers, OrgManagers, Grants
    <3> QED
      BY <3>1, <3>2
  <2>5. PICK p \in Org, x \in User : p = o /\ x = u
    BY <2>2
  <2>6. Roster!Join(p, x)
    BY <2>3, <2>4, <2>5 DEF Roster!Join, Members, Managers
  <2> QED
    BY <2>6 DEF Roster!Next
<1>3. CASE RemoveOrgMember(s)
  <2>1. /\ OthersRemain(s)
        /\ org_memberships' = [org_memberships EXCEPT ![o][u] = None]
        /\ UNCHANGED role_capabilities
    BY <1>3 DEF RemoveOrgMember, ManagersInv, CountStands
  <2>2. o \in Org /\ u \in User
    BY <1>3, <1>f DEF RemoveOrgMember
  <2> HIDE DEF o, u, r
  <2>a. \A p \in Org : /\ p # o => OrgManagers(p)' = OrgManagers(p)
                       /\ p = o => OrgManagers(p)' = OrgManagers(p) \ {u}
    BY <2>1, <2>2, IdsAssumption DEF OrgManagers, Grants
  <2>b. \A p \in Org, x \in User :
           org_memberships'[p][x] # None <=> org_memberships[p][x] # None /\ ~(p = o /\ x = u)
    BY <2>1, <2>2
  <2>3. /\ Members' = [Members EXCEPT ![o] = @ \ {u}]
        /\ Managers' = [Managers EXCEPT ![o] = @ \ {u}]
    <3>1. \A p \in Org : Members'[p] = IF p = o THEN Members[p] \ {u} ELSE Members[p]
      BY <2>2, <2>b DEF Members
    <3>2. \A p \in Org : Managers'[p] = IF p = o THEN Managers[p] \ {u} ELSE Managers[p]
      BY <2>2, <2>a DEF Managers
    <3> QED
      BY <1>0, <2>2, <3>1, <3>2
  <2>4. Managers[o] \ {u} # {}
    BY <2>1, <2>2 DEF Managers, OthersRemain, o, u
  <2>5. PICK p \in Org, x \in User : p = o /\ x = u
    BY <2>2
  <2>6. Roster!Leave(p, x)
    BY <2>3, <2>4, <2>5 DEF Roster!Leave, Members, Managers
  <2> QED
    BY <2>6 DEF Roster!Next
<1>4. CASE ChangeOrgRole(s) /\ ~UNCHANGED tables
  <2>1. /\ org_memberships[o][u] # None /\ r \in Role
        /\ org_memberships' = [org_memberships EXCEPT ![o][u] = r]
        /\ UNCHANGED role_capabilities
        /\ roles[r] = "live"
    BY <1>4, BusyFields DEF ChangeOrgRole, FinishUnchanged, RoleFits
  <2>2. o \in Org /\ u \in User
    BY <1>4, <1>f DEF ChangeOrgRole
  <2>3. UNCHANGED Members
    BY <2>1, <2>2, IdsAssumption DEF Members
  <2>4. CASE Grants(r, "manage_org")
    <3>a. ASSUME NEW p \in Org
          PROVE  OrgManagers(p)' = IF p = o THEN OrgManagers(p) \cup {u} ELSE OrgManagers(p)
      BY <2>1, <2>2, <2>4 DEF OrgManagers, Grants
    <3>b. {u} \subseteq Members[o]
      BY <2>1, <2>2, IdsAssumption DEF Members
    <3>1. Managers' = [Managers EXCEPT ![o] = @ \cup {u}] /\ {u} \subseteq Members[o]
      BY <2>2, <3>a, <3>b DEF Managers
    <3>2. Roster!Promote(o, {u})
      BY <2>3, <3>1 DEF Roster!Promote, Members, Managers
    <3> QED
      BY <2>2, <3>2 DEF Roster!Next
  <2>5. CASE ~Grants(r, "manage_org")
    <3>1. OthersRemain(s)
      BY <1>4, <2>1, <2>5 DEF ChangeOrgRole, ManagersInv, CountStands
    <3>2. Managers' = [Managers EXCEPT ![o] = @ \ {u}] /\ Managers[o] \ {u} # {}
      BY <2>1, <2>2, <2>5, <3>1 DEF Managers, OrgManagers, Grants, OthersRemain
    <3>3. Roster!StepDown(o, u)
      BY <2>3, <3>2 DEF Roster!StepDown, Members, Managers
    <3> QED
      BY <2>2, <3>3 DEF Roster!Next
  <2> QED
    BY <2>4, <2>5
<1>5. CASE InsertRoleCapabilities(s) /\ ~UNCHANGED tables
  <2>1. /\ role_capabilities' = [role_capabilities EXCEPT ![r] = RoleGrants[r]]
        /\ UNCHANGED org_memberships
    BY <1>5 DEF InsertRoleCapabilities, FinishUnchanged
  <2>2. r \in Role /\ RoleOrg[r] # None
    BY <1>5, BusyFields DEF InsertRoleCapabilities, RoleMadeHere
  <2>3. PICK p \in Org : p = RoleOrg[r]
    BY <2>2, CatalogAssumption
  <2> DEFINE us == {x \in User : org_memberships[p][x] = r /\ "manage_org" \in RoleGrants[r]}
  <2>4. \A q \in Org, x \in User : org_memberships[q][x] = r => q = p
    BY <2>2, <2>3, IdsAssumption DEF HeldRolesFit, RoleFits, IsProper
  <2>5. UNCHANGED Members /\ us \subseteq Members[p]
    BY <2>1, <2>2, IdsAssumption DEF Members
  <2>6. role_capabilities[r] \subseteq RoleGrants[r]
    BY <2>2 DEF ManagersInv, CapabilitiesOK
  <2>7. Managers' = [Managers EXCEPT ![p] = @ \cup us]
    <3>1. \A q \in Org : q # p => OrgManagers(q)' = OrgManagers(q)
      BY <2>1, <2>4 DEF OrgManagers, Grants
    <3>2. OrgManagers(p)' = OrgManagers(p) \cup us
      BY <2>1, <2>2, <2>6 DEF OrgManagers, Grants
    <3> QED
      BY <3>1, <3>2 DEF Managers
  <2>8. Roster!Promote(p, us)
    BY <2>5, <2>7 DEF Roster!Promote, Members, Managers
  <2> QED
    BY <2>8 DEF Roster!Next
<1>6. CASE DeleteRole(s) /\ ~UNCHANGED tables
  <2>1. /\ role_capabilities' = [role_capabilities EXCEPT ![r] = {}]
        /\ UNCHANGED org_memberships
        /\ ~InUse(r)
    BY <1>6 DEF DeleteRole, FinishUnchanged
  <2>2. \A q \in Org, x \in User : org_memberships[q][x] # r
    BY <2>1 DEF InUse
  <2> QED
    BY <2>1, <2>2 DEF Members, Managers, OrgManagers, Grants
<1> QED
  BY <1>1, <1>2, <1>3, <1>4, <1>5, <1>6 DEF CreateTeam, AddTeamMember, RemoveTeamMember, ChangeTeamRole,
     DeleteTeam, InsertRole, FindSeat,
     Step, Begin, Abort, FinishUnchanged, tables, CascadeTeams, ReadActor, ReadTeam, ReadRole,
     LockOrg, CountSuperAdmins, LockTeamOrg, LockTeam, LockRole, CountHolders, CheckRemoval, CheckDemotion

\* Every behaviour of the tables, seen as who belongs to and who manages each
\* org, is a behaviour of the roster.
THEOREM ImplementsRoster == Spec => RefinesRoster
<1>1. Init => RosterInv /\ Roster!Init
  <2> SUFFICES ASSUME Init PROVE RosterInv /\ Roster!Init
    OBVIOUS
  <2>1. RosterInv /\ OrgManageable
    BY ManagersInit, HeldInit DEF Init, RosterInv, RoleMadeHere, PendingInv, Pending, ManagersInv
  <2>2. Roster!Init
    <3>1. \A o \in Org : OrgManagers(o) \subseteq {u \in User : org_memberships[o][u] # None}
      BY IdsAssumption DEF OrgManagers, Grants
    <3> QED
      BY <2>1, <3>1 DEF Roster!Init, OrgManageable, OrgManagers
  <2> QED
    BY <2>1, <2>2
<1>2. ASSUME RosterInv, [Next]_vars PROVE RosterInv' /\ [Roster!Next]_(Roster!vars)
  <2>1. CASE UNCHANGED vars
    <3>1. ManagersInv' /\ HeldInv'
      BY <1>2, <2>1, TypeStutter DEF vars, tables, local, RosterInv, ManagersInv, CapabilitiesOK,
         CountStands, At, OthersRemain, OrgManagers, Grants, HeldInv, BuiltInsLive, HeldRolesFit, RoleFits, IsProper
    <3>4. PendingInv'
      BY <1>2, <2>1, TypeStutter DEF vars, tables, RosterInv, PendingInv, Pending, RoleFits, Enrols
    <3>2. \A s \in Session : RoleMadeHere(s)'
      BY <1>2, <2>1 DEF vars, RosterInv, RoleMadeHere
    <3>3. UNCHANGED Roster!vars
      BY <2>1 DEF vars, tables, Roster!vars, OrgManagers, Grants
    <3> QED
      BY <3>1, <3>2, <3>3, <3>4 DEF RosterInv
  <2>2. ASSUME NEW s \in Session, Begin(s) \/ Step(s) \/ Abort(s)
        PROVE  RosterInv' /\ [Roster!Next]_(Roster!vars)
    <3>1. ManagersInv'
      <4>1. TablesType' /\ SessionsType'
        BY <1>2, <2>2, StepType DEF RosterInv, ManagersInv
      <4>2. CapabilitiesOK' /\ \A x \in Session : CountStands(x)'
        BY <1>2, <2>2, RolesStep, CountStandsForOthers, CountStandsForSelf DEF RosterInv
      <4> QED
        BY <4>1, <4>2 DEF ManagersInv
    <3>2. HeldInv'
      BY <1>2, <2>2, StepType, HeldStep DEF RosterInv, HeldInv
    <3>3. \A x \in Session : RoleMadeHere(x)'
      BY <1>2, <2>2, RoleMadeHereStep
    <3>4. [Roster!Next]_(Roster!vars)
      BY <1>2, <2>2, RosterStep DEF Members, Managers, Roster!vars
    <3>5. PendingInv'
      BY <1>2, <2>2, StepType, PendingStep DEF RosterInv, PendingInv
    <3> QED
      BY <3>1, <3>2, <3>3, <3>4, <3>5 DEF RosterInv
  <2> QED
    BY <1>2, <2>1, <2>2 DEF Next
<1> QED
  BY <1>1, <1>2, PTL DEF Spec, RefinesRoster, Roster!Spec

-----------------------------------------------------------------------------
(* A team loses its last admin only as the assumptions allow.              *)

TeamOthersRemain(s) == TeamManagers(req[s].team) \ {req[s].user} # {}

\* What a function that works on a team has read, locked and counted, and what
\* the cascade has locked and doomed.
TeamCountStands(s) ==
    /\ pc[s] # "idle" /\ req[s].op \in TeamOps => teams[req[s].team] # "absent"
    /\ pc[s] \in {"lock_team_org", "lock_team", "check", "write"} /\ req[s].op \in TeamOps
          => v_org_id[s] = req[s].org \/ teams[req[s].team] = "deleted"
    /\ pc[s] \in {"lock_team", "check", "write"} /\ req[s].op \in TeamOps
          => lock_holder[req[s].org] = s \/ teams[req[s].team] = "deleted"
    /\ pc[s] \in {"count", "cascade", "write"} /\ req[s].op = "remove_org_member"
          => lock_holder[req[s].org] = s
    /\ At(s, "write", {"remove_org_member"})
          => \A t \in Team, u \in User : <<t, u>> \in doomed[s] => TeamOrg[t] = req[s].org
    /\ At(s, "write", {"remove_team_member"})
          => actor_flag[s] \/ TeamOthersRemain(s) \/ teams[req[s].team] = "deleted"
    /\ At(s, "write", {"change_team_role"})
          => \/ actor_flag[s] \/ TeamOthersRemain(s) \/ teams[req[s].team] = "deleted"
             \/ Grants(req[s].role, "manage_members") \/ roles[req[s].role] = "deleted"

StrandInv == ManagersInv /\ HeldInv /\ \A s \in Session : TeamCountStands(s)

MayStrand(s) == req[s].op = "remove_org_member" \/ actor_flag[s]

\* Who takes an admin out of a team holds the lock of its org, at the write.
TeamShrinks(s, t) ==
    /\ pc[s] = "write" /\ pc'[s] = "idle" /\ lock_holder[TeamOrg[t]] = s
    /\ \/ MayStrand(s)
       \/ \E u \in User : /\ TeamManagers(t) \ {u} # {}
                          /\ TeamManagers(t) \ {u} \subseteq TeamManagers(t)'

\* A step keeps every admin of a team, or deletes it, or shrinks it so.
LEMMA TeamManagersStep ==
    ASSUME StrandInv, NEW s \in Session, Begin(s) \/ Step(s) \/ Abort(s), NEW t \in Team
    PROVE  TeamManagers(t) \subseteq TeamManagers(t)' \/ teams'[t] = "deleted" \/ TeamShrinks(s, t)
<1>0. TablesType /\ SessionsType /\ CapabilitiesOK /\ HeldRolesFit /\ TeamCountStands(s)
  BY DEF StrandInv, ManagersInv, HeldInv
<1>1. CASE UNCHANGED <<team_memberships, role_capabilities>>
  BY <1>1 DEF TeamManagers, Grants
<1>2. ASSUME UNCHANGED role_capabilities,
             \A u \in User : team_memberships[t][u] \in {None, team_memberships'[t][u]}
      PROVE  TeamManagers(t) \subseteq TeamManagers(t)'
  BY <1>2, IdsAssumption DEF TeamManagers, Grants
<1>3. CASE AddOrgMember(s)
  <2>1. CASE ~UNCHANGED tables
    <3>1. \A u \in User : team_memberships[t][u] \in {None, team_memberships'[t][u]}
      BY <1>0, <1>3, <2>1 DEF AddOrgMember, FinishUnchanged, TablesType
    <3>2. UNCHANGED role_capabilities
      BY <1>3 DEF AddOrgMember, FinishUnchanged, tables
    <3> QED
      BY <1>2, <3>1, <3>2
  <2> QED
    BY <1>1, <2>1 DEF tables
<1>11. CASE CommitOrgMember(s)
  BY <1>1, <1>11 DEF CommitOrgMember
<1>4. CASE RemoveOrgMember(s)
  <2>1. /\ pc[s] = "write" /\ pc'[s] = "idle" /\ MayStrand(s) /\ lock_holder[req[s].org] = s
    BY <1>0, <1>4 DEF RemoveOrgMember, At, Finish, MayStrand, TeamCountStands, SessionsType
  <2>2. CASE TeamOrg[t] = req[s].org
    BY <2>1, <2>2 DEF TeamShrinks
  <2>3. CASE TeamOrg[t] # req[s].org
    <3>1. \A u \in User : <<t, u>> \notin doomed[s]
      BY <1>0, <1>4, <2>3 DEF TeamCountStands, RemoveOrgMember
    <3>2. \A u \in User : team_memberships'[t][u] = team_memberships[t][u]
      BY <1>4, <3>1 DEF RemoveOrgMember
    <3> QED
      BY <1>2, <1>4, <3>2 DEF RemoveOrgMember
  <2> QED
    BY <2>2, <2>3
<1>5. CASE CreateTeam(s)
  <2>1. CASE ~UNCHANGED tables
    <3>1. /\ team_memberships' = [team_memberships EXCEPT ![req[s].team][req[s].actor] = TeamAdmin]
          /\ teams[req[s].team] = "absent" /\ UNCHANGED role_capabilities
      BY <1>5, <2>1 DEF CreateTeam, FinishUnchanged
    <3>2. CASE t = req[s].team
      <4>1. \A u \in User : team_memberships[t][u] = None
        BY <1>0, <3>1, <3>2 DEF HeldRolesFit
      <4> QED
        BY <1>2, <3>1, <4>1
    <3>3. CASE t # req[s].team
      BY <1>2, <3>1, <3>3
    <3> QED
      BY <3>2, <3>3
  <2> QED
    BY <1>1, <2>1 DEF tables
<1>6. CASE AddTeamMember(s)
  <2>1. CASE ~UNCHANGED tables
    <3>1. /\ team_memberships' = [team_memberships EXCEPT ![req[s].team][req[s].user] = req[s].role]
          /\ team_memberships[req[s].team][req[s].user] = None /\ UNCHANGED role_capabilities
      BY <1>6, <2>1 DEF AddTeamMember, FinishUnchanged
    <3> QED
      BY <1>0, <1>2, <3>1 DEF TablesType
  <2> QED
    BY <1>1, <2>1 DEF tables
<1>7. CASE RemoveTeamMember(s) \/ ChangeTeamRole(s)
  <2>1. CASE ~UNCHANGED tables
    <3>1. /\ pc[s] = "write" /\ pc'[s] = "idle" /\ req[s].op \in TeamOps
          /\ \/ req[s].op = "remove_team_member"
             \/ req[s].op = "change_team_role" /\ roles[req[s].role] = "live"
      BY <1>0, <1>7, <2>1 DEF RemoveTeamMember, ChangeTeamRole, At, Finish, FinishUnchanged, RoleFits,
         SessionsType, TeamOps
    <3>2. req[s].team \in Team /\ req[s].user \in User /\ TeamOrg[req[s].team] = req[s].org
      BY <1>0, <3>1, BusyFields
    <3>3. PICK r \in {None, req[s].role} :
            /\ team_memberships' = [team_memberships EXCEPT ![req[s].team][req[s].user] = r]
            /\ UNCHANGED <<teams, role_capabilities>>
            /\ r = None => req[s].op = "remove_team_member"
            /\ r # None => req[s].op = "change_team_role" /\ r = req[s].role
      <4>1. CASE RemoveTeamMember(s)
        BY <4>1 DEF RemoveTeamMember, At
      <4>2. CASE ChangeTeamRole(s)
        <5>1. req[s].role \in Role
          BY <1>0, <4>2, BusyFields DEF ChangeTeamRole, At
        <5> QED
          BY <2>1, <4>2, <5>1, IdsAssumption DEF ChangeTeamRole, At, FinishUnchanged
      <4> QED
        BY <1>7, <4>1, <4>2
    <3>4. CASE t # req[s].team
      BY <1>2, <3>3, <3>4
    <3>5. CASE t = req[s].team /\ teams[t] = "deleted"
      BY <3>3, <3>5
    <3>6. CASE t = req[s].team /\ teams[t] # "deleted"
      <4>1. lock_holder[TeamOrg[t]] = s
        BY <1>0, <3>1, <3>2, <3>6 DEF TeamCountStands
      <4>2. \/ actor_flag[s] \/ TeamOthersRemain(s)
            \/ req[s].op = "change_team_role" /\ Grants(req[s].role, "manage_members")
        BY <1>0, <3>1, <3>6 DEF TeamCountStands, At
      <4>3. CASE actor_flag[s]
        BY <3>1, <4>1, <4>3 DEF TeamShrinks, MayStrand
      <4>4. CASE TeamOthersRemain(s)
        <5>1. TeamManagers(t) \ {req[s].user} # {}
          BY <3>6, <4>4 DEF TeamOthersRemain
        <5>2. TeamManagers(t) \ {req[s].user} \subseteq TeamManagers(t)'
          BY <1>0, <3>2, <3>3, <3>6 DEF TeamManagers, Grants, TablesType
        <5> QED
          BY <3>1, <3>2, <4>1, <5>1, <5>2 DEF TeamShrinks
      <4>5. CASE req[s].op = "change_team_role" /\ Grants(req[s].role, "manage_members")
        <5>1. r = req[s].role
          BY <3>3, <4>5
        <5>2. \A u \in User : team_memberships'[t][u] = team_memberships[t][u]
                              \/ team_memberships'[t][u] = req[s].role
          BY <1>0, <3>2, <3>3, <3>6, <5>1 DEF TablesType
        <5> QED
          BY <3>3, <4>5, <5>2 DEF TeamManagers, Grants
      <4> QED
        BY <4>2, <4>3, <4>4, <4>5
    <3> QED
      BY <3>4, <3>5, <3>6
  <2> QED
    BY <1>1, <2>1 DEF tables
<1>8. CASE DeleteTeam(s)
  <2>1. CASE ~UNCHANGED tables
    <3>1. /\ teams' = [teams EXCEPT ![req[s].team] = "deleted"]
          /\ team_memberships' = [team_memberships EXCEPT ![req[s].team] = [u \in User |-> None]]
          /\ UNCHANGED role_capabilities
      BY <1>8, <2>1 DEF DeleteTeam, FinishUnchanged
    <3>2. CASE t = req[s].team
      BY <1>0, <3>1, <3>2 DEF TablesType
    <3>3. CASE t # req[s].team
      BY <1>2, <3>1, <3>3
    <3> QED
      BY <3>2, <3>3
  <2> QED
    BY <1>1, <2>1 DEF tables
<1>9. CASE InsertRoleCapabilities(s)
  <2>1. CASE ~UNCHANGED tables
    <3>1. /\ role_capabilities' = [role_capabilities EXCEPT ![req[s].role] = RoleGrants[req[s].role]]
          /\ UNCHANGED team_memberships
      BY <1>9, <2>1 DEF InsertRoleCapabilities, FinishUnchanged
    <3>2. \A r \in Role : role_capabilities[r] \subseteq role_capabilities'[r]
      BY <1>0, <3>1 DEF CapabilitiesOK, TablesType
    <3> QED
      BY <3>1, <3>2 DEF TeamManagers, Grants
  <2> QED
    BY <1>1, <2>1 DEF tables
<1>10. CASE DeleteRole(s)
  <2>1. CASE ~UNCHANGED tables
    <3>1. /\ role_capabilities' = [role_capabilities EXCEPT ![req[s].role] = {}]
          /\ UNCHANGED team_memberships
          /\ ~InUse(req[s].role)
      BY <1>10, <2>1 DEF DeleteRole, FinishUnchanged
    <3>2. \A u \in User : team_memberships[t][u] # req[s].role
      BY <3>1 DEF InUse
    <3> QED
      BY <1>0, <3>1, <3>2 DEF TeamManagers, Grants, TablesType
  <2> QED
    BY <1>1, <2>1 DEF tables
<1> QED
  BY <1>1, <1>3, <1>4, <1>5, <1>6, <1>7, <1>8, <1>9, <1>10, <1>11 DEF Step, Begin, Abort,
     FinishUnchanged, FindSeat, tables, ChangeOrgRole, CascadeTeams, ReadActor, ReadTeam, InsertRole, ReadRole, LockOrg,
     CountSuperAdmins, LockTeamOrg, LockTeam, LockRole, CountHolders, CheckRemoval, CheckDemotion

\* A team that exists goes on existing until it is deleted, which is for good.
LEMMA TeamsStep ==
    ASSUME TablesType, NEW s \in Session, Begin(s) \/ Step(s) \/ Abort(s), NEW t \in Team
    PROVE  /\ teams[t] # "absent" => teams'[t] # "absent"
           /\ teams[t] = "deleted" => teams'[t] = "deleted"
<1> USE DEF TablesType
<1>1. CASE UNCHANGED teams
  BY <1>1
<1>2. CASE CreateTeam(s) \/ DeleteTeam(s)
  BY <1>1, <1>2 DEF CreateTeam, DeleteTeam, FinishUnchanged, tables
<1> QED
  BY <1>1, <1>2 DEF Step, Begin, Abort, FinishUnchanged, tables, AddOrgMember, FindSeat, CommitOrgMember,
     RemoveOrgMember, ChangeOrgRole, AddTeamMember, RemoveTeamMember, ChangeTeamRole, InsertRole, InsertRoleCapabilities,
     DeleteRole, CascadeTeams, ReadActor, ReadTeam, ReadRole, LockOrg, CountSuperAdmins, LockTeamOrg,
     LockTeam, LockRole, CountHolders, CheckRemoval, CheckDemotion

LEMMA TeamCountStandsForOthers ==
    ASSUME StrandInv, NEW s \in Session, Begin(s) \/ Step(s) \/ Abort(s),
           NEW x \in Session, x # s
    PROVE  TeamCountStands(x)'
<1>0. TablesType /\ SessionsType /\ TeamCountStands(x)
  BY DEF StrandInv, ManagersInv
<1>1. /\ pc'[x] = pc[x] /\ req'[x] = req[x] /\ actor_flag'[x] = actor_flag[x]
      /\ v_org_id'[x] = v_org_id[x] /\ doomed'[x] = doomed[x]
  BY <1>0, StepShape
<1>2. ASSUME pc[x] # "idle", lock_holder[req[x].org] = x PROVE lock_holder'[req[x].org] = x
  <2>1. req[x].org \in Key
    BY <1>0, <1>2, BusyFields DEF Key
  <2> QED
    BY <1>0, <1>2, <2>1, StepShape, IdsAssumption
<1>3. ASSUME pc[x] # "idle", req[x].op \in TeamOps
      PROVE  /\ teams[req[x].team] # "absent" => teams'[req[x].team] # "absent"
             /\ teams[req[x].team] = "deleted" => teams'[req[x].team] = "deleted"
  BY <1>0, <1>3, BusyFields, TeamsStep
<1>4. ASSUME pc[x] = "write", req[x].op \in TeamOps, TeamOthersRemain(x)
      PROVE  TeamOthersRemain(x)' \/ teams'[req[x].team] = "deleted"
  <2>1. PICK t \in Team : t = req[x].team /\ t = req'[x].team /\ TeamOrg[t] = req[x].org
    BY <1>0, <1>1, <1>4, BusyFields
  <2>2. CASE lock_holder[TeamOrg[t]] = x
    <3>1. ~TeamShrinks(s, t)
      BY <2>2 DEF TeamShrinks
    <3>2. TeamManagers(t) \subseteq TeamManagers(t)' \/ teams'[t] = "deleted"
      BY <3>1, TeamManagersStep
    <3>3. TeamManagers(t) \ {req[x].user} # {}
      BY <1>4, <2>1 DEF TeamOthersRemain
    <3> QED
      BY <1>1, <2>1, <3>2, <3>3 DEF TeamOthersRemain
  <2>3. CASE lock_holder[TeamOrg[t]] # x
    BY <1>0, <1>3, <1>4, <2>1, <2>3 DEF TeamCountStands
  <2> QED
    BY <2>2, <2>3
<1>5. ASSUME pc[x] # "idle", req[x].op = "change_team_role",
             Grants(req[x].role, "manage_members") \/ roles[req[x].role] = "deleted"
      PROVE  Grants(req[x].role, "manage_members")' \/ roles'[req[x].role] = "deleted"
  <2>1. req[x].role \in Role
    BY <1>0, <1>5, BusyFields
  <2> QED
    BY <1>1, <1>5, <2>1, RolesStep DEF Grants, StrandInv
<1> QED
  BY <1>0, <1>1, <1>2, <1>3, <1>4, <1>5 DEF TeamCountStands, At, TeamOps

LEMMA TeamCountStandsForSelf ==
    ASSUME StrandInv, NEW s \in Session, Begin(s) \/ Step(s) \/ Abort(s)
    PROVE  TeamCountStands(s)'
<1>0. TablesType /\ SessionsType /\ TeamCountStands(s)
  BY DEF StrandInv, ManagersInv
<1> USE DEF TeamCountStands, At, SessionsType
<1>1. CASE Finish(s)
  BY <1>0, <1>1 DEF Finish
<1>2. CASE Begin(s)
  <2>1. PICK r \in Requests :
          /\ req' = [req EXCEPT ![s] = r] /\ pc' = [pc EXCEPT ![s] = FirstStatement[r.op]]
          /\ r.team # None /\ r.op # "create_team" => teams[r.team] # "absent"
          /\ UNCHANGED tables
    BY <1>2 DEF Begin
  <2>2. r.op \in Ops /\ (r.op \in TeamOps => r.team \in Team)
    BY RequestFields
  <2>3. r.op \in TeamOps => teams'[r.team] # "absent"
    BY <2>1, <2>2, IdsAssumption DEF TeamOps, tables
  <2> QED
    BY <1>0, <2>1, <2>2, <2>3 DEF FirstStatement, Ops, OrgOps, TeamOps
<1>3. CASE LockOrg(s)
  <2>1. LockWanted(s) = req[s].org /\ req[s].org \in Org
    BY <1>0, <1>3, BusyFields DEF LockOrg, LockWanted
  <2>2. lock_holder'[req[s].org] = s
    BY <1>0, <1>3, <2>1, IdsAssumption DEF LockOrg, TakeLock, Key
  <2> QED
    BY <1>0, <1>3, <2>2 DEF LockOrg, Goto, OrgOps, TeamOps
<1>4. CASE CountSuperAdmins(s)
  BY <1>0, <1>1, <1>4 DEF CountSuperAdmins, FinishUnchanged, Goto, OrgOps, TeamOps
<1>5. CASE CascadeTeams(s)
  BY <1>0, <1>5 DEF CascadeTeams, Goto, OrgOps, TeamOps
<1>6. CASE ReadActor(s)
  BY <1>0, <1>1, <1>6 DEF ReadActor, FinishUnchanged, Goto, tables
<1>7. CASE ReadTeam(s)
  <2>1. req[s].team \in Team /\ TeamOrg[req[s].team] = req[s].org
    BY <1>0, <1>7, BusyFields DEF ReadTeam
  <2>2. v_org_id'[s] = req[s].org \/ teams[req[s].team] = "deleted"
    BY <1>0, <1>7, <2>1 DEF ReadTeam, TablesType
  <2> QED
    BY <1>0, <1>7, <2>2 DEF ReadTeam, Goto, tables, TeamOps
<1>8. CASE LockTeamOrg(s)
  <2>1. req[s].org \in Org /\ LockWanted(s) = v_org_id[s]
    BY <1>0, <1>8, BusyFields DEF LockTeamOrg, LockWanted
  <2>2. lock_holder'[req[s].org] = s \/ teams[req[s].team] = "deleted"
    <3>1. CASE v_org_id[s] = req[s].org
      BY <1>0, <1>8, <2>1, <3>1, IdsAssumption DEF LockTeamOrg, TakeLock, Key
    <3> QED
      BY <1>0, <1>8, <3>1 DEF LockTeamOrg
  <2> QED
    BY <1>0, <1>8, <2>2 DEF LockTeamOrg, Goto, tables, local, TeamOps
<1>9. CASE LockTeam(s)
  <2>1. lock_holder[req[s].org] = s => lock_holder'[req[s].org] = s
    <3>1. req[s].org \in Key
      BY <1>0, <1>9, BusyFields DEF LockTeam, Key
    <3> QED
      BY <1>0, <1>9, <3>1 DEF LockTeam, TakeLock
  <2> QED
    BY <1>0, <1>9, <2>1 DEF LockTeam, Goto, tables, local, TeamOps
<1>10. CASE CheckRemoval(s)
  <2>1. CASE ~FinishUnchanged(s)
    <3>1. /\ MayLose(s) /\ Goto(s, "write") /\ UNCHANGED <<tables, lock_holder, local>>
          /\ pc[s] = "check" /\ req[s].op = "remove_team_member"
      BY <1>10, <2>1 DEF CheckRemoval
    <3>2. actor_flag'[s] \/ TeamOthersRemain(s)'
      BY <3>1 DEF MayLose, TeamOthersRemain, TeamManagers, Grants, Goto, tables, local
    <3> QED
      BY <1>0, <3>1, <3>2 DEF Goto, tables, local, TeamOps
  <2> QED
    BY <1>1, <2>1 DEF FinishUnchanged
<1>11. CASE CheckDemotion(s)
  <2>1. CASE ~FinishUnchanged(s)
    <3>1. /\ Grants(req[s].role, "manage_members") \/ MayLose(s)
          /\ Goto(s, "write") /\ UNCHANGED <<tables, lock_holder, local>>
          /\ pc[s] = "check" /\ req[s].op = "change_team_role"
      BY <1>11, <2>1 DEF CheckDemotion
    <3>2. actor_flag'[s] \/ TeamOthersRemain(s)' \/ Grants(req[s].role, "manage_members")'
      BY <3>1 DEF MayLose, TeamOthersRemain, TeamManagers, Grants, Goto, tables, local
    <3> QED
      BY <1>0, <3>1, <3>2 DEF Goto, tables, local, TeamOps
  <2> QED
    BY <1>1, <2>1 DEF FinishUnchanged
<1>12. CASE ReadRole(s) \/ InsertRole(s) \/ LockRole(s) \/ CountHolders(s) \/ FindSeat(s)
  BY <1>0, <1>1, <1>12 DEF FindSeat, ReadRole, InsertRole, LockRole, CountHolders, Goto, FinishUnchanged, OrgOps,
     TeamOps
<1> QED
  BY <1>1, <1>2, <1>3, <1>4, <1>5, <1>6, <1>7, <1>8, <1>9, <1>10, <1>11, <1>12 DEF Step, Abort,
     FinishUnchanged, AddOrgMember, CommitOrgMember, RemoveOrgMember, ChangeOrgRole, CreateTeam, AddTeamMember,
     RemoveTeamMember, ChangeTeamRole, DeleteTeam, InsertRoleCapabilities, DeleteRole

LEMMA StrandInit == Init => StrandInv
<1> SUFFICES ASSUME Init PROVE StrandInv
  OBVIOUS
<1>1. \A s \in Session : TeamCountStands(s)
  BY DEF Init, TeamCountStands, At
<1> QED
  BY <1>1, ManagersInit, HeldInit DEF StrandInv

\* Whatever the sessions do at once, the step after which a team in use has no
\* admin left is one that needs none to remain: its author removes a member
\* from the whole org, or may manage the org of the team.
THEOREM TeamsAreStrandedByLeave == Spec => StrandingIsExcused
<1> DEFINE Excused == \A t \in Team : LosesLastAdmin(t) =>
             \E s \in Session : /\ pc[s] = "write" /\ pc'[s] = "idle"
                                /\ req[s].op = "remove_org_member" \/ actor_flag[s]
<1>1. ASSUME StrandInv, PendingInv, [Next]_vars PROVE StrandInv' /\ [Excused]_vars
  <2>1. CASE UNCHANGED vars
    <3>1. ManagersInv' /\ HeldInv'
      BY <1>1, <2>1, TypeStutter DEF vars, tables, local, StrandInv, ManagersInv, CapabilitiesOK,
         CountStands, At, OthersRemain, OrgManagers, Grants, HeldInv, BuiltInsLive, HeldRolesFit, RoleFits, IsProper
    <3>2. ASSUME NEW x \in Session PROVE TeamCountStands(x)'
      <4>1. TeamCountStands(x)
        BY <1>1 DEF StrandInv
      <4> QED
        BY <2>1, <4>1 DEF vars, tables, local, TeamCountStands, At, TeamOthersRemain, TeamManagers, Grants
    <3> QED
      BY <2>1, <3>1, <3>2 DEF StrandInv
  <2>2. ASSUME NEW s \in Session, Begin(s) \/ Step(s) \/ Abort(s)
        PROVE  StrandInv' /\ Excused
    <3>1. ManagersInv'
      <4>1. TablesType' /\ SessionsType'
        BY <1>1, <2>2, StepType DEF StrandInv, ManagersInv
      <4>2. CapabilitiesOK' /\ \A x \in Session : CountStands(x)'
        BY <1>1, <2>2, RolesStep, CountStandsForOthers, CountStandsForSelf DEF StrandInv
      <4> QED
        BY <4>1, <4>2 DEF ManagersInv
    <3>2. HeldInv'
      BY <1>1, <2>2, StepType, HeldStep DEF StrandInv, HeldInv
    <3>3. \A x \in Session : TeamCountStands(x)'
      BY <1>1, <2>2, TeamCountStandsForOthers, TeamCountStandsForSelf
    <3>4. Excused
      <4> SUFFICES ASSUME NEW t \in Team, LosesLastAdmin(t)
                   PROVE  pc[s] = "write" /\ pc'[s] = "idle" /\ MayStrand(s)
        BY DEF MayStrand
      <4>1. teams'[t] # "deleted" /\ TeamManagers(t) # {} /\ TeamManagers(t)' = {}
        BY DEF LosesLastAdmin
      <4>2. TeamShrinks(s, t)
        BY <1>1, <2>2, <4>1, TeamManagersStep
      <4> QED
        BY <4>1, <4>2 DEF TeamShrinks
    <3> QED
      BY <3>1, <3>2, <3>3, <3>4 DEF StrandInv
  <2> QED
    BY <1>1, <2>1, <2>2 DEF Next
<1> QED
  BY StrandInit, PendingAlways, <1>1, PTL DEF Spec, StrandingIsExcused

=============================================================================
