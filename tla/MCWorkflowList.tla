-------------------------- MODULE MCWorkflowList --------------------------
(***************************************************************************)
(* A walk over the workflows of two orgs.  The caller holds view in two      *)
(* teams and may be given manage_org; with a user's token all of that       *)
(* counts, with an API key of the first org the rows of the second pass the *)
(* filter and are denied.                                                  *)
(***************************************************************************)
EXTENDS WorkflowList

CONSTANTS t1, t2, t3, o1, o2

\* Teams t1 and t2 are of o1, t3 of o2.  Five rows of t3 in a row are more than all
\* the rounds of a page look at.
TeamOfId == [i \in Id |-> CASE i \in {1, 7} -> t1 [] i = 8 -> t2 [] OTHER -> t3]
OrgOfTeam == [t \in Team |-> IF t = t3 THEN o2 ELSE o1]

Ids == 1 .. 8
SomeIds == {1, 2, 4, 7}

\* The route's type is an int of at most 200: one row, two, none, and fewer.
SomeLimits == {-1, 0, 1, 2}
KeyIds == {2, 3, 4, 5, 6, 7}
Capabilities == {<<"view", t1>>, <<"view", t3>>, <<"manage_org", o1>>}
ViewBoth == {<<"view", t1>>, <<"view", t3>>}
OfTheSecond == {<<"view", t3>>, <<"manage_org", o1>>}

UserContext == [auth_method |-> "jwt", api_key_org |-> None, api_key_scopes |-> {}]
KeyContext  == [auth_method |-> "api_key", api_key_org |-> o1,
                api_key_scopes |-> {"workflow:read"}]
=============================================================================
