----------------------------- MODULE OrgRoster -----------------------------
(***************************************************************************)
(* What the membership operations promise about an organization: people    *)
(* join, leave and change role one at a time, each change happens at once,  *)
(* and nobody leaves or steps down as its last manager.                     *)
(***************************************************************************)
CONSTANTS Org, User

VARIABLES members, managers

vars == <<members, managers>>

Init ==
    /\ members \in [Org -> SUBSET User]
    /\ managers \in [Org -> SUBSET User]
    /\ \A o \in Org : managers[o] # {} /\ managers[o] \subseteq members[o]

Join(o, u) ==
    /\ u \notin members[o]
    /\ members' = [members EXCEPT ![o] = @ \cup {u}]
    /\ \/ UNCHANGED managers
       \/ managers' = [managers EXCEPT ![o] = @ \cup {u}]

\* Members of an org become managers: one who is given another role, or all
\* who hold a role whose capabilities arrive.
Promote(o, us) ==
    /\ us \subseteq members[o]
    /\ managers' = [managers EXCEPT ![o] = @ \cup us]
    /\ UNCHANGED members

StepDown(o, u) ==
    /\ managers[o] \ {u} # {}
    /\ managers' = [managers EXCEPT ![o] = @ \ {u}]
    /\ UNCHANGED members

Leave(o, u) ==
    /\ managers[o] \ {u} # {}
    /\ members' = [members EXCEPT ![o] = @ \ {u}]
    /\ managers' = [managers EXCEPT ![o] = @ \ {u}]

Next ==
    \E o \in Org :
        \/ \E u \in User : Join(o, u) \/ StepDown(o, u) \/ Leave(o, u)
        \/ \E us \in SUBSET User : Promote(o, us)

Spec == Init /\ [][Next]_vars

=============================================================================
