---------------------------- MODULE WorkflowWalk ----------------------------
(***************************************************************************)
(* What GET /v1/workflows promises a client who follows its cursors: every  *)
(* request hands out workflows he was allowed to view at a moment of that   *)
(* request, moves the cursor on, and leaves nothing behind it that was      *)
(* there and his to view all along.  How a page comes about, its slice,     *)
(* filter, rounds and rulings, is not said.                                *)
(***************************************************************************)
EXTENDS Integers, FiniteSets

CONSTANTS Id, Grant,
          Viewable      \* the workflows a set of capabilities lets the caller view

VARIABLES
    rows, grants,       \* workflows that exist, capabilities the caller holds
    throughout, held,   \* those of them that were there since the walk began
    state,              \* of the walk
    size,               \* the page size of the last request
    offers,             \* what the caller was allowed to view at a moment of it
    found,              \* what was there too
    mark,               \* the cursor the client holds
    delivered           \* what he has been given

tables == <<rows, grants, throughout, held>>
vars   == <<tables, state, size, offers, found, mark, delivered>>

\* What a walk owes the client.
Due == throughout \cap Viewable[held]

Init ==
    /\ rows \subseteq Id /\ grants \subseteq Grant
    /\ throughout = rows /\ held = grants
    /\ state = "idle" /\ size \in Int /\ offers = {} /\ found = {}
    /\ mark = 0 /\ delivered = {}

Begin ==
    /\ state = "idle" /\ state' = "asking"
    /\ size' \in Int /\ offers' \subseteq Viewable[grants] /\ found' = {}
    /\ UNCHANGED <<tables, mark, delivered>>

\* Capabilities are read in more than one step.
Learn ==
    /\ state = "asking"
    /\ UNCHANGED <<tables, state, size, found, mark, delivered>>
    /\ offers \subseteq offers' /\ offers' \subseteq offers \cup Viewable[grants]

Find ==
    /\ state = "asking"
    /\ UNCHANGED <<tables, state, size, mark, delivered, offers>>
    /\ found \subseteq found' /\ found' \subseteq found \cup (offers \cap rows)

\* A page: no more than was asked for, and nothing at or before the cursor.
HandOut(S) ==
    /\ S # {} => Cardinality(S) <= size
    /\ \A i \in S : mark < i
    /\ delivered' = delivered \cup S
    /\ UNCHANGED <<tables, size, found, offers>>

\* The cursor moves on, over nothing that is due and not delivered.
Deliver ==
    /\ state = "asking" /\ state' = "idle"
    /\ mark' \in Id /\ mark < mark'
    /\ \E S \in SUBSET found : HandOut(S) /\ \A i \in S : i <= mark'
    /\ \A i \in Due : i <= mark' => i \in delivered'

\* A walk is over when nothing due is missing, or when no row was asked for.
Finish ==
    /\ state = "asking" /\ state' = "over" /\ UNCHANGED mark
    /\ \E S \in SUBSET found : HandOut(S)
    /\ size > 0 => Due \subseteq delivered'

Fail ==
    /\ state = "asking" /\ state' = "failed"
    /\ UNCHANGED <<tables, size, found, mark, delivered, offers>>

\* What others do, a row or a capability at a time.
Change ==
    /\ \/ \E i \in Id : rows' \in {rows \cup {i}, rows \ {i}} /\ UNCHANGED grants
       \/ \E g \in Grant : grants' \in {grants \cup {g}, grants \ {g}} /\ UNCHANGED rows
    /\ throughout' = throughout \cap rows' /\ held' = held \cap grants'
    /\ UNCHANGED <<state, size, found, mark, delivered, offers>>

Next == Begin \/ Learn \/ Find \/ Deliver \/ Finish \/ Fail \/ Change

Spec == Init /\ [][Next]_vars

=============================================================================
