--------------------------- MODULE WorkflowList ---------------------------
(***************************************************************************)
(* GET /v1/workflows: a client walks the workflows it may view page by      *)
(* page.  A request reads the caller's capabilities in two queries; a page  *)
(* is then filled by rounds of a pre-filtered keyset query, a query for the *)
(* entities of the rows found, and one ruling per row.  Rows come and go and *)
(* the caller's capabilities change between any two queries.               *)
(*                                                                         *)
(* Ids are numbers in the order of the uuids.  One query's rows and one      *)
(* page are sets of ids, since the query sorts by id.                      *)
(***************************************************************************)
EXTENDS PolicyEngine, Integers, FiniteSets

CONSTANTS
    Id, Team, Org,            \* workflow ids, an interval of naturals
    TeamOf, OrgOf,            \* team_id of a workflow, org_id of a team
    Grant,                    \* capabilities the caller may be given and lose
    Context,                  \* how the caller authenticated
    Limits,                   \* the page sizes the client may ask for
    OVERFETCH_FACTOR, MAX_REFILL_ROUNDS,
    SeedIds, SeedGrants,      \* rows and capabilities at the start
    MaxChanges                \* bound on the changes made by others

ASSUME ListAssumption ==
    /\ Id \subseteq Nat \ {0} /\ IsFiniteSet(Id)
    /\ None \notin Nat
    /\ TeamOf \in [Id -> Team] /\ OrgOf \in [Team -> Org]
    /\ Grant \subseteq ({"view"} \X Team) \cup ({"manage_org"} \X Org)
    /\ Limits \subseteq Int /\ OVERFETCH_FACTOR \in Nat \ {0} /\ MAX_REFILL_ROUNDS \in Nat \ {0}
    /\ SeedIds \subseteq Id /\ SeedGrants \subseteq Grant /\ MaxChanges \in Nat

VARIABLES
    rows,              \* workflows that exist
    grants,            \* what the caller holds
    changes,           \* how many changes others have made
    pc,
    cursor, limit,     \* of the request; 0 for no cursor
    slice,             \* the capability slice of the request
    fetch_cursor, fetched, survivors, rounds, exhausted,  \* of the handler
    page, next_cursor, \* the last response
    collected,         \* the pages before it
    throughout,        \* rows there since the walk began
    held               \* capabilities held since the walk began

request == <<cursor, limit>>
table   == <<rows, grants, changes>>
handler == <<fetch_cursor, fetched, survivors, rounds, exhausted>>
vars    == <<table, pc, request, slice, handler, page, next_cursor, collected, throughout, held>>

-----------------------------------------------------------------------------
Greatest(S) == CHOOSE i \in S : \A j \in S : j <= i

\* The n least of a set of ids: order by id, limit n.
Least(S, n) == {i \in S : Cardinality({j \in S : j < i}) < n}

\* Mutant: the filter knows teams only.
TeamsOnlyPrefilter(caps, i) == <<"view", TeamOf[i]>> \in caps

\* The SQL predicate derived from the capability slice.
Prefilter(caps, i) ==
    \/ <<"view", TeamOf[i]>> \in caps
    \/ <<"manage_org", OrgOf[TeamOf[i]]>> \in caps

View(caps, i) ==
    Authorize([capabilities |-> caps, orgs |-> {}], "WorkflowView",
              [type |-> "Workflow", org |-> OrgOf[TeamOf[i]], holder |-> TeamOf[i]], Context)

\* Mutant: a row that passed the filter is taken as allowed.
TrustFilter(caps, i) == TRUE

Allowed(caps, i) == View(caps, i) = "Allow"

Init ==
    /\ rows = SeedIds /\ grants = SeedGrants /\ changes = 0
    /\ pc = "start"
    /\ cursor = 0 /\ limit \in Limits /\ slice = {}
    /\ fetch_cursor = 0 /\ fetched = {} /\ survivors = {} /\ rounds = 0 /\ exhausted = FALSE
    /\ page = {} /\ next_cursor = 0
    /\ collected = {}
    /\ throughout = SeedIds /\ held = SeedGrants

\* Mutant: the client's cursor is not used.
StartOver ==
    /\ pc = "start"
    /\ collected' = collected \cup page /\ page' = {}
    /\ cursor' = next_cursor /\ limit' \in Limits
    /\ slice' = {g \in grants : g[2] \in Team}
    /\ fetch_cursor' = 0 /\ fetched' = {} /\ survivors' = {} /\ rounds' = 0
    /\ exhausted' = FALSE
    /\ pc' = "read_orgs"
    /\ UNCHANGED <<table, next_cursor>>

\* Mutant: a walk's later requests keep the slice of the earlier ones.
StartCached ==
    /\ pc = "start"
    /\ collected' = collected \cup page /\ page' = {}
    /\ cursor' = next_cursor /\ limit' \in Limits
    /\ slice' = slice \cup {g \in grants : g[2] \in Team}
    /\ fetch_cursor' = next_cursor /\ fetched' = {} /\ survivors' = {} /\ rounds' = 0
    /\ exhausted' = FALSE
    /\ pc' = "read_orgs"
    /\ UNCHANGED <<table, next_cursor>>

\* A request, for the first page or with the cursor of the last one, with any
\* limit, reads the caller's team memberships.
Start ==
    /\ pc = "start"
    /\ collected' = collected \cup page /\ page' = {}
    /\ cursor' = next_cursor /\ limit' \in Limits
    /\ slice' = {g \in grants : g[2] \in Team}
    /\ fetch_cursor' = next_cursor /\ fetched' = {} /\ survivors' = {} /\ rounds' = 0
    /\ exhausted' = FALSE
    /\ pc' = "read_orgs"
    /\ UNCHANGED <<table, next_cursor>>

\* It reads his org memberships; nothing held means nothing to look for.
ReadOrgs ==
    /\ pc = "read_orgs"
    /\ slice' = slice \cup {g \in grants : g[2] \in Org}
    /\ IF slice' = {} THEN pc' = "end" /\ next_cursor' = None
       ELSE pc' = (IF limit > 0 THEN "fetch" ELSE "respond") /\ UNCHANGED next_cursor
    /\ UNCHANGED <<table, request, handler, page, collected>>

\* One round's query: the rows after the cursor that pass the filter.
Fetch ==
    /\ pc = "fetch"
    /\ LET found == Least({i \in rows : i > fetch_cursor /\ Prefilter(slice, i)},
                          limit * OVERFETCH_FACTOR)
       IN /\ fetched' = found
          /\ exhausted' = (found = {})
          /\ pc' = IF found = {} THEN "respond" ELSE "rule"
    /\ rounds' = rounds + 1
    /\ UNCHANGED <<table, request, slice, fetch_cursor, survivors, page, next_cursor, collected>>

\* Mutant: nothing caps the rounds.
MoreRounds(kept, last) == Cardinality(kept) < limit /\ ~last

AnotherRound(kept, last) ==
    Cardinality(kept) < limit /\ ~last /\ rounds < MAX_REFILL_ROUNDS

\* The entities of those rows are read and each row is ruled on.  A row that has
\* gone since has no entity, so reading its attributes is an engine error.
Rule ==
    /\ pc = "rule"
    /\ IF fetched \subseteq rows
       THEN LET kept == survivors \cup {i \in fetched : Allowed(slice, i)}
                last == Cardinality(fetched) < limit * OVERFETCH_FACTOR
            IN /\ survivors' = kept
               /\ fetch_cursor' = Greatest(fetched)
               /\ exhausted' = last
               /\ pc' = IF AnotherRound(kept, last) THEN "fetch" ELSE "respond"
       ELSE pc' = "failed" /\ UNCHANGED <<survivors, fetch_cursor, exhausted>>
    /\ UNCHANGED <<table, request, slice, fetched, rounds, page, next_cursor, collected>>

\* Mutant: the cursor of a page is its last row, or the request's if it has none.
CursorOfPage ==
    IF exhausted /\ Cardinality(survivors) <= limit THEN None
    ELSE IF survivors = {} THEN cursor ELSE Greatest(Least(survivors, limit))

NextCursor ==
    IF Cardinality(survivors) > limit THEN Greatest(Least(survivors, limit))
    ELSE IF exhausted \/ rounds = 0 THEN None
    ELSE fetch_cursor

\* Below zero any page is overfull, and an empty one has no last row to take a
\* cursor from.
Respond ==
    /\ pc = "respond"
    /\ page' = Least(survivors, limit)
    /\ IF limit < 0
       THEN pc' = "failed" /\ UNCHANGED next_cursor
       ELSE /\ next_cursor' = NextCursor
            /\ pc' = IF NextCursor = None THEN "end" ELSE "start"
    /\ UNCHANGED <<table, request, slice, handler, collected>>

Change ==
    /\ changes < MaxChanges /\ pc \notin {"end", "failed"}
    /\ changes' = changes + 1
    /\ \/ \E i \in Id \ rows : rows' = rows \cup {i} /\ UNCHANGED grants
       \/ \E i \in rows : rows' = rows \ {i} /\ UNCHANGED grants
       \/ \E g \in Grant \ grants : grants' = grants \cup {g} /\ UNCHANGED rows
       \/ \E g \in grants : grants' = grants \ {g} /\ UNCHANGED rows
    /\ UNCHANGED <<pc, request, slice, handler, page, next_cursor, collected>>

Page == Start \/ ReadOrgs \/ Fetch \/ Rule \/ Respond

Next ==
    /\ Page \/ Change
    /\ throughout' = throughout \cap rows' /\ held' = held \cap grants'

Spec == Init /\ [][Next]_vars

\* The event loop goes on with a request, and the client with its walk.
FairSpec == Spec /\ WF_vars(Page /\ Next)

-----------------------------------------------------------------------------
(* Properties.                                                             *)

\* The walk's sets are of ids, its cursors are ids.
ListTypeOK ==
    /\ rows \subseteq Id /\ grants \subseteq Grant /\ changes \in 0 .. MaxChanges
    /\ pc \in {"start", "read_orgs", "fetch", "rule", "respond", "end", "failed"}
    /\ cursor \in Nat /\ limit \in Limits
    /\ fetch_cursor \in Nat /\ next_cursor \in Nat \cup {None}
    /\ slice \subseteq Grant
    /\ fetched \subseteq Id /\ survivors \subseteq Id /\ page \subseteq Id
    /\ collected \subseteq Id /\ throughout \subseteq Id /\ held \subseteq Grant
    /\ rounds \in 0 .. MAX_REFILL_ROUNDS /\ exhausted \in BOOLEAN

\* "next_cursor is null only at true end-of-results": a walk that ends has
\* returned every workflow that was there from its first request to its last and
\* that capabilities held all along let the caller view, whatever rows were denied,
\* inserted or deleted, whatever else was granted or taken away meanwhile, and
\* though every request may ask for another page size.  A request for no row at
\* all ends the walk without being the end of the results.
WalkIsComplete ==
    pc = "end" /\ limit > 0 =>
        {i \in throughout : View(held, i) = "Allow"} \subseteq collected \cup page

\* Pages follow each other: no workflow is returned twice, and later pages hold
\* greater ids.
PagesAscend == \A i \in collected, j \in page : i < j

\* The engine rules on every row: what a page holds, the caller's capabilities
\* allowed him to view when the page's request began.
PagesAreAuthorized == \A i \in page : View(slice, i) = "Allow"

\* The client's walk ends: every page that is not the last moves its cursor on.
WalkEnds == <>(pc \in {"end", "failed"})

\* What is left of a walk: the ids its cursor has not passed, and the most steps the
\* request at hand can still take.
Mark == IF pc = "start" THEN next_cursor ELSE cursor

IdsAhead == Cardinality({i \in Id : i > Mark})

StepsLeft ==
    CASE pc = "start" -> 2 * MAX_REFILL_ROUNDS + 3
      [] pc = "read_orgs" -> 2 * MAX_REFILL_ROUNDS + 2
      [] pc = "fetch" -> 2 * (MAX_REFILL_ROUNDS - rounds) + 1
      [] pc = "rule" -> 2 * (MAX_REFILL_ROUNDS - rounds) + 2
      [] pc = "respond" -> 1
      [] OTHER -> 0

Shrink ==
    IF changes' = changes
    THEN IdsAhead' < IdsAhead \/ (IdsAhead' = IdsAhead /\ StepsLeft' < StepsLeft)
    ELSE IdsAhead' = IdsAhead /\ StepsLeft' = StepsLeft

\* Every step of a walk leaves less to do, and nothing anybody else does leaves
\* more: the cursor of a page is ahead of the request's, even if the page is empty
\* because all that its rounds looked at was denied.
WalkShrinks == [][Shrink]_vars

\* The rows a set of capabilities lets the caller view.
Viewable == [caps \in SUBSET Grant |-> {i \in Id : View(caps, i) = "Allow"}]

Phase ==
    CASE pc = "start" -> "idle" [] pc = "end" -> "over" [] pc = "failed" -> "failed"
      [] OTHER -> "asking"

\* The route keeps what it promises: seen from the client, each request gives him
\* rows he was allowed at a moment of that very request, moves his cursor on, and
\* leaves nothing due behind.
Walk == INSTANCE WorkflowWalk WITH
    state <- Phase,
    size <- limit,
    offers <- Viewable[slice],
    found <- survivors,
    mark <- Mark,
    delivered <- collected \cup page
RefinesWalk == Walk!Spec

\* "The missing-attribute case that triggers the hazard cannot occur in the
\* first place": no row is ruled on without its entity.
ListNeverErrors == pc # "failed"

=============================================================================
