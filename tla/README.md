# A formal model of the authorization service

TLA+ specifications of the StackAI authorization service, the TLC runs that check
them and the TLAPS proofs about them.  The service (FastAPI, Cedar, Supabase)
decides who may do what to organizations, teams and workflows, keeps the
membership tables those decisions read, and lets outsiders run published workflows.

Line references are to the repository; `PROJECT.json` maps every definition to its lines.

## Inventory of the system

| Part | State it keeps | Operations | Interacts by |
|---|---|---|---|
| Membership tables, `supabase/migrations/` | `org_memberships`, `team_memberships`, `teams`, `roles`, `role_capabilities`; advisory locks; uncommitted deletes and inserts | four plpgsql functions that remove or demote, `delete_team`, `delete_role`, the enrolment, creator and role-check triggers | called by RPC or reached by plain inserts from the routers, each its own transaction |
| Org, team and role routes, `api/routers/{orgs,teams,roles}.py` | none beyond a request | add, remove and change members; create teams and roles; delete them | one HTTP request is several database transactions |
| Policy engine, `packages/authz-core` | none | `authorize`, `authorize_batch` over Cedar policies | pure; its slice comes from the provider |
| Request guard, `api/deps.py`, `infra/entity_provider.py`, `api/errors.py`, `infra/audit.py` | the request's slice memo, its queued audit row | authenticate, two slice queries, one resource query, two rulings, handler, response, audit write | suspends at the database; error handlers re-attach the queued row |
| API keys, `api/routers/api_keys.py`, `auth/api_key.py` | `api_keys`, `api_key_grants` | mint (two transactions), list, revoke, expire, authenticate | the guard's principal carries its scopes and org |
| Workflow routes, `api/routers/workflows.py`, `infra/prefilter.py` | `workflows` | create, list page by page, get, update, run, delete | the list derives SQL from the slice and then asks the engine per row |
| Publishing, `workflows.py`, `api/routers/public.py`, `auth/workflow_token.py` | `workflow_exports`, signed tokens | publish, unpublish, protect; exchange a password; execute | a token carries the exchange's outcome to the execution |
| Rate limiter, `public.py` | attempts and deadline per (workflow, client address), in memory of one process | check, record failure, record success | used by the exchange only; the address is the peer's, or what a trusted proxy forwards for |
| JWT verification, `auth/jwt.py` | the library's copy of the signing keys, last refetch per key id | authenticate, refetch | first in the authenticator chain; blocks its process during a fetch |
| Decision matrix, `scripts/generate_matrix.py`, `docs/DECISION_MATRIX.md` | none | every case of the policy tests, asked of the engine and printed | the engine, with a fixture's copy of the seed's grants |
| Wiring, settings, CLI, models, SQLSTATE table, other scripts | none over time | | |

**What is hard.**  Postgres runs in READ COMMITTED, so every check in a function
and every read in a router can be overtaken.  A request reads its caller's
rights in two queries and acts on a third.  A page of the list is read twice.
Tokens, keys and passwords outlive or are outlived by what they open.  Handlers
commit half of what they do.  Audit rows are written after the response.  The
`hazards` of `PROJECT.json` list each of these at its line, with the properties
that watch it.  Where the code takes the risk, no property can forbid it: a note says
what the properties bound instead, or why there is none.

## Modules

| Module | Models | Extended or used by |
|---|---|---|
| `Memberships` | tables, functions, triggers and direct inserts, one action per SQL statement | `MCMemberships`, `MembershipsProofs` |
| `OrgRoster` | the abstract promise: who belongs to an org and who manages it, each change atomic, managers never empty | `Memberships` (`RefinesRoster`) |
| `MembershipsProofs` | the theorems about `Memberships` | |
| `PolicyEngine` | the Cedar policies, the schema's attributes, the engine's verdict; constant operators | `RequestGuard`, `Publishing`, `WorkflowList` |
| `DecisionMatrix` | the rows of the published page and the question behind each, with the grants of the seed | `PolicyEngineProofs` |
| `PolicyEngineProofs` | the theorems about the policies alone | |
| `RequestGuard` | a guarded request from authentication to its audit row, requests changing each other's rights | `MCRequestGuard`, `RequestGuardProofs` |
| `RequestGuardProofs` | the theorems about `RequestGuard` | |
| `RateLimiter` | the limiter and a clock; the specification of what the exchange may do | `Publishing` (`UsesLimiter`) |
| `RateLimiterProofs` | the theorem about `RateLimiter` | instantiated by `PublishingProofs` |
| `Publishing` | export rows, exchange, tokens, public execution | `MCPublishing`, `PublishingProofs` |
| `PublishingProofs` | the theorems about `Publishing` | |
| `WorkflowList` | the paged list as a client walks it | `MCWorkflowList`, `WorkflowListProofs` |
| `WorkflowWalk` | the abstract promise: each request hands out rows its caller was allowed at a moment of it, moves the cursor on, and leaves nothing due behind | `WorkflowList` (`RefinesWalk`) |
| `WorkflowListProofs` | the theorems about `WorkflowList` | |
| `SigningKeys` | the provider's keys, the library's copy, the refetch per key id, the verification of one token after another | `MCSigningKeys`, `SigningKeysProofs` |
| `SigningKeysProofs` | the theorems about `SigningKeys` | |

### Memberships

A *session* is one request.  Its `pc` names the next statement; `FirstStatement`
gives the first one of each operation.  A statement that reads shared rows or
takes an advisory lock is a step.  The last write and the commit are one step
(`Finish` releases the locks, as `pg_advisory_xact_lock` does), so writes appear at
once.  There are two exceptions.  The rows the cascade of `remove_org_member` deletes are
gone for nobody until the commit: they are in `doomed`, and an insert of such a row waits
(`Doomed`), as it does in Postgres on the unique index.  And the enrolment trigger of an
insert into `org_memberships` does nothing on conflict, without locking the seat it found:
for somebody who has a seat in the default team, `FindSeat` looks and `CommitOrgMember`
commits later, at the label `commit`; meanwhile an insert of the same row and a deletion
of its role wait (`Enrolled`, `Assigned`), and nobody else sees the row.  Everybody else is
enrolled by `AddOrgMember` in one step.  `Abort` ends a transaction
at any statement (a failed constraint, a lost connection).  `read_actor` is the
router's own transaction before the function's: its result, `actor_flag`, may be
old when the function uses it.  Requests name roles: `Begin` resolves the name as
`_resolve_org_role_id` and `_resolve_team_role_id` do, the org's own role before a built-in
of that name, and a role cannot be created under a name the org has used.  An org's
existence and profiles are left out.

### PolicyEngine and RequestGuard

A principal is the set of its Cap entities and of its orgs; a verdict is Allow,
Deny or EngineError, and an error wins (D6).  Each of `Authenticate`, `ReadTeamRows`,
`ReadOrgRows` and `Rule` is one query or the code between two of them: `Rule` reads
the resource, rules on visibility, then on the action, and queues the audit row.
`Commit` is the one statement of a handler and `Handle` its answer; `create_api_key` and
`create_role` have two (`CommitFirst` and `CommitSecond`, `InsertFirst` and `InsertSecond`).
`committed` says whether the request has changed a row: an update or a delete that finds
none succeeds and has not (`FindsRow`).  `LoseReply` is a commit whose reply never comes: what
the client raises is nobody's to handle and becomes a 500, without the queued row.
`Fail` is an error of a statement that did nothing: 409 for what the functions refuse with
an SQLSTATE of their own (`Violates`, the table of `invariants/sqlstate.py`), 422 for
a body that names what does not exist, 500 for anything else the database raises;
`run_workflow` touches no database and cannot fail.  `RevokeNothing` is the 404
`revoke_api_key` raises itself.  Of the routes behind
authentication alone, the workflow list is `WorkflowList`'s, explain
rules for itself and is a route here, and `GET /v1/me/teams` has no
ruling to model and changes nothing.  A response carries the queued row only if it is a success or
one of the error responses that re-attach it.  A body or an id that does not parse is
refused by the framework before the guard and is left out.
The history variable `seen` holds what the tables said of the principal at each
moment since he was authenticated.  What a handler does to membership tables is one
step here.

### RateLimiter and Publishing

`RateLimiter` counts wrong guesses per key; `Publishing` instantiates it with keys
(process, workflow, client), which is how replicas share nothing.  The exchange
reads one row and never suspends, so it is one step of its process; that the row was
read, the token issued and the clock looked at in one instant is the model's, the code
taking the time of the read and of one hash.  `ClientIp` picks the client's address from
the peer and the header, in which a trusted proxy's visitor may have written any client.  An execution
verifies its token (`Begin`), reads the caller's orgs (`ReadOrgRows`) and then the
workflow with its export row (`Execute`).  Publishers act behind the guard; the gap
between their ruling and their write is `RequestGuard`'s subject and is not repeated.
Monotonic and wall clock are one clock.

### WorkflowList

A walk repeats `GET /v1/workflows` with the cursor it was given.  `Start` and
`ReadOrgs` read the slice, `Fetch` is a round's query, `Rule` the entity query and the
ruling on each row, `Respond` the page and its cursor.  Uuids are numbers in their
order.  `Change` is anybody else: a row inserted or deleted, a capability given or
taken.  Every request may ask for another page size.  The caller's credential stays
valid for the walk.

### SigningKeys

`Present` takes a token and decides on the refetch; `Refetch`, `GetSet` and `Refresh` are the
three places that fetch the key set, each of which may fail and then clears the
library's copy and refuses the token; `Decode` checks the rest.  The
authenticator is one object per process and its fetches are synchronous, so there is one
verification at a time; `Rotate` and `Tick` fall between any two steps, `Tick` only where
the code waits for the network.  What PyJWT does (a copy that lives 300 s, a second
fetch for a key id the copy lacks) is external.

## Runs

| Run | Asks | Bounds |
|---|---|---|
| `governance` | no org loses its last super-admin; default-team seats are kept; held roles fit; types; refinement of `OrgRoster` | 2 sessions, 3 users, 2 orgs, 5 roles of which one is custom and takes a built-in's name |
| `teams` | no circle of waiting sessions; default-team seats are kept; who may strand a team; every request ends | 2 sessions, 2 users, 2 teams |
| `removal_misses_insert` | violation: a removal from the org leaves a team row | 2 sessions, 3 requests |
| `revocations` | allowed means allowed at one moment; disclosed means visible | 3 requests |
| `guarded_routes` | no route errors; only the visible is disclosed; denials recorded; log true; answered changes recorded; keys confined on guarded routes; tenants apart; types | 2 requests of about 90 calls, 3 users, 3 keys of 2 orgs |
| `lost_mutation` | violation: a committed change without an audit row | a minting request and another |
| `public_runs` | who ran was entitled, with no credential, a key or an invalid one; protection and publication kept apart | 2 workflows, 1 password, 1 execution, TTL 1, clock to 1, no wrong guesses |
| `exchange` | guesses spaced; blocks short; the exchange is a client of the limiter | 1 process, 2 addresses of which one is a trusted proxy's, 3 wrong guesses each, clock to 4, cap 3 |
| `republish` | violation: republishing makes an org-only workflow public | as `public_runs` |
| `walk` | complete, ascending, authorized, ends, each step leaves less to do; refinement of `WorkflowWalk` | 8 rows, pages of -1, 0, 1 or 2, over-fetch 2, 2 rounds, 4 changes |
| `row_vanishes` | violation: a deleted row makes the list fail | page of 2, 1 change |
| `authentication` | withdrawn keys die; rotation is no outage; few fetches; types | 2 keys, interval 2, library's copy lives 5, clock to 9 |

**Why these bounds are enough for the questions.**  Every race in the functions is
of two transactions on one lock key, and its effects are on one org or team;
the second org exists to let a role or a row of the wrong org in.  Three
requests let two changes fall between the two slice queries of a third.
In `walk` five rows in a row are denied to the key, more than the four that all rounds of
a page look at, so that the cap is reached, and rows it may see lie on both sides.
A token that lives one tick, on a clock with two, is both fresh and expired.
Wrong guesses up to three reach the cap of the backoff (1, 2, 3).  In `authentication`
the library's copy outlives two intervals, as 300 s outlives 60 s, and the clock
outlives the copy; a process starts on a host of any age up to an interval.  The
counters that bound the clock, the guesses and the changes (`EndOfTime`, `MaxTime`,
`MaxGuesses`, `MaxChanges`) are guards of the model only.

**Deadlock.**  The membership runs check it.  Elsewhere requests, executions and
walks are finite in number and really stop, so their configurations switch it off.

**Fairness.**  `RequestsFinish`, in `teams`, assumes strong fairness of each session's next
statement: Postgres grants an advisory lock in queue order and runs every statement of a
live connection, and lock waits are enabled and disabled as holders come and go.
No fairness is assumed of new requests or of aborts.  `walk` assumes weak fairness
of the walk itself, a single client that asks for the next page and an event loop
that continues; changes by others need not happen.  Everything else is safety.

## What the violations show

* `removal_misses_insert` - the comment over the cascade says every team mutation takes
  the org lock first.  `add_team_member` and `create_team` insert without it.
* `lost_mutation` - `audit.py` says denials and mutations are complete.  A commit whose
  reply is lost, or an error after `create_api_key`'s first commit, drops the row.  What
  does hold is that such a change was answered 500 (`AnsweredChangesAreRecorded`).
* `republish` - the unpublish route promises that the visibility is preserved for re-publishing;
  publishing always writes one, `public` by default.
* `row_vanishes` - the README says the missing-attribute case cannot occur.  A
  row deleted between the page's two queries makes it occur, and the page is a 500.

Met while modelling, and not made runs of their own:

* A caller demoted between the router's read and the function still waives the
  last-team-admin check (`StrandingIsExcused` says "read that he was", not "is").
* `tests/integration/test_invariants_concurrent.py:85` asserts that an admin remains after a
  cascade races a removal; in the other order none does, as assumption 20 allows.
* A key with `workflow:run` alone is answered 404 by the run route, which first rules on
  `WorkflowView`; the decision matrix lists that key as allowed to run, and for the engine
  alone it is (`PublishedMatrixHolds`).  What the routes do is in `KeysStayConfined`: the read
  scope is needed for everything.
* `add_team_member` puts anybody into any team, and a cascade may miss a row, so somebody outside
  the org may have a seat in its default team.  If he is then added to the org while an
  earlier removal of his runs, the trigger finds the seat, the removal takes it, and he is a
  member without one, against assumption 3.  `DefaultSeatsAreKept` says that a member is
  without a seat in this way only.
* `GET /v1/me/teams` answers an API key with its owner's teams in every org, whatever its
  scopes (`KeysStayConfined` is about guarded routes).
* Updates and deletes of what is gone succeed, and their audit row says they were allowed
  (`MayFindNothing`).
* An editor may set `org_only` by publishing, which assumption 11 reserves to admins.
* `jwt.py:3` promises no round trip on the happy path and at most one refetch per key and
  interval; the first token of every key id and interval costs one, a key id the copy
  lacks costs another each time, and a failure costs everybody the copy (`FetchesAreFew`,
  `RotationIsNoOutage` say what does hold).
* A custom role without capabilities may be called `super_admin`: it is what the name means
  in that org from then on, and no route deletes roles.
* An invalid API key falls through to anonymous, which `auth/base.py` says must be a 401.
* `audit.py` says allowed reads are not recorded; the code leaves out the two workflow reads
  only, so viewing an org or a team is, and a listing of keys is recorded as an allowed
  `ApiKeyCreate` (`LogIsTrue` excepts it).
* Revoking a key the org has not got raises `ResourceNotVisible`, whose 404 carries the row that
  allowed the revocation.
* `limit=0` answers an empty page with a null cursor; a negative limit is a 500.
* The 1025th wrong guess in a row overflows the backoff after it was counted, and the
  deadline stops moving (`RecordFailure`; `GuessesAreSpaced` has the proviso).
* The public route may allow what was never allowed at one moment, since it reads the
  caller's orgs before the export row: `RunsAreEntitled` is stated on what was read.

## Proofs

`MembershipsProofs` proves, for any sets of orgs, users, teams, roles and sessions and any
requests, from the assumptions named in `Memberships` (ids of different tables differ;
the seed has the built-in roles, a live default team and a super-admin per org, and
enrolled members; a request's team and org agree):

| Theorem | States | Argument |
|---|---|---|
| `TypeCorrect` | `TypeOK` | typed tables and sessions, and a busy session has a request of `Requests` |
| `OrgsStayManageable` | `OrgManageable` | `ManagersInv`: a session past the count holds the org's lock, and since it counted another manager remains (`OthersRemain`); no one else can shrink the set while it holds the lock, and a role's capabilities only ever appear |
| `NoWaitingCircle` | `NoDeadlock` | `LocksInv`: a session that waits for an org lock holds none, one that waits for a team lock holds only its org's, and one with doomed rows waits for nothing; so in any set of waiters one waits for somebody outside |
| `HeldRolesStayFit` | `HeldRolesFit` | `HeldInv`: built-ins stay live, a team is deleted only with its rows, a role only unused |
| `DefaultTeamKeepsMembers` | `DefaultSeatsAreKept` | an action property: `DefaultInv`, by which a session about to remove a team row or a team knows its team's org and that the team is not the default one, and default teams are live; so of all steps (`SeatsStep`) only the write of a removal takes a seat, and only the commit of an enrolment makes a member without looking at it |
| `TeamsAreStrandedByLeave` | `StrandingIsExcused` | `StrandInv`: a team function past its read holds the lock of its team's org, or the team is gone; the cascade holds the same lock and dooms rows of that org only; so the admins one has counted stay (`TeamManagersStep`), and who empties a team did not count |
| `ImplementsRoster` | `RefinesRoster` | every step is one roster step or a stutter, from the invariants above |

`PendingInv` is below all of them: a session whose enrolment is inserted and not committed
is the only one for its row, and the role it assigns stays live.

The invariants alone are not inductive: what a session learned under a lock is
not in the tables, so each strengthening says what it still knows at each
label.  Steps are split by action, with a lemma for the sessions that do not
move and one for the one that does.

`PublishingProofs` proves, for any workflows, passwords, publishers, processes, clients,
executions, credentials and life of a token, from `PublishingAssumption` and
`PublishingLimiterAssumption`:

| Theorem | States | Argument |
|---|---|---|
| `ExchangeUsesLimiter` | `UsesLimiter` | every step is one of the limiter or leaves it alone |
| `PasswordGuessesAreSpaced`, `ClientsAreBlockedShortly` | `GuessesAreSpaced`, `BlocksAreShort` | `RateLimiterProofs` shows both of the limiter alone for any base, cap and number of guesses: the deadline of a key lies a backoff after its last wrong guess (`DeadlineStands`), and the exchange uses the limiter |
| `PublishingTypeCorrect`, `RunsStayEntitled` | `PublishingTypeOK`, `RunsAreEntitled` | `EntitledInv`: a token's password was the workflow's own no longer ago than the token lives (`TokensWereBought`), so the token an execution verified is fresh (`ProofsAreFresh`), and the engine allows a run only if no forbid applies; only a caller whose credential verified is ever read as a member (`MembersAreKnown`) |
| `PasswordStaysApart` | `PasswordIsKept` | by cases on the publisher's step |

`SigningKeysProofs` proves, for any key ids, expiry times, interval and lifespan of the
copy, from `KeysAssumption`:

| Theorem | States | Argument |
|---|---|---|
| `TypeCorrect` | `TypeOK` | by cases |
| `WithdrawnKeysDie` | `KeysAreFresh` | a key id in use is marked less than an interval before the token came, the copy is no older than any mark, since a fetch that failed left none, and the copy was true when it was made |
| `RotationIsSmooth` | `RotationIsNoOutage` | what the copy lacks is asked for again, and a steady key is in the answer |
| `FetchesStayFew` | `FetchesAreFew` | after a refetch there is a copy and no time has passed to spoil it; a steady key is in it |

`WorkflowListProofs` proves, for any rows, orgs, teams, grants, page limits, over-fetch, rounds
and changes by others:

| Theorem | States | Argument |
|---|---|---|
| `ListTypeCorrect` | `ListTypeOK` | by cases |
| `WalksAreComplete` | `WalkIsComplete` | what was held throughout is in every slice (`SliceHasHeld`), the filter passes whatever the engine allows, the rows fetched are a prefix of what is left, and so no cursor passes a row that is still awaited (`NothingIsPassed`) |
| `PagesFollow` | `PagesAscend` | `CursorsAdvance`: what was collected lies at or below the cursor, what is fetched above it |
| `PagesStayAuthorized` | `PagesAreAuthorized` | survivors were ruled on with the slice of their page |
| `WalksShrink` | `WalkShrinks` | each step leaves fewer ids ahead of the cursor or fewer steps of the page, since a page that goes on has moved its cursor, be it empty (`Moved`), and no change by others adds to either. This is the safety half of `WalkEnds` |
| `ImplementsWalk` | `RefinesWalk` | every step is one of `WorkflowWalk` or a stutter; a response is its `Deliver`, and the invariants above say that it skips nothing due |
| `FilterIsExactForTokens` | | of rows as they were read, the SQL filter passes exactly those the engine allows a caller with a token, so the second ruling bites only on keys and on rows changed since |

`RequestGuardProofs` proves, for any users, orgs, teams, roles, keys, requests in flight and
calls, from `CallAssumption` (a guarded call asks for an action its type of
resource is guarded with, and works on what that handler works on) and `TablesAssumption` (ids of teams and workflows differ, a default
team is its org's):

| Theorem | States | Argument |
|---|---|---|
| `HandlersRunOnRightsOfOneMoment` | `AllowedAtOneMoment` | each half of the slice was true at a moment the request saw (`RightsWereSeen`); what an org's resource or a super-admin is permitted rests on the org half alone (`OrgHalf`), everything else on the team half alone (`TeamHalf`), so both rulings rest on one half, and the forbids do not look at the principal's entity (`OneMoment`) |
| `NothingInvisibleIsDisclosed` | `OnlyVisibleIsDisclosed` | the same of the visibility ruling, which every such status comes after |
| `KeysAreConfined` | `KeysStayConfined` | on guarded routes: a key's grants never exceed what it was minted with (`ScopesAreMinted`), a request carries at most those, and what a handler runs on passed the three forbids twice, as a read and as itself |
| `GuardsNeverError` | `RoutesNeverError` | `GuardedFacts`: the attribute each action's policy reads is declared by its type |
| `DenialsReachTheLog`, `LogTellsTheTruth` | `DenialsAreRecorded`, `LogIsTrue` | `Accounted`: a queued row is the last ruling's, a denial has one, an allowing one is carried only by the answers named; `LogIsOver`: the log holds rows of requests that are over; `CommitNotes`: only an update or a delete may have changed nothing |
| `AnsweredChangesReachTheLog` | `AnsweredChangesAreRecorded` | `Answers`: nothing has changed before the handler, and a request that has changed something carries its allowing row to a success, or was answered 500 |
| `TenantsStayApart` | `TenantsAreApart` | an action property: what a handler writes is chosen by its call's ids (`HandlerStaysHome`), a call's ids and a cascade stay in one org, and the ruling it runs on was of a resource of that org; all other steps leave the tables alone |
| `GuardTypeCorrect` | `TypeOK` | by cases |

The invariant `GuardInv` is a conjunction over requests of what each knows (`Own`).  A
request's variables are written by its own steps and what it saw only grows, so one
lemma (`StepIsLocal`, `SameKeeps`) covers all steps of others, whatever they
do to the tables.

`PolicyEngineProofs` proves of the policies, for any principal, action, resource and context:

| Theorem | States |
|---|---|
| `MoreRightsAllowMore` | whoever holds more is allowed more: a slice that lacks rights can only deny (one that kept a right lost since may allow; `AllowedAtOneMoment` is about that) |
| `VerdictsAreLocal` | what is held in any other team or org changes no verdict |
| `StrangersOnlyRunExports`, `ExportsIgnoreCapabilities` | who holds nothing may at most run what is published to all, and nothing he could hold gets past the terms of a publication |
| `SuperAdminsAreAllowed` | everything in his org that can be asked, but the public route |
| `KeysNeverExceedTheirOwner`, `MoreScopesAllowMore`, `KeysReadAndRunAtHome` | a key is allowed part of what its owner is, more with more scopes, and with any scopes that exist no more than to read and run in its org |
| `PublishedMatrixHolds` | every row of `docs/DECISION_MATRIX.md`, with the grants of the seed migration for those of the fixture it was generated with |

These are about constant operators, so they need no invariant, and what they rest on is what
`Authorize` means (`AllowedMeans`).

Only model-checked: liveness (`RequestsFinish`, `WalkEnds`), which is out of the prover's
reach.  `NoDeadlock` and `WalkShrinks`, the safety facts that each of the two rests on, are
proved.  How fast the limiter's backoff grows is a fact about powers of two by induction; the
theorems about it need only that it stays at or below the cap.

## Not modelled

Secrets, hashes and signatures are model values: that a wrong one does not verify is assumed.
So is Cedar itself, beyond permit, forbid and the error rule.  New orgs, deleted orgs
and deleted profiles come from outside the program; a cascade from a profile
could remove a last super-admin, and no function would see it.  Field validation,
wiring, the CLI and scripts have no behaviour over time that the modules need.

## Plan

1. A composition of `Memberships` behind `RequestGuard`'s ruling, so that a function
   runs on a ruling older than its transaction.
2. The remaining hazard without a property, the refetch map that only grows (`jwt.py:98`).
