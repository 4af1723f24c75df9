---------------------------- MODULE Publishing ----------------------------
(***************************************************************************)
(* Publishing a workflow and running it from outside: the export row that   *)
(* publishers write, the exchange of its password for a short-lived token,  *)
(* and the public execution route, whose rulings PolicyEngine makes.        *)
(*                                                                         *)
(* The exchange reads the database once and never suspends, so it is one    *)
(* step of its process.  An execution verifies its token, reads who the     *)
(* caller is and then reads the workflow: three steps, with publishers and  *)
(* the clock in between.                                                   *)
(***************************************************************************)
EXTENDS PolicyEngine, Integers, Sequences

CONSTANTS
    Workflow, Password,
    Publisher, PublisherCaps, \* who writes export rows, and with which capabilities
    Process,                  \* API processes
    Client, TrustedProxy,     \* addresses, and those of the configured proxies
    Run,                      \* executions in flight
    Credential,               \* what an execution may authenticate with
    TokenTTL,                 \* workflow_access_token_ttl_seconds
    BaseSeconds, MaxSeconds, MaxExponent, EndOfTime, MaxGuesses  \* of RateLimiter

ASSUME PublishingAssumption ==
    /\ None \notin Password \cup Workflow \cup Client
    /\ PublisherCaps \in [Publisher -> SUBSET Capability]
    /\ TrustedProxy \subseteq Client
    /\ Credential \subseteq {"none", "invalid_bearer", "bearer", "key", "invalid_key"}
    /\ TokenTTL \in Nat \ {0}

VARIABLES
    workflows,      \* ids that exist
    exports,        \* workflow_exports; the defaults stand for no row
    is_member,      \* the caller's membership in the workflows' org
    tokens,         \* access tokens issued
    now, attempts, blocked_until, wrong,  \* of RateLimiter
    unnamed,        \* whether the last step published and named no visibility
    pc, asked,      \* of each execution: next step, and what was sent
    proof,          \* the token that verified, and how long ago its password was the
                    \* workflow's own; None if none did
    org_seen,       \* whether its slice holds the membership
    row,            \* the export row it was ruled on
    was_password    \* the last moment each password was a published workflow's

limiter == <<now, attempts, blocked_until, wrong>>
run     == <<pc, asked, proof, org_seen, row>>
vars    == <<workflows, exports, is_member, tokens, limiter, unnamed, run, was_password>>

Limiter == INSTANCE RateLimiter WITH Key <- Process \X Workflow \X Client

ASSUME PublishingLimiterAssumption == Limiter!LimiterAssumption

\* An export row that is not there reads as these defaults.
NoExport == [is_exported |-> FALSE, visibility |-> "public", password_hash |-> None]

Never == -1

Init ==
    /\ workflows = Workflow
    /\ exports = [w \in Workflow |-> NoExport]
    /\ is_member \in BOOLEAN
    /\ tokens = {}
    /\ Limiter!Init
    /\ unnamed = FALSE
    /\ pc = [r \in Run |-> "new"]
    /\ asked = [r \in Run |-> None]
    /\ proof = [r \in Run |-> None]
    /\ org_seen = [r \in Run |-> FALSE]
    /\ row = [r \in Run |-> NoExport]
    /\ was_password = [w \in Workflow |-> [p \in Password |-> Never]]

-----------------------------------------------------------------------------
(* Publishers, behind requires().                                          *)

May(p, a) == CapPolicy[a] \in PublisherCaps[p]

\* Mutant: the upsert sends the whole row.
PublishWholeRow(p, w, visibility) ==
    /\ May(p, "WorkflowExport") /\ w \in workflows
    /\ exports' = [exports EXCEPT ![w] = [NoExport EXCEPT !.is_exported = TRUE,
            !.visibility = IF visibility = None THEN "public" ELSE visibility]]

\* The body's visibility defaults to "public" and is always written.
Publish(p, w, visibility) ==
    /\ May(p, "WorkflowExport") /\ w \in workflows
    /\ exports' = [exports EXCEPT ![w].is_exported = TRUE,
            ![w].visibility = IF visibility = None THEN "public" ELSE visibility]

Unpublish(p, w) ==
    /\ May(p, "WorkflowExport") /\ w \in workflows
    /\ exports' = [exports EXCEPT ![w].is_exported = FALSE]

\* An absent password clears the protection.
Protect(p, w, password) ==
    /\ May(p, "WorkflowProtectExport") /\ w \in workflows
    /\ exports' = [exports EXCEPT ![w].password_hash = password]

\* Mutant: nothing cascades to the export row.
DeleteNoCascade(p, w) ==
    /\ May(p, "WorkflowDelete") /\ w \in workflows
    /\ workflows' = workflows \ {w}
    /\ UNCHANGED exports

\* The export row goes with its workflow.
DeleteWorkflow(p, w) ==
    /\ May(p, "WorkflowDelete") /\ w \in workflows
    /\ workflows' = workflows \ {w}
    /\ exports' = [exports EXCEPT ![w] = NoExport]

Govern ==
    /\ \E p \in Publisher, w \in Workflow :
        \/ DeleteWorkflow(p, w) /\ unnamed' = FALSE
        \/ /\ UNCHANGED workflows
           /\ \/ \E v \in {None, "public", "org_only"} : Publish(p, w, v) /\ unnamed' = (v = None)
              \/ unnamed' = FALSE /\ Unpublish(p, w)
              \/ unnamed' = FALSE /\ \E password \in Password \cup {None} : Protect(p, w, password)
    /\ UNCHANGED <<is_member, tokens, limiter, run>>

JoinOrLeave ==
    /\ is_member' = ~is_member
    /\ UNCHANGED <<workflows, exports, tokens, limiter, run>>

-----------------------------------------------------------------------------
(* The exchange of a password for a token.                                 *)

\* A proxy's word for whom it speaks is taken, and nobody else's; who connected
\* is the client otherwise.  The word is any client's name: a proxy that appends
\* to the header passes on, in front, what its visitor put there.
ClientIp(peer, forwarded) ==
    IF peer \in TrustedProxy /\ forwarded # None THEN forwarded ELSE peer

IsPassword(w, password) == exports[w].is_exported /\ exports[w].password_hash = password

Token(w, password) == [workflow |-> w, exp |-> now + TokenTTL, password |-> password]

\* Mutant: nobody asks the limiter.
ExchangeUnlimited(k, password) ==
    LET w == k[2] IN
    /\ \/ /\ IsPassword(w, password)
          /\ tokens' = tokens \cup {Token(w, password)}
          /\ Limiter!RecordSuccess(k)
       \/ /\ ~IsPassword(w, password)
          /\ Limiter!RecordFailure(k)
          /\ UNCHANGED tokens
    /\ UNCHANGED <<workflows, exports, is_member, now, run>>

\* One request on process k[1] for workflow k[2] from client k[3]: 429, a token,
\* or a 403 that does not say whether there was a password to guess.
Exchange(k, password) ==
    LET w == k[2] IN
    /\ Limiter!Pass(k)
    /\ \/ /\ IsPassword(w, password)
          /\ tokens' = tokens \cup {Token(w, password)}
          /\ Limiter!RecordSuccess(k)
       \/ /\ ~IsPassword(w, password)
          /\ Limiter!RecordFailure(k)
          /\ UNCHANGED tokens
    /\ UNCHANGED <<workflows, exports, is_member, now, run>>

Tick ==
    /\ Limiter!Tick
    /\ UNCHANGED <<workflows, exports, is_member, tokens, run>>

-----------------------------------------------------------------------------
(* An execution.                                                           *)

\* Mutant: the token's expiry is not looked at.
VerifiesForever(token, w) == token # None /\ token.workflow = w

\* A token is for one workflow and dies when its exp is reached.
Verifies(token, w) == token # None /\ token.workflow = w /\ now < token.exp

\* An invalid Bearer header is a 401; an invalid key falls through.
Begin(r, w, credential, token) ==
    /\ pc[r] = "new"
    /\ asked' = [asked EXCEPT ![r] = [workflow |-> w, credential |-> credential]]
    /\ proof' = [proof EXCEPT ![r] =
            IF Verifies(token, w)
            THEN [token |-> token, age |-> now - was_password[w][token.password]]
            ELSE None]
    /\ pc' = [pc EXCEPT ![r] = IF credential = "invalid_bearer" THEN "401" ELSE "org_rows"]
    /\ UNCHANGED <<org_seen, row>>

\* Anonymous callers have an empty slice and no query.
ReadOrgRows(r) ==
    /\ pc[r] = "org_rows"
    /\ org_seen' = [org_seen EXCEPT ![r] = asked[r].credential \in {"bearer", "key"} /\ is_member]
    /\ pc' = [pc EXCEPT ![r] = "workflow"]
    /\ UNCHANGED <<asked, proof, row>>

\* The workflows belong to one org, here the type's own name; so does the key.
Ruling(r) ==
    LET w == asked[r].workflow
        isKey == asked[r].credential = "key"
    IN Authorize(
        [capabilities |-> {}, orgs |-> IF org_seen[r] THEN {"org"} ELSE {}],
        "WorkflowRunExported",
        [type |-> "Workflow", org |-> "org", holder |-> w,
         exported |-> exports[w].is_exported, visibility |-> exports[w].visibility,
         password_protected |-> exports[w].password_hash # None],
        [auth_method |-> IF isKey THEN "api_key" ELSE "other",
         password_verified |-> proof[r] # None,
         api_key_scopes |-> IF isKey THEN {"workflow:run"} ELSE {},
         api_key_org |-> IF isKey THEN "org" ELSE None])

\* The workflow and its export row are read, and the ruling made.
Execute(r) ==
    /\ pc[r] = "workflow"
    /\ row' = [row EXCEPT ![r] = exports[asked[r].workflow]]
    /\ pc' = [pc EXCEPT ![r] = IF asked[r].workflow \notin workflows THEN "404"
                               ELSE IF Ruling(r) = "Allow" THEN "ran" ELSE "403"]
    /\ UNCHANGED <<asked, proof, org_seen>>

Visit ==
    /\ \E r \in Run :
        \/ \E w \in Workflow, c \in Credential, token \in tokens \cup {None} : Begin(r, w, c, token)
        \/ ReadOrgRows(r)
        \/ Execute(r)
    /\ UNCHANGED <<workflows, exports, is_member, tokens, limiter>>

\* History: every moment a published workflow's password is remembered.
Remember ==
    was_password' = [w \in Workflow |-> [p \in Password |->
        IF exports'[w].is_exported /\ exports'[w].password_hash = p THEN now'
        ELSE was_password[w][p]]]

Next ==
    /\ \/ Govern
       \/ /\ \/ JoinOrLeave \/ Tick \/ Visit
             \/ \E process \in Process, w \in Workflow, password \in Password,
                   peer \in Client, forwarded \in Client \cup {None} :
                    Exchange(<<process, w, ClientIp(peer, forwarded)>>, password)
          /\ unnamed' = FALSE
    /\ Remember

Spec == Init /\ [][Next]_vars

-----------------------------------------------------------------------------
(* Properties.                                                             *)

Exports == [is_exported : BOOLEAN, visibility : {"public", "org_only"},
            password_hash : Password \cup {None}]

Tokens == [workflow : Workflow, exp : Nat, password : Password]

\* Export rows, tokens and executions have the shapes the code gives them, and a
\* workflow that is gone has no export row.
PublishingTypeOK ==
    /\ workflows \subseteq Workflow
    /\ exports \in [Workflow -> Exports]
    /\ \A w \in Workflow \ workflows : exports[w] = NoExport
    /\ tokens \subseteq Tokens
    /\ pc \in [Run -> {"new", "org_rows", "workflow", "ran", "401", "403", "404"}]
    /\ proof \in [Run -> [token : Tokens, age : Nat] \cup {None}]
    /\ org_seen \in [Run -> BOOLEAN]
    /\ row \in [Run -> Exports]

\* A run from outside was of a published workflow; if that was protected, its
\* caller held a token for it bought with a password that was the workflow's own
\* less than the token's lifetime before he presented it, so a changed password
\* or a withdrawn publication outlives no more than that; if it was for the org
\* only, the caller was read as a member, which one with an invalid key is not:
\* he falls through to what anybody may run.
RunsAreEntitled ==
    \A r \in Run : pc[r] = "ran" =>
        /\ row[r].is_exported
        /\ row[r].password_hash # None =>
              /\ proof[r] # None
              /\ proof[r].token.workflow = asked[r].workflow
              /\ proof[r].age < TokenTTL
        /\ row[r].visibility = "org_only" =>
              org_seen[r] /\ asked[r].credential \in {"bearer", "key"}

\* Publication and protection are written apart, each by an upsert that knows
\* nothing of the other's columns: while a workflow exists, no step that publishes
\* or unpublishes it changes its password, and none that changes its password
\* changes whether and to whom it is published.
PasswordIsKept ==
    [][\A w \in workflows' : exports'[w].password_hash # exports[w].password_hash
            => /\ exports'[w].is_exported = exports[w].is_exported
               /\ exports'[w].visibility = exports[w].visibility]_vars

\* The exchange uses the limiter as the limiter means to be used.
UsesLimiter == Limiter!Spec

\* With that the guesses at a workflow's password by one client at one process are
\* spaced by the backoff, whatever publishers and other clients do meanwhile.
GuessesAreSpaced == Limiter!GuessesAreSpaced

\* And no client, whoever guessed before him under his address, is kept out longer
\* than max_seconds, or at all after the right password.
BlocksAreShort == Limiter!BlocksAreShort

\* "Any password/visibility is preserved for re-publishing".
VisibilityIsKept ==
    [][\A w \in Workflow :
        ~exports[w].is_exported /\ exports'[w].is_exported /\ unnamed'
            => exports'[w].visibility = exports[w].visibility]_vars

=============================================================================
