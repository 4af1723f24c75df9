---------------------------- MODULE SigningKeys ----------------------------
(***************************************************************************)
(* How one process of the API finds the key that verifies a bearer token:   *)
(* the JWKS the identity provider publishes, the copy PyJWKClient keeps of  *)
(* it, and the authenticator's own refetch, once per key id and interval.   *)
(*                                                                         *)
(* The authenticator is one object per process and blocks its event loop,   *)
(* so the process verifies one token at a time.  The provider rotates its   *)
(* keys, and fails to answer, between any two steps and during a fetch.     *)
(***************************************************************************)
EXTENDS Integers

CONSTANTS
    Kid,       \* key ids, as token headers name them
    Exp,       \* expiry times tokens may have
    None,      \* no copy
    Interval,  \* _REFETCH_INTERVAL_SECONDS
    Lifespan,  \* how long PyJWKClient serves its copy
    MaxTime    \* bound on the clock

ASSUME KeysAssumption ==
    /\ Interval \in Nat \ {0} /\ Lifespan \in Nat /\ MaxTime \in Nat
    /\ Interval <= MaxTime /\ Exp \subseteq Nat
    /\ None \notin [keys : SUBSET Kid, at : Nat]

\* genuine: signed by the key its header names, for our audience, with a subject.
Token == [kid : Kid, genuine : BOOLEAN, exp : Exp]

VARIABLES
    clock,           \* time.monotonic
    published,       \* keys in the provider's JWKS
    jwk_set,         \* PyJWKClient's copy and when it was made
    last_refetch,    \* _last_refetch, 0 when it has no entry
    pc,              \* where the verification is
    token, now,      \* the token and the time _maybe_refetch read
    last_published,  \* when each key was last in the JWKS
    steady,          \* the token's key has been published since it came
    fetches, failed  \* fetches made for this token; one of them failed

provider == <<clock, published, last_published>>
history  == <<steady, fetches, failed>>
vars     == <<provider, jwk_set, last_refetch, pc, token, now, history>>

Answered == {"idle", "accepted", "refused"}

-----------------------------------------------------------------------------
(* The provider and the clock.                                             *)

Stamp(keys, t) == [k \in Kid |-> IF k \in keys THEN t ELSE last_published[k]]

\* Keys are added and withdrawn; some key is always published.
Rotate ==
    /\ published' \in SUBSET Kid \ {{}}
    /\ last_published' = Stamp(published', clock)
    /\ steady' = (steady /\ token.kid \in published')
    /\ UNCHANGED <<clock, jwk_set, last_refetch, pc, token, now, fetches, failed>>

\* The copy, until its lifespan has passed.
Cached == jwk_set # None /\ clock <= jwk_set.at + Lifespan

\* A fetch takes time; the code between two fetches takes none.
Tick ==
    /\ clock < MaxTime
    /\ pc \in Answered \cup {"refetch", "refresh"} \/ (pc = "get_set" /\ ~Cached)
    /\ clock' = clock + 1
    /\ last_published' = Stamp(published, clock')
    /\ UNCHANGED <<published, jwk_set, last_refetch, pc, token, now, history>>

-----------------------------------------------------------------------------
(* Verification.                                                           *)

\* Mutant: a key id is refetched the first time it comes and never again.
DueOnce(kid) == last_refetch[kid] = 0 /\ clock >= Interval

\* An id that never came counts as refetched at 0: a host that has just booted
\* makes no refetch in its first interval.
Due(kid) == clock - last_refetch[kid] >= Interval

\* Mutant: the mark is the time the next refetch is due.
PresentAndDefer ==
    /\ pc \in Answered
    /\ \E tok \in Token :
        /\ token' = tok
        /\ steady' = (tok.kid \in published)
        /\ last_refetch' = IF Due(tok.kid) THEN [last_refetch EXCEPT ![tok.kid] = clock + Interval]
                           ELSE last_refetch
        /\ pc' = IF Due(tok.kid) THEN "refetch" ELSE "get_set"
    /\ now' = clock /\ fetches' = 0 /\ failed' = FALSE
    /\ UNCHANGED <<provider, jwk_set>>

\* authenticate reads the header's key id, and _maybe_refetch marks it before it
\* fetches.  A token without a readable header is refused and changes nothing.
Present ==
    /\ pc \in Answered
    /\ \E tok \in Token :
        /\ token' = tok
        /\ steady' = (tok.kid \in published)
        /\ last_refetch' = IF Due(tok.kid) THEN [last_refetch EXCEPT ![tok.kid] = clock]
                           ELSE last_refetch
        /\ pc' = IF Due(tok.kid) THEN "refetch" ELSE "get_set"
    /\ now' = clock /\ fetches' = 0 /\ failed' = FALSE
    /\ UNCHANGED <<provider, jwk_set>>

\* Mutant: what a fetch returns is not kept.
FetchAndForget(next) ==
    /\ fetches' = fetches + 1
    /\ \/ pc' = next /\ UNCHANGED <<jwk_set, failed>>
       \/ jwk_set' = None /\ failed' = TRUE /\ pc' = "refused"
    /\ UNCHANGED <<provider, last_refetch, token, now, steady>>

\* fetch_data: the answer replaces the copy; no answer clears it and is an error,
\* which authenticate turns into a 401.
Fetch(next) ==
    /\ fetches' = fetches + 1
    /\ \/ /\ jwk_set' = [keys |-> published, at |-> clock]
          /\ pc' = next
          /\ UNCHANGED failed
       \/ jwk_set' = None /\ failed' = TRUE /\ pc' = "refused"
    /\ UNCHANGED <<provider, last_refetch, token, now, steady>>

\* _maybe_refetch's fetch: its result is used only through the copy.
Refetch == pc = "refetch" /\ Fetch("get_set")

Match(keys, otherwise) == IF token.kid \in keys THEN "decode" ELSE otherwise

\* get_signing_key_from_jwt looks in the copy, which it makes if there is none.
GetSet ==
    /\ pc = "get_set"
    /\ \/ /\ Cached
          /\ pc' = Match(jwk_set.keys, "refresh")
          /\ UNCHANGED <<provider, jwk_set, last_refetch, token, now, history>>
       \/ ~Cached /\ Fetch(Match(published, "refresh"))

\* Mutant: the copy has the last word on which keys exist.
RefreshNot ==
    /\ pc = "refresh" /\ pc' = "refused"
    /\ UNCHANGED <<provider, jwk_set, last_refetch, token, now, history>>

\* A key id that is not in the copy is looked for in a new one, every time.
Refresh == pc = "refresh" /\ Fetch(Match(published, "refused"))

Decode ==
    /\ pc = "decode"
    /\ pc' = IF token.genuine /\ clock < token.exp THEN "accepted" ELSE "refused"
    /\ UNCHANGED <<provider, jwk_set, last_refetch, token, now, history>>

-----------------------------------------------------------------------------
\* The process starts at any age of its host, with no copy.  A key that never
\* was published counts as withdrawn before any time that matters.
Init ==
    /\ clock \in 0 .. Interval
    /\ published \in SUBSET Kid \ {{}}
    /\ last_published = [k \in Kid |-> IF k \in published THEN clock ELSE -Interval]
    /\ jwk_set = None
    /\ last_refetch = [k \in Kid |-> 0]
    /\ pc = "idle" /\ token \in Token /\ now = 0
    /\ steady = FALSE /\ fetches = 0 /\ failed = FALSE

Next == Rotate \/ Tick \/ Present \/ Refetch \/ GetSet \/ Refresh \/ Decode

Spec == Init /\ [][Next]_vars

-----------------------------------------------------------------------------
(* What must hold.                                                         *)

\* Every variable holds what its Python attribute may hold; no mark and no copy
\* is dated after the bound on the clock.
TypeOK ==
    /\ clock \in 0 .. MaxTime
    /\ published \in SUBSET Kid
    /\ jwk_set \in [keys : SUBSET Kid, at : 0 .. MaxTime] \cup {None}
    /\ last_refetch \in [Kid -> 0 .. MaxTime]
    /\ pc \in Answered \cup {"refetch", "get_set", "refresh", "decode"}
    /\ token \in Token
    /\ now \in 0 .. MaxTime
    /\ last_published \in [Kid -> Int]
    /\ steady \in BOOLEAN /\ fetches \in Nat /\ failed \in BOOLEAN

\* A key the provider has withdrawn verifies no token presented an interval
\* later, however long the library would keep its copy and whatever fetches
\* failed: the refetch per key id (jwt.py, _maybe_refetch) is what bounds it.
KeysAreFresh == pc = "accepted" => last_published[token.kid] > now - Interval

\* "Key rotation does not cause an outage": a good token of a key that stayed
\* published is refused only if the provider failed to answer this very request.
\* No earlier failure, no cached copy and no spent refetch can refuse it.
RotationIsNoOutage ==
    pc = "refused" /\ token.genuine /\ clock < token.exp /\ steady => failed

\* A token costs at most one fetch if its key is published while it is verified
\* and at most two if not: the refetch, the missing copy and the miss in the copy
\* each have a fetch of their own, and never all three happen.
FetchesAreFew == fetches <= (IF steady THEN 1 ELSE 2)

=============================================================================
