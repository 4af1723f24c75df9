------------------------ MODULE WorkflowListProofs ------------------------
(***************************************************************************)
(* Proofs about WorkflowList, for any workflows, teams, orgs, capabilities, *)
(* page sizes, overfetch and round cap, and any number of changes between   *)
(* two queries.                                                            *)
(***************************************************************************)
EXTENDS WorkflowList, FiniteSetTheorems, TLAPS

-----------------------------------------------------------------------------
(* Least and Greatest.                                                     *)

Below(S, i) == {j \in S : j < i}
Above(S, i) == {j \in S : j > i}

Belows(S) == {Below(S, i) : i \in S}
Aboves(S) == {Above(S, i) : i \in S}

\* The subsets of a finite set hold a minimal one.
LEMMA HasMinimal ==
    \A S, F : IsFiniteSet(S) /\ F \subseteq SUBSET S /\ F # {}
        => \E U \in F : \A V \in F : ~(V \subseteq U /\ V # U)
<1> SUFFICES ASSUME NEW S, IsFiniteSet(S), NEW F, F \subseteq SUBSET S, F # {}
             PROVE  \E U \in F : \A V \in F : ~(V \subseteq U /\ V # U)
  OBVIOUS
<1>1. IsWellFoundedOn(StrictSubsetOrdering(S), SUBSET S)
  BY FS_StrictSubsetOrderingWellFounded, FS_FiniteSubsetsOfFinite
<1>2. \E U \in F : \A V \in F : <<V, U>> \notin StrictSubsetOrdering(S)
  BY <1>1, WFMin
<1> QED
  BY <1>2 DEF StrictSubsetOrdering

LEMMA HasLeast ==
    ASSUME NEW S, S \subseteq Nat, IsFiniteSet(S), S # {}
    PROVE  \E i \in S : \A j \in S : i <= j
<1>1. Belows(S) \subseteq SUBSET S /\ Belows(S) # {}
  BY DEF Below, Belows
<1>2. PICK i \in S : \A j \in S : ~(Below(S, j) \subseteq Below(S, i) /\ Below(S, j) # Below(S, i))
  <2>1. PICK U \in Belows(S) : \A V \in Belows(S) : ~(V \subseteq U /\ V # U)
    BY <1>1, HasMinimal
  <2>2. PICK i \in S : U = Below(S, i)
    BY DEF Belows
  <2> QED
    BY <2>1, <2>2 DEF Belows
<1>3. S \subseteq Nat
  OBVIOUS
<1>4. ASSUME NEW j \in S, j < i
      PROVE  FALSE
  <2>1. i \in Nat /\ j \in Nat /\ \A k \in S : k \in Nat
    BY <1>3
  <2>2. Below(S, j) \subseteq Below(S, i) /\ j \in Below(S, i) /\ j \notin Below(S, j)
    <3>1. ~(j < j) /\ \A k \in S : k < j => k < i
      BY <1>4, <2>1
    <3> QED
      BY <1>4, <3>1 DEF Below
  <2> QED
    BY <1>2, <2>2
<1> QED
  BY <1>3, <1>4

LEMMA HasGreatest ==
    ASSUME NEW S, S \subseteq Nat, IsFiniteSet(S), S # {}
    PROVE  Greatest(S) \in S /\ \A j \in S : j <= Greatest(S)
<1>1. Aboves(S) \subseteq SUBSET S /\ Aboves(S) # {}
  BY DEF Above, Aboves
<1>2. PICK i \in S : \A j \in S : ~(Above(S, j) \subseteq Above(S, i) /\ Above(S, j) # Above(S, i))
  <2>1. PICK U \in Aboves(S) : \A V \in Aboves(S) : ~(V \subseteq U /\ V # U)
    BY <1>1, HasMinimal
  <2>2. PICK i \in S : U = Above(S, i)
    BY DEF Aboves
  <2> QED
    BY <2>1, <2>2 DEF Aboves
<1>3. S \subseteq Nat
  OBVIOUS
<1>4. ASSUME NEW j \in S, j > i
      PROVE  FALSE
  <2>1. i \in Nat /\ j \in Nat /\ \A k \in S : k \in Nat
    BY <1>3
  <2>2. Above(S, j) \subseteq Above(S, i) /\ j \in Above(S, i) /\ j \notin Above(S, j)
    <3>1. ~(j > j) /\ \A k \in S : k > j => k > i
      BY <1>4, <2>1
    <3> QED
      BY <1>4, <3>1 DEF Above
  <2> QED
    BY <1>2, <2>2
<1>5. \A j \in S : j <= i
  BY <1>3, <1>4
<1> QED
  BY <1>5 DEF Greatest

LEMMA BelowIsSmaller ==
    ASSUME NEW S, S \subseteq Nat, IsFiniteSet(S), NEW i \in Nat
    PROVE  /\ Cardinality(Below(S, i)) \in Nat
           /\ i \in S => Cardinality(Below(S, i)) < Cardinality(S)
           /\ \A j \in S : j < i => Cardinality(Below(S, j)) < Cardinality(Below(S, i))
<1>1. ASSUME NEW T, T \subseteq Nat, IsFiniteSet(T), NEW j \in T
      PROVE  Cardinality(Below(T, j)) < Cardinality(T)
  <2>1. Below(T, j) \subseteq T /\ Below(T, j) # T
    BY <1>1 DEF Below
  <2>2. /\ Cardinality(Below(T, j)) <= Cardinality(T)
        /\ Cardinality(Below(T, j)) # Cardinality(T)
        /\ IsFiniteSet(Below(T, j))
    BY <1>1, <2>1, FS_Subset
  <2>3. Cardinality(Below(T, j)) \in Nat /\ Cardinality(T) \in Nat
    BY <1>1, <2>2, FS_CardinalityType
  <2> QED
    BY <2>2, <2>3
<1>2. IsFiniteSet(Below(S, i)) /\ Below(S, i) \subseteq Nat
  BY FS_Subset DEF Below
<1>3. ASSUME NEW j \in S, j < i
      PROVE  Cardinality(Below(S, j)) < Cardinality(Below(S, i))
  <2>1. j \in Nat /\ \A k \in S : k \in Nat
    OBVIOUS
  <2>2. j \in Below(S, i) /\ \A k \in S : k < j => k < i
    BY <1>3, <2>1 DEF Below
  <2>3. Below(Below(S, i), j) = Below(S, j)
    BY <2>2 DEF Below
  <2> QED
    BY <1>1, <1>2, <2>2, <2>3
<1> QED
  BY <1>1, <1>2, <1>3, FS_CardinalityType

\* The n least are a set's own, all of it if there are no more than n or fewer
\* were found, some if there are any, and nothing below one of them is left out.
LEMMA LeastIsPrefix ==
    ASSUME NEW S, S \subseteq Nat, IsFiniteSet(S), NEW n \in Int
    PROVE  /\ Least(S, n) \subseteq S /\ IsFiniteSet(Least(S, n))
           /\ Cardinality(Least(S, n)) \in Nat
           /\ \A i \in Least(S, n), j \in S : j < i => j \in Least(S, n)
           /\ Cardinality(S) <= n => Least(S, n) = S
           /\ Cardinality(Least(S, n)) < n => Least(S, n) = S
           /\ n > 0 /\ S # {} => Least(S, n) # {}
<1>0. Least(S, n) = {i \in S : Cardinality(Below(S, i)) < n}
  BY DEF Least, Below
<1>1. Least(S, n) \subseteq S /\ IsFiniteSet(Least(S, n)) /\ Cardinality(Least(S, n)) \in Nat
  BY <1>0, FS_Subset, FS_CardinalityType
<1>2. \A i \in Least(S, n), j \in S : j < i => j \in Least(S, n)
  <2> SUFFICES ASSUME NEW i \in Least(S, n), NEW j \in S, j < i
               PROVE  j \in Least(S, n)
    OBVIOUS
  <2>1. /\ Cardinality(Below(S, i)) \in Nat /\ Cardinality(Below(S, j)) \in Nat
        /\ Cardinality(Below(S, j)) < Cardinality(Below(S, i))
    BY <1>1, BelowIsSmaller
  <2> QED
    BY <1>0, <2>1
<1>3. ASSUME Cardinality(S) <= n
      PROVE  Least(S, n) = S
  <2>1. \A i \in S : Cardinality(Below(S, i)) \in Nat /\ Cardinality(Below(S, i)) < Cardinality(S)
    BY BelowIsSmaller
  <2>2. Cardinality(S) \in Nat
    BY FS_CardinalityType
  <2>3. \A i \in S : Cardinality(Below(S, i)) < n
    BY <1>3, <2>1, <2>2
  <2> QED
    BY <1>0, <2>3
<1>4. ASSUME Cardinality(Least(S, n)) < n, Least(S, n) # S
      PROVE  FALSE
  <2>1. S \ Least(S, n) \subseteq Nat /\ IsFiniteSet(S \ Least(S, n)) /\ S \ Least(S, n) # {}
    BY <1>1, <1>4, FS_Subset
  <2>2. PICK i \in S \ Least(S, n) : \A j \in S \ Least(S, n) : i <= j
    BY <2>1, HasLeast
  <2>3. \A j \in S : j < i => j \in Least(S, n)
    <3>1. \A j \in S : j \in Nat
      OBVIOUS
    <3> QED
      BY <2>2, <3>1
  <2>5. Below(S, i) \subseteq Least(S, n)
    BY <2>3 DEF Below
  <2>4. Cardinality(Below(S, i)) <= Cardinality(Least(S, n)) /\ Cardinality(Below(S, i)) \in Nat
    BY <1>1, <2>5, FS_Subset, BelowIsSmaller
  <2> QED
    BY <1>0, <1>1, <1>4, <2>4
<1>5. ASSUME n > 0, S # {}
      PROVE  Least(S, n) # {}
  <2>1. PICK i \in S : \A j \in S : i <= j
    BY <1>5, HasLeast
  <2>2. Below(S, i) = {}
    <3>1. \A j \in S : j \in Nat
      OBVIOUS
    <3>2. \A j \in S : ~(j < i)
      BY <2>1, <3>1
    <3> QED
      BY <3>2 DEF Below
  <2>3. Cardinality(Below(S, i)) = 0
    BY <2>2, FS_EmptySet
  <2> QED
    BY <1>0, <1>5, <2>3
<1> QED
  BY <1>1, <1>2, <1>3, <1>4, <1>5

-----------------------------------------------------------------------------
(* The ruling and its filter.                                              *)

\* More capabilities never take a view away.
LEMMA ViewGrows ==
    ASSUME NEW caps, NEW more, caps \subseteq more, NEW i \in Id, View(caps, i) = "Allow"
    PROVE  View(more, i) = "Allow"
  BY DEF View, Authorize, Permits, HasCap, IsOrgAdmin, ForbidsExported, ForbidsKey, Errors

\* What the engine allows, the filter does not withhold.
LEMMA ViewPasses ==
    ASSUME NEW caps, NEW i \in Id, View(caps, i) = "Allow"
    PROVE  Prefilter(caps, i)
<1>1. CapPolicy["WorkflowView"] = "view"
  BY DEF CapPolicy
<1> QED
  BY <1>1 DEF View, Authorize, Permits, HasCap, IsOrgAdmin, Prefilter

\* With a user's token the filter and the engine agree on every row, so only a key
\* makes a page's rounds drop rows and come back for more.
THEOREM FilterIsExactForTokens ==
    ASSUME Context.auth_method # "api_key", NEW caps, NEW i \in Id
    PROVE  Prefilter(caps, i) <=> View(caps, i) = "Allow"
<1>1. ASSUME Prefilter(caps, i) PROVE View(caps, i) = "Allow"
  <2>1. CapPolicy["WorkflowView"] = "view" /\ "WorkflowView" \in DOMAIN CapPolicy
    BY DEF CapPolicy
  <2>2. "view" \in CapAttributes("Workflow") /\ "WorkflowView" \in OrgAdministrableActions
    BY DEF CapAttributes, OrgAdministrableActions, Action, ReadActions
  <2> QED
    BY <1>1, <2>1, <2>2 DEF View, Authorize, Permits, HasCap, IsOrgAdmin, Errors,
       ForbidsExported, ForbidsKey, Prefilter
<1> QED  BY <1>1, ViewPasses

LEMMA NothingPasses == ASSUME NEW i \in Id PROVE View({}, i) # "Allow"
  BY ViewPasses DEF Prefilter

-----------------------------------------------------------------------------
(* The invariant of a walk.                                                *)

InRequest == pc \in {"fetch", "rule", "respond"}

\* What the types leave out of where a request is.
Control ==
    /\ pc \in {"fetch", "rule"} => limit > 0
    /\ pc = "fetch" => rounds < MAX_REFILL_ROUNDS
    /\ pc = "rule" => fetched # {}
    /\ pc = "respond" => (limit > 0 <=> rounds > 0)
    /\ pc = "rule" => rounds > 0
    /\ rounds = 0 => survivors = {} /\ ~exhausted
    /\ pc = "start" => next_cursor \in Nat
    /\ pc = "read_orgs" \/ InRequest => page = {}
    /\ pc = "read_orgs" => rounds = 0

WalkTyped == ListTypeOK /\ Control

\* A request's slice has every capability held throughout, the team's first.
SliceHasHeld ==
    /\ throughout \subseteq rows /\ held \subseteq grants
    /\ pc = "read_orgs" => {g \in held : g[2] \in Team} \subseteq slice
    /\ InRequest => held \subseteq slice

\* Every row kept was ruled on.
SurvivorsAreAuthorized ==
    /\ PagesAreAuthorized
    /\ \A i \in survivors : pc # "read_orgs" => View(slice, i) = "Allow"

\* What was returned is behind the cursor, what is kept or ruled on before it.
CursorsAdvance ==
    /\ PagesAscend
    /\ pc = "read_orgs" \/ InRequest =>
          /\ \A i \in collected : i <= cursor
          /\ \A i \in survivors : cursor < i /\ i <= fetch_cursor
          /\ cursor <= fetch_cursor
    /\ pc = "rule" => \A i \in fetched : fetch_cursor < i
    /\ pc = "start" => \A i \in collected \cup page : i <= next_cursor

\* The rows a complete walk returns.
Awaited == {i \in throughout : View(held, i) = "Allow"}

\* Nothing awaited is passed over, by the client's cursor, by the handler's, by a
\* round's query or by an exhausted one.
NothingIsPassed ==
    /\ pc = "read_orgs" \/ InRequest =>
          \A i \in Awaited :
              /\ i <= cursor => i \in collected
              /\ cursor < i /\ i <= fetch_cursor => i \in survivors
    /\ pc = "rule" =>
          \A i \in Awaited : fetch_cursor < i =>
              (i <= Greatest(fetched) \/ Cardinality(fetched) < limit * OVERFETCH_FACTOR
                  => i \in fetched)
    /\ pc = "respond" /\ exhausted => \A i \in Awaited : cursor < i => i \in survivors
    /\ pc = "start" => \A i \in Awaited : i <= next_cursor => i \in collected \cup page
    /\ WalkIsComplete

WalkInv == WalkTyped /\ SliceHasHeld /\ SurvivorsAreAuthorized /\ CursorsAdvance /\ NothingIsPassed

Watch == throughout' = throughout \cap rows' /\ held' = held \cap grants'

LEMMA WalkSteps == Next => Watch /\ (Start \/ ReadOrgs \/ Fetch \/ Rule \/ Respond \/ Change)
  BY DEF Next, Page, Watch

LEMMA IdsAreFinite ==
    ASSUME NEW S, S \subseteq Id
    PROVE  S \subseteq Nat /\ IsFiniteSet(S) /\ Cardinality(S) \in Nat
<1>1. IsFiniteSet(Id) /\ Id \subseteq Nat
  BY ListAssumption DEF ListAssumption
<1>2. IsFiniteSet(S)
  BY <1>1, FS_Subset
<1> QED
  BY <1>1, <1>2, FS_CardinalityType

LEMMA BatchSize ==
    /\ limit \in Limits => limit \in Int /\ limit * OVERFETCH_FACTOR \in Int
    /\ limit \in Limits /\ limit > 0 => limit * OVERFETCH_FACTOR > 0
<1>1. \A l \in Int, o \in Nat \ {0} : l * o \in Int /\ (l > 0 => l * o > 0)
  OBVIOUS
<1>2. Limits \subseteq Int /\ OVERFETCH_FACTOR \in Nat \ {0}
  BY ListAssumption DEF ListAssumption
<1> QED
  BY <1>1, <1>2

LEMMA BoundsTyped ==
    /\ 0 \in 0 .. MaxChanges /\ 0 \in 0 .. MAX_REFILL_ROUNDS /\ 0 \in Nat
    /\ MaxChanges \in Nat /\ MAX_REFILL_ROUNDS \in Nat \ {0}
  BY ListAssumption DEF ListAssumption

\* A page that overflows has a last row, and so has the batch of a round.
LEMMA CursorTyped ==
    ASSUME WalkTyped, pc = "respond", limit >= 0
    PROVE  /\ NextCursor \in Nat \cup {None}
           /\ Cardinality(survivors) > limit =>
                 LET kept == Least(survivors, limit) IN
                 /\ limit > 0 /\ NextCursor = Greatest(kept)
                 /\ Greatest(kept) \in kept /\ \A i \in kept : i <= Greatest(kept)
<1> DEFINE kept == Least(survivors, limit)
<1>1. survivors \subseteq Nat /\ IsFiniteSet(survivors) /\ Cardinality(survivors) \in Nat
  BY IdsAreFinite DEF WalkTyped, ListTypeOK
<1>2. limit \in Int /\ rounds \in Nat
  BY BatchSize, ListAssumption DEF WalkTyped, ListTypeOK, ListAssumption
<1>3. kept \subseteq survivors /\ IsFiniteSet(kept)
  BY <1>1, <1>2, LeastIsPrefix
<1>4. ASSUME Cardinality(survivors) > limit
      PROVE  limit > 0 /\ Greatest(kept) \in kept /\ \A i \in kept : i <= Greatest(kept)
  <2>1. survivors # {}
    BY <1>1, <1>2, <1>4, FS_EmptySet
  <2>2. limit > 0
    BY <1>2, <2>1 DEF WalkTyped, Control
  <2>3. kept # {}
    BY <1>1, <1>2, <2>1, <2>2, LeastIsPrefix
  <2>4. kept \subseteq Nat
    BY <1>1, <1>3
  <2> QED
    BY <1>3, <2>2, <2>3, <2>4, HasGreatest
<1>5. fetch_cursor \in Nat
  BY DEF WalkTyped, ListTypeOK
<1> HIDE DEF kept
<1>6. CASE Cardinality(survivors) > limit
  <2>1. NextCursor = Greatest(kept)
    BY <1>6 DEF NextCursor, kept
  <2> QED
    BY <1>1, <1>3, <1>4, <1>6, <2>1 DEF kept
<1>7. CASE ~(Cardinality(survivors) > limit)
  BY <1>5, <1>7 DEF NextCursor
<1> QED
  BY <1>6, <1>7

LEMMA TypedInit == Init => WalkTyped
<1>1. Init => ListTypeOK
  <2>1. SeedIds \subseteq Id /\ SeedGrants \subseteq Grant
    BY ListAssumption DEF ListAssumption
  <2> QED
    BY <2>1, BoundsTyped DEF Init, ListTypeOK
<1>2. Init => Control
  BY DEF Init, Control, InRequest
<1> QED
  BY <1>1, <1>2 DEF WalkTyped

LEMMA WatchTyped ==
    ASSUME ListTypeOK, Watch
    PROVE  throughout' \subseteq Id /\ held' \subseteq Grant
  BY DEF ListTypeOK, Watch

LEMMA TypedStep == ASSUME WalkTyped, Next PROVE WalkTyped'
<1>0. Watch /\ throughout' \subseteq Id /\ held' \subseteq Grant
  BY WalkSteps, WatchTyped DEF WalkTyped
<1>1. CASE Start
  <2>0. next_cursor \in Nat
    BY <1>1 DEF WalkTyped, Control, Start
  <2>1. ListTypeOK'
    BY <1>0, <1>1, <2>0, BoundsTyped DEF WalkTyped, ListTypeOK, Start, table
  <2>2. Control'
    BY <1>1 DEF Control, Start, InRequest
  <2> QED
    BY <2>1, <2>2 DEF WalkTyped
<1>2. CASE ReadOrgs
  <2>1. ListTypeOK'
    BY <1>0, <1>2 DEF WalkTyped, ListTypeOK, ReadOrgs, table, request, handler
  <2>2. Control'
    BY <1>2, ListAssumption DEF WalkTyped, Control, ListTypeOK, ReadOrgs, InRequest, request, handler, ListAssumption
  <2> QED
    BY <2>1, <2>2 DEF WalkTyped
<1>3. CASE Fetch
  <2> DEFINE left == {i \in rows : i > fetch_cursor /\ Prefilter(slice, i)}
             found == Least(left, limit * OVERFETCH_FACTOR)
  <2>1. found \subseteq Id
    <3>1. left \subseteq Id
      BY DEF WalkTyped, ListTypeOK
    <3> QED
      BY <3>1 DEF Least
  <2>2. /\ fetched' = found /\ exhausted' = (found = {}) /\ rounds' = rounds + 1
        /\ pc' = IF found = {} THEN "respond" ELSE "rule"
        /\ pc = "fetch"
        /\ UNCHANGED <<table, request, slice, fetch_cursor, survivors, page, next_cursor, collected>>
    BY <1>3 DEF Fetch
  <2> HIDE DEF left, found
  <2>3. ListTypeOK'
    BY <1>0, <2>1, <2>2, ListAssumption DEF WalkTyped, ListTypeOK, Control, table, request, ListAssumption
  <2>4. Control'
    BY <2>2, ListAssumption DEF WalkTyped, ListTypeOK, Control, InRequest, request, ListAssumption
  <2> QED
    BY <2>3, <2>4 DEF WalkTyped
<1>4. CASE Rule
  <2>1. fetched \subseteq Id /\ fetched # {} /\ survivors \subseteq Id
    BY <1>4 DEF WalkTyped, ListTypeOK, Control, Rule
  <2>2. Greatest(fetched) \in Nat
    BY <2>1, IdsAreFinite, HasGreatest
  <2>3. /\ survivors' \subseteq Id /\ fetch_cursor' \in Nat /\ exhausted' \in BOOLEAN
        /\ pc' \in {"fetch", "respond", "failed"}
    <3>1. ASSUME fetched \subseteq rows
          PROVE  /\ survivors' = survivors \cup {i \in fetched : Allowed(slice, i)}
                 /\ fetch_cursor' = Greatest(fetched)
                 /\ exhausted' = (Cardinality(fetched) < limit * OVERFETCH_FACTOR)
                 /\ pc' \in {"fetch", "respond"}
      BY <1>4, <3>1 DEF Rule
    <3>2. ASSUME ~(fetched \subseteq rows)
          PROVE  UNCHANGED <<survivors, fetch_cursor, exhausted>> /\ pc' = "failed"
      BY <1>4, <3>2 DEF Rule
    <3>3. fetch_cursor \in Nat /\ exhausted \in BOOLEAN
      BY DEF WalkTyped, ListTypeOK
    <3>4. exhausted' \in BOOLEAN
      <4>1. CASE fetched \subseteq rows
        <5>1. exhausted' = TRUE \/ exhausted' = FALSE
          BY <1>4, <4>1 DEF Rule
        <5> QED
          BY <5>1
      <4>2. CASE ~(fetched \subseteq rows)
        BY <3>2, <3>3, <4>2
      <4> QED
        BY <4>1, <4>2
    <3>5. survivors' \subseteq Id
      BY <2>1, <3>1, <3>2
    <3> QED
      BY <2>2, <3>1, <3>2, <3>3, <3>4, <3>5
  <2>4. ListTypeOK'
    BY <1>0, <1>4, <2>3 DEF WalkTyped, ListTypeOK, Rule, table, request
  <2>5. rounds \in Nat /\ rounds # 0 /\ limit > 0
    BY <1>4, BoundsTyped DEF WalkTyped, ListTypeOK, Control, Rule
  <2>6. pc' = "fetch" => rounds < MAX_REFILL_ROUNDS
    BY <1>4 DEF Rule, AnotherRound
  <2>7. Control'
    BY <1>4, <2>3, <2>5, <2>6 DEF WalkTyped, Control, InRequest, Rule, request
  <2> QED
    BY <2>4, <2>7 DEF WalkTyped
<1>5. CASE Respond
  <2>1. limit >= 0 => NextCursor \in Nat \cup {None}
    BY <1>5, CursorTyped DEF Respond
  <2>2. limit \in Int
    BY BatchSize DEF WalkTyped, ListTypeOK
  <2>3. Least(survivors, limit) \subseteq Id
    BY DEF Least, WalkTyped, ListTypeOK
  <2>4. ListTypeOK'
    BY <1>0, <1>5, <2>1, <2>2, <2>3 DEF WalkTyped, ListTypeOK, Respond, table, request, handler
  <2>5. Control'
    BY <1>5, <2>1, <2>2 DEF WalkTyped, ListTypeOK, Control, InRequest, Respond, request, handler
  <2> QED
    BY <2>4, <2>5 DEF WalkTyped
<1>6. CASE Change
  <2>1. rows' \subseteq Id /\ grants' \subseteq Grant /\ changes' \in 0 .. MaxChanges
    <3>1. changes \in 0 .. MaxChanges /\ changes < MaxChanges /\ changes' = changes + 1
      BY <1>6 DEF WalkTyped, ListTypeOK, Change
    <3>2. changes' \in 0 .. MaxChanges
      BY <3>1, BoundsTyped
    <3> QED
      BY <1>6, <3>2 DEF WalkTyped, ListTypeOK, Change
  <2>2. ListTypeOK'
    BY <1>0, <1>6, <2>1 DEF WalkTyped, ListTypeOK, Change, request, handler
  <2>3. Control'
    BY <1>6 DEF WalkTyped, Control, InRequest, Change, request, handler
  <2> QED
    BY <2>2, <2>3 DEF WalkTyped
<1> QED
  BY <1>1, <1>2, <1>3, <1>4, <1>5, <1>6, WalkSteps

LEMMA WalkStutter ==
    /\ WalkTyped /\ UNCHANGED vars => WalkTyped'
    /\ WalkInv /\ UNCHANGED vars => WalkInv'
  BY DEF vars, table, request, handler, WalkInv, WalkTyped, ListTypeOK, Control, InRequest,
     SliceHasHeld, SurvivorsAreAuthorized, PagesAreAuthorized, CursorsAdvance, PagesAscend,
     NothingIsPassed, Awaited, WalkIsComplete

\* Every cursor the server hands out is the id of a row or null, and whatever page
\* sizes are asked for, the handler's sets stay sets of rows.
THEOREM ListTypeCorrect == Spec => []ListTypeOK
<1>1. WalkTyped /\ [Next]_vars => WalkTyped'
  BY TypedStep, WalkStutter
<1>2. WalkTyped => ListTypeOK
  BY DEF WalkTyped
<1> QED
  BY <1>1, <1>2, TypedInit, PTL DEF Spec

-----------------------------------------------------------------------------
(* What a page holds, and what a walk misses.                              *)

LEMMA SliceStep == ASSUME WalkInv, Next PROVE SliceHasHeld'
<1>0. Watch /\ throughout \subseteq rows /\ held \subseteq grants
  BY WalkSteps DEF WalkInv, SliceHasHeld
<1>1. throughout' \subseteq rows' /\ held' \subseteq grants' /\ held' \subseteq held
  BY <1>0 DEF Watch
<1>2. CASE Start
  BY <1>0, <1>1, <1>2 DEF Start, SliceHasHeld, InRequest, table
<1>3. CASE ReadOrgs
  <2>1. \A g \in held : g[2] \in Team \cup Org
    BY <1>0, ListAssumption DEF WalkInv, WalkTyped, ListTypeOK, ListAssumption
  <2>2. {g \in held : g[2] \in Team} \subseteq slice
    BY <1>3 DEF WalkInv, SliceHasHeld, ReadOrgs
  <2>3. held \subseteq slice'
    BY <1>0, <1>3, <2>1, <2>2 DEF ReadOrgs
  <2> QED
    BY <1>1, <1>3, <2>3 DEF ReadOrgs, SliceHasHeld, InRequest
<1>4. CASE Fetch \/ Rule \/ Respond
  <2>1. slice' = slice /\ held \subseteq slice /\ pc' # "read_orgs"
    BY <1>4 DEF Fetch, Rule, Respond, WalkInv, SliceHasHeld, InRequest
  <2> QED
    BY <1>1, <2>1 DEF SliceHasHeld
<1>5. CASE Change
  BY <1>1, <1>5 DEF Change, WalkInv, SliceHasHeld, InRequest
<1> QED
  BY <1>2, <1>3, <1>4, <1>5, WalkSteps

LEMMA AuthorizedStep == ASSUME WalkInv, Next PROVE SurvivorsAreAuthorized'
<1>1. CASE Start
  BY <1>1 DEF Start, SurvivorsAreAuthorized, PagesAreAuthorized
<1>2. CASE ReadOrgs
  <2>1. page' = {} /\ survivors' = {}
    BY <1>2 DEF ReadOrgs, handler, WalkInv, WalkTyped, Control
  <2> QED
    BY <2>1 DEF SurvivorsAreAuthorized, PagesAreAuthorized
<1>3. CASE Fetch
  BY <1>3 DEF Fetch, WalkInv, SurvivorsAreAuthorized, PagesAreAuthorized
<1>4. CASE Rule
  <2>1. \A i \in survivors' : View(slice, i) = "Allow"
    BY <1>4 DEF Rule, Allowed, WalkInv, SurvivorsAreAuthorized
  <2> QED
    BY <1>4, <2>1 DEF Rule, WalkInv, SurvivorsAreAuthorized, PagesAreAuthorized
<1>5. CASE Respond
  <2>1. page' \subseteq survivors /\ pc # "read_orgs" /\ UNCHANGED <<slice, survivors>>
    BY <1>5 DEF Respond, Least, handler
  <2> QED
    BY <2>1 DEF WalkInv, SurvivorsAreAuthorized, PagesAreAuthorized
<1>6. CASE Change
  BY <1>6 DEF Change, handler, WalkInv, SurvivorsAreAuthorized, PagesAreAuthorized
<1> QED
  BY <1>1, <1>2, <1>3, <1>4, <1>5, <1>6, WalkSteps

LEMMA CursorStep == ASSUME WalkInv, Next PROVE CursorsAdvance'
<1>0. /\ collected \subseteq Nat /\ survivors \subseteq Nat /\ fetched \subseteq Nat /\ page \subseteq Nat
      /\ cursor \in Nat /\ fetch_cursor \in Nat
  BY IdsAreFinite DEF WalkInv, WalkTyped, ListTypeOK
<1>1. CASE Start
  <2>1. next_cursor \in Nat /\ \A i \in collected \cup page : i <= next_cursor
    BY <1>1 DEF Start, WalkInv, WalkTyped, Control, CursorsAdvance
  <2> QED
    BY <1>1, <2>1 DEF Start, CursorsAdvance, PagesAscend, InRequest
<1>2. CASE ReadOrgs
  <2>1. UNCHANGED <<page, collected, survivors, fetch_cursor, cursor>> /\ pc = "read_orgs"
        /\ pc' \in {"end", "fetch", "respond"}
    BY <1>2 DEF ReadOrgs, request, handler
  <2> QED
    BY <2>1 DEF WalkInv, CursorsAdvance, PagesAscend, InRequest
<1>3. CASE Fetch
  <2>1. \A i \in fetched' : i > fetch_cursor /\ i \in rows
    BY <1>3 DEF Fetch, Least
  <2>2. \A i \in fetched' : fetch_cursor < i
    BY <1>0, <2>1 DEF WalkInv, WalkTyped, ListTypeOK
  <2>3. /\ UNCHANGED <<page, collected, survivors, fetch_cursor, cursor>> /\ pc = "fetch"
        /\ pc' \in {"respond", "rule"}
    BY <1>3 DEF Fetch, request
  <2> QED
    BY <2>2, <2>3 DEF WalkInv, CursorsAdvance, PagesAscend, InRequest
<1>4. CASE Rule
  <2>0. UNCHANGED <<page, collected, cursor>> /\ pc = "rule" /\ pc' \in {"fetch", "respond", "failed"}
    BY <1>4 DEF Rule, request
  <2>1. fetched # {} /\ Greatest(fetched) \in fetched /\ \A i \in fetched : i <= Greatest(fetched)
    BY <2>0, IdsAreFinite, HasGreatest DEF WalkInv, WalkTyped, ListTypeOK, Control
  <2>2. /\ cursor <= fetch_cursor /\ \A i \in fetched : fetch_cursor < i
        /\ \A i \in survivors : cursor < i /\ i <= fetch_cursor
        /\ \A i \in collected : i <= cursor
        /\ PagesAscend
    BY <2>0 DEF WalkInv, CursorsAdvance, InRequest
  <2>3. CASE fetched \subseteq rows
    <3>1. fetch_cursor' = Greatest(fetched) /\ survivors' \subseteq survivors \cup fetched
      BY <1>4, <2>3 DEF Rule
    <3>2. cursor <= fetch_cursor' /\ \A i \in survivors' : cursor < i /\ i <= fetch_cursor'
      <4>0. Greatest(fetched) \in Nat /\ fetch_cursor < Greatest(fetched)
        BY <1>0, <2>1, <2>2
      <4>1. fetch_cursor' \in Nat /\ fetch_cursor < fetch_cursor' /\ cursor <= fetch_cursor'
        BY <1>0, <2>2, <3>1, <4>0
      <4>2. ASSUME NEW i \in survivors
            PROVE  cursor < i /\ i <= fetch_cursor'
        BY <1>0, <2>2, <4>1
      <4>3. ASSUME NEW i \in fetched
            PROVE  cursor < i /\ i <= fetch_cursor'
        BY <1>0, <2>1, <2>2, <3>1
      <4> QED
        BY <3>1, <4>1, <4>2, <4>3
    <3> QED
      BY <2>0, <2>2, <3>2 DEF CursorsAdvance, PagesAscend
  <2>4. CASE ~(fetched \subseteq rows)
    <3>1. pc' = "failed"
      BY <1>4, <2>4 DEF Rule
    <3> QED
      BY <2>0, <2>2, <3>1 DEF CursorsAdvance, PagesAscend, InRequest
  <2> QED
    BY <2>3, <2>4
<1>5. CASE Respond
  <2>0. /\ pc = "respond" /\ page' = Least(survivors, limit) /\ UNCHANGED <<collected, cursor>>
        /\ pc' \in {"failed", "end", "start"}
        /\ pc' = "start" => limit >= 0 /\ next_cursor' = NextCursor /\ NextCursor # None
    <3>1. limit \in Int
      BY BatchSize DEF WalkInv, WalkTyped, ListTypeOK
    <3> QED
      BY <1>5, <3>1 DEF Respond, request
  <2>1. /\ cursor <= fetch_cursor
        /\ \A i \in survivors : cursor < i /\ i <= fetch_cursor
        /\ \A i \in collected : i <= cursor
    BY <2>0 DEF WalkInv, CursorsAdvance, InRequest
  <2>2. page' \subseteq survivors
    BY <2>0 DEF Least
  <2>3. PagesAscend'
    BY <1>0, <2>0, <2>1, <2>2 DEF PagesAscend
  <2>4. ASSUME pc' = "start"
        PROVE  \A i \in collected \cup page' : i <= next_cursor'
    <3>1. CASE Cardinality(survivors) > limit
      <4>1. /\ next_cursor' = Greatest(page') /\ Greatest(page') \in page'
            /\ \A i \in page' : i <= Greatest(page')
        BY <2>0, <2>4, <3>1, CursorTyped DEF WalkInv
      <4>2. next_cursor' \in Nat /\ cursor < next_cursor'
        BY <1>0, <2>1, <2>2, <4>1
      <4>3. ASSUME NEW i \in collected
            PROVE  i <= next_cursor'
        BY <1>0, <2>1, <4>2
      <4> QED
        BY <4>1, <4>3
    <3>2. CASE ~(Cardinality(survivors) > limit)
      <4>1. next_cursor' = fetch_cursor
        BY <2>0, <2>4, <3>2 DEF NextCursor
      <4> QED
        BY <1>0, <2>1, <2>2, <4>1
    <3> QED
      BY <3>1, <3>2
  <2> QED
    BY <2>0, <2>3, <2>4 DEF CursorsAdvance, InRequest
<1>6. CASE Change
  BY <1>6 DEF Change, request, handler, WalkInv, CursorsAdvance, PagesAscend, InRequest
<1> QED
  BY <1>1, <1>2, <1>3, <1>4, <1>5, <1>6, WalkSteps

\* What is still awaited was awaited before.
LEMMA AwaitedShrinks ==
    ASSUME WalkInv, Next
    PROVE  Awaited' \subseteq Awaited /\ Awaited \subseteq throughout /\ Awaited \subseteq Id
<1>1. Watch /\ throughout \subseteq Id
  BY WalkSteps DEF WalkInv, WalkTyped, ListTypeOK
<1>2. ASSUME NEW i \in Awaited'
      PROVE  i \in Awaited
  <2>1. i \in throughout /\ i \in Id /\ View(held', i) = "Allow" /\ held' \subseteq held
    BY <1>1, <1>2 DEF Awaited, Watch
  <2> QED
    BY <2>1, ViewGrows DEF Awaited
<1> QED
  BY <1>1, <1>2 DEF Awaited

\* A request's slice lets through what is awaited.
LEMMA AwaitedIsAllowed ==
    ASSUME WalkInv, InRequest, NEW i \in Awaited
    PROVE  Allowed(slice, i) /\ Prefilter(slice, i) /\ i \in rows
<1>1. held \subseteq slice /\ throughout \subseteq rows /\ throughout \subseteq Id
  BY DEF WalkInv, SliceHasHeld, WalkTyped, ListTypeOK
<1>2. i \in Id /\ i \in rows /\ View(held, i) = "Allow"
  BY <1>1 DEF Awaited
<1> QED
  BY <1>1, <1>2, ViewGrows, ViewPasses DEF Allowed

LEMMA PassedStep == ASSUME WalkInv, Next PROVE NothingIsPassed'
<1>0. Awaited' \subseteq Awaited /\ Awaited \subseteq Id /\ Awaited \subseteq Nat
  BY AwaitedShrinks, IdsAreFinite
<1>00. /\ survivors \subseteq Id /\ fetched \subseteq Id /\ cursor \in Nat /\ fetch_cursor \in Nat
       /\ limit \in Int /\ limit * OVERFETCH_FACTOR \in Int
  BY BatchSize DEF WalkInv, WalkTyped, ListTypeOK
<1>1. CASE Start
  <2>1. \A i \in Awaited : i <= next_cursor => i \in collected \cup page
    BY <1>1 DEF Start, WalkInv, NothingIsPassed
  <2>2. /\ pc' = "read_orgs" /\ collected' = collected \cup page
        /\ cursor' = next_cursor /\ fetch_cursor' = next_cursor /\ next_cursor \in Nat
    BY <1>1 DEF Start, WalkInv, WalkTyped, Control
  <2>3. \A i \in Awaited' : /\ i <= cursor' => i \in collected'
                            /\ ~(cursor' < i /\ i <= fetch_cursor')
    BY <1>0, <2>1, <2>2
  <2> QED
    BY <2>2, <2>3 DEF NothingIsPassed, WalkIsComplete, InRequest
<1>2. CASE ReadOrgs
  <2>1. /\ pc = "read_orgs" /\ UNCHANGED <<cursor, limit, fetch_cursor, survivors, collected, page, exhausted>>
    BY <1>2 DEF ReadOrgs, request, handler
  <2>2. ~exhausted
    BY <2>1 DEF WalkInv, WalkTyped, Control
  <2>3. CASE slice' = {}
    <3>1. pc' = "end"
      BY <1>2, <2>3 DEF ReadOrgs
    <3>2. held \subseteq slice'
      <4>1. \A g \in held : g[2] \in Team \cup Org
        BY ListAssumption DEF WalkInv, WalkTyped, ListTypeOK, ListAssumption
      <4> QED
        BY <1>2, <2>1, <4>1 DEF ReadOrgs, WalkInv, SliceHasHeld
    <3>3. Awaited = {}
      <4>1. held = {}
        BY <2>3, <3>2
      <4> QED
        BY <1>0, <4>1, NothingPasses DEF Awaited
    <3>4. Awaited' = {}
      BY <1>0, <3>3
    <3> QED
      BY <3>1, <3>4 DEF NothingIsPassed, WalkIsComplete, InRequest, Awaited
  <2>4. CASE slice' # {}
    <3>1. pc' \in {"fetch", "respond"}
      BY <1>2, <2>4 DEF ReadOrgs
    <3> QED
      BY <1>0, <2>1, <2>2, <3>1 DEF WalkInv, NothingIsPassed, WalkIsComplete, InRequest
  <2> QED
    BY <2>3, <2>4
<1>3. CASE Fetch
  <2> DEFINE left == {i \in rows : i > fetch_cursor /\ Prefilter(slice, i)}
             size == limit * OVERFETCH_FACTOR
  <2>1. /\ pc = "fetch" /\ InRequest /\ fetched' = Least(left, size)
        /\ UNCHANGED <<cursor, limit, slice, fetch_cursor, survivors, page, collected>>
    BY <1>3 DEF Fetch, request, InRequest
  <2>0. pc' = IF fetched' = {} THEN "respond" ELSE "rule"
    BY <1>3 DEF Fetch
  <2>2. left \subseteq Id
    BY DEF WalkInv, WalkTyped, ListTypeOK
  <2>3. left \subseteq Nat /\ IsFiniteSet(left) /\ size \in Int /\ size > 0
    BY <2>1, <2>2, IdsAreFinite, BatchSize DEF WalkInv, WalkTyped, ListTypeOK, Control
  <2>4. \A i \in Awaited : fetch_cursor < i => i \in left
    <3>1. \A i \in Awaited : Prefilter(slice, i) /\ i \in rows
      BY <2>1, AwaitedIsAllowed
    <3>2. \A i \in Awaited : fetch_cursor < i => i > fetch_cursor
      BY <1>0, <1>00
    <3> QED
      BY <3>1, <3>2
  <2> HIDE DEF left, size
  <2>5. /\ fetched' \subseteq left /\ Cardinality(fetched') \in Nat
        /\ \A i \in fetched', j \in left : j < i => j \in fetched'
        /\ Cardinality(fetched') < size => fetched' = left
        /\ fetched' = {} => left = {}
    BY <2>1, <2>3, LeastIsPrefix
  <2>6. \A i \in Awaited : /\ i <= cursor => i \in collected
                           /\ (cursor < i /\ i <= fetch_cursor) => i \in survivors
    BY <2>1 DEF WalkInv, NothingIsPassed
  <2>7. CASE fetched' = {}
    <3>1. pc' = "respond"
      BY <2>0, <2>7
    <3>2. \A i \in Awaited : ~(fetch_cursor < i)
      BY <2>4, <2>5, <2>7
    <3>3. ASSUME NEW i \in Awaited, cursor < i
          PROVE  i \in survivors
      <4>1. i \in Nat /\ i <= fetch_cursor
        BY <1>0, <1>00, <3>2
      <4> QED
        BY <2>6, <3>3, <4>1
    <3>4. /\ pc' # "read_orgs" /\ pc' # "rule" /\ pc' # "start" /\ pc' # "end"
      BY <3>1
    <3>5. /\ \A i \in Awaited' : i <= cursor' => i \in collected'
          /\ \A i \in Awaited' : cursor' < i => i \in survivors'
      BY <1>0, <2>1, <2>6, <3>3
    <3> QED
      BY <3>4, <3>5 DEF NothingIsPassed, WalkIsComplete
  <2>8. CASE fetched' # {}
    <3>1. pc' = "rule"
      BY <2>0, <2>8
    <3>2. fetched' \subseteq Nat /\ Greatest(fetched') \in fetched'
      BY <2>2, <2>5, <2>8, IdsAreFinite, HasGreatest
    <3>3. ASSUME NEW i \in Awaited, fetch_cursor < i,
                 i <= Greatest(fetched') \/ Cardinality(fetched') < size
          PROVE  i \in fetched'
      <4>1. i \in left /\ i \in Nat
        BY <1>0, <2>4, <3>3
      <4>2. CASE i <= Greatest(fetched')
        <5>0. Greatest(fetched') \in Nat
          BY <3>2
        <5>1. i = Greatest(fetched') \/ i < Greatest(fetched')
          BY <4>1, <4>2, <5>0
        <5> QED
          BY <2>5, <3>2, <4>1, <5>1
      <4>3. CASE Cardinality(fetched') < size
        BY <2>5, <4>1, <4>3
      <4> QED
        BY <3>3, <4>2, <4>3
    <3>4. \A i \in Awaited' : fetch_cursor' < i =>
              (i <= Greatest(fetched') \/ Cardinality(fetched') < limit' * OVERFETCH_FACTOR
                  => i \in fetched')
      BY <1>0, <2>1, <3>3 DEF size
    <3>5. /\ \A i \in Awaited' : i <= cursor' => i \in collected'
          /\ \A i \in Awaited' : cursor' < i /\ i <= fetch_cursor' => i \in survivors'
      BY <1>0, <2>1, <2>6
    <3>6. pc' # "respond" /\ pc' # "start" /\ pc' # "end"
      BY <3>1
    <3> QED
      BY <3>4, <3>5, <3>6 DEF NothingIsPassed, WalkIsComplete
  <2> QED
    BY <2>7, <2>8
<1>4. CASE Rule
  <2>1. pc = "rule" /\ InRequest /\ UNCHANGED <<cursor, limit, page, collected>>
    BY <1>4 DEF Rule, request, InRequest
  <2>2. CASE fetched \subseteq rows
    <3>1. /\ survivors' = survivors \cup {i \in fetched : Allowed(slice, i)}
          /\ fetch_cursor' = Greatest(fetched)
          /\ exhausted' => Cardinality(fetched) < limit * OVERFETCH_FACTOR
          /\ pc' \in {"fetch", "respond"}
      BY <1>4, <2>2 DEF Rule
    <3>2. Greatest(fetched) \in Nat
      <4>1. fetched # {}
        BY <2>1 DEF WalkInv, WalkTyped, Control
      <4> QED
        BY <1>00, <4>1, IdsAreFinite, HasGreatest
    <3>3. /\ \A i \in Awaited : i <= cursor => i \in collected
          /\ \A i \in Awaited : cursor < i /\ i <= fetch_cursor => i \in survivors
          /\ \A i \in Awaited : fetch_cursor < i =>
                (i <= Greatest(fetched) \/ Cardinality(fetched) < limit * OVERFETCH_FACTOR
                    => i \in fetched)
      BY <2>1 DEF WalkInv, NothingIsPassed
    <3>4. \A i \in Awaited : i \in fetched => i \in survivors'
      BY <2>1, <3>1, AwaitedIsAllowed
    <3>5. ASSUME NEW i \in Awaited, cursor < i, i <= Greatest(fetched) \/ exhausted'
          PROVE  i \in survivors'
      <4>1. CASE i <= fetch_cursor
        BY <3>1, <3>3, <3>5, <4>1
      <4>2. CASE fetch_cursor < i
        BY <3>1, <3>3, <3>4, <3>5, <4>2
      <4> QED
        BY <1>0, <1>00, <4>1, <4>2
    <3> QED
      BY <1>0, <2>1, <3>1, <3>3, <3>5 DEF NothingIsPassed, WalkIsComplete, InRequest
  <2>3. CASE ~(fetched \subseteq rows)
    <3>1. pc' = "failed"
      BY <1>4, <2>3 DEF Rule
    <3> QED
      BY <3>1 DEF NothingIsPassed, WalkIsComplete, InRequest
  <2> QED
    BY <2>2, <2>3
<1>5. CASE Respond
  <2>1. /\ pc = "respond" /\ InRequest /\ page' = Least(survivors, limit)
        /\ UNCHANGED <<cursor, limit, collected, survivors, exhausted>>
    BY <1>5 DEF Respond, request, handler, InRequest
  <2>2. /\ \A i \in Awaited : i <= cursor => i \in collected
        /\ \A i \in Awaited : cursor < i /\ i <= fetch_cursor => i \in survivors
        /\ exhausted => \A i \in Awaited : cursor < i => i \in survivors
    BY <2>1 DEF WalkInv, NothingIsPassed
  <2>3. /\ survivors \subseteq Nat /\ IsFiniteSet(survivors) /\ Cardinality(survivors) \in Nat
        /\ page' \subseteq survivors
        /\ \A i \in page', j \in survivors : j < i => j \in page'
        /\ Cardinality(survivors) <= limit => page' = survivors
    BY <1>00, <2>1, IdsAreFinite, LeastIsPrefix
  <2>4. CASE limit < 0
    <3>1. pc' = "failed"
      BY <1>5, <2>4 DEF Respond
    <3> QED
      BY <3>1 DEF NothingIsPassed, WalkIsComplete, InRequest
  <2>5. CASE limit >= 0 /\ Cardinality(survivors) > limit
    <3>1. /\ next_cursor' = Greatest(page') /\ Greatest(page') \in page'
          /\ NextCursor = next_cursor'
      BY <1>00, <1>5, <2>1, <2>5, CursorTyped DEF Respond, WalkInv
    <3>2. next_cursor' \in Nat /\ next_cursor' \in survivors /\ next_cursor' # None
      BY <2>3, <3>1, ListAssumption DEF ListAssumption
    <3>3. pc' = "start"
      BY <1>00, <1>5, <2>5, <3>1, <3>2 DEF Respond
    <3>4. next_cursor' <= fetch_cursor
      BY <2>1, <3>2 DEF WalkInv, CursorsAdvance
    <3>5. ASSUME NEW i \in Awaited, i <= next_cursor'
          PROVE  i \in collected \cup page'
      <4>1. CASE i <= cursor
        BY <2>2, <4>1
      <4>2. CASE cursor < i
        <5>1. i \in Nat /\ i <= fetch_cursor
          BY <1>0, <1>00, <3>2, <3>4, <3>5
        <5>2. i \in survivors
          BY <2>2, <4>2, <5>1
        <5> QED
          BY <2>3, <3>1, <3>2, <3>5, <5>1, <5>2
      <4> QED
        BY <1>0, <1>00, <4>1, <4>2
    <3> QED
      BY <1>0, <2>1, <3>3, <3>5 DEF NothingIsPassed, WalkIsComplete, InRequest
  <2>6. CASE limit >= 0 /\ ~(Cardinality(survivors) > limit)
    <3>1. page' = survivors
      BY <1>00, <2>3, <2>6
    <3>2. next_cursor' = NextCursor /\ pc' = IF NextCursor = None THEN "end" ELSE "start"
      BY <1>00, <1>5, <2>6 DEF Respond
    <3>3. NextCursor = IF exhausted \/ rounds = 0 THEN None ELSE fetch_cursor
      BY <2>6 DEF NextCursor
    <3>4. CASE exhausted \/ rounds = 0
      <4>1. pc' = "end"
        BY <3>2, <3>3, <3>4
      <4>2. limit > 0 => exhausted
        BY <2>1, <3>4 DEF WalkInv, WalkTyped, Control
      <4>3. limit > 0 => \A i \in Awaited : i \in collected \cup survivors
        BY <1>0, <1>00, <2>2, <4>2
      <4> QED
        BY <1>0, <2>1, <3>1, <4>1, <4>3 DEF NothingIsPassed, WalkIsComplete, InRequest, Awaited
    <3>5. CASE ~(exhausted \/ rounds = 0)
      <4>1. next_cursor' = fetch_cursor /\ pc' = "start"
        BY <1>00, <3>2, <3>3, <3>5, ListAssumption DEF ListAssumption
      <4>2. \A i \in Awaited : i <= fetch_cursor => i \in collected \cup survivors
        BY <1>0, <1>00, <2>2
      <4> QED
        BY <1>0, <2>1, <3>1, <4>1, <4>2 DEF NothingIsPassed, WalkIsComplete, InRequest
    <3> QED
      BY <3>4, <3>5
  <2> QED
    BY <1>00, <2>4, <2>5, <2>6
<1>6. CASE Change
  <2>1. /\ pc \notin {"end", "failed"}
        /\ UNCHANGED <<pc, cursor, limit, slice, fetch_cursor, fetched, survivors, exhausted,
                       page, next_cursor, collected>>
    BY <1>6 DEF Change, request, handler
  <2> QED
    BY <1>0, <2>1 DEF WalkInv, NothingIsPassed, WalkIsComplete, InRequest
<1> QED
  BY <1>1, <1>2, <1>3, <1>4, <1>5, <1>6, WalkSteps

LEMMA WalkInvInit == Init => WalkInv
<1> SUFFICES ASSUME Init PROVE WalkInv
  OBVIOUS
<1>1. WalkTyped
  BY TypedInit
<1>2. SliceHasHeld /\ SurvivorsAreAuthorized /\ CursorsAdvance
  BY DEF Init, SliceHasHeld, SurvivorsAreAuthorized, PagesAreAuthorized, CursorsAdvance,
     PagesAscend, InRequest
<1>3. NothingIsPassed
  <2>1. \A i \in Awaited : i \in Nat /\ i # 0
    BY ListAssumption DEF Init, Awaited, ListAssumption
  <2>2. next_cursor = 0 /\ pc = "start"
    BY DEF Init
  <2>3. \A i \in Awaited : ~(i <= next_cursor)
    BY <2>1, <2>2
  <2> QED
    BY <2>2, <2>3 DEF NothingIsPassed, WalkIsComplete, InRequest
<1> QED
  BY <1>1, <1>2, <1>3 DEF WalkInv

LEMMA WalkInvHolds == Spec => []WalkInv
<1>1. WalkInv /\ [Next]_vars => WalkInv'
  <2>1. WalkInv /\ Next => WalkInv'
    BY TypedStep, SliceStep, AuthorizedStep, CursorStep, PassedStep DEF WalkInv
  <2> QED
    BY <2>1, WalkStutter
<1> QED
  BY <1>1, WalkInvInit, PTL DEF Spec

\* Whatever is changed between any two queries and whatever page sizes are asked
\* for, a walk that ends has returned every row that was there and allowed
\* throughout: for any filter factor and any cap on the rounds.
THEOREM WalksAreComplete == Spec => []WalkIsComplete
<1>1. WalkInv => WalkIsComplete
  BY DEF WalkInv, NothingIsPassed
<1> QED
  BY <1>1, WalkInvHolds, PTL

\* No row is returned twice, and every page is behind the ones after it.
THEOREM PagesFollow == Spec => []PagesAscend
<1>1. WalkInv => PagesAscend
  BY DEF WalkInv, CursorsAdvance
<1> QED
  BY <1>1, WalkInvHolds, PTL

\* Every row of a page was ruled on with the slice its request read.
THEOREM PagesStayAuthorized == Spec => []PagesAreAuthorized
<1>1. WalkInv => PagesAreAuthorized
  BY DEF WalkInv, SurvivorsAreAuthorized
<1> QED
  BY <1>1, WalkInvHolds, PTL

-----------------------------------------------------------------------------
(* A page moves the cursor on.                                             *)

\* Rounds that ended neither with a full page nor with the last row have moved the
\* handler's cursor to a row.
Moved ==
    pc = "respond" /\ rounds > 0 /\ ~exhausted => fetch_cursor \in Id /\ cursor < fetch_cursor

LEMMA MovedStep == ASSUME WalkInv, Moved, Next PROVE Moved'
<1>0. cursor \in Nat /\ fetch_cursor \in Nat /\ fetched \subseteq Id /\ fetched \subseteq Nat
  BY IdsAreFinite DEF WalkInv, WalkTyped, ListTypeOK
<1>1. CASE Start
  BY <1>1 DEF Start, Moved
<1>2. CASE ReadOrgs
  BY <1>2 DEF ReadOrgs, handler, Moved, WalkInv, WalkTyped, Control
<1>3. CASE Fetch
  BY <1>3 DEF Fetch, Moved
<1>4. CASE Rule
  <2>1. pc = "rule" /\ fetched # {} /\ UNCHANGED cursor
    BY <1>4 DEF Rule, request, WalkInv, WalkTyped, Control
  <2>2. Greatest(fetched) \in fetched
    BY <2>1, IdsAreFinite, HasGreatest DEF WalkInv, WalkTyped, ListTypeOK
  <2>3. cursor <= fetch_cursor /\ fetch_cursor < Greatest(fetched)
    BY <2>1, <2>2 DEF WalkInv, CursorsAdvance, InRequest
  <2>4. Greatest(fetched) \in Id /\ Greatest(fetched) \in Nat
    BY <1>0, <2>2
  <2>5. cursor < Greatest(fetched)
    BY <1>0, <2>3, <2>4
  <2> QED
    BY <1>4, <2>1, <2>4, <2>5 DEF Rule, Moved
<1>5. CASE Respond
  <2>1. pc' # "respond"
    BY <1>5 DEF Respond
  <2> QED
    BY <2>1 DEF Moved
<1>6. CASE Change
  BY <1>6 DEF Change, request, handler, Moved
<1> QED
  BY <1>1, <1>2, <1>3, <1>4, <1>5, <1>6, WalkSteps

LEMMA MovedHolds == Spec => [](WalkInv /\ Moved)
<1>1. Init => Moved
  BY DEF Init, Moved
<1>2. WalkInv /\ Moved /\ [Next]_vars => Moved'
  <2>1. WalkInv /\ Moved /\ UNCHANGED vars => Moved'
    BY DEF vars, request, handler, Moved
  <2> QED
    BY <2>1, MovedStep
<1> QED
  BY <1>1, <1>2, WalkInvHolds, PTL DEF Spec

\* The cursor a client is given is a row's, ahead of the one he sent.
LEMMA PageAdvances ==
    ASSUME WalkInv, Moved, Respond, pc' = "start"
    PROVE  next_cursor' \in Id /\ cursor < next_cursor'
<1>0. /\ survivors \subseteq Id /\ cursor \in Nat /\ fetch_cursor \in Nat /\ limit \in Int
      /\ rounds \in Nat
  BY BatchSize, BoundsTyped DEF WalkInv, WalkTyped, ListTypeOK
<1>1. pc = "respond" /\ limit >= 0 /\ next_cursor' = NextCursor /\ NextCursor # None
  BY <1>0 DEF Respond
<1>2. \A i \in survivors : cursor < i
  BY <1>1 DEF WalkInv, CursorsAdvance, InRequest
<1>3. CASE Cardinality(survivors) > limit
  <2>1. NextCursor \in Least(survivors, limit)
    BY <1>1, <1>3, CursorTyped DEF WalkInv
  <2>2. NextCursor \in survivors
    BY <2>1 DEF Least
  <2> QED
    BY <1>0, <1>1, <1>2, <2>2
<1>4. CASE ~(Cardinality(survivors) > limit)
  <2>1. NextCursor = fetch_cursor /\ ~exhausted /\ rounds # 0
    BY <1>1, <1>4 DEF NextCursor
  <2> QED
    BY <1>0, <1>1, <2>1 DEF Moved
<1> QED
  BY <1>3, <1>4

LEMMA FewerAhead ==
    ASSUME NEW a \in Nat, NEW b \in Id, a < b
    PROVE  Cardinality({i \in Id : i > b}) < Cardinality({i \in Id : i > a})
<1> DEFINE A == {i \in Id : i > a}
           B == {i \in Id : i > b}
<1>1. \A i \in Id : i \in Nat
  BY IdsAreFinite
<1>2. B \subseteq A /\ b \in A /\ b \notin B
  BY <1>1
<1>3. IsFiniteSet(A) /\ Cardinality(A) \in Nat /\ IsFiniteSet(B) /\ Cardinality(B) \in Nat
  BY IdsAreFinite
<1>4. B # A
  BY <1>2
<1> HIDE DEF A, B
<1>5. Cardinality(B) <= Cardinality(A) /\ Cardinality(B) # Cardinality(A)
  BY <1>2, <1>3, <1>4, FS_Subset
<1>6. Cardinality(B) < Cardinality(A)
  BY <1>3, <1>5
<1> QED
  BY <1>6 DEF A, B

LEMMA ShrinkStep == ASSUME WalkInv, Moved, Next PROVE Shrink
<1>0. /\ rounds \in Nat /\ rounds <= MAX_REFILL_ROUNDS /\ MAX_REFILL_ROUNDS \in Nat \ {0}
      /\ changes \in Nat
  BY BoundsTyped DEF WalkInv, WalkTyped, ListTypeOK
<1>1. CASE Start
  <2>1. Mark' = Mark /\ pc = "start" /\ pc' = "read_orgs" /\ UNCHANGED changes
    BY <1>1 DEF Start, Mark, table
  <2> QED
    BY <1>0, <2>1 DEF Shrink, IdsAhead, StepsLeft
<1>2. CASE ReadOrgs
  <2>1. /\ pc = "read_orgs" /\ pc' \in {"end", "fetch", "respond"}
        /\ UNCHANGED <<cursor, changes, rounds>> /\ rounds = 0
    BY <1>2 DEF ReadOrgs, request, table, handler, WalkInv, WalkTyped, Control
  <2>2. Mark' = Mark
    BY <2>1 DEF Mark
  <2> QED
    BY <1>0, <2>1, <2>2 DEF Shrink, IdsAhead, StepsLeft
<1>3. CASE Fetch
  <2>1. /\ pc = "fetch" /\ pc' \in {"respond", "rule"} /\ rounds' = rounds + 1
        /\ UNCHANGED <<cursor, changes>> /\ rounds < MAX_REFILL_ROUNDS
    BY <1>3 DEF Fetch, request, table, WalkInv, WalkTyped, Control
  <2>2. Mark' = Mark
    BY <2>1 DEF Mark
  <2> QED
    BY <1>0, <2>1, <2>2 DEF Shrink, IdsAhead, StepsLeft
<1>4. CASE Rule
  <2>1. /\ pc = "rule" /\ pc' \in {"fetch", "respond", "failed"}
        /\ UNCHANGED <<cursor, changes, rounds>>
    BY <1>4 DEF Rule, request, table
  <2>2. Mark' = Mark
    BY <2>1 DEF Mark
  <2> QED
    BY <1>0, <2>1, <2>2 DEF Shrink, IdsAhead, StepsLeft
<1>5. CASE Respond
  <2>1. pc = "respond" /\ pc' \in {"start", "end", "failed"} /\ UNCHANGED <<cursor, changes>>
    BY <1>5 DEF Respond, request, table
  <2>2. CASE pc' = "start"
    <3>1. Mark' = next_cursor' /\ Mark = cursor /\ cursor \in Nat
      BY <2>1, <2>2 DEF Mark, WalkInv, WalkTyped, ListTypeOK
    <3>2. IdsAhead' < IdsAhead
      BY <1>5, <2>2, <3>1, PageAdvances, FewerAhead DEF IdsAhead
    <3> QED
      BY <2>1, <3>2 DEF Shrink
  <2>3. CASE pc' # "start"
    <3>1. Mark' = Mark
      BY <2>1, <2>3 DEF Mark
    <3> QED
      BY <2>1, <2>3, <3>1 DEF Shrink, IdsAhead, StepsLeft
  <2> QED
    BY <2>2, <2>3
<1>6. CASE Change
  <2>1. UNCHANGED <<pc, cursor, next_cursor, rounds>> /\ changes' = changes + 1
    BY <1>6 DEF Change, request, handler
  <2>2. Mark' = Mark
    BY <2>1 DEF Mark
  <2> QED
    BY <1>0, <2>1, <2>2 DEF Shrink, IdsAhead, StepsLeft
<1> QED
  BY <1>1, <1>2, <1>3, <1>4, <1>5, <1>6, WalkSteps

\* A walk can only take so many steps, for any ids, limits, filter factor and cap on
\* the rounds: each step passes ids or uses up the request, and changes by others
\* give nothing back.  With a step always taken when there is one, it ends.
THEOREM WalksShrink == Spec => WalkShrinks
<1>1. WalkInv /\ Moved /\ [Next]_vars => [Shrink]_vars
  BY ShrinkStep
<1> QED
  BY <1>1, MovedHolds, PTL DEF Spec, WalkShrinks

-----------------------------------------------------------------------------
(* What the client is promised.                                            *)

LEMMA ViewableIs ==
    ASSUME NEW caps \in SUBSET Grant
    PROVE  Viewable[caps] = {i \in Id : View(caps, i) = "Allow"}
BY DEF Viewable

\* What two sets of capabilities let view together, one of them lets view.
LEMMA ViewSplits ==
    ASSUME NEW a, NEW b, NEW i \in Id, View(a \cup b, i) = "Allow"
    PROVE  View(a, i) = "Allow" \/ View(b, i) = "Allow"
<1>1. CapPolicy["WorkflowView"] = "view"
  BY DEF CapPolicy
<1> QED
  BY <1>1 DEF View, Authorize, Permits, HasCap, IsOrgAdmin, ForbidsExported, ForbidsKey, Errors

\* The n least are no more than n.
LEMMA LeastIsFew ==
    ASSUME NEW S, S \subseteq Nat, IsFiniteSet(S), NEW n \in Int, Least(S, n) # {}
    PROVE  Cardinality(Least(S, n)) <= n
<1> DEFINE L == Least(S, n)
           g == Greatest(L)
<1>1. L \subseteq Nat /\ L \subseteq S /\ IsFiniteSet(L) /\ Cardinality(L) \in Nat
  BY LeastIsPrefix
<1>2. g \in L /\ \A i \in L : i <= g
  BY <1>1, HasGreatest
<1>3. Cardinality(Below(S, g)) < n
  BY <1>2 DEF Least, Below
<1>4. L \ {g} \subseteq Below(S, g)
  BY <1>1, <1>2 DEF Below
<1>5. IsFiniteSet(Below(S, g)) /\ Cardinality(Below(S, g)) \in Nat
  <2>1. Below(S, g) \subseteq S
    BY DEF Below
  <2> QED
    BY <2>1, FS_Subset, FS_CardinalityType
<1>6. Cardinality(L \ {g}) <= Cardinality(Below(S, g)) /\ Cardinality(L \ {g}) = Cardinality(L) - 1
  BY <1>1, <1>2, <1>4, <1>5, FS_Subset, FS_RemoveElement
<1> HIDE DEF L, g
<1>7. Cardinality(L) <= n
  BY <1>1, <1>3, <1>5, <1>6
<1> QED
  BY <1>7 DEF L

LEMMA WalkBegins == ASSUME WalkInv, Next, Start PROVE Walk!Begin
<1>1. Watch /\ throughout \subseteq rows /\ held \subseteq grants
  BY WalkSteps DEF WalkInv, SliceHasHeld
<1>2. UNCHANGED <<rows, grants, throughout, held>>
  BY <1>1 DEF Start, table, Watch
<1>3. grants \in SUBSET Grant /\ slice' \in SUBSET Grant /\ slice' \subseteq grants
  BY DEF Start, WalkInv, WalkTyped, ListTypeOK
<1>4. Viewable[slice'] \subseteq Viewable[grants]
  BY <1>3, ViewableIs, ViewGrows
<1>5. limit' \in Int
  BY ListAssumption DEF Start, ListAssumption
<1>6. Mark' = Mark /\ Phase = "idle" /\ Phase' = "asking"
      /\ collected' \cup page' = collected \cup page
  BY DEF Start, Mark, Phase
<1> QED
  BY <1>2, <1>4, <1>5, <1>6 DEF Start, Walk!Begin, Walk!tables

LEMMA OrgsAreLearned ==
    ASSUME WalkInv, Next, ReadOrgs
    PROVE  Walk!Learn \/ Walk!Finish
<1>1. Watch /\ throughout \subseteq rows /\ held \subseteq grants
  BY WalkSteps DEF WalkInv, SliceHasHeld
<1>2. UNCHANGED <<rows, grants, throughout, held, limit, survivors, page, collected, cursor>>
  BY <1>1 DEF ReadOrgs, table, request, handler, Watch
<1>3. grants \in SUBSET Grant /\ slice \in SUBSET Grant /\ slice' \in SUBSET Grant
      /\ held \in SUBSET Grant
  BY DEF ReadOrgs, WalkInv, WalkTyped, ListTypeOK
<1> DEFINE got == {g \in grants : g[2] \in Org}
<1>4. slice' = slice \cup got /\ got \subseteq grants
  BY DEF ReadOrgs
<1>5. Viewable[slice] \subseteq Viewable[slice']
  BY <1>3, <1>4, ViewableIs, ViewGrows
<1>6. Viewable[slice'] \subseteq Viewable[slice] \cup Viewable[grants]
  <2> SUFFICES ASSUME NEW i \in Viewable[slice']
               PROVE  i \in Viewable[slice] \/ i \in Viewable[grants]
    OBVIOUS
  <2>1. i \in Id /\ View(slice \cup got, i) = "Allow"
    BY <1>3, <1>4, ViewableIs
  <2>2. View(slice, i) = "Allow" \/ View(got, i) = "Allow"
    BY <2>1, ViewSplits
  <2>3. View(slice, i) = "Allow" \/ View(grants, i) = "Allow"
    BY <1>4, <2>1, <2>2, ViewGrows
  <2> QED
    BY <1>3, <2>1, <2>3, ViewableIs
<1>7. Mark' = Mark /\ Phase = "asking"
  BY <1>2 DEF ReadOrgs, Mark, Phase
<1>8. CASE slice' = {}
  <2>1. Phase' = "over" /\ slice = {}
    BY <1>4, <1>8 DEF ReadOrgs, Phase
  <2>2. held = {}
    <3>1. \A g \in held : g[2] \in Team \cup Org
      BY <1>3, ListAssumption DEF ListAssumption
    <3>2. {g \in held : g[2] \in Team} \subseteq slice
      BY DEF ReadOrgs, WalkInv, SliceHasHeld
    <3> QED
      BY <1>1, <1>4, <1>8, <3>1, <3>2
  <2>3. Viewable[held] = {}
    BY <1>3, <2>2, ViewableIs, NothingPasses
  <2>4. Walk!HandOut({})
    BY <1>2, <1>7, <1>8, <2>1 DEF Walk!HandOut, Walk!tables
  <2> QED
    BY <1>7, <2>1, <2>3, <2>4 DEF Walk!Finish, Walk!Due
<1>9. CASE slice' # {}
  <2>1. Phase' = "asking"
    BY <1>9 DEF ReadOrgs, Phase
  <2> QED
    BY <1>2, <1>5, <1>6, <1>7, <2>1 DEF Walk!Learn, Walk!tables
<1> QED
  BY <1>8, <1>9

\* A query for a round's rows shows the client nothing; a ruling on them finds some.
LEMMA RowsAreFound ==
    ASSUME WalkInv, Next, Fetch \/ Rule
    PROVE  Walk!Find \/ Walk!Fail \/ UNCHANGED Walk!vars
<1>1. Watch /\ throughout \subseteq rows /\ held \subseteq grants
  BY WalkSteps DEF WalkInv, SliceHasHeld
<1>2. UNCHANGED <<rows, grants, throughout, held, limit, slice, page, collected, cursor>>
  BY <1>1 DEF Fetch, Rule, table, request, Watch
<1>3. Mark' = Mark /\ Phase = "asking"
  BY <1>2 DEF Fetch, Rule, Mark, Phase
<1>4. CASE Fetch
  <2>1. Phase' = "asking" /\ UNCHANGED survivors
    BY <1>4 DEF Fetch, Phase
  <2> QED
    BY <1>2, <1>3, <2>1 DEF Walk!vars, Walk!tables
<1>5. CASE Rule /\ fetched \subseteq rows
  <2>1. survivors' = survivors \cup {i \in fetched : Allowed(slice, i)}
        /\ pc' \in {"fetch", "respond"}
    BY <1>5 DEF Rule
  <2>2. Phase' = "asking"
    BY <2>1 DEF Phase
  <2>3. slice \in SUBSET Grant /\ fetched \subseteq Id
    BY DEF WalkInv, WalkTyped, ListTypeOK
  <2>4. {i \in fetched : Allowed(slice, i)} \subseteq Viewable[slice] \cap rows
    BY <1>5, <2>3, ViewableIs DEF Allowed
  <2> QED
    BY <1>2, <1>3, <2>1, <2>2, <2>4 DEF Walk!Find, Walk!tables
<1>6. CASE Rule /\ ~(fetched \subseteq rows)
  <2>1. Phase' = "failed" /\ UNCHANGED survivors
    BY <1>6 DEF Rule, Phase
  <2> QED
    BY <1>2, <1>3, <2>1 DEF Walk!Fail, Walk!tables
<1> QED
  BY <1>4, <1>5, <1>6

LEMMA PageIsHandedOut ==
    ASSUME WalkInv, Moved, Next, Respond
    PROVE  Walk!Deliver \/ Walk!Finish \/ Walk!Fail
<1>1. Watch /\ throughout \subseteq rows /\ held \subseteq grants
  BY WalkSteps DEF WalkInv, SliceHasHeld
<1>2. UNCHANGED <<rows, grants, throughout, held, limit, slice, survivors, collected, cursor>>
  BY <1>1 DEF Respond, table, request, handler, Watch
<1>3. /\ survivors \subseteq Id /\ survivors \subseteq Nat /\ IsFiniteSet(survivors)
      /\ limit \in Int /\ held \in SUBSET Grant /\ cursor \in Nat
  BY IdsAreFinite, BatchSize DEF WalkInv, WalkTyped, ListTypeOK
<1>4. /\ pc = "respond" /\ page = {} /\ page' = Least(survivors, limit)
      /\ pc' \in {"start", "end", "failed"}
  BY DEF Respond, WalkInv, WalkTyped, Control, InRequest
<1>5. Phase = "asking" /\ Mark = cursor
  BY <1>4 DEF Phase, Mark
<1>6. page' \subseteq survivors /\ (page' # {} => Cardinality(page') <= limit)
  BY <1>3, <1>4, LeastIsFew, LeastIsPrefix
<1>7. collected \cup page' = (collected \cup page) \cup page'
  BY <1>4
<1>8. \A i \in page' : cursor < i
  BY <1>4, <1>6 DEF WalkInv, CursorsAdvance, InRequest
<1>9. Walk!HandOut(page')
  <2>1. (collected \cup page)' = (collected \cup page) \cup page'
    BY <1>2, <1>7
  <2>2. \A i \in page' : Mark < i
    BY <1>5, <1>8
  <2>3. UNCHANGED <<Walk!tables, limit, survivors, Viewable[slice]>>
    BY <1>2 DEF Walk!tables
  <2>4. Walk!Cardinality(page') = Cardinality(page')
    BY DEF Walk!Cardinality, Cardinality
  <2> QED
    BY <1>6, <2>1, <2>2, <2>3, <2>4 DEF Walk!HandOut
<1>10. Walk!Due = Awaited /\ Awaited' = Awaited
  <2>1. throughout \subseteq Id
    BY DEF WalkInv, WalkTyped, ListTypeOK
  <2> QED
    BY <1>2, <1>3, <2>1, ViewableIs DEF Walk!Due, Awaited
<1>11. NothingIsPassed' /\ CursorsAdvance'
  BY PassedStep, CursorStep
<1>12. CASE pc' = "start"
  <2>1. Phase' = "idle" /\ Mark' = next_cursor'
    BY <1>12 DEF Phase, Mark
  <2>2. next_cursor' \in Id /\ cursor < next_cursor'
    BY <1>12, PageAdvances
  <2>3. \A i \in page' : i <= next_cursor'
    BY <1>11, <1>12 DEF CursorsAdvance
  <2>4. \A i \in Awaited : i <= next_cursor' => i \in collected' \cup page'
    BY <1>10, <1>11, <1>12 DEF NothingIsPassed
  <2>5. Walk!Deliver
    BY <1>5, <1>6, <1>9, <1>10, <2>1, <2>2, <2>3, <2>4 DEF Walk!Deliver
  <2> QED
    BY <2>5
<1>13. CASE pc' = "end"
  <2>1. Phase' = "over" /\ Mark' = Mark
    BY <1>2, <1>5, <1>13 DEF Phase, Mark
  <2>2. limit > 0 => Awaited \subseteq collected' \cup page'
    BY <1>2, <1>10, <1>11, <1>13 DEF NothingIsPassed, WalkIsComplete, Awaited
  <2>3. Walk!Finish
    BY <1>5, <1>6, <1>9, <1>10, <2>1, <2>2 DEF Walk!Finish
  <2> QED
    BY <2>3
<1>14. CASE pc' = "failed"
  <2>1. Phase' = "failed" /\ Mark' = Mark
    BY <1>2, <1>5, <1>14 DEF Phase, Mark
  <2>2. limit < 0
    BY <1>14 DEF Respond
  <2>3. page' = {}
    <3>1. Cardinality(page') \in Nat
      BY <1>3, <1>4, LeastIsPrefix
    <3> QED
      BY <1>3, <1>6, <2>2, <3>1
  <2> QED
    BY <1>2, <1>4, <1>5, <2>1, <2>3 DEF Walk!Fail, Walk!tables
<1> QED
  BY <1>4, <1>12, <1>13, <1>14

LEMMA OthersChange ==
    ASSUME WalkInv, Next, Change
    PROVE  Walk!Change
<1>1. Watch
  BY WalkSteps
<1>2. UNCHANGED <<limit, slice, survivors, page, collected, pc, cursor, next_cursor>>
  BY DEF Change, request, handler
<1>3. UNCHANGED <<Phase, Mark>>
  BY <1>2 DEF Phase, Mark
<1>4. rows \subseteq Id /\ grants \subseteq Grant
  BY DEF WalkInv, WalkTyped, ListTypeOK
<1>5. \/ \E i \in Id : rows' \in {rows \cup {i}, rows \ {i}} /\ UNCHANGED grants
      \/ \E g \in Grant : grants' \in {grants \cup {g}, grants \ {g}} /\ UNCHANGED rows
  BY <1>4 DEF Change
<1> QED
  BY <1>1, <1>2, <1>3, <1>5 DEF Walk!Change, Watch

\* The paged list keeps what it promises a client, for any ids, capabilities, page
\* sizes, filter factor and cap on the rounds: each step is one of the promised
\* ones or shows the client nothing.
THEOREM ImplementsWalk == Spec => RefinesWalk
<1>1. Init => Walk!Init
  <2> SUFFICES ASSUME Init PROVE Walk!Init
    OBVIOUS
  <2>1. rows \subseteq Id /\ grants \subseteq Grant /\ limit \in Int
    BY ListAssumption DEF Init, ListAssumption
  <2>2. Phase = "idle" /\ Mark = 0
    BY DEF Init, Phase, Mark
  <2>3. Viewable[slice] = {}
    BY ViewableIs, NothingPasses DEF Init
  <2> QED
    BY <2>1, <2>2, <2>3 DEF Init, Walk!Init
<1>2. WalkInv /\ Moved /\ [Next]_vars => [Walk!Next]_(Walk!vars)
  <2> SUFFICES ASSUME WalkInv, Moved, [Next]_vars
               PROVE  Walk!Next \/ UNCHANGED Walk!vars
    OBVIOUS
  <2>1. CASE UNCHANGED vars
    BY <2>1 DEF vars, table, request, handler, Walk!vars, Walk!tables, Phase, Mark
  <2>2. CASE Next
    BY <2>2, WalkSteps, WalkBegins, OrgsAreLearned, RowsAreFound, PageIsHandedOut, OthersChange
       DEF Walk!Next
  <2> QED
    BY <2>1, <2>2
<1> QED
  BY <1>1, <1>2, MovedHolds, PTL DEF Spec, RefinesWalk, Walk!Spec

=============================================================================
