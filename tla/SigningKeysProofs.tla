------------------------- MODULE SigningKeysProofs -------------------------
(***************************************************************************)
(* Proofs about SigningKeys, for any keys, interval, lifespan and bound.    *)
(*                                                                         *)
(* The argument is about three times.  A key's mark is never later than the *)
(* copy, except between the mark and its fetch; the copy holds only keys    *)
(* that were published when it was made; and the mark of the token at hand  *)
(* is less than an interval older than the moment it was presented.         *)
(***************************************************************************)
EXTENDS SigningKeys, TLAPS

Copy == jwk_set # None

\* What is published is dated now, and nothing is dated later.
TimesAgree ==
    /\ now <= clock
    /\ \A k \in published : last_published[k] = clock
    /\ \A k \in Kid : last_refetch[k] <= clock
    /\ Copy => jwk_set.at <= clock

\* The copy was the provider's truth when it was made.
CopyWasTrue == Copy => \A k \in jwk_set.keys : last_published[k] >= jwk_set.at

\* A mark is followed by its fetch before anything else happens.
CopyFollowsMarks ==
    Copy => \A k \in Kid : \/ jwk_set.at >= last_refetch[k]
                           \/ pc = "refetch" /\ k = token.kid

MarkIsRecent == pc # "idle" => last_refetch[token.kid] > now - Interval

KeyIsFresh == pc \in {"decode", "accepted"} => last_published[token.kid] > now - Interval

SteadyIsPublished == steady => token.kid \in published

\* How many fetches the token has cost when it reaches each place.
FetchesSoFar ==
    /\ pc = "refetch" => fetches = 0
    /\ pc = "get_set" => \/ fetches = 0
                         \/ fetches = 1 /\ Cached /\ (steady => token.kid \in jwk_set.keys)
    /\ pc = "refresh" => fetches <= (IF steady THEN 0 ELSE 1)
    /\ FetchesAreFew

IInv == /\ TypeOK /\ TimesAgree /\ CopyWasTrue /\ CopyFollowsMarks /\ MarkIsRecent
        /\ KeyIsFresh /\ SteadyIsPublished /\ FetchesSoFar /\ RotationIsNoOutage

-----------------------------------------------------------------------------
\* A fetch, whatever it is for, keeps the copy true and newer than every mark.
LEMMA FetchKeeps ==
    ASSUME IInv, NEW next \in {"get_set", "refresh", "decode", "refused"}, Fetch(next),
           pc \notin Answered,
           next = "decode" => token.kid \in published,
           next = "get_set" => fetches = 0,
           next = "refresh" => fetches = 0 /\ token.kid \notin published,
           next = "refused" => token.kid \notin published,
           fetches <= (IF steady THEN 0 ELSE 1)
    PROVE  IInv'
  <1>. USE KeysAssumption DEF IInv, TypeOK, Answered, Token
  <1>1. TypeOK'
    <2>1. jwk_set' \in [keys : SUBSET Kid, at : 0 .. MaxTime] \cup {None}
      BY DEF Fetch
    <2>2. pc' \in Answered \cup {"refetch", "get_set", "refresh", "decode"}
      BY DEF Fetch
    <2>3. fetches' \in Nat
      BY DEF Fetch
    <2>4. failed' \in BOOLEAN
      BY Zenon DEF Fetch
    <2>. QED BY <2>1, <2>2, <2>3, <2>4 DEF Fetch, provider
  <1>2. TimesAgree'
    BY DEF Fetch, provider, TimesAgree, Copy
  <1>3. CopyWasTrue' /\ CopyFollowsMarks'
    BY DEF Fetch, provider, TimesAgree, CopyWasTrue, CopyFollowsMarks, Copy
  <1>4. MarkIsRecent' /\ SteadyIsPublished'
    BY DEF Fetch, provider, MarkIsRecent, SteadyIsPublished
  <1>5. KeyIsFresh'
    <2>1. pc' \in {"decode", "accepted"} => token.kid \in published
      BY DEF Fetch
    <2>2. token.kid \in published => last_published[token.kid] > now - Interval
      BY DEF TimesAgree
    <2>. QED BY <2>1, <2>2 DEF Fetch, provider, KeyIsFresh
  <1>6. FetchesSoFar' /\ RotationIsNoOutage'
    <2>1. jwk_set' = [keys |-> published, at |-> clock] => Cached'
      BY DEF Fetch, provider, Cached
    <2>. QED BY <2>1 DEF Fetch, provider, FetchesSoFar, FetchesAreFew, RotationIsNoOutage,
                         SteadyIsPublished
  <1>. QED BY <1>1, <1>2, <1>3, <1>4, <1>5, <1>6

\* There is no copy at first, and no mark.
LEMMA Starts == ASSUME Init PROVE IInv
  <1>. USE KeysAssumption DEF Init
  <1>1. TypeOK
    <2>1. clock \in 0 .. MaxTime
      OBVIOUS
    <2>2. -Interval \in Int
      OBVIOUS
    <2>3. last_published \in [Kid -> Int]
      BY <2>1, <2>2
    <2>4. last_refetch \in [Kid -> 0 .. MaxTime] /\ now \in 0 .. MaxTime
      OBVIOUS
    <2>. QED BY <2>1, <2>3, <2>4 DEF TypeOK, Answered
  <1>2. TimesAgree
    <2>1. now <= clock
      OBVIOUS
    <2>2. \A k \in published : k \in Kid /\ last_published[k] = clock
      OBVIOUS
    <2>3. clock \in Nat /\ \A k \in Kid : last_refetch[k] = 0
      OBVIOUS
    <2>. QED BY <2>1, <2>2, <2>3 DEF TimesAgree, Copy
  <1>4. CopyWasTrue /\ CopyFollowsMarks /\ MarkIsRecent
    BY DEF CopyWasTrue, CopyFollowsMarks, Copy, MarkIsRecent
  <1>3. KeyIsFresh /\ SteadyIsPublished /\ FetchesSoFar /\ RotationIsNoOutage
    BY DEF KeyIsFresh, SteadyIsPublished, FetchesSoFar, FetchesAreFew, RotationIsNoOutage
  <1>. QED BY <1>1, <1>2, <1>3, <1>4 DEF IInv

LEMMA RotateKeeps == ASSUME IInv, Rotate PROVE IInv'
  <1>. USE KeysAssumption DEF IInv, TypeOK, Rotate, Token, Answered
  <1>2. \A k \in Kid : last_published'[k] = IF k \in published' THEN clock ELSE last_published[k]
    BY DEF Stamp
  <1>4. TypeOK'
    BY DEF Stamp
  <1>5. TimesAgree'
    BY <1>2 DEF TimesAgree, Copy
  <1>6. CopyWasTrue' /\ CopyFollowsMarks'
    BY <1>2 DEF CopyWasTrue, CopyFollowsMarks, TimesAgree, Copy
  <1>7. MarkIsRecent' /\ SteadyIsPublished'
    BY DEF MarkIsRecent, SteadyIsPublished
  <1>9. KeyIsFresh'
    <2>1. token.kid \in published' => last_published'[token.kid] > now - Interval
      BY <1>2 DEF TimesAgree
    <2>2. token.kid \notin published' => last_published'[token.kid] = last_published[token.kid]
      BY <1>2
    <2>. QED BY <2>1, <2>2 DEF KeyIsFresh
  <1>8. FetchesSoFar' /\ RotationIsNoOutage'
    BY DEF FetchesSoFar, FetchesAreFew, RotationIsNoOutage, Cached
  <1>. QED BY <1>4, <1>5, <1>6, <1>7, <1>8, <1>9

LEMMA TickKeeps == ASSUME IInv, Tick PROVE IInv'
  <1>. USE KeysAssumption DEF IInv, TypeOK, Tick, Token, Answered, history
  <1>1. \A k \in Kid : last_published'[k] = IF k \in published THEN clock + 1 ELSE last_published[k]
    BY DEF Stamp
  <1>2. TypeOK'
    BY DEF Stamp
  <1>3. TimesAgree'
    BY <1>1 DEF TimesAgree, Copy
  <1>4. CopyWasTrue' /\ CopyFollowsMarks'
    BY <1>1 DEF CopyWasTrue, CopyFollowsMarks, TimesAgree, Copy
  <1>5. MarkIsRecent' /\ SteadyIsPublished' /\ KeyIsFresh'
    BY <1>1 DEF MarkIsRecent, SteadyIsPublished, KeyIsFresh, TimesAgree
  <1>6. FetchesSoFar'
    <2>1. pc = "get_set" => ~Cached
      OBVIOUS
    <2>. QED BY <2>1 DEF FetchesSoFar, FetchesAreFew
  <1>7. RotationIsNoOutage'
    <2>1. token.exp \in Nat
      OBVIOUS
    <2>. QED BY <2>1 DEF RotationIsNoOutage
  <1>. QED BY <1>2, <1>3, <1>4, <1>5, <1>6, <1>7

\* The mark is set when it is due, and is recent when it is not.
LEMMA PresentKeeps == ASSUME IInv, Present PROVE IInv'
  <1>. USE KeysAssumption DEF IInv, TypeOK, Token, Answered
  <1>1. PICK tok \in Token :
          /\ token' = tok /\ steady' = (tok.kid \in published)
          /\ last_refetch' = IF Due(tok.kid) THEN [last_refetch EXCEPT ![tok.kid] = clock]
                             ELSE last_refetch
          /\ pc' = IF Due(tok.kid) THEN "refetch" ELSE "get_set"
    BY DEF Present
  <1>2. /\ now' = clock /\ fetches' = 0 /\ failed' = FALSE
        /\ UNCHANGED <<clock, published, last_published, jwk_set>>
    BY DEF Present, provider
  <1>3. TypeOK'
    <2>1. clock \in 0 .. MaxTime /\ last_refetch' \in [Kid -> 0 .. MaxTime]
      BY <1>1
    <2>2. token' \in Token /\ steady' \in BOOLEAN /\ pc' \in {"refetch", "get_set"}
      BY <1>1
    <2>. QED BY <1>2, <2>1, <2>2
  <1>4. TimesAgree' /\ CopyWasTrue'
    BY <1>1, <1>2 DEF TimesAgree, CopyWasTrue, Copy
  <1>5. CopyFollowsMarks'
    <2>1. pc # "refetch"
      BY DEF Present
    <2>. QED BY <1>1, <1>2, <2>1 DEF CopyFollowsMarks, Copy
  <1>6. MarkIsRecent'
    BY <1>1, <1>2 DEF MarkIsRecent, Due
  <1>7. SteadyIsPublished' /\ KeyIsFresh' /\ RotationIsNoOutage'
    BY <1>1, <1>2 DEF SteadyIsPublished, KeyIsFresh, RotationIsNoOutage
  <1>8. FetchesSoFar'
    BY <1>1, <1>2 DEF FetchesSoFar, FetchesAreFew
  <1>. QED BY <1>3, <1>4, <1>5, <1>6, <1>7, <1>8

LEMMA GetSetKeeps == ASSUME IInv, GetSet PROVE IInv'
  <1>1. CASE ~Cached /\ Fetch(Match(published, "refresh"))
    <2>1. fetches = 0
      BY <1>1 DEF IInv, FetchesSoFar, GetSet
    <2>. QED BY <1>1, <2>1, FetchKeeps DEF GetSet, Match, Answered
  <1>2. CASE /\ Cached
             /\ pc' = Match(jwk_set.keys, "refresh")
             /\ UNCHANGED <<provider, jwk_set, last_refetch, token, now, history>>
    <2>. USE KeysAssumption DEF IInv, TypeOK, Token, Answered, provider, history, GetSet
    <2>1. TypeOK' /\ TimesAgree' /\ CopyWasTrue' /\ CopyFollowsMarks'
      BY <1>2 DEF Match, TimesAgree, CopyWasTrue, CopyFollowsMarks, Copy
    <2>2. MarkIsRecent' /\ SteadyIsPublished'
      BY <1>2 DEF MarkIsRecent, SteadyIsPublished
    <2>3. KeyIsFresh'
      BY <1>2 DEF Match, KeyIsFresh, Cached, Copy, CopyWasTrue, CopyFollowsMarks, MarkIsRecent
    <2>4. FetchesSoFar' /\ RotationIsNoOutage'
      BY <1>2 DEF Match, FetchesSoFar, FetchesAreFew, RotationIsNoOutage
    <2>. QED BY <2>1, <2>2, <2>3, <2>4
  <1>. QED BY <1>1, <1>2 DEF GetSet

LEMMA DecodeKeeps == ASSUME IInv, Decode PROVE IInv'
  <1>. USE KeysAssumption DEF IInv, TypeOK, Token, Answered, Decode, provider, history
  <1>1. TypeOK' /\ TimesAgree' /\ CopyWasTrue' /\ CopyFollowsMarks'
    BY DEF TimesAgree, CopyWasTrue, CopyFollowsMarks, Copy
  <1>2. MarkIsRecent' /\ SteadyIsPublished' /\ KeyIsFresh'
    BY DEF MarkIsRecent, SteadyIsPublished, KeyIsFresh
  <1>3. FetchesSoFar' /\ RotationIsNoOutage'
    BY DEF FetchesSoFar, FetchesAreFew, RotationIsNoOutage
  <1>. QED BY <1>1, <1>2, <1>3

LEMMA StepKeeps == ASSUME IInv, [Next]_vars PROVE IInv'
  <1>1. CASE Refetch
    BY <1>1, FetchKeeps DEF Refetch, IInv, FetchesSoFar, Answered
  <1>2. CASE Refresh
    BY <1>2, FetchKeeps DEF Refresh, Match, IInv, FetchesSoFar, Answered
  <1>3. CASE UNCHANGED vars
    BY <1>3 DEF vars, provider, history, IInv, TypeOK, TimesAgree, CopyWasTrue, CopyFollowsMarks,
       Copy, MarkIsRecent, KeyIsFresh, SteadyIsPublished, FetchesSoFar, FetchesAreFew,
       RotationIsNoOutage, Cached, Answered
  <1>. QED BY <1>1, <1>2, <1>3, RotateKeeps, TickKeeps, PresentKeeps, GetSetKeeps, DecodeKeeps
           DEF Next

LEMMA Invariance == Spec => []IInv
  <1>1. Init => IInv
    BY Starts
  <1>2. IInv /\ [Next]_vars => IInv'
    BY StepKeeps
  <1>. QED BY <1>1, <1>2, PTL DEF Spec

-----------------------------------------------------------------------------
\* Every reachable state of the key cache is well typed and dated.
THEOREM TypeCorrect == Spec => []TypeOK
  BY Invariance, PTL DEF IInv

\* The refetch bounds how long a withdrawn key verifies tokens, for every
\* interval and every lifespan of the library's copy.
THEOREM WithdrawnKeysDie == Spec => []KeysAreFresh
  <1>1. IInv => KeysAreFresh
    BY DEF IInv, KeyIsFresh, KeysAreFresh
  <1>. QED BY <1>1, Invariance, PTL

\* A good token of a key that stays published is refused only by a failure of
\* the provider while that token is verified.
THEOREM RotationIsSmooth == Spec => []RotationIsNoOutage
  BY Invariance, PTL DEF IInv

\* No token costs more than two fetches, nor more than one if its key stays.
THEOREM FetchesStayFew == Spec => []FetchesAreFew
  <1>1. IInv => FetchesAreFew
    BY DEF IInv, FetchesSoFar
  <1>. QED BY <1>1, Invariance, PTL

=============================================================================
