------------------------- MODULE PublishingProofs -------------------------
(***************************************************************************)
(* Proofs about Publishing, for any workflows, passwords, publishers,       *)
(* clients, processes and executions, and any life of a token.             *)
(***************************************************************************)
EXTENDS Publishing, TLAPS

LimiterTheory == INSTANCE RateLimiterProofs WITH Key <- Process \X Workflow \X Client

-----------------------------------------------------------------------------
(* The exchange is a client of the limiter.                                *)

\* Whoever connects, and whatever he forwards, is guessed for under one address.
LEMMA ExchangeKeys ==
    ASSUME NEW process \in Process, NEW w \in Workflow, NEW password \in Password,
           NEW peer \in Client, NEW forwarded \in Client \cup {None},
           Exchange(<<process, w, ClientIp(peer, forwarded)>>, password)
    PROVE  \E k \in Process \X Workflow \X Client : Exchange(k, password)
<1>1. ClientIp(peer, forwarded) \in Client
  BY PublishingAssumption DEF ClientIp, PublishingAssumption
<1> QED
  BY <1>1

LEMMA LimiterStep == Next => [Limiter!Next]_(Limiter!vars)
<1> SUFFICES ASSUME Next PROVE [Limiter!Next]_(Limiter!vars)
  OBVIOUS
<1>1. CASE Govern \/ JoinOrLeave \/ Visit
  BY <1>1 DEF Govern, JoinOrLeave, Visit, limiter, Limiter!vars
<1>2. CASE Tick
  BY <1>2 DEF Tick, Limiter!Next
<1>3. ASSUME NEW k \in Process \X Workflow \X Client, NEW password \in Password, Exchange(k, password)
      PROVE  Limiter!Next
  BY <1>3 DEF Exchange, Limiter!Next, Limiter!GuessWrong, Limiter!GuessRight
<1> QED
  BY <1>1, <1>2, <1>3, ExchangeKeys DEF Next

\* Whatever publishers and executions do, the exchange uses the limiter as it
\* means to be used.
THEOREM ExchangeUsesLimiter == Spec => UsesLimiter
<1>1. Init => Limiter!Init
  BY DEF Init
<1>2. UNCHANGED vars => UNCHANGED Limiter!vars
  BY DEF vars, limiter, Limiter!vars
<1> QED
  BY <1>1, <1>2, LimiterStep, PTL DEF Spec, UsesLimiter, Limiter!Spec

LEMMA SpecOfTheory == Spec => LimiterTheory!Spec
<1>1. Init => LimiterTheory!Init
  BY DEF Init, Limiter!Init, LimiterTheory!Init
<1>2. UNCHANGED Limiter!vars => UNCHANGED LimiterTheory!vars
  BY DEF Limiter!vars, LimiterTheory!vars
<1>3. Limiter!Next => LimiterTheory!Next
  BY DEF Limiter!Next, Limiter!Tick, Limiter!GuessWrong, Limiter!GuessRight, Limiter!Pass,
     Limiter!RecordFailure, Limiter!RecordSuccess, Limiter!Delay, Limiter!Backoff,
     LimiterTheory!Next, LimiterTheory!Tick, LimiterTheory!GuessWrong, LimiterTheory!GuessRight,
     LimiterTheory!Pass, LimiterTheory!RecordFailure, LimiterTheory!RecordSuccess,
     LimiterTheory!Delay, LimiterTheory!Backoff
<1>4. UNCHANGED vars => UNCHANGED LimiterTheory!vars
  BY DEF vars, limiter, LimiterTheory!vars
<1> QED
  BY <1>1, <1>2, <1>3, <1>4, LimiterStep, PTL DEF Spec, LimiterTheory!Spec

LEMMA LimiterPromises == Spec => [](GuessesAreSpaced /\ BlocksAreShort)
<1>1. LimiterTheory!LimiterAssumption
  BY PublishingLimiterAssumption DEF Limiter!LimiterAssumption, LimiterTheory!LimiterAssumption
<1>2. LimiterTheory!Spec => [](LimiterTheory!GuessesAreSpaced /\ LimiterTheory!BlocksAreShort)
  BY <1>1, LimiterTheory!LimiterKeepsItsPromise
<1>3. LimiterTheory!GuessesAreSpaced => GuessesAreSpaced
  BY DEF GuessesAreSpaced, Limiter!GuessesAreSpaced, Limiter!Spaced, Limiter!Backoff,
     LimiterTheory!GuessesAreSpaced, LimiterTheory!Spaced, LimiterTheory!Backoff
<1>4. LimiterTheory!BlocksAreShort => BlocksAreShort
  BY DEF BlocksAreShort, Limiter!BlocksAreShort, Limiter!Pass,
     LimiterTheory!BlocksAreShort, LimiterTheory!Pass
<1> QED
  BY <1>2, <1>3, <1>4, SpecOfTheory, PTL

\* So the guesses of a client at one process are spaced by the backoff, for any
\* backoff, any cap and any number of guesses.
THEOREM PasswordGuessesAreSpaced == Spec => []GuessesAreSpaced
  BY LimiterPromises, PTL

\* And no client is kept out longer than max_seconds, or after a right guess.
THEOREM ClientsAreBlockedShortly == Spec => []BlocksAreShort
  BY LimiterPromises, PTL

-----------------------------------------------------------------------------
(* Who runs a published workflow.                                          *)

\* What an execution sends.
Asked == [workflow : Workflow, credential : Credential]

\* The types the argument needs besides those of PublishingTypeOK.
PublishingType ==
    /\ PublishingTypeOK
    /\ now \in Nat
    /\ was_password \in [Workflow -> [Password -> Int]]
    /\ asked \in [Run -> Asked \cup {None}]
    /\ \A r \in Run : pc[r] # "new" => asked[r] \in Asked

\* A token was bought while its password was the workflow's own; what was so
\* last was so by now.
TokensWereBought ==
    /\ \A w \in Workflow, p \in Password : was_password[w][p] <= now
    /\ \A t \in tokens : was_password[t.workflow][t.password] + TokenTTL >= t.exp

\* The token an execution verified is for its workflow and its password was not
\* gone for as long as the token lives.
ProofsAreFresh ==
    \A r \in Run : proof[r] # None =>
        /\ pc[r] # "new"
        /\ proof[r].token.workflow = asked[r].workflow
        /\ proof[r].age < TokenTTL

\* Only a caller with a credential that holds is read as a member.
MembersAreKnown ==
    \A r \in Run : org_seen[r] => pc[r] # "new" /\ asked[r].credential \in {"bearer", "key"}

EntitledInv ==
    PublishingType /\ TokensWereBought /\ ProofsAreFresh /\ MembersAreKnown /\ RunsAreEntitled

\* The engine lets a run through only if no forbid on the public route applies.
LEMMA RulingForbids ==
    ASSUME NEW r \in Run, Ruling(r) = "Allow"
    PROVE  LET w == asked[r].workflow IN
           /\ exports[w].is_exported
           /\ exports[w].password_hash # None => proof[r] # None
           /\ exports[w].visibility = "org_only" => org_seen[r]
  BY DEF Ruling, Authorize, ForbidsExported

LEMMA NoExportTyped == NoExport \in Exports
  BY DEF NoExport, Exports

\* Publishers keep export rows typed, and nobody keeps one without its workflow.
LEMMA GovernStep ==
    ASSUME PublishingTypeOK, Govern
    PROVE  PublishingTypeOK'
<1>1. ASSUME NEW p \in Publisher, NEW w \in Workflow, DeleteWorkflow(p, w)
      PROVE  /\ workflows' \subseteq Workflow /\ exports' \in [Workflow -> Exports]
             /\ \A x \in Workflow \ workflows' : exports'[x] = NoExport
  BY <1>1, NoExportTyped DEF DeleteWorkflow, PublishingTypeOK
<1>2. ASSUME NEW p \in Publisher, NEW w \in Workflow, NEW v \in {None, "public", "org_only"},
             Publish(p, w, v), UNCHANGED workflows
      PROVE  /\ workflows' \subseteq Workflow /\ exports' \in [Workflow -> Exports]
             /\ \A x \in Workflow \ workflows' : exports'[x] = NoExport
  <2>1. exports[w] \in Exports
    BY DEF PublishingTypeOK
  <2>2. exports' = [exports EXCEPT ![w] =
            [exports[w] EXCEPT !.is_exported = TRUE,
                               !.visibility = IF v = None THEN "public" ELSE v]]
    BY <1>2 DEF Publish
  <2>3. (IF v = None THEN "public" ELSE v) \in {"public", "org_only"}
    OBVIOUS
  <2>4. [exports[w] EXCEPT !.is_exported = TRUE,
                           !.visibility = IF v = None THEN "public" ELSE v] \in Exports
    BY <2>1, <2>3 DEF Exports
  <2> QED
    BY <1>2, <2>2, <2>4 DEF Publish, PublishingTypeOK
<1>3. ASSUME NEW p \in Publisher, NEW w \in Workflow, Unpublish(p, w), UNCHANGED workflows
      PROVE  /\ workflows' \subseteq Workflow /\ exports' \in [Workflow -> Exports]
             /\ \A x \in Workflow \ workflows' : exports'[x] = NoExport
  BY <1>3, ZenonT(30) DEF Unpublish, PublishingTypeOK, Exports
<1>4. ASSUME NEW p \in Publisher, NEW w \in Workflow, NEW q \in Password \cup {None},
             Protect(p, w, q), UNCHANGED workflows
      PROVE  /\ workflows' \subseteq Workflow /\ exports' \in [Workflow -> Exports]
             /\ \A x \in Workflow \ workflows' : exports'[x] = NoExport
  BY <1>4 DEF Protect, PublishingTypeOK, Exports
<1>5. /\ workflows' \subseteq Workflow /\ exports' \in [Workflow -> Exports]
      /\ \A x \in Workflow \ workflows' : exports'[x] = NoExport
  BY <1>1, <1>2, <1>3, <1>4 DEF Govern
<1> QED
  BY <1>5 DEF Govern, run, PublishingTypeOK

\* The history of passwords only moves forward, and a published workflow's
\* password is in it at the present.
LEMMA RememberStep ==
    ASSUME PublishingType, TokensWereBought, Remember, now' \in Nat, now <= now'
    PROVE  /\ was_password' \in [Workflow -> [Password -> Int]]
           /\ \A w \in Workflow, p \in Password :
                 /\ was_password[w][p] <= was_password'[w][p] /\ was_password'[w][p] <= now'
                 /\ exports'[w].is_exported /\ exports'[w].password_hash = p
                       => was_password'[w][p] = now'
<1>1. ASSUME NEW w \in Workflow, NEW p \in Password
      PROVE  /\ was_password[w][p] \in Int /\ was_password[w][p] <= now
             /\ now \in Int /\ now' \in Int
             /\ was_password'[w][p] = IF exports'[w].is_exported /\ exports'[w].password_hash = p
                                      THEN now' ELSE was_password[w][p]
  BY DEF PublishingType, TokensWereBought, Remember
<1>2. was_password' \in [Workflow -> [Password -> Int]]
  BY <1>1 DEF Remember
<1> QED
  BY <1>1, <1>2

\* Time goes forward or stands still.
LEMMA ClockStep ==
    ASSUME Next, now \in Nat
    PROVE  now' \in Nat /\ now <= now'
<1>1. EndOfTime \in Nat
  BY PublishingLimiterAssumption DEF Limiter!LimiterAssumption
<1>2. CASE Tick
  BY <1>1, <1>2 DEF Tick, Limiter!Tick
<1>3. CASE UNCHANGED now
  BY <1>3
<1>4. Tick \/ UNCHANGED now
  BY ZenonT(30) DEF Next, Govern, JoinOrLeave, Visit, Exchange, limiter
<1> QED
  BY <1>2, <1>3, <1>4

\* A token that is older than the step was bought as before; the history helps.
LEMMA OldTokens ==
    ASSUME EntitledInv, Next, UNCHANGED tokens
    PROVE  TokensWereBought'
<1>1. /\ was_password' \in [Workflow -> [Password -> Int]]
      /\ \A w \in Workflow, p \in Password :
            was_password[w][p] <= was_password'[w][p] /\ was_password'[w][p] <= now'
  BY RememberStep, ClockStep DEF EntitledInv, PublishingType, Next
<1>2. ASSUME NEW t \in tokens
      PROVE  was_password'[t.workflow][t.password] + TokenTTL >= t.exp
  <2>1. t \in Tokens
    BY DEF EntitledInv, PublishingType, PublishingTypeOK
  <2>2. t.workflow \in Workflow /\ t.password \in Password /\ t.exp \in Nat
    BY <2>1 DEF Tokens
  <2>3. /\ was_password[t.workflow][t.password] \in Int
        /\ was_password'[t.workflow][t.password] \in Int
    BY <1>1, <2>2 DEF EntitledInv, PublishingType
  <2>4. was_password[t.workflow][t.password] + TokenTTL >= t.exp
    BY DEF EntitledInv, TokensWereBought
  <2> QED
    BY <1>1, <2>2, <2>3, <2>4, PublishingAssumption
<1> QED
  BY <1>1, <1>2 DEF TokensWereBought

\* A token just bought was bought now.
LEMMA ExchangeStep ==
    ASSUME EntitledInv, Next, NEW k \in Process \X Workflow \X Client, NEW password \in Password,
           Exchange(k, password)
    PROVE  TokensWereBought' /\ tokens' \subseteq Tokens
<1>1. CASE UNCHANGED tokens
  BY <1>1, OldTokens DEF EntitledInv, PublishingType, PublishingTypeOK
<1>2. CASE IsPassword(k[2], password) /\ tokens' = tokens \cup {Token(k[2], password)}
  <2>1. /\ was_password' \in [Workflow -> [Password -> Int]]
        /\ \A w \in Workflow, p \in Password :
              /\ was_password[w][p] <= was_password'[w][p] /\ was_password'[w][p] <= now'
              /\ exports'[w].is_exported /\ exports'[w].password_hash = p
                    => was_password'[w][p] = now'
    BY RememberStep, ClockStep DEF EntitledInv, PublishingType, Next
  <2>2. k[2] \in Workflow /\ now \in Nat /\ now' = now /\ exports' = exports /\ TokenTTL \in Nat
    BY PublishingAssumption DEF Exchange, EntitledInv, PublishingType
  <2>3. Token(k[2], password) \in Tokens
    BY <2>2 DEF Token, Tokens
  <2>4. ASSUME NEW t \in tokens
        PROVE  was_password'[t.workflow][t.password] + TokenTTL >= t.exp
    <3>1. t \in Tokens
      BY DEF EntitledInv, PublishingType, PublishingTypeOK
    <3>2. t.workflow \in Workflow /\ t.password \in Password /\ t.exp \in Nat
      BY <3>1 DEF Tokens
    <3>3. /\ was_password[t.workflow][t.password] \in Int
          /\ was_password'[t.workflow][t.password] \in Int
      BY <2>1, <3>2 DEF EntitledInv, PublishingType
    <3>4. was_password[t.workflow][t.password] + TokenTTL >= t.exp
      BY DEF EntitledInv, TokensWereBought
    <3> QED
      BY <2>1, <2>2, <3>2, <3>3, <3>4
  <2>5. was_password'[k[2]][password] = now
    BY <1>2, <2>1, <2>2 DEF IsPassword
  <2>6. \A t \in tokens' : was_password'[t.workflow][t.password] + TokenTTL >= t.exp
    BY <1>2, <2>2, <2>4, <2>5 DEF Token
  <2> QED
    BY <1>2, <2>1, <2>3, <2>6 DEF TokensWereBought, EntitledInv, PublishingType, PublishingTypeOK
<1> QED
  BY <1>1, <1>2 DEF Exchange

\* An execution that begins verifies a token that was bought, and is not yet dead.
LEMMA BeginStep ==
    ASSUME EntitledInv, NEW r \in Run, NEW w \in Workflow, NEW c \in Credential,
           NEW token \in tokens \cup {None}, Begin(r, w, c, token), UNCHANGED <<tokens, exports, workflows>>
    PROVE  /\ PublishingTypeOK' /\ asked' \in [Run -> Asked \cup {None}]
           /\ \A x \in Run : pc'[x] # "new" => asked'[x] \in Asked
           /\ ProofsAreFresh' /\ RunsAreEntitled'
<1> DEFINE verified == IF Verifies(token, w)
                       THEN [token |-> token, age |-> now - was_password[w][token.password]]
                       ELSE None
<1>1. /\ proof' = [proof EXCEPT ![r] = verified]
      /\ asked' = [asked EXCEPT ![r] = [workflow |-> w, credential |-> c]]
      /\ pc[r] = "new" /\ pc' = [pc EXCEPT ![r] = IF c = "invalid_bearer" THEN "401" ELSE "org_rows"]
      /\ UNCHANGED <<org_seen, row>>
  BY DEF Begin
<1>2. ASSUME Verifies(token, w)
      PROVE  /\ verified \in [token : Tokens, age : Nat]
             /\ verified.token.workflow = w /\ verified.age < TokenTTL
  <2>1. token \in tokens /\ token.workflow = w /\ now < token.exp
    BY <1>2 DEF Verifies
  <2>2. token \in Tokens
    BY <2>1 DEF EntitledInv, PublishingType, PublishingTypeOK
  <2>3. token.exp \in Nat /\ token.password \in Password
    BY <2>2 DEF Tokens
  <2>4. was_password[w][token.password] \in Int /\ now \in Nat /\ TokenTTL \in Nat
    BY <2>3, PublishingAssumption DEF EntitledInv, PublishingType
  <2>5. /\ was_password[w][token.password] <= now
        /\ was_password[w][token.password] + TokenTTL >= token.exp
    BY <2>1, <2>3 DEF EntitledInv, TokensWereBought
  <2>6. /\ now - was_password[w][token.password] \in Nat
        /\ now - was_password[w][token.password] < TokenTTL
    BY <2>1, <2>3, <2>4, <2>5
  <2> QED
    BY <1>2, <2>1, <2>2, <2>6
<1>3. verified \in [token : Tokens, age : Nat] \cup {None}
  BY <1>2
<1>4. PublishingTypeOK'
  BY <1>1, <1>3 DEF EntitledInv, PublishingType, PublishingTypeOK
<1>5. /\ asked' \in [Run -> Asked \cup {None}]
      /\ \A x \in Run : pc'[x] # "new" => asked'[x] \in Asked
  BY <1>1 DEF EntitledInv, PublishingType, PublishingTypeOK, Asked
<1>6. ProofsAreFresh'
  <2>1. ASSUME NEW x \in Run, x # r, proof'[x] # None
        PROVE  /\ pc'[x] # "new" /\ proof'[x].token.workflow = asked'[x].workflow
               /\ proof'[x].age < TokenTTL
    BY <1>1, <2>1 DEF EntitledInv, PublishingType, PublishingTypeOK, ProofsAreFresh
  <2>2. /\ pc'[r] # "new" /\ asked'[r].workflow = w /\ proof'[r] = verified
    BY <1>1 DEF EntitledInv, PublishingType, PublishingTypeOK
  <2>3. verified # None => verified.token.workflow = w /\ verified.age < TokenTTL
    BY <1>2
  <2> QED
    BY <2>1, <2>2, <2>3 DEF ProofsAreFresh
<1>7. RunsAreEntitled'
  <2>1. ASSUME NEW x \in Run, pc'[x] = "ran"
        PROVE  x # r /\ pc[x] = "ran" /\ proof'[x] = proof[x] /\ asked'[x] = asked[x]
    BY <1>1, <2>1 DEF EntitledInv, PublishingType, PublishingTypeOK
  <2> QED
    BY <1>1, <2>1 DEF EntitledInv, RunsAreEntitled
<1> QED
  BY <1>4, <1>5, <1>6, <1>7

\* An execution that reads its workflow is ruled on what it read.
LEMMA ExecuteStep ==
    ASSUME EntitledInv, NEW r \in Run, Execute(r), UNCHANGED <<tokens, exports, workflows>>
    PROVE  /\ PublishingTypeOK' /\ asked' \in [Run -> Asked \cup {None}]
           /\ \A x \in Run : pc'[x] # "new" => asked'[x] \in Asked
           /\ ProofsAreFresh' /\ RunsAreEntitled'
<1>1. /\ pc[r] = "workflow" /\ row' = [row EXCEPT ![r] = exports[asked[r].workflow]]
      /\ UNCHANGED <<asked, proof, org_seen>>
  BY DEF Execute
<1>2. PICK l \in {"404", "403", "ran"} :
         pc' = [pc EXCEPT ![r] = l] /\ (l = "ran" => Ruling(r) = "Allow")
  BY DEF Execute
<1>3. asked[r] \in Asked /\ asked[r].workflow \in Workflow
  BY <1>1 DEF EntitledInv, PublishingType, Asked
<1>4. PublishingTypeOK'
  BY <1>1, <1>2, <1>3 DEF EntitledInv, PublishingType, PublishingTypeOK
<1>5. /\ asked' \in [Run -> Asked \cup {None}]
      /\ \A x \in Run : pc'[x] # "new" => asked'[x] \in Asked
  BY <1>1, <1>2, <1>3 DEF EntitledInv, PublishingType, PublishingTypeOK
<1>6. ProofsAreFresh'
  BY <1>1, <1>2 DEF EntitledInv, PublishingType, PublishingTypeOK, ProofsAreFresh
<1>7. ASSUME NEW x \in Run, pc'[x] = "ran"
      PROVE  /\ row'[x].is_exported
             /\ row'[x].password_hash # None =>
                   /\ proof'[x] # None
                   /\ proof'[x].token.workflow = asked'[x].workflow
                   /\ proof'[x].age < TokenTTL
             /\ row'[x].visibility = "org_only" =>
                   org_seen'[x] /\ asked'[x].credential \in {"bearer", "key"}
  <2>1. CASE x = r
    <3>1. Ruling(r) = "Allow" /\ row'[r] = exports[asked[r].workflow]
      BY <1>1, <1>2, <1>7, <2>1 DEF EntitledInv, PublishingType, PublishingTypeOK
    <3>2. proof[r] # None => /\ proof[r].token.workflow = asked[r].workflow
                             /\ proof[r].age < TokenTTL
      BY DEF EntitledInv, ProofsAreFresh
    <3>3. org_seen[r] => asked[r].credential \in {"bearer", "key"}
      BY DEF EntitledInv, MembersAreKnown
    <3> QED
      BY <1>1, <2>1, <3>1, <3>2, <3>3, RulingForbids
  <2>2. CASE x # r
    <3>1. pc[x] = "ran" /\ row'[x] = row[x]
      BY <1>1, <1>2, <1>7, <2>2 DEF EntitledInv, PublishingType, PublishingTypeOK
    <3> QED
      BY <1>1, <3>1 DEF EntitledInv, RunsAreEntitled
  <2> QED
    BY <2>1, <2>2
<1> QED
  BY <1>4, <1>5, <1>6, <1>7 DEF RunsAreEntitled

LEMMA ReadOrgRowsStep ==
    ASSUME EntitledInv, NEW r \in Run, ReadOrgRows(r), UNCHANGED <<tokens, exports, workflows>>
    PROVE  /\ PublishingTypeOK' /\ asked' \in [Run -> Asked \cup {None}]
           /\ \A x \in Run : pc'[x] # "new" => asked'[x] \in Asked
           /\ ProofsAreFresh' /\ RunsAreEntitled'
<1>1. /\ pc[r] = "org_rows" /\ pc' = [pc EXCEPT ![r] = "workflow"]
      /\ UNCHANGED <<asked, proof, row>>
      /\ \A x \in Run \ {r} : org_seen'[x] = org_seen[x]
  BY DEF ReadOrgRows, EntitledInv, PublishingType, PublishingTypeOK
<1>2. org_seen' \in [Run -> BOOLEAN]
  <2>1. (asked[r].credential \in {"bearer", "key"} /\ is_member) \in BOOLEAN
    OBVIOUS
  <2> QED
    BY <2>1 DEF ReadOrgRows, EntitledInv, PublishingType, PublishingTypeOK
<1>3. PublishingTypeOK'
  BY <1>1, <1>2 DEF EntitledInv, PublishingType, PublishingTypeOK
<1>4. /\ asked' \in [Run -> Asked \cup {None}]
      /\ \A x \in Run : pc'[x] # "new" => asked'[x] \in Asked
  BY <1>1 DEF EntitledInv, PublishingType, PublishingTypeOK
<1>5. ProofsAreFresh'
  BY <1>1 DEF EntitledInv, PublishingType, PublishingTypeOK, ProofsAreFresh
<1>6. RunsAreEntitled'
  <2>1. \A x \in Run : pc'[x] = "ran" => x # r /\ pc[x] = "ran"
    BY <1>1 DEF EntitledInv, PublishingType, PublishingTypeOK
  <2> QED
    BY <1>1, <2>1 DEF EntitledInv, RunsAreEntitled
<1> QED
  BY <1>3, <1>4, <1>5, <1>6

\* A step of anybody but an execution leaves what executions know.
LEMMA RunsStay ==
    ASSUME EntitledInv, UNCHANGED run
    PROVE  /\ asked' \in [Run -> Asked \cup {None}]
           /\ \A x \in Run : pc'[x] # "new" => asked'[x] \in Asked
           /\ ProofsAreFresh' /\ RunsAreEntitled'
  BY DEF EntitledInv, PublishingType, ProofsAreFresh, RunsAreEntitled, run

\* Who is read as a member was asked for before, and stays who he is.
LEMMA MembersStep ==
    ASSUME EntitledInv, Next
    PROVE  MembersAreKnown'
<1> USE DEF EntitledInv, PublishingType, PublishingTypeOK, MembersAreKnown
<1>1. CASE UNCHANGED run
  BY <1>1 DEF run
<1>2. ASSUME NEW r \in Run, NEW w \in Workflow, NEW c \in Credential,
             NEW token \in tokens \cup {None}, Begin(r, w, c, token)
      PROVE  MembersAreKnown'
  <2>1. /\ pc[r] = "new" /\ org_seen' = org_seen
        /\ \A x \in Run \ {r} : pc'[x] = pc[x] /\ asked'[x] = asked[x]
    BY <1>2 DEF Begin
  <2> QED
    BY <2>1
<1>3. ASSUME NEW r \in Run, ReadOrgRows(r) PROVE MembersAreKnown'
  <2>1. /\ pc'[r] = "workflow" /\ asked' = asked
        /\ org_seen'[r] => asked[r].credential \in {"bearer", "key"}
        /\ \A x \in Run \ {r} : pc'[x] = pc[x] /\ org_seen'[x] = org_seen[x]
    BY <1>3 DEF ReadOrgRows
  <2> QED
    BY <2>1
<1>4. ASSUME NEW r \in Run, Execute(r) PROVE MembersAreKnown'
  <2>1. /\ pc'[r] # "new" /\ UNCHANGED <<asked, org_seen>>
        /\ \A x \in Run \ {r} : pc'[x] = pc[x]
    BY <1>4 DEF Execute
  <2> QED
    BY <2>1
<1>5. CASE Govern \/ JoinOrLeave \/ Tick
  BY <1>1, <1>5 DEF Govern, JoinOrLeave, Tick
<1>6. CASE Visit
  BY <1>2, <1>3, <1>4, <1>6 DEF Visit
<1>7. ASSUME NEW k, NEW password, Exchange(k, password) PROVE MembersAreKnown'
  BY <1>1, <1>7 DEF Exchange
<1> QED
  BY <1>5, <1>6, <1>7 DEF Next

LEMMA EntitledStep == EntitledInv /\ Next => EntitledInv'
<1> SUFFICES ASSUME EntitledInv, Next PROVE EntitledInv'
  OBVIOUS
<1>1. now' \in Nat /\ was_password' \in [Workflow -> [Password -> Int]] /\ MembersAreKnown'
  BY ClockStep, RememberStep, MembersStep DEF EntitledInv, PublishingType, Next
<1>2. CASE Govern
  <2>1. UNCHANGED run /\ UNCHANGED tokens
    BY <1>2 DEF Govern
  <2> QED
    BY <1>1, <1>2, <2>1, GovernStep, OldTokens, RunsStay DEF EntitledInv, PublishingType
<1>3. CASE JoinOrLeave \/ Tick
  <2>1. UNCHANGED run /\ UNCHANGED <<tokens, workflows, exports>>
    BY <1>3 DEF JoinOrLeave, Tick
  <2>2. PublishingTypeOK'
    BY <2>1 DEF EntitledInv, PublishingType, PublishingTypeOK, run
  <2> QED
    BY <1>1, <2>1, <2>2, OldTokens, RunsStay DEF EntitledInv, PublishingType
<1>4. CASE Visit
  <2>1. UNCHANGED <<tokens, workflows, exports>>
    BY <1>4 DEF Visit
  <2>2. /\ PublishingTypeOK' /\ asked' \in [Run -> Asked \cup {None}]
        /\ \A x \in Run : pc'[x] # "new" => asked'[x] \in Asked
        /\ ProofsAreFresh' /\ RunsAreEntitled'
    BY <1>4, <2>1, BeginStep, ReadOrgRowsStep, ExecuteStep DEF Visit
  <2> QED
    BY <1>1, <2>1, <2>2, OldTokens DEF EntitledInv, PublishingType
<1>5. ASSUME NEW k \in Process \X Workflow \X Client, NEW password \in Password, Exchange(k, password)
      PROVE  EntitledInv'
  <2>1. UNCHANGED run /\ UNCHANGED <<workflows, exports>>
    BY <1>5 DEF Exchange
  <2>2. tokens' \subseteq Tokens /\ TokensWereBought'
    BY <1>5, ExchangeStep
  <2>3. PublishingTypeOK'
    BY <2>1, <2>2 DEF EntitledInv, PublishingType, PublishingTypeOK, run
  <2> QED
    BY <1>1, <2>1, <2>2, <2>3, RunsStay DEF EntitledInv, PublishingType
<1> QED
  BY <1>2, <1>3, <1>4, <1>5, ExchangeKeys DEF Next

LEMMA EntitledInit == Init => EntitledInv
<1> SUFFICES ASSUME Init PROVE EntitledInv
  OBVIOUS
<1>1. now = 0 /\ now \in Nat
  BY DEF Init, Limiter!Init
<1>2. PublishingType
  <2>1. exports \in [Workflow -> Exports] /\ row \in [Run -> Exports]
    BY NoExportTyped DEF Init
  <2>2. was_password \in [Workflow -> [Password -> Int]]
    <3>1. [p \in Password |-> Never] \in [Password -> Int]
      BY DEF Never
    <3> QED
      BY <3>1 DEF Init
  <2>3. workflows = Workflow /\ tokens = {}
    BY DEF Init
  <2>4. org_seen \in [Run -> BOOLEAN]
    BY DEF Init
  <2>5. asked \in [Run -> Asked \cup {None}] /\ proof \in [Run -> [token : Tokens, age : Nat] \cup {None}]
    BY DEF Init
  <2>6. /\ pc \in [Run -> {"new", "org_rows", "workflow", "ran", "401", "403", "404"}]
        /\ \A r \in Run : pc[r] = "new"
    BY DEF Init
  <2> QED
    BY <1>1, <2>1, <2>2, <2>3, <2>4, <2>5, <2>6 DEF PublishingType, PublishingTypeOK
<1>3. TokensWereBought /\ ProofsAreFresh /\ MembersAreKnown /\ RunsAreEntitled
  BY <1>1 DEF Init, TokensWereBought, ProofsAreFresh, MembersAreKnown, RunsAreEntitled, Never
<1> QED
  BY <1>2, <1>3 DEF EntitledInv

LEMMA EntitledStutter == EntitledInv /\ UNCHANGED vars => EntitledInv'
  BY DEF vars, run, limiter, EntitledInv, PublishingType, PublishingTypeOK, TokensWereBought,
     ProofsAreFresh, MembersAreKnown, RunsAreEntitled

LEMMA EntitledAlways == Spec => []EntitledInv
  BY EntitledInit, EntitledStep, EntitledStutter, PTL DEF Spec

\* Every reachable state is well typed, and a deleted workflow has no export row.
THEOREM PublishingTypeCorrect == Spec => []PublishingTypeOK
<1>1. EntitledInv => PublishingTypeOK
  BY DEF EntitledInv, PublishingType
<1> QED
  BY <1>1, EntitledAlways, PTL

\* Whoever ran a workflow from outside was entitled to: it was published, and its
\* password, if any, his token's, and no older than a token may be.
THEOREM RunsStayEntitled == Spec => []RunsAreEntitled
<1>1. EntitledInv => RunsAreEntitled
  BY DEF EntitledInv
<1> QED
  BY <1>1, EntitledAlways, PTL

-----------------------------------------------------------------------------
(* Publication and protection do not disturb each other.                   *)

OneColumnChanges ==
    \A w \in workflows' : exports'[w].password_hash # exports[w].password_hash
        => /\ exports'[w].is_exported = exports[w].is_exported
           /\ exports'[w].visibility = exports[w].visibility

LEMMA ColumnsStep ==
    ASSUME PublishingTypeOK, Next PROVE OneColumnChanges
<1> USE DEF PublishingTypeOK, Exports
<1>1. CASE UNCHANGED exports
  BY <1>1 DEF OneColumnChanges
<1>2. ASSUME NEW p \in Publisher, NEW x \in Workflow, DeleteWorkflow(p, x)
      PROVE  OneColumnChanges
  BY <1>2 DEF DeleteWorkflow, OneColumnChanges
<1>3. ASSUME NEW p \in Publisher, NEW x \in Workflow, NEW v \in {None, "public", "org_only"},
             Publish(p, x, v), UNCHANGED workflows
      PROVE  OneColumnChanges
  <2>1. \A w \in Workflow : exports'[w].password_hash = exports[w].password_hash
    BY <1>3 DEF Publish
  <2> QED
    BY <1>3, <2>1 DEF OneColumnChanges
<1>4. ASSUME NEW p \in Publisher, NEW x \in Workflow, Unpublish(p, x), UNCHANGED workflows
      PROVE  OneColumnChanges
  <2>1. \A w \in Workflow : exports'[w].password_hash = exports[w].password_hash
    BY <1>4 DEF Unpublish
  <2> QED
    BY <1>4, <2>1 DEF OneColumnChanges
<1>5. ASSUME NEW p \in Publisher, NEW x \in Workflow, NEW q \in Password \cup {None},
             Protect(p, x, q), UNCHANGED workflows
      PROVE  OneColumnChanges
  <2>1. \A w \in Workflow : /\ exports'[w].is_exported = exports[w].is_exported
                            /\ exports'[w].visibility = exports[w].visibility
    BY <1>5 DEF Protect
  <2> QED
    BY <1>5, <2>1 DEF OneColumnChanges
<1>6. CASE Govern
  BY <1>2, <1>3, <1>4, <1>5, <1>6 DEF Govern
<1>7. Govern \/ UNCHANGED exports
  BY ZenonT(30) DEF Next, JoinOrLeave, Tick, Visit, Exchange
<1> QED
  BY <1>1, <1>6, <1>7

\* No step both changes a workflow's password and to whom it is published.
THEOREM PasswordStaysApart == Spec => PasswordIsKept
<1>1. PublishingTypeOK /\ [Next]_vars => [OneColumnChanges]_vars
  BY ColumnsStep
<1>2. [OneColumnChanges]_vars =>
        [\A w \in workflows' : exports'[w].password_hash # exports[w].password_hash
            => /\ exports'[w].is_exported = exports[w].is_exported
               /\ exports'[w].visibility = exports[w].visibility]_vars
  BY DEF OneColumnChanges
<1> QED
  BY <1>1, <1>2, PublishingTypeCorrect, PTL DEF Spec, PasswordIsKept

=============================================================================
