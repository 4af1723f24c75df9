------------------------ MODULE RateLimiterProofs ------------------------
(***************************************************************************)
(* Proofs about RateLimiter, for any keys, base, cap, and clock.           *)
(***************************************************************************)
EXTENDS RateLimiter, TLAPS

LimiterType ==
    /\ now \in Nat
    /\ attempts \in [Key -> Nat]
    /\ blocked_until \in [Key -> Int]
    /\ wrong \in [Key -> Seq(Nat)]

\* What the deadline of a key says of its history: the count is that of the
\* wrong guesses, no deadline is left when there are none, and otherwise it lies
\* a backoff after the last one.
DeadlineStands(k) ==
    /\ attempts[k] = Len(wrong[k])
    /\ wrong[k] = << >> => blocked_until[k] = 0
    /\ Len(wrong[k]) \in 1 .. MaxExponent + 1
          => blocked_until[k] >= wrong[k][Len(wrong[k])] + Backoff(Len(wrong[k]))
    /\ blocked_until[k] <= now + MaxSeconds
    /\ \A i \in 1 .. Len(wrong[k]) - 1 : i <= MaxExponent + 1 => Spaced(k, i)

LimiterInv == LimiterType /\ \A k \in Key : DeadlineStands(k)

\* A delay is a number of seconds and at most the cap.
LEMMA BackoffBounded ==
    ASSUME LimiterAssumption, NEW n \in Nat \ {0}
    PROVE  Backoff(n) \in Int /\ Backoff(n) <= MaxSeconds
<1>1. 2^(n - 1) \in Int
  OBVIOUS
<1>2. BaseSeconds * 2^(n - 1) \in Int
  BY <1>1 DEF LimiterAssumption
<1> QED
  BY <1>2 DEF Backoff, LimiterAssumption

LEMMA LimiterInit == LimiterAssumption /\ Init => LimiterInv
  BY DEF LimiterAssumption, Init, LimiterInv, LimiterType, DeadlineStands

\* A wrong guess let through at the deadline extends the history by one that is
\* a backoff later.
LEMMA FailureStep ==
    ASSUME LimiterAssumption, LimiterInv, NEW k \in Key, GuessWrong(k)
    PROVE  LimiterInv'
<1> DEFINE n == Len(wrong[k])
<1>1. n \in Nat /\ wrong[k] \in Seq(Nat) /\ attempts[k] = n /\ now \in Nat /\ now' = now
  BY DEF LimiterInv, LimiterType, DeadlineStands, GuessWrong
<1>2. /\ wrong' = [wrong EXCEPT ![k] = Append(wrong[k], now)]
      /\ attempts' = [attempts EXCEPT ![k] = n + 1]
      /\ blocked_until' = IF n <= MaxExponent
                          THEN [blocked_until EXCEPT ![k] = now + Backoff(n + 1)]
                          ELSE blocked_until
      /\ blocked_until[k] <= now
  BY <1>1 DEF GuessWrong, RecordFailure, Pass, Delay
<1>3. Backoff(n + 1) \in Int /\ Backoff(n + 1) <= MaxSeconds
  BY <1>1, BackoffBounded
<1>4. LimiterType'
  BY <1>1, <1>2, <1>3 DEF LimiterInv, LimiterType
<1>5. wrong'[k] = Append(wrong[k], now) /\ Len(wrong'[k]) = n + 1 /\ wrong'[k][n + 1] = now
  BY <1>1, <1>2 DEF LimiterInv, LimiterType
<1>6. \A i \in 1 .. n : wrong'[k][i] = wrong[k][i]
  BY <1>1, <1>5
<1>7. DeadlineStands(k)'
  <2>1. attempts'[k] = Len(wrong'[k]) /\ wrong'[k] # << >>
    BY <1>1, <1>2, <1>5 DEF LimiterInv, LimiterType
  <2>2. n + 1 <= MaxExponent + 1 => blocked_until'[k] >= wrong'[k][n + 1] + Backoff(n + 1)
    BY <1>1, <1>2, <1>3, <1>5 DEF LimiterInv, LimiterType, LimiterAssumption
  <2>3. blocked_until'[k] <= now' + MaxSeconds
    BY <1>1, <1>2, <1>3 DEF LimiterInv, LimiterType, LimiterAssumption, DeadlineStands
  <2>4. ASSUME NEW i \in 1 .. n, i <= MaxExponent + 1
        PROVE  Spaced(k, i)'
    <3>1. CASE i < n
      <4>1. Spaced(k, i)
        BY <1>1, <2>4, <3>1 DEF LimiterInv, DeadlineStands
      <4> QED
        BY <1>1, <1>6, <2>4, <3>1, <4>1, SMTT(30) DEF Spaced
    <3>2. CASE i = n
      <4>1. blocked_until[k] >= wrong[k][n] + Backoff(n)
        BY <1>1, <2>4, <3>2 DEF LimiterInv, DeadlineStands
      <4>2. Backoff(n) \in Int /\ wrong[k][n] \in Int /\ blocked_until[k] \in Int
        BY <1>1, <2>4, <3>2, BackoffBounded DEF LimiterInv, LimiterType
      <4> QED
        BY <1>1, <1>2, <1>5, <1>6, <2>4, <3>2, <4>1, <4>2 DEF Spaced
    <3> QED
      BY <1>1, <2>4, <3>1, <3>2
  <2> QED
    BY <1>1, <1>5, <2>1, <2>2, <2>3, <2>4 DEF DeadlineStands
<1>8. ASSUME NEW x \in Key, x # k PROVE DeadlineStands(x)'
  <2>1. /\ wrong'[x] = wrong[x] /\ attempts'[x] = attempts[x]
        /\ blocked_until'[x] = blocked_until[x]
    BY <1>2, <1>8 DEF LimiterInv, LimiterType
  <2> QED
    BY <1>1, <1>8, <2>1 DEF LimiterInv, DeadlineStands, Spaced
<1> QED
  BY <1>4, <1>7, <1>8 DEF LimiterInv

\* A right guess forgets the key.
LEMMA SuccessStep ==
    ASSUME LimiterAssumption, LimiterInv, NEW k \in Key, GuessRight(k)
    PROVE  LimiterInv'
<1>1. LimiterType' /\ now' = now
  BY DEF LimiterInv, LimiterType, GuessRight, RecordSuccess
<1>2. /\ wrong'[k] = << >> /\ attempts'[k] = 0 /\ blocked_until'[k] = 0
      /\ \A x \in Key \ {k} : /\ wrong'[x] = wrong[x] /\ attempts'[x] = attempts[x]
                              /\ blocked_until'[x] = blocked_until[x]
  BY DEF LimiterInv, LimiterType, GuessRight, RecordSuccess
<1>3. DeadlineStands(k)'
  BY <1>1, <1>2 DEF LimiterInv, LimiterType, LimiterAssumption, DeadlineStands
<1>4. ASSUME NEW x \in Key, x # k PROVE DeadlineStands(x)'
  BY <1>1, <1>2, <1>4 DEF LimiterInv, DeadlineStands, Spaced
<1> QED
  BY <1>1, <1>3, <1>4 DEF LimiterInv

LEMMA TickStep ==
    ASSUME LimiterAssumption, LimiterInv, Tick PROVE LimiterInv'
<1>1. now \in Nat /\ now' \in Nat /\ now' > now /\ UNCHANGED <<attempts, blocked_until, wrong>>
  BY DEF Tick, LimiterInv, LimiterType, LimiterAssumption
<1>2. LimiterType'
  BY <1>1 DEF LimiterInv, LimiterType
<1>3. ASSUME NEW k \in Key PROVE DeadlineStands(k)'
  <2>1. blocked_until[k] \in Int /\ blocked_until[k] <= now + MaxSeconds /\ MaxSeconds \in Nat
    BY DEF LimiterInv, LimiterType, DeadlineStands, LimiterAssumption
  <2>2. blocked_until'[k] <= now' + MaxSeconds
    BY <1>1, <2>1
  <2> QED
    BY <1>1, <2>2 DEF LimiterInv, DeadlineStands, Spaced
<1> QED
  BY <1>2, <1>3 DEF LimiterInv

LEMMA LimiterStep == LimiterAssumption /\ LimiterInv /\ [Next]_vars => LimiterInv'
<1>1. LimiterAssumption /\ LimiterInv /\ UNCHANGED vars => LimiterInv'
  BY DEF vars, LimiterInv, LimiterType, DeadlineStands, Spaced
<1> QED
  BY <1>1, FailureStep, SuccessStep, TickStep DEF Next

\* What the invariant says of guesses and of blocks.
LEMMA InvImplies == LimiterAssumption /\ LimiterInv => GuessesAreSpaced /\ BlocksAreShort
  BY DEF LimiterAssumption, LimiterInv, LimiterType, DeadlineStands, GuessesAreSpaced, BlocksAreShort, Pass

\* A client of the limiter has its guesses spaced, and is not blocked for long.
THEOREM LimiterKeepsItsPromise ==
    ASSUME LimiterAssumption PROVE Spec => [](GuessesAreSpaced /\ BlocksAreShort)
  BY LimiterInit, LimiterStep, InvImplies, PTL DEF Spec

=============================================================================
