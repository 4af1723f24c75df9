---------------------------- MODULE RateLimiter ----------------------------
(***************************************************************************)
(* The exponential backoff of the password exchange, as one process keeps   *)
(* it: attempts and a deadline per (workflow, client) key, in memory.  A    *)
(* key of this module is a key of one process; processes share nothing.     *)
(***************************************************************************)
EXTENDS Integers, Sequences

CONSTANTS
    Key,
    BaseSeconds, MaxSeconds, \* the backoff of the first failure, and its cap
    MaxExponent,             \* the largest e for which 2**e is a float; 1023
    EndOfTime, MaxGuesses    \* bounds on the clock and on the wrong guesses of a key

LimiterAssumption ==
    /\ BaseSeconds \in Nat \ {0} /\ MaxSeconds \in Nat \ {0}
    /\ MaxExponent \in Nat /\ EndOfTime \in Nat /\ MaxGuesses \in Nat

VARIABLES
    now,           \* time.monotonic(), in seconds
    attempts,      \* _attempts, 0 when absent
    blocked_until, \* _blocked_until, 0 when absent
    wrong          \* when each wrong guess since the last right one was made

vars == <<now, attempts, blocked_until, wrong>>

\* min(base * 2 ** (attempts - 1), max)
Backoff(n) == IF BaseSeconds * 2^(n - 1) < MaxSeconds THEN BaseSeconds * 2^(n - 1) ELSE MaxSeconds

Init ==
    /\ now = 0
    /\ attempts = [k \in Key |-> 0]
    /\ blocked_until = [k \in Key |-> 0]
    /\ wrong = [k \in Key |-> << >>]

\* Mutant: the remaining time is tested with the wrong sign.
PassOnceBlocked(k) == now <= blocked_until[k] \/ attempts[k] = 0

Pass(k) == blocked_until[k] <= now

\* Mutant: nothing caps the delay.
DelayUncapped(n) == BaseSeconds * 2^(n - 1)

Delay(n) == Backoff(n)

\* The deadline is computed after the count is stored; past the float range
\* that raises OverflowError and the deadline stays as it was.
RecordFailure(k) ==
    /\ Len(wrong[k]) < MaxGuesses
    /\ attempts' = [attempts EXCEPT ![k] = @ + 1]
    /\ blocked_until' = IF attempts[k] <= MaxExponent
                        THEN [blocked_until EXCEPT ![k] = now + Delay(attempts[k] + 1)]
                        ELSE blocked_until
    /\ wrong' = [wrong EXCEPT ![k] = Append(@, now)]

RecordSuccess(k) ==
    /\ attempts' = [attempts EXCEPT ![k] = 0]
    /\ blocked_until' = [blocked_until EXCEPT ![k] = 0]
    /\ wrong' = [wrong EXCEPT ![k] = << >>]

GuessWrong(k) == Pass(k) /\ RecordFailure(k) /\ UNCHANGED now

GuessRight(k) == Pass(k) /\ RecordSuccess(k) /\ UNCHANGED now

\* Any number of seconds go by.
Tick ==
    /\ now' \in now + 1 .. EndOfTime
    /\ UNCHANGED <<attempts, blocked_until, wrong>>

Next == Tick \/ \E k \in Key : GuessWrong(k) \/ GuessRight(k)

Spec == Init /\ [][Next]_vars

-----------------------------------------------------------------------------
(* Properties.                                                             *)

\* The limiter's maps and the history of guesses have their types, and the
\* count is that of the wrong guesses since the last right one.
LimiterTypeOK ==
    /\ now \in Nat
    /\ attempts \in [Key -> Nat]
    /\ blocked_until \in [Key -> Nat]
    /\ wrong \in [Key -> Seq(Nat)]
    /\ \A k \in Key : attempts[k] = Len(wrong[k])

Spaced(k, i) == wrong[k][i + 1] - wrong[k][i] >= Backoff(i)

\* After the n-th wrong guess in a row the next guess of that key waits
\* min(base * 2^(n-1), max) seconds, whatever other keys do: as long as the
\* exponent is in range.
GuessesAreSpaced ==
    \A k \in Key : \A i \in 1 .. Len(wrong[k]) - 1 : i <= MaxExponent + 1 => Spaced(k, i)

\* Nobody is ever more than max_seconds away from his next guess, and who has
\* just given the right password is not blocked at all.
BlocksAreShort ==
    \A k \in Key : /\ blocked_until[k] <= now + MaxSeconds
                   /\ wrong[k] = << >> => Pass(k)

=============================================================================
