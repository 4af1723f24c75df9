--------------------------- MODULE MCSigningKeys ---------------------------
(***************************************************************************)
(* Two key ids, either of which may be withdrawn, never published, or       *)
(* published while a token waits.  Times keep the order of the program's    *)
(* (an interval of 60 s, a lifespan of 300 s) and leave a few intervals.    *)
(***************************************************************************)
EXTENDS SigningKeys

CONSTANTS old, new

\* A token that expires in the middle of the run, and one that does not.
MCExp == {MaxTime - Interval, MaxTime + 1}

=============================================================================
