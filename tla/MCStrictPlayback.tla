---------------------------- MODULE MCStrictPlayback ----------------------------
(* Instances of StrictPlayback for TLC.                                    *)
EXTENDS StrictPlayback, TLC

CONSTANTS a1, a2, u1, u2, s1, s2, i1, x1, r1, r2

TwoAttempts == {a1, a2}
OneAttempt == {a1}
OneUser == {u1}
TwoUsers == {u1, u2}
OneServer == {s1}
TwoServers == {s1, s2}
OneItem == {i1}
OneAlias == {x1}
TwoRequests == {r1, r2}

\* The limiter's history variable decides nothing.
StateView == <<streams, nextVersion, tokens, switches, storeVars,
               negotiationVars, requests>>

StrictSymmetry == Permutations(Requests) \cup Permutations(Attempts)
===============================================================================
