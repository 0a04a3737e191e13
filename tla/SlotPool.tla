------------------------------- MODULE SlotPool -------------------------------
(***************************************************************************)
(* What the concurrent playback limit promises, seen from outside: every   *)
(* upstream server has a pool of capacity units, a user holds at most one  *)
(* unit of a server, and a user who holds none gets one only while fewer   *)
(* users hold one than the limit the request was admitted under.  A unit   *)
(* is given back, or lost to silence.                                      *)
(*                                                                         *)
(* PlaybackLimiter implements this specification.                          *)
(***************************************************************************)
EXTENDS Integers, FiniteSets

CONSTANTS Users, Servers, Limits

VARIABLE holders    \* holders[s]: the users counted against server s

PoolInit == holders = [s \in Servers |-> {}]

Admit(u, s, max) ==
    /\ u \notin holders[s]
    /\ Cardinality(holders[s]) < max
    /\ holders' = [holders EXCEPT ![s] = @ \cup {u}]

\* Users of any servers leave, or time passes over silent ones.
Leave ==
    /\ holders' \in [Servers -> SUBSET Users]
    /\ \A s \in Servers : holders'[s] \subseteq holders[s]

PoolNext ==
    \/ \E u \in Users, s \in Servers, max \in Limits : Admit(u, s, max)
    \/ Leave

PoolSpec == PoolInit /\ [][PoolNext]_holders

\* No server has more holders than some limit it was configured with.
WithinLimit == \A s \in Servers : \E max \in Limits : Cardinality(holders[s]) <= max

===============================================================================
