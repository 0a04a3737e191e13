------------------------ MODULE MCPlaybackIdentityStore ------------------------
(* Instances of PlaybackIdentityStore for TLC.                             *)
EXTENDS PlaybackIdentityStore, TLC

CONSTANTS a1, a2, u1, u2, srv, x1, i1

TwoAttempts == {a1, a2}
TwoUsers == {u1, u2}
OneAccount == {srv}
OneItem == {i1}
OneAlias == {x1}
===============================================================================
