---------------------------- MODULE MCMemoryStores ----------------------------
(* The bounded tables in memory that requests share, for TLC: the catalog     *)
(* snapshots, and the resources and capabilities of playbacks. A behaviour is *)
(* about one of them.                                                         *)
EXTENDS MCCatalogScan, StreamResources, TLC

CONSTANTS l1, l2, a1, m1, v1, v2, g1, r1

TheTries == (l1 :> a1) @@ (l2 :> None)

\* "windows": the rolling playlists of a legacy play, and a whole one.
\* "attempts": a strict play beside a legacy one that may take the last room.
MemoryInit ==
    /\ StreamInit
    /\ \/ MCInit
       \/ Init /\ lists[k1] = Plain /\ lists[k2] = Plain /\ focus \in {"windows", "attempts"}

Windowed ==
    \/ \E m \in Playlists : AskPlaylist(r1, l2, m, None)
    \/ \E h \in Handles : FetchResource(r1, h, None) \/ FetchTooLate(h, None)
    \/ \E urls \in SUBSET URLs : AnswerPlaylist(r1, urls, TRUE)
    \/ AnswerPlaylist(r1, {v1}, FALSE)
    \/ TickClock
Attempted ==
    \/ AskPlaylist(r1, l1, m1, g1)
    \/ \E h \in Handles, c \in {g1, None} : FetchTooLate(h, c)
    \/ \E h \in Handles : FetchResource(r1, h, g1) /\ reader'[r1] = None
    \/ \E rolling \in BOOLEAN : AnswerPlaylist(r1, {v1}, rolling)
    \/ PlaylistFails(r1)
    \/ LegacyInfo(l2, {v2}) \/ LegacyInfo(l2, {v1, v2})
    \/ ReclaimAttempts
    \/ IssueCapability(a1, g1)
    \/ \E urls \in {{}, {v1}} : CommitNegotiation(l1, urls, g1)
    \/ ReserveAttempt(a1) \/ RollBack(a1) \/ EndAttempt(a1) \/ ForgetAttempt(a1)
    \/ TickClock

MemoryNext ==
    \/ focus = "windows" /\ Windowed /\ UNCHANGED <<vars, focus>>
    \/ focus = "attempts" /\ Attempted /\ UNCHANGED <<vars, focus>>
    \/ focus \in {"pages", "sharing"} /\ MCNext /\ UNCHANGED streamVars
MemorySpec == MemoryInit /\ [][MemoryNext]_<<vars, focus, streamVars>>
===============================================================================
