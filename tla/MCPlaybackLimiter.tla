--------------------------- MODULE MCPlaybackLimiter ---------------------------
(* Instances of PlaybackLimiter for TLC.                                   *)
EXTENDS PlaybackLimiter, TLC

CONSTANTS u1, u2, s1, s2, i1, i2, d1, p1, p2

TwoUsers == {u1, u2}
TwoServers == {s1, s2}
TwoItems == {i1, i2}
TwoPlays == {p1, p2}
OneServer == {s1}
OneUser == {u1}
OneItem == {i1}
OneDevice == {d1}
NoDevice == {}

SwitchSymmetry == Permutations(TwoServers) \cup Permutations(TwoPlays)

VARIABLE focus

Requests(users, servers, items, identities) ==
    \/ \E u \in users, s \in servers, item \in items, max \in Limits : TryReserve(u, s, item, max)
    \/ \E u \in users, s, from \in servers, item \in items, id \in identities, max \in Limits :
          id.session = None /\ EnsureStreamSlot(u, s, from, item, id.play, max)
    \/ \E u \in users, s \in servers, max \in Limits : RefuseStream(u, s, max)
    \/ \E op \in {"started", "progress", "stopped"}, k \in users \X servers,
         item \in items \cup {None}, id \in identities : SessionEvent(op, k, item, id)

Ongoing(plays) ==
    \/ \E t \in tokens, p \in plays : BindReservationPlaySession(t, p)
    \/ \E t \in tokens : ReleaseReservation(t) \/ ForgetReservation(t)
    \/ \E w \in switches : ReleaseSwitchedSource(w)
    \/ Tick
    \/ Cleanup

PlayIdentities == {PlayIdentity(p) : p \in MaybePlay}

(* Two questions are explored in turns: two attempts and two items of one   *)
(* user on one server, and two users who compete for it.                    *)
MCInit == Init /\ focus \in {"attempts", "capacity"}
MCNext ==
    /\ \/ focus = "attempts" /\ Requests({u1}, {s1}, TwoItems, Identity)
       \/ focus = "attempts" /\ Ongoing(TwoPlays)
       \/ focus = "capacity" /\ Requests(TwoUsers, {s1}, {i1}, {Anonymous, PlayIdentity(p1)})
       \/ focus = "capacity" /\ Ongoing({p1})
    /\ UNCHANGED focus
MCSpec == MCInit /\ [][MCNext]_<<vars, focus>> /\ WF_<<vars, focus>>(Tick /\ UNCHANGED focus)

\* One user who switches between two servers.
SwitchInit == Init /\ focus = "switching"
SwitchNext == /\ \/ Requests({u1}, TwoServers, {i1}, PlayIdentities)
                 \/ Ongoing(TwoPlays)
              /\ UNCHANGED focus
SwitchingSpec == SwitchInit /\ [][SwitchNext]_<<vars, focus>>
===============================================================================
