---------------------------- MODULE PlaybackLimiter ----------------------------
(***************************************************************************)
(* The concurrent playback limit (playback_limiter.go and                  *)
(* playback_session_identity.go).                                          *)
(*                                                                         *)
(* A capacity unit belongs to one user on one upstream server.  It is      *)
(* reserved by a PlaybackInfo request, registered or touched by every      *)
(* stream request, claimed, refreshed and released by the client's session *)
(* events, and lost when no accepted request refreshed it for the          *)
(* heartbeat timeout.  Every method runs under the limiter's mutex and is  *)
(* one action; what interleaves is the handlers, which hold a reservation  *)
(* token or a reference version between two calls while other requests of  *)
(* the same user, late ones of an earlier attempt included, are served.    *)
(***************************************************************************)
EXTENDS Integers, FiniteSets

CONSTANTS
    Users,          \* users the limit applies to (never administrators)
    Servers,        \* upstream servers
    Items,          \* virtual item IDs
    Sessions,       \* device SessionIds
    PlaySessions,   \* PlaySessionIds
    None,           \* an absent ID: the empty string of the code
    Limits,         \* the MaxConcurrent values a request may read
    Timeout,        \* playbackHeartbeatTimeout in clock ticks
    MaxVersion,     \* bound: versions handed out
    MaxTokens,      \* bound: reservations held
    MaxSwitches     \* bound: stream requests between their two limiter calls

ASSUME UsersAssumption == IsFiniteSet(Users)
ASSUME LimitsAssumption == Limits \subseteq Nat /\ Limits # {}
ASSUME TimeoutAssumption == Timeout \in Nat \ {0}
ASSUME BoundsAssumption ==
    MaxVersion \in Nat /\ MaxTokens \in Nat /\ MaxSwitches \in Nat
ASSUME NoneAssumption ==
    None \notin Items \cup Sessions \cup PlaySessions

VARIABLES
    streams,        \* streams[<<user, server>>]: the capacity unit, or NoUnit
    nextVersion,    \* the version counter
    tokens,         \* reservations a PlaybackInfo request or a candidate holds
    switches,       \* stream requests that still have to leave a server
    last            \* history: the request the limiter served last

vars == <<streams, nextVersion, tokens, switches, last>>

-------------------------------------------------------------------------------
(* Identities: what a request tells about the attempt it belongs to.       *)

MaybeItem == Items \cup {None}
MaybePlay == PlaySessions \cup {None}
Identity == [session : Sessions \cup {None}, play : MaybePlay]
Anonymous == [session |-> None, play |-> None]
PlayIdentity(p) == [session |-> None, play |-> p]

Shared(a, b) == {f \in {"session", "play"} : a[f] # None /\ b[f] # None}

\* Some field is present on both sides and no such field differs.
Matches(a, b) ==
    /\ Shared(a, b) # {}
    /\ \A f \in Shared(a, b) : a[f] = b[f]

Conflicts(a, b) == \E f \in Shared(a, b) : a[f] # b[f]

-------------------------------------------------------------------------------
(* Capacity units.                                                         *)

Key == Users \X Servers

Unit == [item : MaybeItem, age : 0..Timeout, version : 0..MaxVersion,
         claim : Identity, claimVersion : 0..MaxVersion,
         reserved : BOOLEAN, bound : MaybePlay]

\* Version 0 is never handed out: it marks the absence of a unit.
NoUnit == [item |-> None, age |-> 0, version |-> 0,
           claim |-> Anonymous, claimVersion |-> 0,
           reserved |-> FALSE, bound |-> None]

Exists(e) == e.version # 0
Expired(e) == e.age >= Timeout
Claimed(e) == e.claim # Anonymous
LiveClaim(e) == Claimed(e) /\ e.claimVersion = e.version
ReservedFor(e, id) == e.bound # None /\ id.play = e.bound
BoundReservation(e) == e.reserved /\ e.bound # None
\* Faulty: lets requests without an identity through.
AnonymousPasses(e, id) == BoundReservation(e) /\ id # Anonymous /\ ~ReservedFor(e, id)
ProvesOtherAttempt(e, id) == BoundReservation(e) /\ ~ReservedFor(e, id)
SameItem(e, item) == e.item = None \/ item = None \/ e.item = item

\* Faulty: any identity but the frozen one, whatever the reservation was bound to.
NotTheOldSession(e, id) == id # Anonymous /\ ~Matches(e.claim, id)
\* May id take over a claim that a newer reservation froze?
AcceptsNewAttempt(e, id) ==
    /\ id # Anonymous
    /\ IF e.bound # None THEN id.play = e.bound ELSE Conflicts(e.claim, id)

Active(k) == Exists(streams[k]) /\ ~Expired(streams[k])
Holders(s) == {u \in Users : Active(<<u, s>>)}
\* Faulty: off by one.
RoomForOneMore(s, max) == Cardinality(Holders(s)) <= max
HasRoom(s, max) == Cardinality(Holders(s)) < max

\* The unit a call finds: an expired one is deleted first.
Found(k) == IF Expired(streams[k]) THEN NoUnit ELSE streams[k]

Touched(e) == [e EXCEPT !.age = 0]
ClaimedBy(e, id) ==
    IF id = Anonymous THEN e
    ELSE [e EXCEPT !.claim = id, !.claimVersion = e.version, !.reserved = FALSE]
\* A new attempt on another item.
Restarted(e, item) ==
    [e EXCEPT !.item = item, !.version = nextVersion + 1, !.age = 0]

-------------------------------------------------------------------------------
(* The history variable: what was served last, and whether the request had *)
(* a right to act for the attempt that held the unit.  It may: its         *)
(* identity matches the live claim; without one, it carries the            *)
(* PlaySessionId the reservation was bound to; without a binding, it       *)
(* contradicts the frozen claim, or nobody claimed the unit at all.        *)

Owns(e, id) ==
    IF LiveClaim(e) THEN Matches(e.claim, id)
    ELSE IF BoundReservation(e) THEN id.play = e.bound
    ELSE Claimed(e) => Conflicts(e.claim, id)

Quiet == [op |-> "none", key |-> None, same |-> FALSE, owns |-> FALSE, local |-> FALSE]

\* A request for a unit; local is the verdict's LocalProgress.
Served(op, k, item, id, local) ==
    last' = [op |-> op, key |-> k, same |-> SameItem(Found(k), item),
             owns |-> Owns(Found(k), id), local |-> local]

Put(k, e) == streams' = [streams EXCEPT ![k] = e]
Keep(k, e) == Put(k, e) /\ UNCHANGED nextVersion
Advance(k, e) ==
    /\ nextVersion < MaxVersion
    /\ nextVersion' = nextVersion + 1
    /\ Put(k, e)

-------------------------------------------------------------------------------
Init ==
    /\ streams = [k \in Key |-> NoUnit]
    /\ nextVersion = 0
    /\ tokens = {}
    /\ switches = {}
    /\ last = Quiet

(* PlaybackInfo: reserve, then bind or release, then forget the token.     *)
(* A request that reads no limit (0) never reaches the units.              *)

TryReserve(u, s, item, max) ==
    LET k == <<u, s>>
        e == Found(k)
    IN  /\ max > 0
        /\ Cardinality(tokens) < MaxTokens
        /\ \/ /\ Exists(e) \/ HasRoom(s, max)
              /\ Advance(k, [Restarted(e, item) EXCEPT !.reserved = TRUE, !.bound = None])
              /\ tokens' = tokens \cup {[key |-> k, version |-> nextVersion + 1]}
           \/ /\ ~Exists(e) /\ ~HasRoom(s, max)
              /\ Keep(k, e)
              /\ UNCHANGED tokens
        /\ last' = [Quiet EXCEPT !.op = "reserve", !.key = k]
        /\ UNCHANGED switches

BindReservationPlaySession(t, p) ==
    /\ streams[t.key].version = t.version
    /\ Put(t.key, [streams[t.key] EXCEPT !.bound = p])
    /\ last' = Quiet
    /\ UNCHANGED <<nextVersion, tokens, switches>>

ReleaseReservation(t) ==
    /\ IF streams[t.key].version = t.version
       THEN Put(t.key, NoUnit)
       ELSE UNCHANGED streams
    /\ tokens' = tokens \ {t}
    /\ last' = [Quiet EXCEPT !.op = "release", !.key = t.key]
    /\ UNCHANGED <<nextVersion, switches>>

\* The PlaybackInfo request succeeded; a strict candidate may still hold the token.
ForgetReservation(t) ==
    /\ tokens' = tokens \ {t}
    /\ last' = Quiet
    /\ UNCHANGED <<streams, nextVersion, switches>>

(* A stream request: the unit of the server that serves it is registered   *)
(* or touched, then the unit of the server it switched away from is left.  *)

StreamHeldLive(k, e, item, id) ==
    /\ LiveClaim(e)
    /\ \/ /\ ~Matches(e.claim, id)
          /\ Keep(k, IF id = Anonymous /\ SameItem(e, item) THEN Touched(e) ELSE e)
       \/ /\ Matches(e.claim, id) /\ SameItem(e, item)
          /\ Keep(k, [Touched(e) EXCEPT !.reserved = FALSE])
       \/ /\ Matches(e.claim, id) /\ ~SameItem(e, item)
          /\ Advance(k, ClaimedBy(Restarted(e, item), e.claim))

StreamHeldFrozen(k, e, item, id) ==
    /\ Claimed(e) /\ ~LiveClaim(e)
    /\ Keep(k, IF /\ ~Matches(e.claim, id)
                  /\ SameItem(e, item) /\ ReservedFor(e, id)
               THEN ClaimedBy(Touched(e), id)
               ELSE e)

StreamHeldUnclaimed(k, e, item, id) ==
    /\ Exists(e) /\ ~Claimed(e)
    /\ IF ProvesOtherAttempt(e, id) \/ (e.reserved /\ ~SameItem(e, item))
       THEN Keep(k, e)
       ELSE IF SameItem(e, item)
       THEN Keep(k, ClaimedBy(Touched(e), id))
       ELSE Advance(k, ClaimedBy(Restarted(e, item), id))

StreamNew(k, s, item, id, max) ==
    /\ ~Exists(Found(k)) /\ HasRoom(s, max)
    /\ Advance(k, ClaimedBy(Restarted(NoUnit, item), id))

\* Two requests may be about to leave the same unit alike: n tells them apart.
FreeSwitches == {n \in 1..MaxSwitches : \A w \in switches : w.n # n}

\* previousVersion is 0 when the server had no unit for the user.
EnsureStreamSlot(u, s, from, item, p, max) ==
    LET k == <<u, s>>
        e == Found(k)
        id == PlayIdentity(p)
    IN  /\ max > 0
        /\ \/ StreamHeldLive(k, e, item, id)
           \/ StreamHeldFrozen(k, e, item, id)
           \/ StreamHeldUnclaimed(k, e, item, id)
           \/ StreamNew(k, s, item, id, max)
        /\ \/ from = s /\ UNCHANGED switches
           \/ /\ from # s
              /\ \E n \in FreeSwitches :
                    switches' = switches \cup {[n |-> n, key |-> <<u, from>>, item |-> item,
                                               id |-> id, ref |-> e.version]}
        /\ Served("stream", k, item, id, FALSE)
        /\ UNCHANGED tokens

\* The server is full: 429, and the expired unit of the user is gone.
RefuseStream(u, s, max) ==
    /\ max > 0
    /\ ~Exists(Found(<<u, s>>)) /\ ~HasRoom(s, max)
    /\ Keep(<<u, s>>, NoUnit)
    /\ last' = Quiet
    /\ UNCHANGED <<tokens, switches>>

\* Faulty: ignores that the unit may be newer than the switch.
LeavesNewerUnit(e, w) ==
    /\ Exists(e) /\ SameItem(e, w.item) /\ w.ref # 0
    /\ \/ ReservedFor(e, w.id)
       \/ LiveClaim(e) /\ Matches(e.claim, w.id)
       \/ ~Claimed(e) /\ e.claimVersion = 0 /\ w.id = Anonymous
\* Does the switch w release unit e?  Expiry is not consulted here.
LeavesUnit(e, w) ==
    /\ Exists(e) /\ SameItem(e, w.item)
    /\ w.ref # 0 /\ e.version <= w.ref
    /\ \/ ReservedFor(e, w.id)
       \/ LiveClaim(e) /\ Matches(e.claim, w.id)
       \/ ~Claimed(e) /\ e.claimVersion = 0 /\ w.id = Anonymous

ReleaseSwitchedSource(w) ==
    /\ streams' = IF LeavesUnit(streams[w.key], w)
                  THEN [streams EXCEPT ![w.key] = NoUnit]
                  ELSE streams
    /\ switches' = switches \ {w}
    /\ last' = [op |-> "switch", key |-> w.key, local |-> FALSE,
                same |-> SameItem(streams[w.key], w.item),
                owns |-> Owns(streams[w.key], w.id)]
    /\ UNCHANGED <<nextVersion, tokens>>

(* Session events.  The last argument of Served is the verdict's           *)
(* LocalProgress: may the event write the local watch state?               *)

EventUntracked(op, k, item, id) ==
    /\ ~Exists(Found(k))
    /\ Keep(k, NoUnit)
    /\ Served(op, k, item, id, TRUE)

\* The event names another item than the one the unit is on.
EventOtherItem(op, k, e, item, id) ==
    /\ Exists(e) /\ ~SameItem(e, item)
    /\ \/ /\ op = "stopped"
          /\ Keep(k, e)
          /\ Served(op, k, item, id, TRUE)
       \/ /\ op # "stopped" /\ ~(LiveClaim(e) /\ Matches(e.claim, id))
          /\ Keep(k, e)
          /\ Served(op, k, item, id, FALSE)
       \/ /\ op # "stopped" /\ LiveClaim(e) /\ Matches(e.claim, id)
          /\ Advance(k, [Restarted(e, item) EXCEPT !.claimVersion = nextVersion + 1])
          /\ Served(op, k, item, id, TRUE)

StartAccepted(e, id) ==
    IF LiveClaim(e) THEN Matches(e.claim, id)
    ELSE IF Claimed(e) THEN AcceptsNewAttempt(e, id)
    ELSE ~ProvesOtherAttempt(e, id)

\* Progress and stop: weaker evidence than a start, never against a frozen claim.
LaterAccepted(e, id) ==
    IF LiveClaim(e) THEN Matches(e.claim, id)
    ELSE ~Claimed(e) /\ ~ProvesOtherAttempt(e, id)

StartedUnit(e, id) == ClaimedBy(Touched(e), id)
ProgressedUnit(e, id) ==
    IF LiveClaim(e) THEN [Touched(e) EXCEPT !.reserved = FALSE]
    ELSE ClaimedBy(Touched(e), id)

EventOnUnit(op, k, e, item, id) ==
    LET accepted == IF op = "started" THEN StartAccepted(e, id) ELSE LaterAccepted(e, id)
    IN  /\ Exists(e) /\ SameItem(e, item)
        /\ Keep(k, CASE ~accepted         -> e
                     [] accepted /\ op = "started"  -> StartedUnit(e, id)
                     [] accepted /\ op = "progress" -> ProgressedUnit(e, id)
                     [] accepted /\ op = "stopped"  -> NoUnit)
        /\ Served(op, k, item, id, accepted)

SessionEvent(op, k, item, id) ==
    /\ \/ EventUntracked(op, k, item, id)
       \/ EventOtherItem(op, k, Found(k), item, id)
       \/ EventOnUnit(op, k, Found(k), item, id)
    /\ UNCHANGED <<tokens, switches>>

(* Time and the janitor.                                                   *)

Aged(e) == IF Exists(e) /\ ~Expired(e) THEN [e EXCEPT !.age = @ + 1] ELSE e

Tick ==
    /\ \E k \in Key : Active(k)
    /\ streams' = [k \in Key |-> Aged(streams[k])]
    /\ last' = Quiet
    /\ UNCHANGED <<nextVersion, tokens, switches>>

Cleanup ==
    /\ \E k \in Key : Expired(streams[k])
    /\ streams' = [k \in Key |-> Found(k)]
    /\ last' = Quiet
    /\ UNCHANGED <<nextVersion, tokens, switches>>

Next ==
    \/ \E u \in Users, s \in Servers, item \in Items, max \in Limits :
          TryReserve(u, s, item, max)
    \/ \E t \in tokens : \E p \in PlaySessions : BindReservationPlaySession(t, p)
    \/ \E t \in tokens : ReleaseReservation(t) \/ ForgetReservation(t)
    \/ \E u \in Users, s, from \in Servers, item \in Items, p \in MaybePlay, max \in Limits :
          EnsureStreamSlot(u, s, from, item, p, max)
    \/ \E u \in Users, s \in Servers, max \in Limits : RefuseStream(u, s, max)
    \/ \E w \in switches : ReleaseSwitchedSource(w)
    \/ \E op \in {"started", "progress", "stopped"}, k \in Key, item \in MaybeItem, id \in Identity :
          SessionEvent(op, k, item, id)
    \/ Tick
    \/ Cleanup

\* Time passes; nothing else has to happen.
Spec == Init /\ [][Next]_vars /\ WF_vars(Tick)

-------------------------------------------------------------------------------
(* Properties.                                                             *)

Token == [key : Key, version : 1..MaxVersion]
Switch == [n : 1..MaxSwitches, key : Key, item : Items, id : Identity, ref : 0..MaxVersion]
Request == [op : {"none", "reserve", "release", "stream", "switch",
                  "started", "progress", "stopped"},
            key : Key \cup {None}, same : BOOLEAN, owns : BOOLEAN, local : BOOLEAN]

TypeOK ==
    /\ streams \in [Key -> Unit]
    /\ nextVersion \in 0..MaxVersion
    /\ tokens \subseteq Token
    /\ switches \subseteq Switch
    /\ last \in Request

\* A claim is frozen exactly while the unit waits for the attempt a newer
\* reservation announced: every reservation freezes the claim it finds, nothing
\* else does, and every accepted claim ends the reservation.
FrozenIffReserved ==
    \A k \in Key : Claimed(streams[k]) => (streams[k].reserved <=> ~LiveClaim(streams[k]))

\* Late segments and events of a superseded attempt are inert: a request that
\* does not own the unit neither refreshes, claims, moves nor releases it, and
\* does not get to write local progress, whatever was interleaved before.  Two
\* exceptions: an anonymous segment of the item keeps an identified attempt
\* alive, and a stop of another item still records that item's position.
InertStep(k) ==
    /\ last'.key = k
    /\ last'.op \in {"stream", "started", "progress", "stopped"}
    /\ ~last'.owns
    => /\ \/ streams'[k] = Found(k)
          \/ /\ last'.op = "stream" /\ LiveClaim(Found(k))
             /\ streams'[k] = Touched(Found(k))
       /\ last'.local => last'.op = "stopped" /\ ~last'.same
UnprovenRequestInert == [][\A k \in Key : InertStep(k)]_vars

\* The attempt that holds an active unit ends only by a new reservation of the
\* same user, a request that owns the unit, the very token that reserved it, or
\* a switch whose reference is at least as new as the attempt: the failure path
\* of an old PlaybackInfo and a late segment never take a newer attempt's unit.
EndedByItsOwner(k) ==
    Active(k) /\ streams'[k].version # streams[k].version =>
      /\ last'.key = k
      /\ CASE last'.op = "reserve" -> TRUE
           [] last'.op = "release" ->
                [key |-> k, version |-> streams[k].version] \in tokens \ tokens'
           [] last'.op = "switch" ->
                /\ \E w \in switches \ switches' : streams[k].version <= w.ref
                /\ Claimed(streams[k]) =>
                     \/ last'.owns
                     \/ \E w \in switches : ReservedFor(streams[k], w.id)
           [] OTHER -> last'.owns
AttemptEndsByItsOwner == [][\A k \in Key : EndedByItsOwner(k)]_vars

\* A reservation bound to a PlaySessionId cannot be stranded by requests that
\* do not own it, however many late segments and events keep arriving: its own
\* attempt turns up, a new reservation replaces it, or the unit expires.
BoundReservationSettles ==
    \A k \in Key :
        Active(k) /\ BoundReservation(streams[k])
            ~> \/ ~Active(k) \/ ~BoundReservation(streams[k])
               \/ last.key = k /\ last.owns

\* The limiter implements the pool of capacity units.
Pool == INSTANCE SlotPool WITH holders <- [s \in Servers |-> Holders(s)]
ImplementsPool == Pool!PoolSpec

\* No server ever counts more users than some limit a request was admitted under.
CapacityRespected == Pool!WithinLimit
===============================================================================
