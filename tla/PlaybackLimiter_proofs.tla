------------------------- MODULE PlaybackLimiter_proofs -------------------------
(***************************************************************************)
(* Proofs about PlaybackLimiter: type correctness, the safety properties   *)
(* its runs check, and that it implements SlotPool, for every set of       *)
(* users, servers, items and IDs, every limit and every bound.             *)
(***************************************************************************)
EXTENDS PlaybackLimiter, FiniteSetTheorems, TLAPS

-------------------------------------------------------------------------------
(* Capacity units and what the requests make of them.                      *)

LEMMA NoUnitType == NoUnit \in Unit
BY BoundsAssumption, TimeoutAssumption
   DEF NoUnit, Unit, MaybeItem, MaybePlay, Anonymous, Identity

\* The units a request can find or leave behind are units.
LEMMA UnitTypes ==
    ASSUME NEW e \in Unit, NEW id \in Identity
    PROVE  /\ Touched(e) \in Unit
           /\ ClaimedBy(e, id) \in Unit
           /\ [Touched(e) EXCEPT !.reserved = FALSE] \in Unit
           /\ ClaimedBy(Touched(e), id) \in Unit
<1>. USE BoundsAssumption, TimeoutAssumption
<1>3. ASSUME NEW f \in Unit PROVE Touched(f) \in Unit
  BY DEF Touched, Unit
<1>4. ASSUME NEW f \in Unit PROVE ClaimedBy(f, id) \in Unit
  BY DEF ClaimedBy, Unit
<1>5. ASSUME NEW f \in Unit PROVE [f EXCEPT !.reserved = FALSE] \in Unit
  BY DEF Unit
<1> QED BY <1>3, <1>4, <1>5

\* A restart stays within the versions while the counter may advance.
LEMMA RestartedType ==
    ASSUME NEW e \in Unit, NEW item \in MaybeItem,
           nextVersion \in 0..MaxVersion, nextVersion < MaxVersion
    PROVE  /\ Restarted(e, item) \in Unit
           /\ [Restarted(e, item) EXCEPT !.reserved = TRUE, !.bound = None] \in Unit
           /\ [Restarted(e, item) EXCEPT !.claimVersion = nextVersion + 1] \in Unit
<1>1. nextVersion + 1 \in 0..MaxVersion /\ 0 \in 0..Timeout
  BY BoundsAssumption, TimeoutAssumption
<1>2. ASSUME NEW v \in 0..MaxVersion
      PROVE  [e EXCEPT !.item = item, !.version = v, !.age = 0] \in Unit
  BY <1>1 DEF Unit
<1>4. Restarted(e, item) \in Unit
  BY <1>1, <1>2 DEF Restarted
<1>3. ASSUME NEW f \in Unit
      PROVE  /\ [f EXCEPT !.reserved = TRUE, !.bound = None] \in Unit
             /\ [f EXCEPT !.claimVersion = nextVersion + 1] \in Unit
  BY <1>1 DEF Unit, MaybePlay
<1> QED BY <1>4, <1>3

LEMMA FoundType ==
    ASSUME streams \in [Key -> Unit], NEW k \in Key
    PROVE  Found(k) \in Unit
BY NoUnitType DEF Found

LEMMA AgedType ==
    ASSUME NEW e \in Unit
    PROVE  Aged(e) \in Unit
BY TimeoutAssumption DEF Aged, Exists, Expired, Unit

LEMMA PutType ==
    ASSUME streams \in [Key -> Unit], NEW k \in Key, NEW e \in Unit, Put(k, e)
    PROVE  streams' \in [Key -> Unit]
BY DEF Put

-------------------------------------------------------------------------------
(* Type correctness.                                                       *)

LEMMA TypeInit == Init => TypeOK
<1> SUFFICES ASSUME Init PROVE TypeOK
  OBVIOUS
<1>2. last \in Request
  BY DEF Init, Quiet, Request
<1> QED BY NoUnitType, <1>2, BoundsAssumption DEF Init, TypeOK

LEMMA TypeReserve ==
    ASSUME TypeOK, NEW u \in Users, NEW s \in Servers, NEW item \in Items,
           NEW max \in Limits, TryReserve(u, s, item, max)
    PROVE  TypeOK'
<1>. DEFINE k == <<u, s>>
<1>. DEFINE e == Found(k)
<1>0. k \in Key /\ e \in Unit
  BY FoundType DEF Key, TypeOK
<1>1. last' \in Request
  BY <1>0 DEF TryReserve, Quiet, Request
<1>2. CASE /\ Advance(k, [Restarted(e, item) EXCEPT !.reserved = TRUE, !.bound = None])
           /\ tokens' = tokens \cup {[key |-> k, version |-> nextVersion + 1]}
  <2>1. [Restarted(e, item) EXCEPT !.reserved = TRUE, !.bound = None] \in Unit
    BY <1>0, <1>2, RestartedType DEF Advance, TypeOK, MaybeItem
  <2>2. streams' \in [Key -> Unit]
    BY <1>0, <1>2, <2>1, PutType DEF Advance, TypeOK
  <2>3. nextVersion' \in 0..MaxVersion /\ nextVersion + 1 \in 1..MaxVersion
    BY <1>2, BoundsAssumption DEF Advance, TypeOK
  <2>4. tokens' \subseteq Token
    BY <1>0, <1>2, <2>3 DEF Token, TypeOK
  <2> QED BY <1>1, <2>2, <2>3, <2>4 DEF TypeOK, TryReserve
<1>3. CASE Keep(k, e) /\ UNCHANGED tokens
  BY <1>0, <1>1, <1>3, PutType DEF Keep, TypeOK, TryReserve
<1> QED BY <1>2, <1>3 DEF TryReserve

LEMMA TypeToken ==
    ASSUME TypeOK, NEW t \in tokens,
           \/ \E p \in PlaySessions : BindReservationPlaySession(t, p)
           \/ ReleaseReservation(t)
           \/ ForgetReservation(t)
    PROVE  TypeOK'
<1>0. t.key \in Key /\ streams[t.key] \in Unit
  BY DEF TypeOK, Token
<1>1. ASSUME NEW p \in PlaySessions, BindReservationPlaySession(t, p)
      PROVE  TypeOK'
  <2>1. [streams[t.key] EXCEPT !.bound = p] \in Unit
    BY <1>0 DEF Unit, MaybePlay
  <2>2. streams' \in [Key -> Unit]
    BY <1>0, <1>1, <2>1, PutType DEF BindReservationPlaySession, TypeOK
  <2>3. last' \in Request
    BY <1>1 DEF BindReservationPlaySession, Quiet, Request
  <2> QED BY <1>1, <2>2, <2>3 DEF BindReservationPlaySession, TypeOK
<1>2. CASE ReleaseReservation(t)
  <2>2. streams' \in [Key -> Unit]
    BY <1>0, <1>2, NoUnitType, PutType DEF ReleaseReservation, TypeOK
  <2>3. last' \in Request
    BY <1>0, <1>2 DEF ReleaseReservation, Quiet, Request
  <2> QED BY <1>2, <2>2, <2>3 DEF ReleaseReservation, TypeOK
<1>3. CASE ForgetReservation(t)
  BY <1>3 DEF ForgetReservation, Quiet, Request, TypeOK
<1> QED BY <1>1, <1>2, <1>3

LEMMA TypeStream ==
    ASSUME TypeOK, NEW u \in Users, NEW s \in Servers, NEW from \in Servers,
           NEW item \in Items, NEW p \in MaybePlay, NEW max \in Limits,
           EnsureStreamSlot(u, s, from, item, p, max)
    PROVE  TypeOK'
<1>. DEFINE k == <<u, s>>
<1>. DEFINE e == Found(k)
<1>. DEFINE id == PlayIdentity(p)
<1>0. k \in Key /\ e \in Unit /\ id \in Identity /\ item \in MaybeItem /\ e.claim \in Identity
  BY FoundType DEF Key, TypeOK, PlayIdentity, Identity, MaybePlay, MaybeItem, Unit
<1>1. /\ Touched(e) \in Unit
      /\ ClaimedBy(Touched(e), id) \in Unit
      /\ [Touched(e) EXCEPT !.reserved = FALSE] \in Unit
      /\ NoUnit \in Unit
  BY <1>0, UnitTypes, NoUnitType
<1>2. ASSUME nextVersion < MaxVersion
      PROVE  /\ ClaimedBy(Restarted(e, item), id) \in Unit
             /\ ClaimedBy(Restarted(e, item), e.claim) \in Unit
             /\ ClaimedBy(Restarted(NoUnit, item), id) \in Unit
  <2>1. Restarted(e, item) \in Unit /\ Restarted(NoUnit, item) \in Unit
    BY <1>0, <1>1, <1>2, RestartedType DEF TypeOK
  <2> QED BY <1>0, <2>1, UnitTypes
<1>3. ASSUME NEW f \in Unit, Keep(k, f)
      PROVE  streams' \in [Key -> Unit] /\ nextVersion' \in 0..MaxVersion
  BY <1>0, <1>3, PutType DEF Keep, TypeOK
<1>4. ASSUME NEW f \in Unit, Advance(k, f)
      PROVE  streams' \in [Key -> Unit] /\ nextVersion' \in 0..MaxVersion
  BY <1>0, <1>4, PutType, BoundsAssumption DEF Advance, TypeOK
<1>5. streams' \in [Key -> Unit] /\ nextVersion' \in 0..MaxVersion
  <2>1. CASE StreamHeldLive(k, e, item, id)
    BY <1>0, <1>1, <1>2, <1>3, <1>4, <2>1 DEF StreamHeldLive, Advance
  <2>2. CASE StreamHeldFrozen(k, e, item, id)
    BY <1>0, <1>1, <1>3, <2>2 DEF StreamHeldFrozen
  <2>3. CASE StreamHeldUnclaimed(k, e, item, id)
    BY <1>0, <1>1, <1>2, <1>3, <1>4, <2>3 DEF StreamHeldUnclaimed, Advance
  <2>4. CASE StreamNew(k, s, item, id, max)
    BY <1>2, <1>4, <2>4 DEF StreamNew, Advance
  <2> QED BY <2>1, <2>2, <2>3, <2>4 DEF EnsureStreamSlot
<1>6. switches' \subseteq Switch
  <2>1. \A n \in FreeSwitches :
          [n |-> n, key |-> <<u, from>>, item |-> item, id |-> id, ref |-> e.version] \in Switch
    BY <1>0 DEF Switch, Key, Unit, FreeSwitches
  <2> QED BY <2>1 DEF EnsureStreamSlot, TypeOK
<1>7. last' \in Request
  BY <1>0 DEF EnsureStreamSlot, Served, Request, SameItem, Owns, Matches, Conflicts,
              BoundReservation, Unit
<1> QED BY <1>5, <1>6, <1>7 DEF EnsureStreamSlot, TypeOK

LEMMA TypeRefuse ==
    ASSUME TypeOK, NEW u \in Users, NEW s \in Servers, NEW max \in Limits,
           RefuseStream(u, s, max)
    PROVE  TypeOK'
<1>1. <<u, s>> \in Key
  BY DEF Key
<1>2. streams' \in [Key -> Unit]
  BY <1>1, NoUnitType, PutType DEF RefuseStream, Keep, TypeOK
<1>3. last' \in Request
  BY DEF RefuseStream, Quiet, Request
<1> QED BY <1>2, <1>3 DEF RefuseStream, Keep, TypeOK

LEMMA TypeSwitch ==
    ASSUME TypeOK, NEW w \in switches, ReleaseSwitchedSource(w)
    PROVE  TypeOK'
<1>1. w.key \in Key
  BY DEF TypeOK, Switch
<1>2. streams' \in [Key -> Unit]
  BY NoUnitType DEF ReleaseSwitchedSource, TypeOK
<1>3. last' \in Request
  BY <1>1 DEF ReleaseSwitchedSource, Request, SameItem, Owns, Matches, Conflicts
<1> QED BY <1>2, <1>3 DEF ReleaseSwitchedSource, TypeOK

\* The write of an event that is answered from the unit it found.
LEMMA TypeEvent ==
    ASSUME TypeOK, NEW op \in {"started", "progress", "stopped"}, NEW k \in Key,
           NEW item \in MaybeItem, NEW id \in Identity, SessionEvent(op, k, item, id)
    PROVE  TypeOK'
<1>. DEFINE e == Found(k)
<1>0. e \in Unit
  BY FoundType DEF TypeOK
<1>1. /\ Touched(e) \in Unit
      /\ ClaimedBy(Touched(e), id) \in Unit
      /\ [Touched(e) EXCEPT !.reserved = FALSE] \in Unit
  BY <1>0, UnitTypes
<1>2. ASSUME NEW f \in Unit, Keep(k, f)
      PROVE  streams' \in [Key -> Unit] /\ nextVersion' \in 0..MaxVersion
  BY <1>2, PutType DEF Keep, TypeOK
<1>3. ASSUME NEW b \in BOOLEAN, Served(op, k, item, id, b)
      PROVE  last' \in Request
  BY <1>3 DEF Served, Request, SameItem, Owns, Matches, Conflicts
<1>4. CASE EventUntracked(op, k, item, id)
  <2>1. streams' \in [Key -> Unit] /\ nextVersion' \in 0..MaxVersion
    BY <1>2, <1>4, NoUnitType DEF EventUntracked
  <2>2. last' \in Request
    BY <1>3, <1>4 DEF EventUntracked
  <2> QED BY <2>1, <2>2 DEF SessionEvent, TypeOK
<1>5. CASE EventOtherItem(op, k, e, item, id)
  <2>1. last' \in Request
    BY <1>3, <1>5 DEF EventOtherItem
  <2>2. CASE Keep(k, e)
    BY <1>0, <1>2, <2>1, <2>2 DEF SessionEvent, TypeOK
  <2>3. CASE Advance(k, [Restarted(e, item) EXCEPT !.claimVersion = nextVersion + 1])
    <3>1. [Restarted(e, item) EXCEPT !.claimVersion = nextVersion + 1] \in Unit
      BY <1>0, <2>3, RestartedType DEF Advance, TypeOK
    <3>2. streams' \in [Key -> Unit]
      BY <2>3, <3>1, PutType DEF Advance, TypeOK
    <3>3. nextVersion' \in 0..MaxVersion
      BY <2>3, BoundsAssumption DEF Advance, TypeOK
    <3> QED BY <2>1, <3>2, <3>3 DEF SessionEvent, TypeOK
  <2> QED BY <1>5, <2>2, <2>3 DEF EventOtherItem
<1>6. CASE EventOnUnit(op, k, e, item, id)
  <2>. DEFINE accepted == IF op = "started" THEN StartAccepted(e, id) ELSE LaterAccepted(e, id)
  <2>1. accepted \in BOOLEAN
    BY DEF StartAccepted, LaterAccepted, Matches, AcceptsNewAttempt, Conflicts,
           ProvesOtherAttempt, BoundReservation
  <2>2. last' \in Request
    BY <1>3, <1>6, <2>1 DEF EventOnUnit
  <2>3. StartedUnit(e, id) \in Unit /\ ProgressedUnit(e, id) \in Unit
    BY <1>1 DEF StartedUnit, ProgressedUnit
  <2>4. Keep(k, e) \/ Keep(k, StartedUnit(e, id)) \/ Keep(k, ProgressedUnit(e, id)) \/ Keep(k, NoUnit)
    BY <1>6, <2>1 DEF EventOnUnit
  <2> QED BY <1>0, <1>2, <2>2, <2>3, <2>4, NoUnitType DEF SessionEvent, TypeOK
<1> QED BY <1>4, <1>5, <1>6 DEF SessionEvent

LEMMA TypeTime ==
    ASSUME TypeOK, Tick \/ Cleanup
    PROVE  TypeOK'
<1>1. CASE Tick
  BY <1>1, AgedType DEF Tick, TypeOK, Quiet, Request
<1>2. CASE Cleanup
  BY <1>2, FoundType DEF Cleanup, TypeOK, Quiet, Request
<1> QED BY <1>1, <1>2

LEMMA TypeStep == TypeOK /\ [Next]_vars => TypeOK'
<1> SUFFICES ASSUME TypeOK, [Next]_vars PROVE TypeOK'
  OBVIOUS
<1>1. CASE Next
  BY <1>1, TypeReserve, TypeToken, TypeStream, TypeRefuse, TypeSwitch, TypeEvent, TypeTime
     DEF Next
<1>2. CASE UNCHANGED vars
  BY <1>2 DEF vars, TypeOK
<1> QED BY <1>1, <1>2

\* Every unit, token and pending switch of the limiter stays well-formed, whatever
\* requests are interleaved.
THEOREM TypeCorrect == Spec => []TypeOK
BY TypeInit, TypeStep, PTL DEF Spec

-------------------------------------------------------------------------------
(* Claims and reservations.                                                *)

\* The strengthening that makes FrozenIffReserved inductive: no unit and no claim
\* carries a version the counter has not handed out, so the version a reservation
\* takes differs from the one the claim it finds was made under; and a key without
\* a unit holds NoUnit.
FrozenUnit(e) == Claimed(e) => (e.reserved <=> ~LiveClaim(e))
VersionsHandedOut(e, n) == e.version <= n /\ e.claimVersion <= n
ExistsOrNone(e) == Exists(e) \/ e = NoUnit
UnitInv(e, n) ==
    e \in Unit /\ FrozenUnit(e) /\ VersionsHandedOut(e, n) /\ ExistsOrNone(e)
IInv == TypeOK /\ \A k \in Key : UnitInv(streams[k], nextVersion)

LEMMA NoUnitInv == \A n \in Nat : UnitInv(NoUnit, n)
BY NoUnitType DEF UnitInv, FrozenUnit, VersionsHandedOut, Claimed, ExistsOrNone, NoUnit

LEMMA ClaimedExists == \A e : ExistsOrNone(e) /\ Claimed(e) => Exists(e)
BY DEF ExistsOrNone, Claimed, NoUnit

\* The invariant of one unit survives what accepted requests make of it.
LEMMA UnitInvKept ==
    ASSUME NEW n \in Nat, NEW e \in Unit, UnitInv(e, n), NEW id \in Identity
    PROVE  /\ Exists(e) => UnitInv(Touched(e), n)
           /\ Exists(e) => UnitInv(ClaimedBy(Touched(e), id), n)
           /\ LiveClaim(e) => UnitInv([Touched(e) EXCEPT !.reserved = FALSE], n)
<1>0. Touched(e) \in Unit /\ ClaimedBy(Touched(e), id) \in Unit /\ [Touched(e) EXCEPT !.reserved = FALSE] \in Unit
  BY UnitTypes
<1>. USE DEF UnitInv, FrozenUnit, VersionsHandedOut, Claimed, LiveClaim, ExistsOrNone, Exists
<1>1. Exists(e) => UnitInv(Touched(e), n)
  BY <1>0 DEF Touched, Unit
<1>2. Exists(e) => UnitInv(ClaimedBy(Touched(e), id), n)
  BY <1>0 DEF Touched, ClaimedBy, Unit
<1>3. LiveClaim(e) => UnitInv([Touched(e) EXCEPT !.reserved = FALSE], n)
  BY <1>0, ClaimedExists DEF Touched, Unit
<1> QED BY <1>1, <1>2, <1>3

\* A reservation freezes the claim it finds; a restart by its owner keeps it live.
LEMMA UnitInvRestarted ==
    ASSUME TypeOK, nextVersion < MaxVersion, NEW e \in Unit, UnitInv(e, nextVersion),
           NEW item \in MaybeItem, NEW id \in Identity
    PROVE  /\ UnitInv([Restarted(e, item) EXCEPT !.reserved = TRUE, !.bound = None], nextVersion + 1)
           /\ LiveClaim(e) =>
                /\ UnitInv([Restarted(e, item) EXCEPT !.claimVersion = nextVersion + 1], nextVersion + 1)
                /\ UnitInv(ClaimedBy(Restarted(e, item), e.claim), nextVersion + 1)
           /\ ~Claimed(e) => UnitInv(ClaimedBy(Restarted(e, item), id), nextVersion + 1)
<1>. USE DEF UnitInv, FrozenUnit, VersionsHandedOut, Claimed, LiveClaim, ExistsOrNone, Exists
<1>0. nextVersion \in Nat /\ e.claim \in Identity
  BY BoundsAssumption DEF TypeOK, Unit
<1>1. /\ Restarted(e, item) \in Unit
      /\ [Restarted(e, item) EXCEPT !.reserved = TRUE, !.bound = None] \in Unit
      /\ [Restarted(e, item) EXCEPT !.claimVersion = nextVersion + 1] \in Unit
      /\ ClaimedBy(Restarted(e, item), id) \in Unit
      /\ ClaimedBy(Restarted(e, item), e.claim) \in Unit
  BY <1>0, RestartedType, UnitTypes DEF TypeOK
<1>2. UnitInv([Restarted(e, item) EXCEPT !.reserved = TRUE, !.bound = None], nextVersion + 1)
  BY <1>0, <1>1 DEF Restarted, Unit
<1>3. ASSUME LiveClaim(e)
      PROVE  UnitInv([Restarted(e, item) EXCEPT !.claimVersion = nextVersion + 1], nextVersion + 1)
  BY <1>0, <1>1, <1>3 DEF Restarted, Unit
<1>4. ASSUME LiveClaim(e)
      PROVE  UnitInv(ClaimedBy(Restarted(e, item), e.claim), nextVersion + 1)
  BY <1>0, <1>1, <1>4 DEF Restarted, ClaimedBy, Unit
<1>5. ASSUME ~Claimed(e)
      PROVE  UnitInv(ClaimedBy(Restarted(e, item), id), nextVersion + 1)
  BY <1>0, <1>1, <1>5 DEF Restarted, ClaimedBy, Unit
<1> QED BY <1>2, <1>3, <1>4, <1>5

\* Writing one unit, with and without a new version.
LEMMA KeepInv ==
    ASSUME IInv, TypeOK', NEW k \in Key, NEW e, UnitInv(e, nextVersion), Keep(k, e)
    PROVE  IInv'
BY DEF IInv, Keep, Put, TypeOK

LEMMA AdvanceInv ==
    ASSUME IInv, TypeOK', NEW k \in Key, NEW e, UnitInv(e, nextVersion + 1), Advance(k, e)
    PROVE  IInv'
<1>1. ASSUME NEW l \in Key, l # k
      PROVE  UnitInv(streams[l], nextVersion + 1)
  BY BoundsAssumption DEF IInv, UnitInv, VersionsHandedOut, TypeOK, Unit
<1> QED BY <1>1 DEF IInv, Advance, Put, TypeOK

LEMMA FoundInv ==
    ASSUME IInv, NEW k \in Key
    PROVE  UnitInv(Found(k), nextVersion)
BY NoUnitInv, BoundsAssumption DEF IInv, Found, TypeOK

LEMMA InvReserve ==
    ASSUME IInv, TypeOK', NEW u \in Users, NEW s \in Servers, NEW item \in Items,
           NEW max \in Limits, TryReserve(u, s, item, max)
    PROVE  IInv'
<1>. DEFINE k == <<u, s>>
<1>0. k \in Key /\ UnitInv(Found(k), nextVersion) /\ item \in MaybeItem
  BY FoundInv DEF Key, MaybeItem
<1>1. CASE Advance(k, [Restarted(Found(k), item) EXCEPT !.reserved = TRUE, !.bound = None])
  <2>1. Anonymous \in Identity
    BY DEF Anonymous, Identity, MaybePlay
  <2>2. UnitInv([Restarted(Found(k), item) EXCEPT !.reserved = TRUE, !.bound = None], nextVersion + 1)
    BY <1>0, <1>1, <2>1, UnitInvRestarted DEF Advance, IInv, UnitInv
  <2> QED BY <1>0, <1>1, <2>2, AdvanceInv
<1>2. CASE Keep(k, Found(k))
  BY <1>0, <1>2, KeepInv
<1> QED BY <1>1, <1>2 DEF TryReserve

LEMMA InvToken ==
    ASSUME IInv, TypeOK', NEW t \in tokens,
           \/ \E p \in PlaySessions : BindReservationPlaySession(t, p)
           \/ ReleaseReservation(t)
           \/ ForgetReservation(t)
    PROVE  IInv'
<1>0. t.key \in Key /\ nextVersion \in Nat
  BY BoundsAssumption DEF IInv, TypeOK, Token
<1>1. ASSUME NEW p \in PlaySessions, BindReservationPlaySession(t, p)
      PROVE  IInv'
  <2>1. UnitInv([streams[t.key] EXCEPT !.bound = p], nextVersion)
    BY <1>0, <1>1 DEF BindReservationPlaySession, IInv, TypeOK, Token, UnitInv, FrozenUnit,
       VersionsHandedOut, Claimed, LiveClaim, ExistsOrNone, Exists, Unit, MaybePlay
  <2> QED BY <1>0, <1>1, <2>1, KeepInv DEF BindReservationPlaySession, Keep
<1>2. CASE ReleaseReservation(t)
  <2>1. CASE Keep(t.key, NoUnit)
    BY <1>0, <2>1, NoUnitInv, KeepInv
  <2>2. CASE UNCHANGED <<streams, nextVersion>>
    BY <2>2 DEF IInv
  <2> QED BY <1>2, <2>1, <2>2 DEF ReleaseReservation, Keep
<1>3. CASE ForgetReservation(t)
  BY <1>3 DEF ForgetReservation, IInv
<1> QED BY <1>1, <1>2, <1>3

LEMMA InvStream ==
    ASSUME IInv, TypeOK', NEW u \in Users, NEW s \in Servers, NEW from \in Servers,
           NEW item \in Items, NEW p \in MaybePlay, NEW max \in Limits,
           EnsureStreamSlot(u, s, from, item, p, max)
    PROVE  IInv'
<1>. DEFINE k == <<u, s>>
<1>. DEFINE e == Found(k)
<1>. DEFINE id == PlayIdentity(p)
<1>0. /\ k \in Key /\ id \in Identity /\ item \in MaybeItem /\ nextVersion \in Nat
      /\ UnitInv(e, nextVersion) /\ e \in Unit
  BY FoundInv, BoundsAssumption
     DEF Key, IInv, TypeOK, PlayIdentity, Identity, MaybePlay, MaybeItem, UnitInv
<1>1. CASE StreamHeldLive(k, e, item, id)
  <2>0. Exists(e)
    BY <1>0, <1>1, ClaimedExists DEF StreamHeldLive, LiveClaim, UnitInv
  <2>1. CASE Keep(k, e) \/ Keep(k, Touched(e))
    BY <1>0, <2>0, <2>1, UnitInvKept, KeepInv
  <2>2. CASE Keep(k, [Touched(e) EXCEPT !.reserved = FALSE])
    BY <1>0, <1>1, <2>2, UnitInvKept, KeepInv DEF StreamHeldLive
  <2>3. CASE Advance(k, ClaimedBy(Restarted(e, item), e.claim))
    <3>1. UnitInv(ClaimedBy(Restarted(e, item), e.claim), nextVersion + 1)
      BY <1>0, <1>1, <2>3, UnitInvRestarted DEF StreamHeldLive, Advance, IInv
    <3> QED BY <1>0, <2>3, <3>1, AdvanceInv
  <2> QED BY <1>1, <2>1, <2>2, <2>3 DEF StreamHeldLive
<1>2. CASE StreamHeldFrozen(k, e, item, id)
  <2>0. Exists(e)
    BY <1>0, <1>2, ClaimedExists DEF StreamHeldFrozen, UnitInv
  <2>1. Keep(k, e) \/ Keep(k, ClaimedBy(Touched(e), id))
    BY <1>2 DEF StreamHeldFrozen
  <2> QED BY <1>0, <2>0, <2>1, UnitInvKept, KeepInv
<1>3. CASE StreamHeldUnclaimed(k, e, item, id)
  <2>1. CASE Keep(k, e) \/ Keep(k, ClaimedBy(Touched(e), id))
    BY <1>0, <1>3, <2>1, UnitInvKept, KeepInv DEF StreamHeldUnclaimed
  <2>2. CASE Advance(k, ClaimedBy(Restarted(e, item), id))
    <3>1. UnitInv(ClaimedBy(Restarted(e, item), id), nextVersion + 1)
      BY <1>0, <1>3, <2>2, UnitInvRestarted DEF StreamHeldUnclaimed, Advance, IInv
    <3> QED BY <1>0, <2>2, <3>1, AdvanceInv
  <2> QED BY <1>3, <2>1, <2>2 DEF StreamHeldUnclaimed
<1>4. CASE StreamNew(k, s, item, id, max)
  <2>1. ~Claimed(NoUnit) /\ UnitInv(NoUnit, nextVersion) /\ NoUnit \in Unit
    BY <1>0, NoUnitInv, NoUnitType DEF Claimed, NoUnit
  <2>2. UnitInv(ClaimedBy(Restarted(NoUnit, item), id), nextVersion + 1)
    BY <1>0, <1>4, <2>1, UnitInvRestarted DEF StreamNew, Advance, IInv
  <2> QED BY <1>0, <1>4, <2>2, AdvanceInv DEF StreamNew
<1> QED BY <1>1, <1>2, <1>3, <1>4 DEF EnsureStreamSlot

LEMMA InvEvent ==
    ASSUME IInv, TypeOK', NEW op \in {"started", "progress", "stopped"}, NEW k \in Key,
           NEW item \in MaybeItem, NEW id \in Identity, SessionEvent(op, k, item, id)
    PROVE  IInv'
<1>. DEFINE e == Found(k)
<1>0. UnitInv(e, nextVersion) /\ e \in Unit /\ nextVersion \in Nat
  BY FoundInv, BoundsAssumption DEF UnitInv, IInv, TypeOK
<1>1. CASE EventUntracked(op, k, item, id)
  BY <1>0, <1>1, NoUnitInv, KeepInv DEF EventUntracked
<1>2. CASE EventOtherItem(op, k, e, item, id)
  <2>1. CASE Keep(k, e)
    BY <1>0, <2>1, KeepInv
  <2>2. CASE /\ LiveClaim(e)
             /\ Advance(k, [Restarted(e, item) EXCEPT !.claimVersion = nextVersion + 1])
    <3>1. UnitInv([Restarted(e, item) EXCEPT !.claimVersion = nextVersion + 1], nextVersion + 1)
      BY <1>0, <2>2, UnitInvRestarted DEF Advance, IInv
    <3> QED BY <2>2, <3>1, AdvanceInv
  <2> QED BY <1>2, <2>1, <2>2 DEF EventOtherItem
<1>3. CASE EventOnUnit(op, k, e, item, id)
  <2>1. /\ UnitInv(StartedUnit(e, id), nextVersion)
        /\ UnitInv(ProgressedUnit(e, id), nextVersion)
    BY <1>0, <1>3, UnitInvKept DEF EventOnUnit, StartedUnit, ProgressedUnit
  <2>2. Keep(k, e) \/ Keep(k, StartedUnit(e, id)) \/ Keep(k, ProgressedUnit(e, id)) \/ Keep(k, NoUnit)
    BY <1>3 DEF EventOnUnit, StartAccepted, LaterAccepted, Matches, AcceptsNewAttempt,
                Conflicts, ProvesOtherAttempt, BoundReservation
  <2> QED BY <1>0, <2>1, <2>2, NoUnitInv, KeepInv
<1> QED BY <1>1, <1>2, <1>3 DEF SessionEvent

LEMMA InvTime ==
    ASSUME IInv, TypeOK', Tick \/ Cleanup
    PROVE  IInv'
<1>1. CASE Tick
  <2>1. ASSUME NEW k \in Key PROVE UnitInv(Aged(streams[k]), nextVersion)
    BY AgedType DEF IInv, UnitInv, Aged, FrozenUnit, VersionsHandedOut, Claimed, LiveClaim,
                    ExistsOrNone, Exists, Unit
  <2> QED BY <1>1, <2>1 DEF IInv, Tick, TypeOK
<1>2. CASE Cleanup
  BY <1>2, FoundInv DEF IInv, Cleanup, TypeOK
<1> QED BY <1>1, <1>2

LEMMA InvInit == Init => IInv
BY TypeInit, NoUnitInv DEF IInv, Init

LEMMA InvStep == IInv /\ [Next]_vars => IInv'
<1> SUFFICES ASSUME IInv, [Next]_vars PROVE IInv'
  OBVIOUS
<1>0. TypeOK'
  BY TypeStep DEF IInv
<1>1. ASSUME NEW u \in Users, NEW s \in Servers, NEW max \in Limits, RefuseStream(u, s, max)
      PROVE  IInv'
  BY <1>0, <1>1, NoUnitInv, KeepInv, BoundsAssumption DEF RefuseStream, Key, IInv, TypeOK
<1>2. ASSUME NEW w \in switches, ReleaseSwitchedSource(w)
      PROVE  IInv'
  <2>1. w.key \in Key /\ nextVersion \in Nat
    BY BoundsAssumption DEF IInv, TypeOK, Switch
  <2>2. Keep(w.key, NoUnit) \/ UNCHANGED <<streams, nextVersion>>
    BY <1>2 DEF ReleaseSwitchedSource, Keep, Put
  <2> QED BY <1>0, <2>1, <2>2, NoUnitInv, KeepInv DEF IInv
<1>3. CASE UNCHANGED vars
  BY <1>0, <1>3 DEF vars, IInv
<1> QED BY <1>0, <1>1, <1>2, <1>3, InvReserve, InvToken, InvStream, InvEvent, InvTime DEF Next

LEMMA Invariance == Spec => []IInv
BY InvInit, InvStep, PTL DEF Spec

\* A claim stays frozen exactly as long as the unit is reserved for the attempt a
\* newer PlaybackInfo announced (TryReserve, acceptsNewAttempt, ClaimedBy).
THEOREM ClaimsFrozenByReservations == Spec => []FrozenIffReserved
<1>1. IInv => FrozenIffReserved
  BY DEF IInv, UnitInv, FrozenUnit, FrozenIffReserved
<1> QED BY <1>1, Invariance, PTL

-------------------------------------------------------------------------------
(* Requests that do not own the unit.                                      *)

\* What ownership means for the four kinds of unit a request can find.
LEMMA OwnsCases ==
    ASSUME NEW e, NEW id
    PROVE  /\ LiveClaim(e) => (Owns(e, id) <=> Matches(e.claim, id))
           /\ FrozenUnit(e) /\ Claimed(e) /\ ~LiveClaim(e) /\ e.bound # None
                => (Owns(e, id) <=> ReservedFor(e, id))
           /\ FrozenUnit(e) /\ Claimed(e) /\ ~LiveClaim(e) /\ e.bound = None
                => (Owns(e, id) <=> Conflicts(e.claim, id))
           /\ ~Claimed(e) => (Owns(e, id) <=> ~ProvesOtherAttempt(e, id))
BY DEF Owns, LiveClaim, FrozenUnit, BoundReservation, ReservedFor, ProvesOtherAttempt

LEMMA NoUnitOwned == \A id : Owns(NoUnit, id)
BY DEF Owns, LiveClaim, Claimed, BoundReservation, NoUnit

LEMMA InertStream ==
    ASSUME IInv, NEW u \in Users, NEW s \in Servers, NEW from \in Servers,
           NEW item \in Items, NEW p \in MaybePlay, NEW max \in Limits,
           EnsureStreamSlot(u, s, from, item, p, max), NEW l \in Key
    PROVE  InertStep(l)
<1>. DEFINE k == <<u, s>>
<1>. DEFINE e == Found(k)
<1>. DEFINE id == PlayIdentity(p)
<1>1. /\ last'.key = k /\ last'.op = "stream" /\ last'.owns = Owns(e, id)
      /\ last'.local = FALSE
  BY DEF EnsureStreamSlot, Served
<1>2. k \in Key /\ FrozenUnit(e) /\ ExistsOrNone(e) /\ streams \in [Key -> Unit]
  BY FoundInv DEF Key, UnitInv, IInv, TypeOK
<1>3. ASSUME ~Owns(e, id)
      PROVE  streams'[k] = e \/ (LiveClaim(e) /\ streams'[k] = Touched(e))
  <2>1. CASE StreamHeldLive(k, e, item, id)
    BY <1>2, <1>3, <2>1, OwnsCases DEF StreamHeldLive, Keep, Put
  <2>2. CASE StreamHeldFrozen(k, e, item, id)
    BY <1>2, <1>3, <2>2, OwnsCases DEF StreamHeldFrozen, Keep, Put, ReservedFor
  <2>3. CASE StreamHeldUnclaimed(k, e, item, id)
    BY <1>2, <1>3, <2>3, OwnsCases DEF StreamHeldUnclaimed, Keep, Put
  <2>4. CASE StreamNew(k, s, item, id, max)
    BY <1>2, <1>3, <2>4, NoUnitOwned DEF StreamNew, ExistsOrNone
  <2> QED BY <2>1, <2>2, <2>3, <2>4 DEF EnsureStreamSlot
<1> QED BY <1>1, <1>3 DEF InertStep

LEMMA InertEvent ==
    ASSUME IInv, NEW op \in {"started", "progress", "stopped"}, NEW k \in Key,
           NEW item \in MaybeItem, NEW id \in Identity, SessionEvent(op, k, item, id),
           NEW l \in Key
    PROVE  InertStep(l)
<1>. DEFINE e == Found(k)
<1>1. /\ last'.key = k /\ last'.op = op /\ last'.owns = Owns(e, id)
      /\ last'.same = SameItem(e, item)
  BY DEF SessionEvent, EventUntracked, EventOtherItem, EventOnUnit, Served
<1>2. FrozenUnit(e) /\ ExistsOrNone(e) /\ streams \in [Key -> Unit]
  BY FoundInv DEF UnitInv, IInv, TypeOK
<1>3. ASSUME ~Owns(e, id)
      PROVE  streams'[k] = e /\ (last'.local => op = "stopped" /\ ~SameItem(e, item))
  <2>1. CASE EventUntracked(op, k, item, id)
    BY <1>2, <1>3, <2>1, NoUnitOwned DEF EventUntracked, ExistsOrNone
  <2>2. CASE EventOtherItem(op, k, e, item, id)
    BY <1>2, <1>3, <2>2, OwnsCases DEF EventOtherItem, Keep, Put, Served
  <2>3. CASE EventOnUnit(op, k, e, item, id)
    <3>1. ~StartAccepted(e, id) /\ ~LaterAccepted(e, id)
      BY <1>2, <1>3, OwnsCases DEF StartAccepted, LaterAccepted, AcceptsNewAttempt, ReservedFor
    <3> QED BY <1>2, <2>3, <3>1 DEF EventOnUnit, Keep, Put, Served
  <2> QED BY <2>1, <2>2, <2>3 DEF SessionEvent
<1> QED BY <1>1, <1>3 DEF InertStep

LEMMA InertStepLemma == IInv /\ [Next]_vars => [\A k \in Key : InertStep(k)]_vars
<1> SUFFICES ASSUME IInv, Next PROVE \A k \in Key : InertStep(k)
  BY DEF vars
<1>. TAKE k \in Key
<1>1. ASSUME NEW u \in Users, NEW s \in Servers, NEW item \in Items, NEW max \in Limits,
             TryReserve(u, s, item, max)
      PROVE  InertStep(k)
  BY <1>1 DEF TryReserve, Quiet, InertStep
<1>2. ASSUME NEW t \in tokens,
             \/ \E p \in PlaySessions : BindReservationPlaySession(t, p)
             \/ ReleaseReservation(t)
             \/ ForgetReservation(t)
      PROVE  InertStep(k)
  <2>1. last'.op \in {"none", "release"}
    <3>1. last' = Quiet \/ last' = [Quiet EXCEPT !.op = "release", !.key = t.key]
      BY <1>2 DEF BindReservationPlaySession, ReleaseReservation, ForgetReservation
    <3>2. Quiet.op = "none" /\ [Quiet EXCEPT !.op = "release", !.key = t.key].op = "release"
      BY DEF Quiet
    <3> QED BY <3>1, <3>2
  <2> QED BY <2>1 DEF InertStep
<1>3. ASSUME NEW u \in Users, NEW s \in Servers, NEW max \in Limits, RefuseStream(u, s, max)
      PROVE  InertStep(k)
  BY <1>3 DEF RefuseStream, Quiet, InertStep
<1>4. ASSUME NEW w \in switches, ReleaseSwitchedSource(w)
      PROVE  InertStep(k)
  BY <1>4 DEF ReleaseSwitchedSource, InertStep
<1>5. CASE Tick \/ Cleanup
  BY <1>5 DEF Tick, Cleanup, Quiet, InertStep
<1> QED BY <1>1, <1>2, <1>3, <1>4, <1>5, InertStream, InertEvent DEF Next

\* Late segments and events of a superseded attempt are inert (EnsureStreamSlot,
\* trackSessionEvent): they neither change the unit nor write local progress.
THEOREM UnprovenRequestsAreInert == Spec => UnprovenRequestInert
BY Invariance, InertStepLemma, PTL DEF Spec, UnprovenRequestInert

-------------------------------------------------------------------------------
(* How an attempt ends.                                                    *)

\* A unit that is found after the expiry check is the stored, active one.
LEMMA ActiveFound ==
    ASSUME NEW k \in Key, Active(k)
    PROVE  Found(k) = streams[k] /\ Exists(Found(k))
BY DEF Active, Found

LEMMA SameVersion ==
    ASSUME NEW e \in Unit, NEW id
    PROVE  /\ Touched(e).version = e.version
           /\ ClaimedBy(Touched(e), id).version = e.version
           /\ [Touched(e) EXCEPT !.reserved = FALSE].version = e.version
           /\ Aged(e).version = e.version
BY DEF Touched, ClaimedBy, Aged, Unit

LEMMA EndedStream ==
    ASSUME TypeOK, NEW u \in Users, NEW s \in Servers, NEW from \in Servers,
           NEW item \in Items, NEW p \in MaybePlay, NEW max \in Limits,
           EnsureStreamSlot(u, s, from, item, p, max), NEW l \in Key
    PROVE  EndedByItsOwner(l)
<1>. DEFINE k == <<u, s>>
<1>. DEFINE e == Found(k)
<1>. DEFINE id == PlayIdentity(p)
<1>. SUFFICES ASSUME Active(l), streams'[l].version # streams[l].version
              PROVE  last'.key = l /\ last'.op = "stream" /\ last'.owns
  BY DEF EndedByItsOwner
<1>0. k \in Key /\ streams \in [Key -> Unit] /\ e \in Unit
  BY FoundType DEF Key, TypeOK
<1>1. /\ last'.key = k /\ last'.op = "stream" /\ last'.owns = Owns(e, id)
  BY DEF EnsureStreamSlot, Served
<1>2. \E f : Put(k, f)
  BY DEF EnsureStreamSlot, StreamHeldLive, StreamHeldFrozen, StreamHeldUnclaimed, StreamNew,
         Keep, Advance
<1>3. l = k
  BY <1>0, <1>2 DEF Put
<1>4. e = streams[k] /\ Exists(e)
  BY <1>3, ActiveFound
<1>5. ASSUME NEW f, Keep(k, f), f.version = e.version PROVE FALSE
  BY <1>0, <1>3, <1>4, <1>5 DEF Keep, Put
<1>6. Owns(e, id)
  <2>1. CASE StreamHeldLive(k, e, item, id)
    BY <1>0, <1>5, <2>1, SameVersion, OwnsCases DEF StreamHeldLive
  <2>2. CASE StreamHeldFrozen(k, e, item, id)
    BY <1>0, <1>5, <2>2, SameVersion DEF StreamHeldFrozen
  <2>3. CASE StreamHeldUnclaimed(k, e, item, id)
    BY <1>0, <1>5, <2>3, SameVersion, OwnsCases DEF StreamHeldUnclaimed
  <2>4. CASE StreamNew(k, s, item, id, max)
    BY <1>4, <2>4 DEF StreamNew
  <2> QED BY <2>1, <2>2, <2>3, <2>4 DEF EnsureStreamSlot
<1> QED BY <1>1, <1>3, <1>6

LEMMA EndedEvent ==
    ASSUME TypeOK, NEW op \in {"started", "progress", "stopped"}, NEW k \in Key,
           NEW item \in MaybeItem, NEW id \in Identity, SessionEvent(op, k, item, id),
           NEW l \in Key
    PROVE  EndedByItsOwner(l)
<1>. DEFINE e == Found(k)
<1>. SUFFICES ASSUME Active(l), streams'[l].version # streams[l].version
              PROVE  last'.key = l /\ last'.op = op /\ last'.owns
  BY DEF EndedByItsOwner
<1>0. streams \in [Key -> Unit] /\ e \in Unit
  BY FoundType DEF TypeOK
<1>1. /\ last'.key = k /\ last'.op = op /\ last'.owns = Owns(e, id)
  BY DEF SessionEvent, EventUntracked, EventOtherItem, EventOnUnit, Served
<1>2. \E f : Put(k, f)
  BY DEF SessionEvent, EventUntracked, EventOtherItem, EventOnUnit, Keep, Advance
<1>3. l = k
  BY <1>0, <1>2 DEF Put
<1>4. e = streams[k] /\ Exists(e)
  BY <1>3, ActiveFound
<1>5. ASSUME NEW f, Keep(k, f), f.version = e.version PROVE FALSE
  BY <1>0, <1>3, <1>4, <1>5 DEF Keep, Put
<1>6. Owns(e, id)
  <2>1. CASE EventUntracked(op, k, item, id)
    BY <1>4, <2>1 DEF EventUntracked
  <2>2. CASE EventOtherItem(op, k, e, item, id)
    BY <1>5, <2>2, OwnsCases DEF EventOtherItem
  <2>3. CASE EventOnUnit(op, k, e, item, id)
    <3>1. op = "stopped" /\ LaterAccepted(e, id)
      BY <1>0, <1>5, <2>3, SameVersion DEF EventOnUnit, StartedUnit, ProgressedUnit
    <3> QED BY <3>1, OwnsCases DEF LaterAccepted
  <2> QED BY <2>1, <2>2, <2>3 DEF SessionEvent
<1> QED BY <1>1, <1>3, <1>6

LEMMA EndedToken ==
    ASSUME TypeOK, NEW t \in tokens,
           \/ \E p \in PlaySessions : BindReservationPlaySession(t, p)
           \/ ReleaseReservation(t)
           \/ ForgetReservation(t),
           NEW k \in Key
    PROVE  EndedByItsOwner(k)
<1>0. t.key \in Key /\ streams \in [Key -> Unit] /\ t = [key |-> t.key, version |-> t.version]
  BY DEF TypeOK, Token
<1>1. ASSUME NEW p \in PlaySessions, BindReservationPlaySession(t, p)
      PROVE  EndedByItsOwner(k)
  <2>1. streams'[k].version = streams[k].version
    BY <1>0, <1>1 DEF BindReservationPlaySession, Put, Unit
  <2> QED BY <2>1 DEF EndedByItsOwner
<1>2. CASE ReleaseReservation(t)
  <2>1. last'.op = "release" /\ last'.key = t.key
    BY <1>2 DEF ReleaseReservation, Quiet
  <2>2. ASSUME streams'[k].version # streams[k].version
        PROVE  t.key = k /\ t = [key |-> k, version |-> streams[k].version] /\ t \in tokens \ tokens'
    BY <1>0, <1>2, <2>2 DEF ReleaseReservation, Put
  <2> QED BY <2>1, <2>2 DEF EndedByItsOwner
<1>3. CASE ForgetReservation(t)
  BY <1>3 DEF ForgetReservation, EndedByItsOwner
<1> QED BY <1>1, <1>2, <1>3

LEMMA EndedSwitch ==
    ASSUME TypeOK, NEW w \in switches, ReleaseSwitchedSource(w), NEW k \in Key
    PROVE  EndedByItsOwner(k)
<1>0. w.key \in Key /\ w.ref \in Nat /\ streams \in [Key -> Unit]
  BY BoundsAssumption DEF TypeOK, Switch
<1>1. last'.op = "switch" /\ last'.key = w.key /\ last'.owns = Owns(streams[w.key], w.id)
  BY DEF ReleaseSwitchedSource
<1>2. ASSUME streams'[k].version # streams[k].version
      PROVE  /\ k = w.key /\ w \in switches \ switches'
             /\ streams[k].version <= w.ref
             /\ Claimed(streams[k]) => Owns(streams[k], w.id) \/ ReservedFor(streams[k], w.id)
  <2>1. k = w.key /\ LeavesUnit(streams[k], w)
    BY <1>0, <1>2 DEF ReleaseSwitchedSource
  <2> QED BY <2>1, OwnsCases DEF LeavesUnit, ReleaseSwitchedSource
<1> QED BY <1>1, <1>2 DEF EndedByItsOwner

LEMMA EndedStep == TypeOK /\ [Next]_vars => [\A k \in Key : EndedByItsOwner(k)]_vars
<1> SUFFICES ASSUME TypeOK, Next PROVE \A k \in Key : EndedByItsOwner(k)
  BY DEF vars
<1>. TAKE k \in Key
<1>0. streams \in [Key -> Unit]
  BY DEF TypeOK
<1>1. ASSUME NEW u \in Users, NEW s \in Servers, NEW item \in Items, NEW max \in Limits,
             TryReserve(u, s, item, max)
      PROVE  EndedByItsOwner(k)
  <2>1. last'.key = <<u, s>> /\ last'.op = "reserve"
    BY <1>1 DEF TryReserve, Quiet
  <2>2. k # <<u, s>> => streams'[k] = streams[k]
    BY <1>0, <1>1 DEF TryReserve, Keep, Advance, Put
  <2> QED BY <2>1, <2>2 DEF EndedByItsOwner
<1>2. ASSUME NEW u \in Users, NEW s \in Servers, NEW max \in Limits, RefuseStream(u, s, max)
      PROVE  EndedByItsOwner(k)
  BY <1>0, <1>2, ActiveFound DEF RefuseStream, Keep, Put, EndedByItsOwner
<1>3. CASE Tick
  <2>1. streams'[k].version = streams[k].version
    BY <1>0, <1>3, SameVersion DEF Tick
  <2> QED BY <2>1 DEF EndedByItsOwner
<1>4. CASE Cleanup
  BY <1>4, ActiveFound DEF Cleanup, EndedByItsOwner
<1> QED BY <1>1, <1>2, <1>3, <1>4, EndedStream, EndedEvent, EndedToken, EndedSwitch DEF Next

\* No failure path of an old PlaybackInfo, late segment or late event ends the
\* attempt that holds the unit now (ReleaseReservation's token check,
\* ReleaseSwitchedSource's reference, the ownership rules).
THEOREM AttemptsEndByTheirOwner == Spec => AttemptEndsByItsOwner
<1>1. Spec => []TypeOK
  BY TypeCorrect
<1> QED BY <1>1, EndedStep, PTL DEF Spec, AttemptEndsByItsOwner

-------------------------------------------------------------------------------
(* The limiter implements the pool.                                        *)

\* The instance's copy of Cardinality is the same operator.
LEMMA PoolCardinality == \A S : Pool!Cardinality(S) = Cardinality(S)
BY Zenon DEF Cardinality, Pool!Cardinality

LEMMA ActiveIffFound ==
    ASSUME NEW k \in Key
    PROVE  Active(k) <=> Exists(Found(k))
BY DEF Active, Found, Exists, NoUnit

\* A step after which only units that were active are active is a Leave.
LEMMA LeaveStep ==
    ASSUME \A k \in Key : Active(k)' => Active(k)
    PROVE  Pool!PoolNext
<1>1. \A s \in Servers : Holders(s)' \subseteq Holders(s)
  BY DEF Holders, Key
<1>2. \A s \in Servers : Holders(s)' \subseteq Users
  BY DEF Holders
<1> QED BY <1>1, <1>2 DEF Pool!PoolNext, Pool!Leave

\* A write of the unit of a user who holds it, or of an absent one, is a Leave.
LEMMA LeaveByPut ==
    ASSUME streams \in [Key -> Unit], NEW k \in Key, NEW e, Put(k, e), Active(k) \/ ~Exists(e)
    PROVE  Pool!PoolNext
<1>1. ASSUME NEW l \in Key, Active(l)'
      PROVE  Active(l)
  BY <1>1 DEF Put, Active
<1> QED BY <1>1, LeaveStep

\* The first unit of a user on a server with room is an Admit.
LEMMA AdmitByPut ==
    ASSUME streams \in [Key -> Unit], NEW u \in Users, NEW s \in Servers, NEW max \in Limits,
           NEW e, Put(<<u, s>>, e), ~Active(<<u, s>>), HasRoom(s, max), Exists(e), ~Expired(e)
    PROVE  Pool!PoolNext
<1>1. <<u, s>> \in Key
  BY DEF Key
<1>2. Active(<<u, s>>)' /\ \A l \in Key : l # <<u, s>> => (Active(l)' <=> Active(l))
  BY <1>1 DEF Put, Active
<1>3. Holders(s)' = Holders(s) \cup {u}
  BY <1>2 DEF Holders, Key
<1>4. \A r \in Servers : r # s => Holders(r)' = Holders(r)
  BY <1>2 DEF Holders, Key
<1>5. u \notin Holders(s)
  BY DEF Holders
<1>6. Pool!Admit(u, s, max)
  BY <1>3, <1>4, <1>5, PoolCardinality DEF Pool!Admit, HasRoom
<1> QED BY <1>6 DEF Pool!PoolNext

LEMMA FreshUnit ==
    ASSUME TypeOK, NEW e \in Unit, NEW item, NEW id
    PROVE  /\ Exists([Restarted(e, item) EXCEPT !.reserved = TRUE, !.bound = None])
           /\ ~Expired([Restarted(e, item) EXCEPT !.reserved = TRUE, !.bound = None])
           /\ Exists(ClaimedBy(Restarted(e, item), id))
           /\ ~Expired(ClaimedBy(Restarted(e, item), id))
<1>1. nextVersion + 1 # 0 /\ ~(0 >= Timeout)
  BY BoundsAssumption, TimeoutAssumption DEF TypeOK
<1>2. /\ Restarted(e, item).version = nextVersion + 1 /\ Restarted(e, item).age = 0
      /\ Restarted(e, item) = [e EXCEPT !.item = item, !.version = nextVersion + 1, !.age = 0]
  BY DEF Restarted, Unit
<1> QED BY <1>1, <1>2 DEF Exists, Expired, ClaimedBy, Unit

LEMMA PoolReserve ==
    ASSUME TypeOK, NEW u \in Users, NEW s \in Servers, NEW item \in Items,
           NEW max \in Limits, TryReserve(u, s, item, max)
    PROVE  Pool!PoolNext
<1>. DEFINE k == <<u, s>>
<1>0. k \in Key /\ streams \in [Key -> Unit] /\ Found(k) \in Unit
  BY FoundType DEF Key, TypeOK
<1>1. CASE Keep(k, Found(k)) /\ ~Exists(Found(k))
  BY <1>0, <1>1, LeaveByPut DEF Keep
<1>2. CASE /\ Exists(Found(k)) \/ HasRoom(s, max)
           /\ Advance(k, [Restarted(Found(k), item) EXCEPT !.reserved = TRUE, !.bound = None])
  <2>1. CASE Active(k)
    BY <1>0, <1>2, <2>1, LeaveByPut DEF Advance
  <2>2. CASE ~Active(k)
    <3>1. HasRoom(s, max)
      BY <1>0, <1>2, <2>2, ActiveIffFound
    <3> QED BY <1>0, <1>2, <2>2, <3>1, FreshUnit, AdmitByPut DEF Advance
  <2> QED BY <2>1, <2>2
<1> QED BY <1>1, <1>2 DEF TryReserve

LEMMA PoolStream ==
    ASSUME IInv, NEW u \in Users, NEW s \in Servers, NEW from \in Servers,
           NEW item \in Items, NEW p \in MaybePlay, NEW max \in Limits,
           EnsureStreamSlot(u, s, from, item, p, max)
    PROVE  Pool!PoolNext
<1>. DEFINE k == <<u, s>>
<1>. DEFINE id == PlayIdentity(p)
<1>0. k \in Key /\ streams \in [Key -> Unit]
  BY DEF Key, IInv, TypeOK
<1>1. \E f : Put(k, f)
  BY DEF EnsureStreamSlot, StreamHeldLive, StreamHeldFrozen, StreamHeldUnclaimed, StreamNew,
         Keep, Advance
<1>2. CASE Active(k)
  BY <1>0, <1>1, <1>2, LeaveByPut
<1>3. CASE ~Active(k)
  <2>1. ~Exists(Found(k)) /\ ~Claimed(Found(k))
    BY <1>0, <1>3, ActiveIffFound, FoundInv, ClaimedExists DEF UnitInv
  <2>2. CASE StreamNew(k, s, item, id, max)
    BY <1>0, <1>3, <2>2, NoUnitType, FreshUnit, AdmitByPut DEF StreamNew, Advance, IInv
  <2>3. /\ ~StreamHeldLive(k, Found(k), item, id)
        /\ ~StreamHeldFrozen(k, Found(k), item, id)
        /\ ~StreamHeldUnclaimed(k, Found(k), item, id)
    BY <2>1 DEF StreamHeldLive, StreamHeldFrozen, StreamHeldUnclaimed, LiveClaim
  <2> QED BY <2>2, <2>3 DEF EnsureStreamSlot
<1> QED BY <1>2, <1>3

LEMMA PoolEvent ==
    ASSUME IInv, NEW op \in {"started", "progress", "stopped"}, NEW k \in Key,
           NEW item \in MaybeItem, NEW id \in Identity, SessionEvent(op, k, item, id)
    PROVE  Pool!PoolNext
<1>0. streams \in [Key -> Unit]
  BY DEF IInv, TypeOK
<1>1. \E f : Put(k, f) /\ (Exists(Found(k)) \/ ~Exists(f))
  <2>1. CASE EventUntracked(op, k, item, id)
    BY <2>1 DEF EventUntracked, Keep, Exists, NoUnit
  <2>2. CASE EventOtherItem(op, k, Found(k), item, id)
    BY <2>2 DEF EventOtherItem, Keep, Advance
  <2>3. CASE EventOnUnit(op, k, Found(k), item, id)
    BY <2>3 DEF EventOnUnit, Keep
  <2> QED BY <2>1, <2>2, <2>3 DEF SessionEvent
<1>2. Active(k) <=> Exists(Found(k))
  BY ActiveIffFound
<1> QED BY <1>0, <1>1, <1>2, LeaveByPut

LEMMA PoolStep == IInv /\ [Next]_vars => [Pool!PoolNext]_([s \in Servers |-> Holders(s)])
<1> SUFFICES ASSUME IInv, [Next]_vars PROVE Pool!PoolNext
  OBVIOUS
<1>0. TypeOK /\ streams \in [Key -> Unit] /\ ~Exists(NoUnit)
  BY DEF IInv, TypeOK, Exists, NoUnit
<1>1. ASSUME NEW u \in Users, NEW s \in Servers, NEW max \in Limits, RefuseStream(u, s, max)
      PROVE  Pool!PoolNext
  BY <1>0, <1>1, LeaveByPut DEF RefuseStream, Keep, Key
<1>2. ASSUME NEW t \in tokens, NEW p \in PlaySessions, BindReservationPlaySession(t, p)
      PROVE  Pool!PoolNext
  <2>1. t.key \in Key /\ streams[t.key] \in Unit
    BY <1>0 DEF TypeOK, Token
  <2>2. ASSUME NEW k \in Key, Active(k)' PROVE Active(k)
    BY <1>0, <1>2, <2>1, <2>2 DEF BindReservationPlaySession, Put, Active, Exists, Expired, Unit
  <2> QED BY <2>2, LeaveStep
<1>3. ASSUME NEW t \in tokens, ReleaseReservation(t) \/ ForgetReservation(t)
      PROVE  Pool!PoolNext
  <2>1. t.key \in Key
    BY <1>0 DEF TypeOK, Token
  <2>2. Put(t.key, NoUnit) \/ UNCHANGED streams
    BY <1>3 DEF ReleaseReservation, ForgetReservation
  <2>3. CASE UNCHANGED streams
    BY <2>3, LeaveStep DEF Active
  <2> QED BY <1>0, <2>1, <2>2, <2>3, LeaveByPut
<1>4. ASSUME NEW w \in switches, ReleaseSwitchedSource(w)
      PROVE  Pool!PoolNext
  <2>1. ASSUME NEW k \in Key, Active(k)' PROVE Active(k)
    BY <1>0, <1>4, <2>1 DEF ReleaseSwitchedSource, Active
  <2> QED BY <2>1, LeaveStep
<1>5. CASE Tick
  <2>1. ASSUME NEW k \in Key, Active(k)' PROVE Active(k)
    <3>1. streams'[k] = Aged(streams[k]) /\ streams[k] \in Unit
      BY <1>0, <1>5 DEF Tick
    <3> QED BY <2>1, <3>1, TimeoutAssumption DEF Active, Aged, Exists, Expired, Unit
  <2> QED BY <2>1, LeaveStep
<1>6. CASE Cleanup
  <2>1. ASSUME NEW k \in Key, Active(k)' PROVE Active(k)
    BY <1>0, <1>6, <2>1, ActiveIffFound DEF Cleanup, Active
  <2> QED BY <2>1, LeaveStep
<1>7. CASE UNCHANGED vars
  BY <1>7, LeaveStep DEF vars, Active
<1> QED BY <1>0, <1>1, <1>2, <1>3, <1>4, <1>5, <1>6, <1>7, PoolReserve, PoolStream, PoolEvent
        DEF Next

LEMMA PoolStart == Init => Pool!PoolInit
BY DEF Init, Pool!PoolInit, Holders, Active, Exists, NoUnit, Key

\* The limiter's handlers, in any interleaving, give out capacity units the way
\* SlotPool promises: at most one per user and server, and a user's first one only
\* below the limit the request read.
THEOREM LimiterImplementsPool == Spec => ImplementsPool
BY Invariance, PoolStart, PoolStep, PTL DEF Spec, ImplementsPool, Pool!PoolSpec

LEMMA CapacityMeans ==
    CapacityRespected <=> \A s \in Servers : \E max \in Limits : Cardinality(Holders(s)) <= max
BY PoolCardinality DEF CapacityRespected, Pool!WithinLimit

LEMMA HoldersFinite == \A s : IsFiniteSet(Holders(s)) /\ Cardinality(Holders(s)) \in Nat
BY UsersAssumption, FS_Subset, FS_CardinalityType DEF Holders

LEMMA CapacityInit == Init => CapacityRespected
<1> SUFFICES ASSUME Init PROVE CapacityRespected
  OBVIOUS
<1>1. \A s \in Servers : Holders(s) = {}
  BY DEF Init, Holders, Active, Exists, NoUnit, Key
<1>2. Cardinality({}) = 0
  BY FS_EmptySet
<1>3. PICK max \in Limits : max \in Nat
  BY LimitsAssumption
<1>4. \A s \in Servers : Cardinality(Holders(s)) <= max
  BY <1>1, <1>2, <1>3
<1> QED BY <1>3, <1>4, CapacityMeans

\* A pool step adds one holder below a limit or takes holders away.
LEMMA CapacityStep ==
    CapacityRespected /\ [Pool!PoolNext]_([s \in Servers |-> Holders(s)]) => CapacityRespected'
<1> SUFFICES ASSUME CapacityRespected, [Pool!PoolNext]_([s \in Servers |-> Holders(s)]),
                    NEW s \in Servers
             PROVE  \E max \in Limits : Cardinality(Holders(s)') <= max
  <2>1. CapacityRespected' <=>
          \A r \in Servers : \E max \in Limits : Cardinality(Holders(r)') <= max
    BY PoolCardinality DEF CapacityRespected, Pool!WithinLimit
  <2> QED BY <2>1
<1>0. PICK old \in Limits : Cardinality(Holders(s)) <= old /\ old \in Nat
  BY CapacityMeans, LimitsAssumption
<1>1. IsFiniteSet(Holders(s)) /\ Cardinality(Holders(s)) \in Nat
  BY HoldersFinite
<1>2. CASE Holders(s)' \subseteq Holders(s)
  <2>1. Cardinality(Holders(s)') <= Cardinality(Holders(s)) /\ Cardinality(Holders(s)') \in Nat
    BY <1>1, <1>2, FS_Subset, FS_CardinalityType
  <2> QED BY <1>0, <1>1, <2>1
<1>3. ASSUME NEW u \in Users, NEW max \in Limits, u \notin Holders(s),
             Cardinality(Holders(s)) < max, Holders(s)' = Holders(s) \cup {u}
      PROVE  \E m \in Limits : Cardinality(Holders(s)') <= m
  <2>1. Cardinality(Holders(s)') = Cardinality(Holders(s)) + 1
    BY <1>1, <1>3, FS_AddElement
  <2> QED BY <1>1, <1>3, <2>1, LimitsAssumption
<1>4. CASE \E u \in Users, r \in Servers, max \in Limits : Pool!Admit(u, r, max)
  <2>1. PICK u \in Users, r \in Servers, max \in Limits : Pool!Admit(u, r, max)
    BY <1>4
  <2>2. /\ u \notin Holders(r) /\ Cardinality(Holders(r)) < max
        /\ \A x \in Servers : Holders(x)' = IF x = r THEN Holders(r) \cup {u} ELSE Holders(x)
    BY <2>1, PoolCardinality DEF Pool!Admit
  <2> QED BY <1>2, <1>3, <2>2
<1>5. CASE Pool!Leave
  BY <1>2, <1>5 DEF Pool!Leave
<1>6. CASE UNCHANGED [x \in Servers |-> Holders(x)]
  BY <1>2, <1>6
<1> QED BY <1>4, <1>5, <1>6 DEF Pool!PoolNext

\* However reservations, segments, stops, expiries and config changes interleave,
\* a server never counts more users than a limit one of them was admitted under.
THEOREM LimiterRespectsCapacity == Spec => []CapacityRespected
BY Invariance, PoolStep, CapacityInit, CapacityStep, PTL DEF Spec
===============================================================================
