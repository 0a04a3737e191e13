-------------------------- MODULE StrictPlayback_proofs --------------------------
(***************************************************************************)
(* The handlers of the strict playback path over the limiter and the       *)
(* binding store: they use both as their own specifications allow, a       *)
(* stopped attempt keeps no capacity unit, and every stop is sent once.    *)
(*                                                                         *)
(* The theorems of the two components are about their own variables; what  *)
(* a handler needs of them is stated here as frames: what a call of the    *)
(* store may do to the stage of a binding, and what a call of the limiter  *)
(* may do to the claim of a unit.                                          *)
(***************************************************************************)
EXTENDS StrictPlayback, FiniteSetTheorems, TLAPS

-------------------------------------------------------------------------------
(* Shapes.  They leave out the ranges the components' own invariants bound.*)

Binding == [state : Store!States, user : Users, account : Servers, item : Items,
            alias : Aliases \cup {None}, age : Int, leases : Int, seq : Int,
            inFlight : SUBSET CleanupOps, confirmed : SUBSET CleanupOps]
UnitShape == [item : Slots!MaybeItem, age : Int, version : Nat, claim : Slots!Identity,
              claimVersion : Nat, reserved : BOOLEAN, bound : Slots!MaybePlay]
UnitFits(e, n) ==
    /\ e \in UnitShape
    /\ e.version <= n /\ e.claimVersion <= n
    /\ Slots!Exists(e) \/ Slots!Claimed(e) => e.item # None
Held == [key : Slots!Key, version : Nat \ {0}]
Programs == Steps \cup {"idle", "done"}
SwitchShape == [n : 1..Cardinality(Requests), key : Slots!Key, item : Items,
                id : Slots!Identity, ref : Nat]
ServedShape == [pc : Programs, op : Ops \cup {None}, attempt : Attempts \cup {None},
                acked : BOOLEAN, late : BOOLEAN, switch : SwitchShape \cup {NoSwitch}]

Left == {"stopping", "retired", "failed", "gone"}
KeyOf(a) == <<UserOf(a), ServerOf(a)>>

\* The bindings, the units and the reservations are well-formed: no unit, claim or
\* token has a version that was not handed out.
StoreShape == entries \in [Attempts -> Binding] /\ activationSequence \in Int
SlotShape ==
    /\ streams \in [Slots!Key -> UnitShape]
    /\ nextVersion \in Nat
    /\ tokens \subseteq Held
    /\ \A t \in tokens : t.version <= nextVersion
    /\ \A k \in Slots!Key : UnitFits(streams[k], nextVersion)

\* A reservation is held by the negotiation that made it, and for good by the
\* attempts that negotiation published.
ReservationsHeld ==
    /\ \A n \in open : n.token \in tokens /\ n.item \in Items
    /\ \A n, m \in open : n.token = m.token => n = m
    /\ origin \in [Attempts -> Held \cup {NoToken}]
    /\ \A a \in Attempts : origin[a] # NoToken => entries[a].state # "unused"
    /\ published \subseteq Attempts
    /\ \A a \in published :
          origin[a] \in tokens /\ \A n \in open : n.token # origin[a]

\* What a request may be doing, by its operation.
ActivationSteps == {"claim", "ensure", "switch", "activate", "giveUp"}
StopSteps == {"begin", "superseded", "fail", "confirm", "retire", "end"}
RequestFits(q) ==
    /\ q \in ServedShape
    /\ q.pc \in Steps => q.attempt \in published /\ q.op \in Ops
    /\ q.pc \in ActivationSteps => q.op \notin CleanupOps
    /\ q.pc \in StopSteps => q.op \in CleanupOps
    /\ q.pc \in {"send", "resolve", "slot"} => q.op # "stream"
    /\ q.pc = "resolve" => q.op \notin CleanupOps
    /\ q.late => q.pc \in {"leave", "done"} /\ q.attempt \in Attempts
RequestsShape ==
    /\ requests \in [Requests -> ServedShape]
    /\ \A r \in Requests : RequestFits(requests[r])

\* Every request between its two calls of the limiter has a switch of its own.
SwitchesHeld ==
    /\ switches \subseteq SwitchShape
    /\ \A r \in Requests : At(r, "switch") => requests[r].switch \in switches
    /\ \A r, q \in Requests :
          At(r, "switch") /\ At(q, "switch") /\ requests[r].switch = requests[q].switch => r = q

-------------------------------------------------------------------------------
(* Who releases the unit of a stopped attempt.                             *)

\* A live claim names one of our attempts, on its own key and its own item.
ClaimOf(e, k, a, b) ==
    /\ k = <<b.user, b.account>> /\ e.item = b.item
    /\ e.claim.play = a /\ e.claim.session \in {a, None}
ClaimsOwned ==
    \A k \in Slots!Key :
        Slots!LiveClaim(streams[k]) => \E a \in Attempts : ClaimOf(streams[k], k, a, entries[a])
Claims(a) ==
    \E k \in Slots!Key : Slots!LiveClaim(streams[k]) /\ streams[k].claim.play = a

\* A cleanup that was begun has closed admission, and a binding never reopens.
Begun(q) == q.pc \in {"send", "confirm", "slot", "retire", "end"} /\ q.op \in CleanupOps
StopsBegun ==
    \A r \in Requests :
        Begun(requests[r]) => entries[requests[r].attempt].state \in Left

\* The request has a stop of its attempt before it, or was late.
Releases(q) ==
    \/ q.pc \in {"switch", "activate", "giveUp", "superseded"}
    \/ q.pc \in {"send", "confirm", "slot"} /\ q.op \in CleanupOps
    \/ q.pc = "retire" /\ q.op # "Stopped"
    \/ q.late
Stopped(a) == entries[a].state \in {"stopping", "retired"}
StoppedClaimsReleased ==
    \A a \in Attempts : Stopped(a) /\ Claims(a) =>
        \E r \in Requests : requests[r].attempt = a /\ Releases(requests[r])

HandlerInv ==
    /\ StoreShape /\ SlotShape /\ ReservationsHeld /\ RequestsShape /\ SwitchesHeld
    /\ ClaimsOwned /\ StopsBegun /\ StoppedClaimsReleased

-------------------------------------------------------------------------------
(* What a call of the store does to a binding.                             *)

\* Whose binding it is never changes.
Kin(e, f) == f.user = e.user /\ f.account = e.account /\ f.item = e.item
\* No call but a begin of a cleanup and a retirement takes a binding to a stage a
\* stop leaves it in.
Mild(e, f) ==
    /\ Kin(e, f)
    /\ \/ f.state \in {e.state, "gone", "failed"}
       \/ e.state = "unused" /\ f.state = "pending"
       \/ e.state = "pending" /\ f.state = "active"
    /\ e.state = "unused" => f.state \in {"unused", "pending"}
    /\ e.state \in Left => f.state \in Left

LEMMA StatesAre ==
    Store!States = {"pending", "active", "stopping", "retired", "failed", "unused", "gone"}
BY DEF Store!States, Store!Stored, Store!Workable, Store!Terminal

\* The rewrites of a binding.
LEMMA BindingWrites ==
    ASSUME NEW e \in Binding
    PROVE  /\ Store!Removed(e) \in Binding
           /\ Store!Removed(e).state = "gone" /\ Kin(e, Store!Removed(e))
           /\ \A st \in Store!States :
                 /\ Store!Enter(e, st) \in Binding
                 /\ Store!Enter(e, st).state = st /\ Kin(e, Store!Enter(e, st))
           /\ Store!Used(e) \in Binding
           /\ Store!Used(e).state = e.state /\ Kin(e, Store!Used(e))
<1>1. /\ "gone" \in Store!States /\ 0 \in Int /\ None \in Aliases \cup {None}
      /\ {} \in SUBSET CleanupOps
  BY StatesAre
<1>2. /\ Store!Removed(e) \in Binding
      /\ Store!Removed(e).state = "gone" /\ Kin(e, Store!Removed(e))
  BY <1>1 DEF Store!Removed, Binding, Kin
<1>3. /\ Store!Used(e) \in Binding
      /\ Store!Used(e).state = e.state /\ Kin(e, Store!Used(e))
  BY <1>1 DEF Store!Used, Binding, Kin
<1>4. ASSUME NEW st \in Store!States
      PROVE  /\ Store!Enter(e, st) \in Binding
             /\ Store!Enter(e, st).state = st /\ Kin(e, Store!Enter(e, st))
  BY <1>1 DEF Store!Enter, Binding, Kin
<1> QED
  BY <1>2, <1>3, <1>4

LEMMA MildSame == \A e : e.state \in Store!States => Mild(e, e)
BY DEF Mild, Kin

\* Pruning removes bindings and rewrites no other.
LEMMA PruneMild ==
    ASSUME NEW es \in [Attempts -> Binding]
    PROVE  /\ Store!Pruned(es) \in [Attempts -> Binding]
           /\ \A a \in Attempts :
                 /\ Mild(es[a], Store!Pruned(es)[a])
                 /\ es[a].state = "unused" => Store!Pruned(es)[a] = es[a]
<1>1. ASSUME NEW a \in Attempts
      PROVE  /\ Store!Pruned(es)[a] \in Binding
             /\ Mild(es[a], Store!Pruned(es)[a])
             /\ es[a].state = "unused" => Store!Pruned(es)[a] = es[a]
  <2>1. es[a] \in Binding /\ es[a].state \in Store!States
    BY DEF Binding
  <2>2. Store!Pruned(es)[a] = IF Store!Pruneable(es[a]) THEN Store!Removed(es[a]) ELSE es[a]
    BY DEF Store!Pruned
  <2>3. Store!Pruneable(es[a]) => es[a].state # "unused"
    BY DEF Store!Pruneable, Store!Present, Store!Stored, Store!Workable, Store!Terminal
  <2> QED
    BY <2>1, <2>2, <2>3, BindingWrites DEF Mild, Kin, Left
<1>2. Store!Pruned(es) = [a \in Attempts |-> Store!Pruned(es)[a]]
  BY DEF Store!Pruned
<1> QED
  BY <1>1, <1>2

LEMMA PutMild ==
    ASSUME StoreShape, NEW a \in Attempts, NEW f \in Binding, Mild(entries[a], f),
           Store!PruneAndPut(a, f), activationSequence' \in Int
    PROVE  /\ StoreShape' /\ entries'[a] = f
           /\ \A b \in Attempts : Mild(entries[b], entries'[b])
BY PruneMild DEF StoreShape, Store!PruneAndPut

\* The calls of the negotiation, of the ingress, and of a handler on its way out.
LEMMA ReserveFrame ==
    ASSUME StoreShape, NEW a \in Attempts, Store!Reserve(a)
    PROVE  /\ StoreShape' /\ \A b \in Attempts : Mild(entries[b], entries'[b])
           /\ entries[a].state = "unused"
<1>1. PICK after : after = Store!Pruned(entries)
  OBVIOUS
<1>2. /\ after \in [Attempts -> Binding] /\ \A b \in Attempts : Mild(entries[b], after[b])
      /\ entries[a] \in Binding /\ entries[a].state = "unused"
  BY <1>1, PruneMild DEF StoreShape, Store!Reserve
<1>3. PICK f : f = Store!Fresh(entries[a].user, entries[a].account, entries[a].item)
  OBVIOUS
<1>4. f \in Binding /\ f.state = "pending" /\ Kin(entries[a], f)
  BY <1>2, <1>3, StatesAre DEF Store!Fresh, Binding, Kin
<1>5. /\ entries' = after \/ entries' = [after EXCEPT ![a] = f]
      /\ activationSequence' = activationSequence
  BY <1>1, <1>3 DEF Store!Reserve
<1>6. Mild(entries[a], f)
  BY <1>2, <1>4 DEF Mild, Left
<1> HIDE DEF Mild, Binding
<1> QED
  BY <1>2, <1>4, <1>5, <1>6 DEF StoreShape

LEMMA WriteFrame ==
    ASSUME StoreShape, NEW a \in Attempts,
           \/ \E x \in Aliases : Store!BindAlias(a, x)
           \/ Store!Activate(a)
           \/ Store!Lease(a)
           \/ Store!LeaseCleanup(a)
           \/ Store!Finish(a, "failed")
    PROVE  StoreShape' /\ \A b \in Attempts : Mild(entries[b], entries'[b])
<1> DEFINE e == entries[a]
<1>1. e \in Binding /\ e.state \in Store!States
  BY DEF StoreShape, Binding
<1>2. /\ Store!Used(e) \in Binding /\ Store!Used(e).state = e.state /\ Kin(e, Store!Used(e))
      /\ \A st \in Store!States :
            /\ Store!Enter(e, st) \in Binding
            /\ Store!Enter(e, st).state = st /\ Kin(e, Store!Enter(e, st))
  BY <1>1, BindingWrites
<1>3. Mild(e, e) /\ activationSequence \in Int /\ activationSequence + 1 \in Int
  BY <1>1, MildSame DEF StoreShape
<1> HIDE DEF e
<1>4. ASSUME NEW x \in Aliases, Store!BindAlias(a, x)
      PROVE  StoreShape' /\ \A b \in Attempts : Mild(entries[b], entries'[b])
  <2>1. [e EXCEPT !.alias = x] \in Binding /\ Mild(e, [e EXCEPT !.alias = x])
    BY <1>1 DEF Binding, Mild, Kin
  <2> QED
    BY <2>1, <1>3, <1>4, PutMild DEF Store!BindAlias, e
<1>5. CASE Store!Activate(a)
  <2>1. CASE e.state = "pending" /\ ~Store!AliasCleanupInFlight(Store!Pruned(entries), a)
    <3>1. PICK f : f = [Store!Enter(e, "active") EXCEPT !.seq = activationSequence + 1]
      OBVIOUS
    <3>2. f \in Binding /\ Mild(e, f)
      BY <1>1, <1>2, <1>3, <3>1, <2>1, StatesAre DEF Binding, Mild, Kin, Left
    <3> QED
      BY <3>1, <3>2, <2>1, <1>3, <1>5, PutMild DEF Store!Activate, e
  <2>2. CASE ~(e.state = "pending" /\ ~Store!AliasCleanupInFlight(Store!Pruned(entries), a))
    BY <2>2, <1>5, <1>1, <1>3, PutMild DEF Store!Activate, e
  <2> QED
    BY <2>1, <2>2
<1>6. CASE Store!Lease(a)
  <2>1. PICK f : f = [Store!Used(e) EXCEPT !.leases = @ + 1]
    OBVIOUS
  <2>2. f \in Binding /\ Mild(e, f)
    BY <1>1, <1>2, <2>1 DEF Binding, Mild, Kin
  <2> QED
    BY <2>1, <2>2, <1>3, <1>6, PutMild DEF Store!Lease, e
<1>7. CASE Store!LeaseCleanup(a)
  <2>1. PICK f : f = [e EXCEPT !.leases = @ + 1]
    OBVIOUS
  <2>2. f \in Binding /\ Mild(e, f)
    BY <1>1, <2>1 DEF Binding, Mild, Kin
  <2> QED
    BY <2>1, <2>2, <1>3, <1>7, PutMild DEF Store!LeaseCleanup, e
<1>8. CASE Store!Finish(a, "failed")
  <2>1. PICK f : f = Store!Finished(e, "failed")
    OBVIOUS
  <2>2. e.state # "unused"
    BY <1>8 DEF e, Store!Finish, Store!Found, Store!Present, Store!Stored, Store!Workable,
                Store!Terminal
  <2>3. f \in Binding /\ Mild(e, f)
    BY <1>1, <1>2, <1>3, <2>1, <2>2, StatesAre DEF Store!Finished, Mild, Store!Terminal, Left
  <2> QED
    BY <2>1, <2>3, <1>3, <1>8, PutMild DEF Store!Finish, e
<1> QED
  BY <1>4, <1>5, <1>6, <1>7, <1>8

\* The upstream's answers, the end of a request, and time.
LEMMA QuietFrame ==
    ASSUME StoreShape,
           \/ \E a \in Attempts, op \in CleanupOps :
                 Store!ConfirmCleanup(a, op) \/ Store!EndCleanup(a, op)
           \/ \E a \in Attempts : Store!Release(a)
           \/ Store!Cleanup
           \/ Store!Tick
    PROVE  StoreShape' /\ \A b \in Attempts : Mild(entries[b], entries'[b])
<1>1. \A b \in Attempts :
          /\ entries[b] \in Binding /\ entries[b].state \in Store!States
          /\ Mild(entries[b], entries[b])
  BY MildSame DEF StoreShape, Binding
<1>2. ASSUME NEW a \in Attempts, NEW f \in Binding, Kin(entries[a], f),
             f.state = entries[a].state, entries' = [entries EXCEPT ![a] = f],
             activationSequence' = activationSequence
      PROVE  StoreShape' /\ \A b \in Attempts : Mild(entries[b], entries'[b])
  <2>1. Mild(entries[a], f)
    BY <1>1, <1>2 DEF Mild
  <2> HIDE DEF Mild, Binding
  <2> QED
    BY <1>1, <1>2, <2>1 DEF StoreShape
<1>3. ASSUME NEW a \in Attempts, NEW op \in CleanupOps, Store!ConfirmCleanup(a, op)
      PROVE  StoreShape' /\ \A b \in Attempts : Mild(entries[b], entries'[b])
  <2>1. PICK f : f = [entries[a] EXCEPT !.confirmed = @ \cup {op}]
    OBVIOUS
  <2>2. f \in Binding /\ Kin(entries[a], f) /\ f.state = entries[a].state
    BY <1>1, <2>1 DEF Binding, Kin
  <2> QED
    BY <1>2, <1>3, <2>1, <2>2 DEF Store!ConfirmCleanup
<1>4. ASSUME NEW a \in Attempts, NEW op \in CleanupOps, Store!EndCleanup(a, op)
      PROVE  StoreShape' /\ \A b \in Attempts : Mild(entries[b], entries'[b])
  <2>1. PICK f : f = [entries[a] EXCEPT !.inFlight = @ \ {op}]
    OBVIOUS
  <2>2. f \in Binding /\ Kin(entries[a], f) /\ f.state = entries[a].state
    BY <1>1, <2>1 DEF Binding, Kin
  <2> QED
    BY <1>2, <1>4, <2>1, <2>2 DEF Store!EndCleanup
<1>5. ASSUME NEW a \in Attempts, Store!Release(a)
      PROVE  StoreShape' /\ \A b \in Attempts : Mild(entries[b], entries'[b])
  <2>1. PICK f : f = [entries[a] EXCEPT !.leases = @ - 1]
    OBVIOUS
  <2>2. f \in Binding /\ Kin(entries[a], f) /\ f.state = entries[a].state
    BY <1>1, <2>1 DEF Binding, Kin
  <2>3. PICK es : es = [entries EXCEPT ![a] = f]
    OBVIOUS
  <2>4. /\ es \in [Attempts -> Binding]
        /\ \A b \in Attempts : Kin(entries[b], es[b]) /\ es[b].state = entries[b].state
    <3> HIDE DEF Binding
    <3> QED
      BY <1>1, <2>2, <2>3 DEF StoreShape, Kin
  <2>5. entries' = Store!Pruned(es) /\ activationSequence' = activationSequence
    BY <1>5, <2>1, <2>3 DEF Store!Release
  <2>6. entries' \in [Attempts -> Binding] /\ \A b \in Attempts : Mild(es[b], entries'[b])
    BY <2>4, <2>5, PruneMild
  <2> QED
    BY <2>4, <2>5, <2>6 DEF Mild, Kin, StoreShape
<1>6. CASE Store!Cleanup
  BY <1>6, PruneMild DEF Store!Cleanup, StoreShape
<1>7. CASE Store!Tick
  <2>1. ASSUME NEW b \in Attempts
        PROVE  entries'[b] \in Binding /\ Mild(entries[b], entries'[b])
    <3>1. PICK f : f = [entries[b] EXCEPT !.age = @ + 1]
      OBVIOUS
    <3>2. f \in Binding /\ Kin(entries[b], f) /\ f.state = entries[b].state
      BY <1>1, <3>1 DEF Binding, Kin
    <3>3. entries'[b] \in {f, entries[b]}
      BY <1>7, <3>1 DEF Store!Tick
    <3> QED
      BY <1>1, <3>2, <3>3 DEF Mild
  <2>2. entries' = [b \in Attempts |-> entries'[b]] /\ activationSequence' = activationSequence
    BY <1>7 DEF Store!Tick
  <2> QED
    BY <2>1, <2>2 DEF StoreShape
<1> QED
  BY <1>3, <1>4, <1>5, <1>6, <1>7

\* A cleanup that begins closes admission; what was left stays left.
LEMMA BeginFrame ==
    ASSUME StoreShape, NEW a \in Attempts, NEW op \in CleanupOps, Store!BeginCleanup(a, op)
    PROVE  /\ StoreShape'
           /\ \A b \in Attempts : Kin(entries[b], entries'[b])
           /\ \A b \in Attempts \ {a} : entries'[b] = entries[b]
           /\ entries'[a].state \in {entries[a].state, "stopping"} \cap Left
           /\ entries[a].state # "unused"
<1>1. /\ entries[a] \in Binding /\ entries[a].state \in Store!States
      /\ entries[a].state # "unused" /\ Store!Present(entries[a])
  BY DEF StoreShape, Binding, Store!BeginCleanup, Store!Found, Store!Present, Store!Stored,
         Store!Workable, Store!Terminal
<1>2. PICK d : d = Store!Drained(entries[a])
  OBVIOUS
<1>3. /\ d \in Binding /\ Kin(entries[a], d)
      /\ d.state \in {entries[a].state, "stopping"} \cap Left
  BY <1>1, <1>2, BindingWrites, StatesAre
     DEF Store!Drained, Store!Workable, Left, Kin, Store!Present, Store!Stored, Store!Terminal
<1>4. PICK f : f = [d EXCEPT !.inFlight = @ \cup {op}]
  OBVIOUS
<1>5. /\ f \in Binding /\ Kin(entries[a], f)
      /\ f.state \in {entries[a].state, "stopping"} \cap Left
  BY <1>3, <1>4 DEF Binding, Kin
<1>6. entries' = [entries EXCEPT ![a] = f] /\ activationSequence' = activationSequence
  BY <1>2, <1>4 DEF Store!BeginCleanup
<1> HIDE DEF Binding
<1> QED
  BY <1>1, <1>5, <1>6 DEF StoreShape, Kin

\* A retirement keeps what a stop left where it is, or retires it.
LEMMA RetireFrame ==
    ASSUME StoreShape, NEW a \in Attempts, Store!Finish(a, "retired")
    PROVE  /\ StoreShape'
           /\ \A b \in Attempts : Kin(entries[b], entries'[b])
           /\ \A b \in Attempts \ {a} : Mild(entries[b], entries'[b])
           /\ entries'[a].state \in {entries[a].state, "retired"}
           /\ entries'[a].state \in Left
           /\ entries[a].state = "failed" => entries'[a].state = "failed"
<1>1. /\ entries[a] \in Binding /\ entries[a].state \in Store!States
      /\ Store!Pruned(entries) \in [Attempts -> Binding]
      /\ \A b \in Attempts : Mild(entries[b], Store!Pruned(entries)[b])
  BY PruneMild DEF StoreShape, Binding
<1>2. PICK f : f = Store!Finished(entries[a], "retired")
  OBVIOUS
<1>3. /\ f \in Binding /\ Kin(entries[a], f) /\ f.state \in {entries[a].state, "retired"}
      /\ f.state \in Left
      /\ entries[a].state = "failed" => f.state = "failed"
  BY <1>1, <1>2, BindingWrites, StatesAre DEF Store!Finished, Store!Terminal, Kin, Left
<1>4. entries' = [Store!Pruned(entries) EXCEPT ![a] = f] /\ activationSequence' = activationSequence
  BY <1>2 DEF Store!Finish, Store!PruneAndPut
<1>5. \A b \in Attempts : Kin(entries[b], Store!Pruned(entries)[b])
  BY <1>1 DEF Mild
<1> HIDE DEF Binding, Mild, Kin
<1> QED
  BY <1>1, <1>3, <1>4, <1>5 DEF StoreShape

-------------------------------------------------------------------------------
(* What a call of the limiter does to the claim of a unit.                 *)

\* A claim that is live afterwards was live before, on the same item.
LiveKept(e, f) ==
    Slots!LiveClaim(f) => Slots!LiveClaim(e) /\ f.claim = e.claim /\ f.item = e.item
\* The attempt a claimed the unit for the item.
Taken(f, a, item) ==
    /\ Slots!LiveClaim(f) /\ f.item = item
    /\ f.claim.play = a /\ f.claim.session \in {a, None}
\* Only the unit of k changed.
OnlyUnit(k) == \A l \in Slots!Key \ {k} : streams'[l] = streams[l]

LEMMA NoUnitFits ==
    \A n \in Nat : UnitFits(Slots!NoUnit, n) /\ ~Slots!LiveClaim(Slots!NoUnit)
BY NoneAssumption
   DEF UnitFits, UnitShape, Slots!NoUnit, Slots!MaybeItem, Slots!MaybePlay, Slots!Identity,
       Slots!Anonymous, Slots!Exists, Slots!LiveClaim, Slots!Claimed

\* The rewrites of a unit.
LEMMA UnitWrites ==
    ASSUME NEW n \in Nat, NEW e, UnitFits(e, n), NEW id \in Slots!Identity
    PROVE  /\ UnitFits(Slots!Touched(e), n) /\ LiveKept(e, Slots!Touched(e))
           /\ Slots!Touched(e).item = e.item
           /\ UnitFits([Slots!Touched(e) EXCEPT !.reserved = FALSE], n)
           /\ LiveKept(e, [Slots!Touched(e) EXCEPT !.reserved = FALSE])
           /\ UnitFits(Slots!Aged(e), n) /\ LiveKept(e, Slots!Aged(e))
           /\ LiveKept(e, e)
<1>1. e \in UnitShape
  BY DEF UnitFits
<1>2. PICK t : t = Slots!Touched(e)
  OBVIOUS
<1>3. /\ t \in UnitShape /\ t.item = e.item /\ t.version = e.version
      /\ t.claim = e.claim /\ t.claimVersion = e.claimVersion
  BY <1>1, <1>2 DEF Slots!Touched, UnitShape
<1>4. PICK q : q = [t EXCEPT !.reserved = FALSE]
  OBVIOUS
<1>5. /\ q \in UnitShape /\ q.item = e.item /\ q.version = e.version
      /\ q.claim = e.claim /\ q.claimVersion = e.claimVersion
  BY <1>3, <1>4 DEF UnitShape
<1>6. PICK g : g = Slots!Aged(e)
  OBVIOUS
<1>7. /\ g \in UnitShape /\ g.item = e.item /\ g.version = e.version
      /\ g.claim = e.claim /\ g.claimVersion = e.claimVersion
  BY <1>1, <1>6 DEF Slots!Aged, UnitShape
<1>8. ASSUME NEW f \in UnitShape, f.item = e.item, f.version = e.version,
             f.claim = e.claim, f.claimVersion = e.claimVersion
      PROVE  UnitFits(f, n) /\ LiveKept(e, f)
  BY <1>8 DEF UnitFits, LiveKept, Slots!LiveClaim, Slots!Claimed, Slots!Exists
<1>9. LiveKept(e, e)
  BY DEF LiveKept
<1> HIDE DEF UnitShape, UnitFits, LiveKept
<1> QED
  BY <1>2, <1>3, <1>4, <1>5, <1>6, <1>7, <1>8, <1>9

LEMMA UnitClaimed ==
    ASSUME NEW n \in Nat, NEW e, UnitFits(e, n), NEW a \in Attempts,
           NEW id \in Slots!Identity, id.play = a, id.session \in {a, None},
           NEW item \in Items, e.item = item
    PROVE  UnitFits(Slots!ClaimedBy(e, id), n) /\ Taken(Slots!ClaimedBy(e, id), a, item)
<1>1. e \in UnitShape /\ id # Slots!Anonymous
  BY NoneAssumption DEF UnitFits, Slots!Anonymous
<1>2. PICK f : f = Slots!ClaimedBy(e, id)
  OBVIOUS
<1>3. f = [e EXCEPT !.claim = id, !.claimVersion = e.version, !.reserved = FALSE]
  BY <1>1, <1>2 DEF Slots!ClaimedBy
<1>4. /\ f \in UnitShape /\ f.item = e.item /\ f.version = e.version
      /\ f.claim = id /\ f.claimVersion = e.version
  BY <1>1, <1>3 DEF UnitShape
<1> QED
  BY NoneAssumption, <1>1, <1>2, <1>4 DEF UnitFits, Taken, Slots!LiveClaim, Slots!Claimed, Slots!Exists

\* A restart takes a version no claim was made under.
LEMMA UnitRestarted ==
    ASSUME nextVersion \in Nat, NEW e, UnitFits(e, nextVersion), NEW item \in Items
    PROVE  /\ UnitFits(Slots!Restarted(e, item), nextVersion + 1)
           /\ ~Slots!LiveClaim(Slots!Restarted(e, item))
           /\ Slots!Restarted(e, item).item = item
           /\ Slots!Restarted(e, item).claim = e.claim
<1>1. /\ e \in UnitShape /\ item \in Slots!MaybeItem /\ item # None
      /\ nextVersion + 1 \in Nat /\ 0 \in Int
  BY NoneAssumption DEF UnitFits, Slots!MaybeItem
<1>2. PICK f : f = Slots!Restarted(e, item)
  OBVIOUS
<1>3. /\ f \in UnitShape /\ f.item = item /\ f.version = nextVersion + 1
      /\ f.claim = e.claim /\ f.claimVersion = e.claimVersion
  BY <1>1, <1>2 DEF Slots!Restarted, UnitShape
<1> QED
  BY <1>1, <1>2, <1>3 DEF UnitFits, UnitShape, Slots!LiveClaim

\* Writing one unit keeps the shape.
LEMMA KeepFrame ==
    ASSUME SlotShape, NEW k \in Slots!Key, NEW f, UnitFits(f, nextVersion), Slots!Keep(k, f)
    PROVE  /\ streams' \in [Slots!Key -> UnitShape] /\ streams'[k] = f /\ OnlyUnit(k)
           /\ nextVersion' = nextVersion
           /\ \A l \in Slots!Key : UnitFits(streams'[l], nextVersion')
<1> USE DEF SlotShape, Slots!Keep, Slots!Put, OnlyUnit
<1>1. f \in UnitShape
  BY DEF UnitFits
<1> HIDE DEF UnitShape
<1> QED
  BY <1>1

LEMMA AdvanceFrame ==
    ASSUME SlotShape, NEW k \in Slots!Key, NEW f, UnitFits(f, nextVersion + 1),
           Slots!Advance(k, f)
    PROVE  /\ streams' \in [Slots!Key -> UnitShape] /\ streams'[k] = f /\ OnlyUnit(k)
           /\ nextVersion' = nextVersion + 1
           /\ \A l \in Slots!Key : UnitFits(streams'[l], nextVersion')
<1> USE DEF SlotShape, Slots!Advance, Slots!Put, OnlyUnit
<1>1. f \in UnitShape /\ nextVersion \in Nat
  BY DEF UnitFits
<1>2. \A l \in Slots!Key : UnitFits(streams[l], nextVersion + 1)
  BY <1>1 DEF UnitFits, UnitShape
<1> HIDE DEF UnitShape
<1> QED
  BY <1>1, <1>2

LEMMA FoundFits ==
    ASSUME SlotShape, NEW k \in Slots!Key
    PROVE  /\ UnitFits(Slots!Found(k), nextVersion)
           /\ LiveKept(streams[k], Slots!Found(k))
           /\ Slots!Found(k) \in {streams[k], Slots!NoUnit}
BY NoUnitFits DEF SlotShape, Slots!Found, LiveKept

\* The versions of the tokens stay behind the counter.
LEMMA TokensFrame ==
    ASSUME SlotShape, nextVersion' \in {nextVersion, nextVersion + 1}, tokens' \subseteq tokens
    PROVE  nextVersion' \in Nat /\ tokens' \subseteq Held
           /\ \A t \in tokens' : t.version <= nextVersion'
BY DEF SlotShape, Held

\* The reservation of a negotiation: the unit keeps no live claim, and the new token
\* is newer than every other.
LEMMA ReservationFrame ==
    ASSUME SlotShape, NEW u \in Users, NEW s \in Servers, NEW item \in Items, NEW max \in Limits,
           Slots!TryReserve(u, s, item, max)
    PROVE  /\ SlotShape' /\ switches' = switches
           /\ \A k \in Slots!Key : LiveKept(streams[k], streams'[k])
           /\ \/ tokens' = tokens
              \/ \E t \in Held \ tokens : tokens' = tokens \cup {t}
<1>1. PICK k \in Slots!Key : k = <<u, s>>
  BY DEF Slots!Key
<1>2. PICK e : e = Slots!Found(k)
  OBVIOUS
<1>3. UnitFits(e, nextVersion) /\ nextVersion \in Nat /\ LiveKept(streams[k], e)
  BY <1>2, FoundFits DEF SlotShape
<1>4. \A l \in Slots!Key : LiveKept(streams[l], streams[l])
  BY DEF LiveKept
<1>5. PICK f : f = [Slots!Restarted(e, item) EXCEPT !.reserved = TRUE, !.bound = None]
  OBVIOUS
<1>6. UnitFits(f, nextVersion + 1) /\ ~Slots!LiveClaim(f)
  <2>1. PICK g : g = Slots!Restarted(e, item)
    OBVIOUS
  <2>2. UnitFits(g, nextVersion + 1) /\ ~Slots!LiveClaim(g) /\ g.item = item
    BY <2>1, <1>3, UnitRestarted
  <2>3. g \in UnitShape
    BY <2>2 DEF UnitFits
  <2>4. /\ f \in UnitShape /\ f.item = g.item /\ f.version = g.version
        /\ f.claim = g.claim /\ f.claimVersion = g.claimVersion
    BY <2>1, <2>3, <1>5 DEF UnitShape, Slots!MaybePlay
  <2> QED
    BY <2>2, <2>4 DEF UnitFits, Slots!LiveClaim, Slots!Claimed, Slots!Exists
<1>7. switches' = switches
  BY DEF Slots!TryReserve
<1>8. CASE Slots!Keep(k, e) /\ UNCHANGED tokens
  <2>1. /\ streams' \in [Slots!Key -> UnitShape] /\ streams'[k] = e /\ OnlyUnit(k)
        /\ nextVersion' = nextVersion
        /\ \A l \in Slots!Key : UnitFits(streams'[l], nextVersion')
    BY <1>3, <1>8, KeepFrame
  <2> QED
    BY <2>1, <1>3, <1>4, <1>7, <1>8, TokensFrame DEF SlotShape, OnlyUnit
<1>9. CASE /\ Slots!Advance(k, f)
           /\ tokens' = tokens \cup {[key |-> k, version |-> nextVersion + 1]}
  <2>1. /\ streams' \in [Slots!Key -> UnitShape] /\ streams'[k] = f /\ OnlyUnit(k)
        /\ nextVersion' = nextVersion + 1
        /\ \A l \in Slots!Key : UnitFits(streams'[l], nextVersion')
    BY <1>6, <1>9, AdvanceFrame
  <2>2. PICK t : t = [key |-> k, version |-> nextVersion + 1]
    OBVIOUS
  <2>3. t \in Held \ tokens /\ t.version = nextVersion + 1
    BY <1>3, <2>2 DEF SlotShape, Held
  <2>4. /\ nextVersion' \in Nat /\ tokens' \subseteq Held
        /\ \A q \in tokens' : q.version <= nextVersion'
    BY <1>3, <1>9, <2>1, <2>2, <2>3 DEF SlotShape, Held
  <2>5. \A l \in Slots!Key : LiveKept(streams[l], streams'[l])
    BY <1>4, <1>6, <2>1 DEF OnlyUnit, LiveKept
  <2>6. \E q \in Held \ tokens : tokens' = tokens \cup {q}
    BY <1>9, <2>2, <2>3
  <2> QED
    BY <2>1, <2>4, <2>5, <2>6, <1>7 DEF SlotShape
<1> QED
  BY <1>1, <1>2, <1>5, <1>8, <1>9 DEF Slots!TryReserve

\* Binding a reservation, leaving a switched source, a full server, time and the
\* janitor make no claim live.
LEMMA TokenFrame ==
    ASSUME SlotShape, NEW t \in tokens,
           \/ \E p \in Attempts \cup {UpstreamPlay} : Slots!BindReservationPlaySession(t, p)
           \/ Slots!ReleaseReservation(t)
    PROVE  /\ SlotShape' /\ switches' = switches
           /\ \A k \in Slots!Key : LiveKept(streams[k], streams'[k])
           /\ tokens' = tokens \/ tokens' = tokens \ {t}
<1>1. t.key \in Slots!Key /\ nextVersion \in Nat
  BY DEF SlotShape, Held
<1>2. PICK k \in Slots!Key : k = t.key
  BY <1>1
<1>3. \A l \in Slots!Key : LiveKept(streams[l], streams[l]) /\ UnitFits(streams[l], nextVersion)
  BY DEF LiveKept, SlotShape
<1>4. ASSUME NEW f, UnitFits(f, nextVersion), LiveKept(streams[k], f), Slots!Put(k, f),
             nextVersion' = nextVersion, tokens' \subseteq tokens
      PROVE  SlotShape' /\ \A l \in Slots!Key : LiveKept(streams[l], streams'[l])
  <2>1. Slots!Keep(k, f)
    BY <1>4 DEF Slots!Keep
  <2>2. /\ streams' \in [Slots!Key -> UnitShape] /\ streams'[k] = f /\ OnlyUnit(k)
        /\ \A l \in Slots!Key : UnitFits(streams'[l], nextVersion')
    BY <1>4, <2>1, KeepFrame
  <2> QED
    BY <2>2, <1>3, <1>4, TokensFrame DEF SlotShape, OnlyUnit
<1>5. ASSUME NEW p \in Attempts \cup {UpstreamPlay}, Slots!BindReservationPlaySession(t, p)
      PROVE  SlotShape' /\ \A l \in Slots!Key : LiveKept(streams[l], streams'[l])
  <2>1. PICK f : f = [streams[k] EXCEPT !.bound = p]
    OBVIOUS
  <2>2. streams[k] \in UnitShape
    BY <1>3 DEF UnitFits
  <2>3. /\ f \in UnitShape /\ f.item = streams[k].item /\ f.version = streams[k].version
        /\ f.claim = streams[k].claim /\ f.claimVersion = streams[k].claimVersion
    BY <2>1, <2>2 DEF UnitShape, Slots!MaybePlay
  <2>4. UnitFits(f, nextVersion) /\ LiveKept(streams[k], f)
    BY <1>3, <2>3 DEF UnitFits, LiveKept, Slots!LiveClaim, Slots!Claimed, Slots!Exists
  <2> QED
    BY <1>2, <1>4, <1>5, <2>1, <2>4 DEF Slots!BindReservationPlaySession
<1>6. ASSUME Slots!ReleaseReservation(t)
      PROVE  SlotShape' /\ \A l \in Slots!Key : LiveKept(streams[l], streams'[l])
  <2>1. /\ streams' = streams \/ Slots!Put(k, Slots!NoUnit)
        /\ nextVersion' = nextVersion /\ tokens' \subseteq tokens
    BY <1>2, <1>6 DEF Slots!ReleaseReservation
  <2>2. LiveKept(streams[k], Slots!NoUnit) /\ UnitFits(Slots!NoUnit, nextVersion)
    BY <1>1, NoUnitFits DEF LiveKept
  <2>3. CASE streams' = streams
    BY <2>1, <2>3, <1>3, TokensFrame DEF SlotShape
  <2> QED
    BY <2>1, <2>2, <2>3, <1>4
<1> QED
  BY <1>5, <1>6 DEF Slots!BindReservationPlaySession, Slots!ReleaseReservation

LEMMA LeaveFrame ==
    ASSUME SlotShape,
           \/ \E w \in switches : w.key \in Slots!Key /\ Slots!ReleaseSwitchedSource(w)
           \/ \E u \in Users, s \in Servers, max \in Limits : Slots!RefuseStream(u, s, max)
           \/ Slots!Tick
           \/ Slots!Cleanup
    PROVE  /\ SlotShape' /\ tokens' = tokens
           /\ \A k \in Slots!Key : LiveKept(streams[k], streams'[k])
<1>1. /\ \A k \in Slots!Key : LiveKept(streams[k], streams[k]) /\ UnitFits(streams[k], nextVersion)
      /\ \A k \in Slots!Key : LiveKept(streams[k], Slots!NoUnit)
      /\ nextVersion \in Nat /\ UnitFits(Slots!NoUnit, nextVersion)
  BY NoUnitFits DEF LiveKept, SlotShape
<1>3. ASSUME NEW w \in switches, w.key \in Slots!Key, Slots!ReleaseSwitchedSource(w)
      PROVE  /\ SlotShape' /\ tokens' = tokens
             /\ \A k \in Slots!Key : LiveKept(streams[k], streams'[k])
  <2>1. /\ streams' \in [Slots!Key -> UnitShape]
        /\ \A k \in Slots!Key : streams'[k] \in {streams[k], Slots!NoUnit}
        /\ nextVersion' = nextVersion /\ tokens' = tokens
    <3>1. Slots!NoUnit \in UnitShape
      BY <1>1 DEF UnitFits
    <3> HIDE DEF UnitShape
    <3> QED
      BY <3>1, <1>3 DEF Slots!ReleaseSwitchedSource, SlotShape
  <2> QED
    BY <2>1, <1>1, TokensFrame DEF SlotShape
<1>4. ASSUME NEW u \in Users, NEW s \in Servers, NEW max \in Limits,
             Slots!RefuseStream(u, s, max)
      PROVE  /\ SlotShape' /\ tokens' = tokens
             /\ \A k \in Slots!Key : LiveKept(streams[k], streams'[k])
  <2>1. PICK k \in Slots!Key : k = <<u, s>>
    BY DEF Slots!Key
  <2>2. Slots!Keep(k, Slots!NoUnit) /\ tokens' = tokens
    BY <2>1, <1>4 DEF Slots!RefuseStream
  <2>3. /\ streams' \in [Slots!Key -> UnitShape] /\ streams'[k] = Slots!NoUnit /\ OnlyUnit(k)
        /\ nextVersion' = nextVersion
        /\ \A l \in Slots!Key : UnitFits(streams'[l], nextVersion')
    BY <1>1, <2>2, KeepFrame
  <2> QED
    BY <2>2, <2>3, <1>1, TokensFrame DEF SlotShape, OnlyUnit
<1>5. CASE Slots!Tick
  <2>1. /\ streams' = [k \in Slots!Key |-> Slots!Aged(streams[k])]
        /\ nextVersion' = nextVersion /\ tokens' = tokens
    BY <1>5 DEF Slots!Tick
  <2>2. Slots!Anonymous \in Slots!Identity
    BY DEF Slots!Anonymous, Slots!Identity, Slots!MaybePlay
  <2>3. \A k \in Slots!Key :
            LiveKept(streams[k], Slots!Aged(streams[k])) /\ UnitFits(Slots!Aged(streams[k]), nextVersion)
    BY <1>1, <2>2, UnitWrites
  <2> QED
    BY <2>1, <2>3, <1>1, TokensFrame DEF SlotShape, UnitFits
<1>6. CASE Slots!Cleanup
  <2>1. /\ streams' = [k \in Slots!Key |-> Slots!Found(k)]
        /\ nextVersion' = nextVersion /\ tokens' = tokens
    BY <1>6 DEF Slots!Cleanup
  <2> QED
    BY <2>1, <1>1, FoundFits, TokensFrame DEF SlotShape, UnitFits
<1> QED
  BY <1>3, <1>4, <1>5, <1>6

\* What is known of a unit that a request of attempt a for an item meets: a live claim
\* is one of our attempts', and the attempt's own claim is on its item.
Meets(e, a, item) ==
    Slots!LiveClaim(e) =>
        /\ e.claim.play \in Attempts /\ e.claim.session \in {e.claim.play, None}
        /\ e.claim.play = a => e.item = item

LEMMA MatchesAttempt ==
    ASSUME NEW a \in Attempts, NEW id, id.play = a, NEW c, c.play \in Attempts,
           Slots!Matches(c, id)
    PROVE  c.play = a
BY NoneAssumption DEF Slots!Matches, Slots!Shared

\* A stop is matched by its own attempt's claim.
LEMMA OwnClaimMatches ==
    ASSUME NEW a \in Attempts, NEW c, c.play = a, c.session \in {a, None}
    PROVE  Slots!Matches(c, SlotIdentity(a))
BY NoneAssumption DEF Slots!Matches, Slots!Shared, SlotIdentity

LEMMA SameItemIs ==
    ASSUME NEW e, e.item # None, NEW item \in Items
    PROVE  Slots!SameItem(e, item) <=> e.item = item
BY NoneAssumption DEF Slots!SameItem

\* Writing the one unit of k, from what the request found there.
LEMMA WriteUnit ==
    ASSUME SlotShape, tokens' = tokens, NEW k \in Slots!Key, NEW f,
           \/ UnitFits(f, nextVersion) /\ Slots!Keep(k, f)
           \/ UnitFits(f, nextVersion + 1) /\ Slots!Advance(k, f)
    PROVE  SlotShape' /\ streams'[k] = f /\ OnlyUnit(k)
<1>1. CASE UnitFits(f, nextVersion) /\ Slots!Keep(k, f)
  BY <1>1, KeepFrame, TokensFrame DEF SlotShape
<1>2. CASE UnitFits(f, nextVersion + 1) /\ Slots!Advance(k, f)
  BY <1>2, AdvanceFrame, TokensFrame DEF SlotShape
<1> QED
  BY <1>1, <1>2

\* A stream request of an attempt takes the unit for it or makes no claim live.
LEMMA StreamUnit ==
    ASSUME SlotShape, tokens' = tokens, NEW k \in Slots!Key, NEW item \in Items, NEW a \in Attempts,
           NEW s, NEW max, NEW e, e = Slots!Found(k), NEW id, id = Slots!PlayIdentity(a),
           Meets(streams[k], a, item),
           \/ Slots!StreamHeldLive(k, e, item, id)
           \/ Slots!StreamHeldFrozen(k, e, item, id)
           \/ Slots!StreamHeldUnclaimed(k, e, item, id)
           \/ Slots!StreamNew(k, s, item, id, max)
    PROVE  /\ SlotShape' /\ OnlyUnit(k)
           /\ LiveKept(streams[k], streams'[k]) \/ Taken(streams'[k], a, item)
<1>1. /\ UnitFits(e, nextVersion) /\ nextVersion \in Nat /\ LiveKept(streams[k], e)
      /\ Meets(e, a, item) /\ e \in UnitShape
  BY FoundFits DEF SlotShape, Meets, LiveKept, UnitFits
<1>2. /\ id \in Slots!Identity /\ id.play = a /\ id.session \in {a, None}
      /\ id # Slots!Anonymous /\ id.session = None
  BY NoneAssumption DEF Slots!PlayIdentity, Slots!Identity, Slots!MaybePlay, Slots!Anonymous
<1>3. ASSUME NEW f, LiveKept(e, f) PROVE LiveKept(streams[k], f)
  BY <1>1, <1>3 DEF LiveKept
<1>4. PICK t : t = Slots!Touched(e)
  OBVIOUS
<1>5. /\ UnitFits(t, nextVersion) /\ LiveKept(e, t) /\ t.item = e.item /\ LiveKept(e, e)
      /\ UnitFits([t EXCEPT !.reserved = FALSE], nextVersion)
      /\ LiveKept(e, [t EXCEPT !.reserved = FALSE])
  BY <1>1, <1>2, <1>4, UnitWrites
<1>6. ASSUME NEW f, LiveKept(e, f),
             \/ UnitFits(f, nextVersion) /\ Slots!Keep(k, f)
             \/ UnitFits(f, nextVersion + 1) /\ Slots!Advance(k, f)
      PROVE  SlotShape' /\ OnlyUnit(k) /\ LiveKept(streams[k], streams'[k])
  BY <1>3, <1>6, WriteUnit
<1>7. ASSUME NEW f, Taken(f, a, item),
             \/ UnitFits(f, nextVersion) /\ Slots!Keep(k, f)
             \/ UnitFits(f, nextVersion + 1) /\ Slots!Advance(k, f)
      PROVE  SlotShape' /\ OnlyUnit(k) /\ Taken(streams'[k], a, item)
  BY <1>7, WriteUnit
<1>8. ASSUME e.item = item
      PROVE  UnitFits(Slots!ClaimedBy(t, id), nextVersion) /\ Taken(Slots!ClaimedBy(t, id), a, item)
  BY <1>1, <1>2, <1>5, <1>8, UnitClaimed
<1>9. ASSUME NEW g, UnitFits(g, nextVersion), NEW c \in Slots!Identity, c.play = a,
             c.session \in {a, None}
      PROVE  LET f == Slots!ClaimedBy(Slots!Restarted(g, item), c)
             IN  UnitFits(f, nextVersion + 1) /\ Taken(f, a, item)
  <2>1. /\ UnitFits(Slots!Restarted(g, item), nextVersion + 1)
        /\ Slots!Restarted(g, item).item = item /\ nextVersion + 1 \in Nat
    BY <1>1, <1>9, UnitRestarted
  <2> QED
    BY <1>9, <2>1, UnitClaimed
<1>10. Slots!Exists(e) \/ Slots!Claimed(e) => (Slots!SameItem(e, item) <=> e.item = item)
  BY <1>1, SameItemIs DEF UnitFits
<1>11. CASE Slots!StreamHeldLive(k, e, item, id)
  <2>1. e.claim \in Slots!Identity
    BY <1>1 DEF UnitShape
  <2>2. CASE Slots!Matches(e.claim, id) /\ ~Slots!SameItem(e, item)
    <3>1. Slots!LiveClaim(e) /\ Slots!Advance(k, Slots!ClaimedBy(Slots!Restarted(e, item), e.claim))
      BY <1>11, <2>2 DEF Slots!StreamHeldLive
    <3>2. e.claim.play = a /\ e.claim.session \in {a, None}
      BY <1>1, <1>2, <2>2, <3>1, MatchesAttempt DEF Meets
    <3> QED
      BY <1>1, <1>7, <1>9, <2>1, <3>1, <3>2
  <2>3. CASE ~(Slots!Matches(e.claim, id) /\ ~Slots!SameItem(e, item))
    <3>1. \E f \in {e, t, [t EXCEPT !.reserved = FALSE]} : Slots!Keep(k, f)
      BY <1>4, <1>11, <2>3 DEF Slots!StreamHeldLive
    <3> QED
      BY <1>1, <1>5, <1>6, <3>1
  <2> QED
    BY <2>2, <2>3
<1>12. CASE Slots!StreamHeldFrozen(k, e, item, id)
  <2>1. \/ Slots!Keep(k, e)
        \/ Slots!SameItem(e, item) /\ Slots!Keep(k, Slots!ClaimedBy(t, id))
    BY <1>4, <1>12 DEF Slots!StreamHeldFrozen
  <2>2. CASE Slots!Keep(k, e)
    BY <1>1, <1>5, <1>6, <2>2
  <2>3. CASE Slots!SameItem(e, item) /\ Slots!Keep(k, Slots!ClaimedBy(t, id))
    <3>1. e.item = item
      BY <1>10, <2>3, <1>12 DEF Slots!StreamHeldFrozen
    <3> QED
      BY <1>7, <1>8, <2>3, <3>1
  <2> QED
    BY <2>1, <2>2, <2>3
<1>13. CASE Slots!StreamHeldUnclaimed(k, e, item, id)
  <2>1. /\ Slots!Exists(e)
        /\ \/ Slots!Keep(k, e)
           \/ Slots!SameItem(e, item) /\ Slots!Keep(k, Slots!ClaimedBy(t, id))
           \/ Slots!Advance(k, Slots!ClaimedBy(Slots!Restarted(e, item), id))
    BY <1>4, <1>13 DEF Slots!StreamHeldUnclaimed
  <2>2. CASE Slots!Keep(k, e)
    BY <1>1, <1>5, <1>6, <2>2
  <2>3. CASE Slots!SameItem(e, item) /\ Slots!Keep(k, Slots!ClaimedBy(t, id))
    BY <1>7, <1>8, <1>10, <2>1, <2>3
  <2>4. CASE Slots!Advance(k, Slots!ClaimedBy(Slots!Restarted(e, item), id))
    BY <1>1, <1>2, <1>7, <1>9, <2>4
  <2> QED
    BY <2>1, <2>2, <2>3, <2>4
<1>14. CASE Slots!StreamNew(k, s, item, id, max)
  <2>1. Slots!Advance(k, Slots!ClaimedBy(Slots!Restarted(Slots!NoUnit, item), id))
    BY <1>14 DEF Slots!StreamNew
  <2>2. UnitFits(Slots!NoUnit, nextVersion)
    BY <1>1, NoUnitFits
  <2> QED
    BY <1>2, <1>7, <1>9, <2>1, <2>2
<1> QED
  BY <1>11, <1>12, <1>13, <1>14

LEMMA StreamFrame ==
    ASSUME SlotShape, NEW u \in Users, NEW s \in Servers, NEW from \in Servers,
           NEW item \in Items, NEW a \in Attempts, NEW max \in Limits,
           NEW k, k = <<u, s>>, Meets(streams[k], a, item),
           Slots!EnsureStreamSlot(u, s, from, item, a, max)
    PROVE  /\ SlotShape' /\ tokens' = tokens
           /\ OnlyUnit(k)
           /\ LiveKept(streams[k], streams'[k]) \/ Taken(streams'[k], a, item)
           /\ \/ from = s /\ switches' = switches
              \/ from # s /\ \E w \in SwitchShape : switches' = switches \cup {w} /\ w \notin switches
<1>1. PICK e : e = Slots!Found(k)
  OBVIOUS
<1>2. PICK id : id = Slots!PlayIdentity(a)
  OBVIOUS
<1>3. k \in Slots!Key /\ <<u, from>> \in Slots!Key
  BY DEF Slots!Key
<1>4. /\ tokens' = tokens
      /\ \/ Slots!StreamHeldLive(k, e, item, id)
         \/ Slots!StreamHeldFrozen(k, e, item, id)
         \/ Slots!StreamHeldUnclaimed(k, e, item, id)
         \/ Slots!StreamNew(k, s, item, id, max)
  BY <1>1, <1>2 DEF Slots!EnsureStreamSlot
<1>5. /\ SlotShape' /\ OnlyUnit(k)
      /\ LiveKept(streams[k], streams'[k]) \/ Taken(streams'[k], a, item)
  BY <1>1, <1>2, <1>3, <1>4, StreamUnit
<1>6. CASE from # s
  <2>1. PICK n \in Slots!FreeSwitches :
            switches' = switches \cup {[n |-> n, key |-> <<u, from>>, item |-> item,
                                        id |-> id, ref |-> e.version]}
    BY <1>1, <1>2, <1>6 DEF Slots!EnsureStreamSlot
  <2>2. PICK w : w = [n |-> n, key |-> <<u, from>>, item |-> item, id |-> id, ref |-> e.version]
    OBVIOUS
  <2>3. n \in 1..Cardinality(Requests) /\ \A v \in switches : v.n # n
    BY <2>1 DEF Slots!FreeSwitches
  <2>4. id \in Slots!Identity /\ e.version \in Nat
    <3>1. id \in Slots!Identity
      BY <1>2 DEF Slots!PlayIdentity, Slots!Identity, Slots!MaybePlay
    <3>2. e \in UnitShape
      BY <1>1, <1>3, FoundFits DEF UnitFits
    <3> QED
      BY <3>1, <3>2 DEF UnitShape
  <2>5. w \in SwitchShape /\ w.n = n
    BY <1>3, <2>2, <2>3, <2>4 DEF SwitchShape
  <2> QED
    BY <1>4, <1>5, <1>6, <2>1, <2>2, <2>3, <2>5
<1>7. CASE from = s
  BY <1>4, <1>5, <1>7 DEF Slots!EnsureStreamSlot
<1> QED
  BY <1>6, <1>7

\* An event of the attempt claims the unit for it or makes no claim live; a stop of
\* it leaves it none.
LEMMA EventFrame ==
    ASSUME SlotShape, NEW op \in {"started", "progress", "stopped"}, NEW k \in Slots!Key,
           NEW item \in Items, NEW a \in Attempts, Meets(streams[k], a, item), Slots!SessionEvent(op, k, item, SlotIdentity(a))
    PROVE  /\ SlotShape' /\ tokens' = tokens /\ switches' = switches /\ OnlyUnit(k)
           /\ LiveKept(streams[k], streams'[k]) \/ Taken(streams'[k], a, item)
           /\ op = "stopped" => /\ LiveKept(streams[k], streams'[k])
                                /\ ~(Slots!LiveClaim(streams'[k]) /\ streams'[k].claim.play = a)
<1>1. PICK e : e = Slots!Found(k)
  OBVIOUS
<1>2. PICK id : id = SlotIdentity(a)
  OBVIOUS
<1>3. /\ UnitFits(e, nextVersion) /\ nextVersion \in Nat /\ LiveKept(streams[k], e)
      /\ Meets(e, a, item) /\ e \in UnitShape
  BY <1>1, FoundFits DEF SlotShape, Meets, LiveKept, UnitFits
<1>4. /\ id \in Slots!Identity /\ id.play = a /\ id.session \in {a, None} /\ id # Slots!Anonymous
  BY <1>2, NoneAssumption
     DEF SlotIdentity, Slots!Identity, Slots!MaybePlay, Slots!Anonymous
<1>5. tokens' = tokens /\ switches' = switches
  BY DEF Slots!SessionEvent
<1>6. PICK t : t = Slots!Touched(e)
  OBVIOUS
<1>7. /\ UnitFits(t, nextVersion) /\ LiveKept(e, t) /\ t.item = e.item /\ LiveKept(e, e)
      /\ UnitFits([t EXCEPT !.reserved = FALSE], nextVersion)
      /\ LiveKept(e, [t EXCEPT !.reserved = FALSE])
  BY <1>3, <1>4, <1>6, UnitWrites
<1>8. Slots!Exists(e) \/ Slots!Claimed(e) => (Slots!SameItem(e, item) <=> e.item = item)
  BY <1>3, SameItemIs DEF UnitFits
<1>9. ASSUME NEW f, LiveKept(e, f) PROVE LiveKept(streams[k], f)
  BY <1>3, <1>9 DEF LiveKept
<1>10. ASSUME NEW f, UnitFits(f, nextVersion), Slots!Keep(k, f)
       PROVE  SlotShape' /\ OnlyUnit(k) /\ streams'[k] = f
  BY <1>5, <1>10, WriteUnit
<1>11. CASE Slots!EventUntracked(op, k, item, id)
  <2>1. Slots!Keep(k, Slots!NoUnit)
    BY <1>11 DEF Slots!EventUntracked
  <2>2. UnitFits(Slots!NoUnit, nextVersion) /\ ~Slots!LiveClaim(Slots!NoUnit)
    BY <1>3, NoUnitFits
  <2> QED
    BY <1>5, <1>10, <2>1, <2>2 DEF LiveKept
<1>12. CASE Slots!EventOtherItem(op, k, e, item, id)
  <2>1. Slots!Exists(e) /\ ~Slots!SameItem(e, item) /\ e.item # item
    BY <1>8, <1>12 DEF Slots!EventOtherItem
  <2>2. ~(Slots!LiveClaim(e) /\ e.claim.play = a)
    BY <1>3, <2>1 DEF Meets
  <2>3. Slots!Keep(k, e)
    BY <1>3, <1>4, <1>12, <2>2, MatchesAttempt DEF Slots!EventOtherItem, Meets
  <2> QED
    BY <1>3, <1>5, <1>9, <1>10, <2>2, <2>3, <1>7
<1>13. CASE Slots!EventOnUnit(op, k, e, item, id)
  <2>1. Slots!Exists(e) /\ e.item = item
    BY <1>8, <1>13 DEF Slots!EventOnUnit
  <2>2. UnitFits(Slots!ClaimedBy(t, id), nextVersion) /\ Taken(Slots!ClaimedBy(t, id), a, item)
    BY <1>3, <1>4, <1>7, <2>1, UnitClaimed
  <2>3. UnitFits(Slots!NoUnit, nextVersion) /\ ~Slots!LiveClaim(Slots!NoUnit)
    BY <1>3, NoUnitFits
  <2>4. CASE op = "stopped"
    <3>1. CASE Slots!LaterAccepted(e, id)
      <4>1. Slots!Keep(k, Slots!NoUnit)
        BY <1>13, <2>4, <3>1 DEF Slots!EventOnUnit
      <4> QED
        BY <1>5, <1>10, <2>3, <4>1 DEF LiveKept
    <3>2. CASE ~Slots!LaterAccepted(e, id)
      <4>1. Slots!Keep(k, e)
        BY <1>13, <2>4, <3>2 DEF Slots!EventOnUnit
      <4>2. ~(Slots!LiveClaim(e) /\ e.claim.play = a)
        BY <1>2, <1>3, <3>2, OwnClaimMatches DEF Slots!LaterAccepted, Meets
      <4> QED
        BY <1>3, <1>5, <1>9, <1>10, <4>1, <4>2, <1>7
    <3> QED
      BY <3>1, <3>2
  <2>5. CASE op # "stopped"
    <3>1. \/ Slots!Keep(k, e)
          \/ Slots!Keep(k, Slots!ClaimedBy(t, id))
          \/ Slots!Keep(k, [t EXCEPT !.reserved = FALSE])
      BY <1>6, <1>13, <2>5 DEF Slots!EventOnUnit, Slots!StartedUnit, Slots!ProgressedUnit
    <3> QED
      BY <1>3, <1>5, <1>7, <1>9, <1>10, <2>2, <2>5, <3>1
  <2> QED
    BY <2>4, <2>5
<1> QED
  BY <1>1, <1>2, <1>11, <1>12, <1>13 DEF Slots!SessionEvent

-------------------------------------------------------------------------------
(* The parts of the invariant, step by step.                               *)

\* What every step does to the bindings.
StoreMoves ==
    \A b \in Attempts :
        /\ Kin(entries[b], entries'[b])
        /\ entries[b].state # "unused" => entries'[b].state # "unused"
        /\ entries[b].state \in Left => entries'[b].state \in Left
Calm == \A k \in Slots!Key : LiveKept(streams[k], streams'[k])

LEMMA MildMoves ==
    ASSUME \A b \in Attempts : Mild(entries[b], entries'[b])
    PROVE  StoreMoves /\ \A b \in Attempts : Stopped(b)' => Stopped(b)
BY DEF Mild, StoreMoves, Left, Stopped

LEMMA SameMoves ==
    ASSUME entries' = entries
    PROVE  StoreMoves /\ \A b \in Attempts : Stopped(b)' => Stopped(b)
BY DEF StoreMoves, Kin, Stopped

\* Calls that make no claim live.
LEMMA ClaimsCalm ==
    ASSUME ClaimsOwned, Calm, StoreMoves
    PROVE  ClaimsOwned' /\ \A a \in Attempts : Claims(a)' => Claims(a)
<1>1. ASSUME NEW k \in Slots!Key, Slots!LiveClaim(streams'[k])
      PROVE  \E a \in Attempts : ClaimOf(streams'[k], k, a, entries'[a])
  <2>1. /\ Slots!LiveClaim(streams[k]) /\ streams'[k].claim = streams[k].claim
        /\ streams'[k].item = streams[k].item
    BY <1>1 DEF Calm, LiveKept
  <2>2. PICK a \in Attempts : ClaimOf(streams[k], k, a, entries[a])
    BY <2>1 DEF ClaimsOwned
  <2> QED
    BY <2>1, <2>2 DEF ClaimOf, StoreMoves, Kin, KeyOf, UserOf, ServerOf, ItemOf
<1>2. ASSUME NEW a \in Attempts, Claims(a)' PROVE Claims(a)
  BY <1>2 DEF Claims, Calm, LiveKept
<1> QED
  BY <1>1, <1>2 DEF ClaimsOwned

\* Calls an attempt makes for itself.
LEMMA ClaimsTaken ==
    ASSUME ClaimsOwned, entries' = entries, NEW a \in Attempts, KeyOf(a) \in Slots!Key,
           OnlyUnit(KeyOf(a)),
           \/ LiveKept(streams[KeyOf(a)], streams'[KeyOf(a)])
           \/ Taken(streams'[KeyOf(a)], a, ItemOf(a))
    PROVE  ClaimsOwned' /\ \A b \in Attempts \ {a} : Claims(b)' => Claims(b)
<1> DEFINE k == KeyOf(a)
<1>1. \A l \in Slots!Key \ {k} : LiveKept(streams[l], streams'[l])
  BY DEF OnlyUnit, LiveKept
<1>2. CASE LiveKept(streams[k], streams'[k])
  BY <1>1, <1>2, SameMoves, ClaimsCalm DEF Calm
<1>3. CASE Taken(streams'[k], a, ItemOf(a))
  <2>1. ASSUME NEW l \in Slots!Key, Slots!LiveClaim(streams'[l])
        PROVE  \E b \in Attempts : ClaimOf(streams'[l], l, b, entries'[b])
    <3>1. CASE l = k
      BY <1>3, <3>1 DEF Taken, ClaimOf, KeyOf, UserOf, ServerOf, ItemOf
    <3>2. CASE l # k
      <4>1. /\ Slots!LiveClaim(streams[l]) /\ streams'[l].claim = streams[l].claim
            /\ streams'[l].item = streams[l].item
        BY <1>1, <2>1, <3>2 DEF LiveKept
      <4>2. PICK b \in Attempts : ClaimOf(streams[l], l, b, entries[b])
        BY <4>1 DEF ClaimsOwned
      <4> QED
        BY <4>1, <4>2 DEF ClaimOf, KeyOf, UserOf, ServerOf, ItemOf
    <3> QED
      BY <3>1, <3>2
  <2>2. ASSUME NEW b \in Attempts \ {a}, Claims(b)' PROVE Claims(b)
    <3>1. PICK l \in Slots!Key : Slots!LiveClaim(streams'[l]) /\ streams'[l].claim.play = b
      BY <2>2 DEF Claims
    <3>2. l # k
      BY <1>3, <3>1 DEF Taken
    <3> QED
      BY <1>1, <3>1, <3>2 DEF Claims, LiveKept
  <2> QED
    BY <2>1, <2>2 DEF ClaimsOwned
<1> QED
  BY <1>2, <1>3

\* What a request of an attempt meets on its key.
LEMMA MeetsOwned ==
    ASSUME StoreShape, ClaimsOwned, NEW a \in Attempts
    PROVE  /\ UserOf(a) \in Users /\ ServerOf(a) \in Servers /\ ItemOf(a) \in Items
           /\ KeyOf(a) \in Slots!Key
           /\ Meets(streams[KeyOf(a)], a, ItemOf(a))
<1>1. UserOf(a) \in Users /\ ServerOf(a) \in Servers /\ ItemOf(a) \in Items
  BY DEF StoreShape, Binding, UserOf, ServerOf, ItemOf
<1>2. KeyOf(a) \in Slots!Key
  BY <1>1 DEF KeyOf, Slots!Key
<1>3. ASSUME Slots!LiveClaim(streams[KeyOf(a)]) PROVE Meets(streams[KeyOf(a)], a, ItemOf(a))
  <2>1. PICK b \in Attempts : ClaimOf(streams[KeyOf(a)], KeyOf(a), b, entries[b])
    BY <1>2, <1>3 DEF ClaimsOwned
  <2> QED
    BY <2>1 DEF ClaimOf, Meets, ItemOf
<1> QED
  BY <1>1, <1>2, <1>3 DEF Meets

\* A stop of the attempt leaves it without a claim.
LEMMA StopReleases ==
    ASSUME HandlerInv, entries' = entries, NEW a \in Attempts,
           Slots!SessionEvent("stopped", KeyOf(a), ItemOf(a), SlotIdentity(a))
    PROVE  /\ SlotShape' /\ tokens' = tokens /\ switches' = switches
           /\ ClaimsOwned' /\ ~Claims(a)' /\ \A b \in Attempts : Claims(b)' => Claims(b)
<1> DEFINE k == KeyOf(a)
<1>1. k \in Slots!Key /\ ItemOf(a) \in Items /\ Meets(streams[k], a, ItemOf(a))
  BY MeetsOwned DEF HandlerInv
<1>2. /\ SlotShape' /\ tokens' = tokens /\ switches' = switches /\ OnlyUnit(k)
      /\ LiveKept(streams[k], streams'[k])
      /\ ~(Slots!LiveClaim(streams'[k]) /\ streams'[k].claim.play = a)
  BY <1>1, EventFrame DEF HandlerInv
<1>3. Calm
  BY <1>2 DEF Calm, OnlyUnit, LiveKept
<1>4. ClaimsOwned' /\ \A b \in Attempts : Claims(b)' => Claims(b)
  BY <1>3, ClaimsCalm, SameMoves DEF HandlerInv
<1>5. ASSUME Claims(a)' PROVE FALSE
  <2>1. PICK l \in Slots!Key : Slots!LiveClaim(streams'[l]) /\ streams'[l].claim.play = a
    BY <1>5 DEF Claims
  <2>2. Slots!LiveClaim(streams[l]) /\ streams[l].claim.play = a
    BY <1>3, <2>1 DEF Calm, LiveKept
  <2>3. l = k
    BY <2>2 DEF HandlerInv, ClaimsOwned, ClaimOf, KeyOf, UserOf, ServerOf
  <2> QED
    BY <1>2, <2>1, <2>3
<1> QED
  BY <1>2, <1>4, <1>5

\* Steps that leave the negotiations and the tokens alone.
LEMMA ReservationsSame ==
    ASSUME ReservationsHeld, StoreMoves, UNCHANGED negotiationVars, tokens' = tokens
    PROVE  ReservationsHeld'
BY DEF ReservationsHeld, StoreMoves, negotiationVars

\* One request goes on; q is its record afterwards.
LEMMA RequestGoesOn ==
    ASSUME RequestsShape, StopsBegun, StoreMoves, published' = published, NEW r \in Requests,
           NEW q, RequestFits(q), requests' = [requests EXCEPT ![r] = q],
           Begun(q) => entries'[q.attempt].state \in Left,
           published \subseteq Attempts
    PROVE  RequestsShape' /\ StopsBegun' /\ requests'[r] = q
<1> USE DEF RequestsShape
<1>1. /\ requests' \in [Requests -> ServedShape] /\ requests'[r] = q
      /\ \A p \in Requests \ {r} : requests'[p] = requests[p]
  <2>1. q \in ServedShape
    BY DEF RequestFits
  <2> HIDE DEF ServedShape
  <2> QED
    BY <2>1
<1>2. ASSUME NEW p \in Requests PROVE RequestFits(requests'[p])
  BY <1>1
<1>3. \A x : RequestFits(x)' <=> RequestFits(x)
  BY DEF RequestFits, ServedShape
<1>4. RequestsShape'
  BY <1>1, <1>2, <1>3 DEF RequestFits
<1>5. ASSUME NEW p \in Requests, Begun(requests'[p])
      PROVE  entries'[requests'[p].attempt].state \in Left
  <2>1. CASE p = r
    BY <1>1, <1>5, <2>1
  <2>2. CASE p # r
    <3>1. requests'[p] = requests[p] /\ Begun(requests[p])
      BY <1>1, <1>5, <2>2
    <3>2. requests[p].pc \in Steps
      BY <3>1 DEF Begun, Steps
    <3>3. requests[p].attempt \in Attempts
      BY <3>2 DEF RequestFits
    <3> QED
      BY <3>1, <3>3 DEF StopsBegun, StoreMoves
  <2> QED
    BY <2>1, <2>2
<1> QED
  BY <1>1, <1>4, <1>5 DEF StopsBegun

\* A switch stays with its request.
LEMMA SwitchesKept ==
    ASSUME SwitchesHeld, switches' = switches, NEW r \in Requests, NEW q,
           requests' = [requests EXCEPT ![r] = q], DOMAIN requests = Requests, q.pc # "switch"
    PROVE  SwitchesHeld'
BY DEF SwitchesHeld, At

\* A claim of a stopped attempt has its releaser: it had it before, or the request
\* that goes on is the one.
LEMMA ReleaserGoesOn ==
    ASSUME StoppedClaimsReleased, NEW r \in Requests, NEW q,
           requests' = [requests EXCEPT ![r] = q], DOMAIN requests = Requests,
           NEW a \in Attempts,
           \A b \in Attempts \ {a} :
              (Claims(b)' => Claims(b)) /\ (Stopped(b)' => Stopped(b)),
           Releases(requests[r]) => requests[r].attempt = a,
           Stopped(a)' /\ Claims(a)' =>
              \/ q.attempt = a /\ Releases(q)
              \/ Stopped(a) /\ Claims(a) /\ ~Releases(requests[r])
    PROVE  StoppedClaimsReleased'
<1> SUFFICES ASSUME NEW b \in Attempts, Stopped(b)', Claims(b)'
             PROVE  \E p \in Requests : requests'[p].attempt = b /\ Releases(requests'[p])
  BY DEF StoppedClaimsReleased
<1>1. requests'[r] = q /\ \A p \in Requests \ {r} : requests'[p] = requests[p]
  OBVIOUS
<1>2. CASE b = a /\ q.attempt = a /\ Releases(q)
  BY <1>1, <1>2
<1>3. CASE ~(b = a /\ q.attempt = a /\ Releases(q))
  <2>1. Stopped(b) /\ Claims(b) /\ (b = a => ~Releases(requests[r]))
    BY <1>3
  <2>2. PICK p \in Requests : requests[p].attempt = b /\ Releases(requests[p])
    BY <2>1 DEF StoppedClaimsReleased
  <2>3. p # r
    BY <2>1, <2>2
  <2> QED
    BY <1>1, <2>2, <2>3
<1> QED
  BY <1>2, <1>3

\* Steps in which no request goes on.
LEMMA ReleaserStays ==
    ASSUME StoppedClaimsReleased, requests' = requests,
           \A b \in Attempts : (Claims(b)' => Claims(b)) /\ (Stopped(b)' => Stopped(b))
    PROVE  StoppedClaimsReleased'
BY DEF StoppedClaimsReleased

LEMMA RequestsStay ==
    ASSUME RequestsShape, StopsBegun, SwitchesHeld, StoreMoves, published \subseteq published',
           published \subseteq Attempts, requests' = requests, switches' = switches
    PROVE  RequestsShape' /\ StopsBegun' /\ SwitchesHeld'
<1>1. ASSUME NEW p \in Requests PROVE RequestFits(requests[p])'
  BY DEF RequestsShape, RequestFits, ServedShape
<1>2. RequestsShape'
  BY <1>1 DEF RequestsShape, ServedShape
<1>3. ASSUME NEW p \in Requests, Begun(requests[p])
      PROVE  entries'[requests[p].attempt].state \in Left
  <2>1. requests[p].pc \in Steps
    BY <1>3 DEF Begun, Steps
  <2>2. requests[p].attempt \in Attempts
    BY <2>1 DEF RequestsShape, RequestFits
  <2> QED
    BY <1>3, <2>2 DEF StopsBegun, StoreMoves
<1> QED
  BY <1>2, <1>3 DEF StopsBegun, SwitchesHeld, At

\* Goto only moves the program counter of the request.
LEMMA GotoRecord ==
    ASSUME RequestsShape, NEW r \in Requests, NEW pc \in Programs
    PROVE  LET q == [requests[r] EXCEPT !.pc = pc]
           IN  /\ q \in ServedShape /\ q.pc = pc /\ q.op = requests[r].op
               /\ q.attempt = requests[r].attempt /\ q.acked = requests[r].acked
               /\ q.late = requests[r].late /\ q.switch = requests[r].switch
               /\ Goto(r, pc) <=> requests' = [requests EXCEPT ![r] = q]
<1>1. requests[r] \in ServedShape
  BY DEF RequestsShape
<1> QED
  BY <1>1 DEF ServedShape, Goto

\* A request that was admitted goes to another of its steps.
LEMMA GotoFits ==
    ASSUME HandlerInv, NEW r \in Requests, requests[r].pc \in Steps \ {"leave"},
           NEW pc \in Steps, Goto(r, pc),
           pc \in ActivationSteps => requests[r].op \notin CleanupOps,
           pc \in StopSteps => requests[r].op \in CleanupOps,
           pc \in {"send", "resolve", "slot"} => requests[r].op # "stream",
           pc = "resolve" => requests[r].op \notin CleanupOps
    PROVE  \E q : /\ requests' = [requests EXCEPT ![r] = q]
                  /\ RequestFits(q)
                  /\ q.pc = pc /\ q.op = requests[r].op /\ q.attempt = requests[r].attempt
                  /\ ~q.late /\ ~requests[r].late
<1>1. PICK q : q = [requests[r] EXCEPT !.pc = pc]
  OBVIOUS
<1>2. pc \in Programs /\ RequestsShape /\ RequestFits(requests[r])
  BY DEF Programs, HandlerInv, RequestsShape
<1>3. /\ q \in ServedShape /\ q.pc = pc /\ q.op = requests[r].op
      /\ q.attempt = requests[r].attempt /\ q.late = requests[r].late
      /\ requests' = [requests EXCEPT ![r] = q]
  BY <1>1, <1>2, GotoRecord
<1>4. ~requests[r].late
  BY <1>2 DEF RequestFits, Steps
<1> QED
  BY <1>2, <1>3, <1>4 DEF RequestFits

\* The request that goes on keeps the negotiations, and answers for its attempt.
LEMMA GoesOn ==
    ASSUME HandlerInv, NEW r \in Requests, NEW q, requests' = [requests EXCEPT ![r] = q],
           RequestFits(q), q.pc # "switch", UNCHANGED negotiationVars,
           switches' = switches, tokens' = tokens,
           StoreShape', SlotShape', StoreMoves, ClaimsOwned',
           Begun(q) => entries'[q.attempt].state \in Left,
           NEW a \in Attempts, requests[r].pc \in Steps, requests[r].attempt = a,
           \A b \in Attempts \ {a} :
              (Claims(b)' => Claims(b)) /\ (Stopped(b)' => Stopped(b)),
           Stopped(a)' /\ Claims(a)' =>
              \/ q.attempt = a /\ Releases(q)
              \/ Stopped(a) /\ Claims(a) /\ ~Releases(requests[r])
    PROVE  HandlerInv'
<1>1. /\ published' = published /\ published \subseteq Attempts /\ DOMAIN requests = Requests
  BY DEF negotiationVars, HandlerInv, ReservationsHeld, RequestsShape
<1>2. RequestsShape' /\ StopsBegun'
  BY <1>1, RequestGoesOn DEF HandlerInv
<1>3. SwitchesHeld'
  BY <1>1, SwitchesKept DEF HandlerInv
<1>4. StoppedClaimsReleased'
  BY <1>1, ReleaserGoesOn DEF HandlerInv
<1>5. ReservationsHeld'
  BY ReservationsSame DEF HandlerInv
<1> QED
  BY <1>2, <1>3, <1>4, <1>5 DEF HandlerInv

\* Steps of a request that call neither component.
LEMMA LocalStep ==
    ASSUME HandlerInv, NEW r \in Requests, NEW q, requests' = [requests EXCEPT ![r] = q],
           UNCHANGED <<slotVars, storeVars, negotiationVars>>,
           requests[r].pc \in Steps, q.attempt = requests[r].attempt, RequestFits(q),
           q.pc # "switch", Begun(q) => Begun(requests[r]),
           Releases(requests[r]) => Releases(q)
    PROVE  HandlerInv'
<1>1. PICK a \in Attempts : requests[r].attempt = a
  BY DEF HandlerInv, RequestsShape, RequestFits, ReservationsHeld
<1>2. /\ streams' = streams /\ switches' = switches /\ tokens' = tokens
      /\ entries' = entries /\ nextVersion' = nextVersion
      /\ activationSequence' = activationSequence
  BY DEF slotVars, storeVars
<1>3. StoreShape' /\ SlotShape'
  BY <1>2 DEF HandlerInv, StoreShape, SlotShape
<1>4. StoreMoves /\ Calm
  BY <1>2, SameMoves DEF Calm, LiveKept
<1>5. /\ ClaimsOwned' /\ \A b \in Attempts : Claims(b)' => Claims(b)
      /\ \A b \in Attempts : Stopped(b)' => Stopped(b)
  BY <1>2, <1>4, ClaimsCalm, SameMoves DEF HandlerInv
<1>6. Begun(q) => entries'[q.attempt].state \in Left
  BY <1>2 DEF HandlerInv, StopsBegun
<1> QED
  BY <1>1, <1>2, <1>3, <1>4, <1>5, <1>6, GoesOn

LEMMA OpKinds ==
    ASSUME HandlerInv, NEW r \in Requests, requests[r].pc \in Steps
    PROVE  /\ requests[r].op \in CleanupOps \/ requests[r].op \in Reports \/ requests[r].op = "stream"
           /\ requests[r].attempt \in published /\ requests[r].attempt \in Attempts
           /\ RequestFits(requests[r])
BY OpsAssumption DEF HandlerInv, RequestsShape, RequestFits, ReservationsHeld

\* Refuse, Check, Delivered, NotDelivered and Resolve only decide.
LEMMA InvDecide ==
    ASSUME HandlerInv, NEW r \in Requests,
           Refuse(r) \/ Check(r) \/ NotDelivered(r) \/ Resolve(r)
    PROVE  HandlerInv'
<1>1. /\ UNCHANGED <<slotVars, storeVars, negotiationVars>>
      /\ requests[r].pc \in {"claim", "check", "send", "resolve"}
  BY DEF Refuse, Check, NotDelivered, Resolve, At
<1>2. requests[r].pc \in Steps \ {"leave"}
  BY <1>1 DEF Steps
<1>3. RequestFits(requests[r])
  BY <1>2, OpKinds
<1>4. ASSUME NEW pc \in Steps, Goto(r, pc), pc # "switch",
             pc \in ActivationSteps => requests[r].op \notin CleanupOps,
             pc \in StopSteps => requests[r].op \in CleanupOps,
             pc \in {"send", "resolve", "slot"} => requests[r].op # "stream",
             pc = "resolve" => requests[r].op \notin CleanupOps,
             pc \in {"send", "confirm", "slot", "retire", "end"} /\ requests[r].op \in CleanupOps
                => At(r, "send"),
             At(r, "send") /\ requests[r].op \in CleanupOps => pc = "slot"
      PROVE  HandlerInv'
  <2>1. PICK q : /\ requests' = [requests EXCEPT ![r] = q]
                 /\ RequestFits(q)
                 /\ q.pc = pc /\ q.op = requests[r].op /\ q.attempt = requests[r].attempt
                 /\ ~q.late /\ ~requests[r].late
    BY <1>2, <1>4, GotoFits
  <2>2. Begun(q) => Begun(requests[r])
    BY <1>4, <2>1 DEF Begun, At
  <2>3. Releases(requests[r]) => Releases(q)
    BY <1>1, <1>4, <2>1 DEF Releases, At
  <2> QED
    BY <1>1, <1>2, <1>4, <2>1, <2>2, <2>3, LocalStep
<1>5. CASE Refuse(r)
  BY <1>4, <1>5 DEF Refuse, Steps, ActivationSteps, StopSteps, At
<1>6. CASE Check(r)
  <2>1. PICK pc \in {"superseded", "leave", "begin", "send"} :
            /\ Goto(r, pc)
            /\ pc \in {"superseded", "begin"} => requests[r].op \in CleanupOps
            /\ pc = "send" => requests[r].op \notin CleanupOps
    BY <1>6 DEF Check, IsCleanup
  <2>2. requests[r].op # "stream" /\ requests[r].pc = "check"
    BY <1>6 DEF Check, At
  <2> QED
    BY <1>4, <2>1, <2>2 DEF Steps, ActivationSteps, StopSteps, At
<1>7. CASE NotDelivered(r)
  <2>1. PICK pc \in {"slot", "resolve", "leave"} :
            /\ Goto(r, pc)
            /\ pc = "slot" <=> requests[r].op \in CleanupOps
    BY <1>7 DEF NotDelivered, IsCleanup
  <2>2. requests[r].pc = "send" /\ requests[r].op # "stream"
    BY <1>3, <1>7 DEF NotDelivered, At, RequestFits
  <2> QED
    BY <1>4, <2>1, <2>2 DEF Steps, ActivationSteps, StopSteps, At
<1>8. CASE Resolve(r)
  <2>1. PICK pc \in {"slot", "leave"} : Goto(r, pc)
    BY <1>8 DEF Resolve
  <2>2. requests[r].pc = "resolve" /\ requests[r].op # "stream" /\ requests[r].op \notin CleanupOps
    BY <1>3, <1>8 DEF Resolve, At, RequestFits
  <2> QED
    BY <1>4, <2>1, <2>2 DEF Steps, ActivationSteps, StopSteps, At
<1> QED
  BY <1>5, <1>6, <1>7, <1>8

LEMMA InvDelivered ==
    ASSUME HandlerInv, NEW r \in Requests, Delivered(r)
    PROVE  HandlerInv'
<1>1. /\ requests[r].pc = "send" /\ requests[r].pc \in Steps \ {"leave"}
      /\ UNCHANGED <<slotVars, storeVars, negotiationVars>>
  BY DEF Delivered, At, Steps
<1>2. RequestFits(requests[r]) /\ requests[r] \in ServedShape
  BY <1>1, OpKinds DEF RequestFits
<1>3. CASE IsCleanup(r)
  <2>1. PICK q : q = [requests[r] EXCEPT !.pc = "confirm", !.acked = TRUE]
    OBVIOUS
  <2>2. /\ q \in ServedShape /\ q.pc = "confirm" /\ q.op = requests[r].op
        /\ q.attempt = requests[r].attempt /\ q.late = requests[r].late
    BY <1>2, <2>1 DEF ServedShape, Programs, Steps
  <2>3. requests' = [requests EXCEPT ![r] = q]
    BY <1>2, <1>3, <2>1 DEF Delivered, ServedShape
  <2>4. RequestFits(q) /\ Begun(requests[r]) /\ Releases(q)
    BY <1>1, <1>2, <1>3, <2>2
       DEF RequestFits, Begun, Releases, IsCleanup, Steps, ActivationSteps, StopSteps
  <2> QED
    BY <1>1, <2>2, <2>3, <2>4, LocalStep
<1>4. CASE ~IsCleanup(r)
  <2>1. Goto(r, "resolve") /\ requests[r].op # "stream" /\ requests[r].op \notin CleanupOps
    BY <1>1, <1>2, <1>4 DEF Delivered, RequestFits, IsCleanup
  <2>2. PICK q : /\ requests' = [requests EXCEPT ![r] = q]
                 /\ RequestFits(q)
                 /\ q.pc = "resolve" /\ q.op = requests[r].op /\ q.attempt = requests[r].attempt
                 /\ ~q.late /\ ~requests[r].late
    BY <1>1, <2>1, GotoFits DEF Steps, ActivationSteps, StopSteps
  <2>3. ~Begun(q) /\ ~Releases(requests[r])
    BY <1>1, <2>1, <2>2 DEF Begun, Releases
  <2> QED
    BY <1>1, <2>2, <2>3, LocalStep
<1> QED
  BY <1>3, <1>4

\* Steps of the ingress.  The unit is claimed on the way to the activation, and an
\* activation that fails gives it back.
LEMMA InvClaim ==
    ASSUME HandlerInv, NEW r \in Requests, Claim(r)
    PROVE  HandlerInv'
<1>1. /\ requests[r].pc = "claim" /\ requests[r].pc \in Steps \ {"leave"}
      /\ UNCHANGED negotiationVars /\ Goto(r, "ensure")
      /\ entries' = entries /\ activationSequence' = activationSequence
  BY DEF Claim, At, Steps, storeVars
<1>2. PICK a \in Attempts : a = requests[r].attempt /\ a \in published
  BY <1>1, OpKinds
<1>3. PICK q : /\ requests' = [requests EXCEPT ![r] = q]
               /\ RequestFits(q)
               /\ q.pc = "ensure" /\ q.op = requests[r].op /\ q.attempt = requests[r].attempt
               /\ ~q.late /\ ~requests[r].late
  <2>1. requests[r].op \notin CleanupOps
    BY <1>1, OpKinds DEF RequestFits, ActivationSteps
  <2> QED
    BY <1>1, <2>1, GotoFits DEF Steps, ActivationSteps, StopSteps
<1>4. /\ SlotShape' /\ switches' = switches /\ tokens' = tokens
      /\ \A k \in Slots!Key : LiveKept(streams[k], streams'[k])
  <2>1. CASE streams[origin[a].key].version = origin[a].version
    <3>1. PICK t \in tokens : t = origin[a]
      BY <1>2 DEF HandlerInv, ReservationsHeld
    <3>2. Slots!BindReservationPlaySession(t, a)
      BY <1>2, <2>1, <3>1 DEF Claim
    <3> QED
      BY <3>2, TokenFrame DEF HandlerInv, Slots!BindReservationPlaySession
  <2>2. CASE streams[origin[a].key].version # origin[a].version
    BY <1>2, <2>2 DEF Claim, HandlerInv, SlotShape, slotVars, LiveKept
  <2> QED
    BY <2>1, <2>2
<1>5. StoreMoves /\ Calm /\ StoreShape'
  BY <1>1, <1>4, SameMoves DEF Calm, HandlerInv, StoreShape
<1>6. /\ ClaimsOwned' /\ \A b \in Attempts : Claims(b)' => Claims(b)
      /\ \A b \in Attempts : Stopped(b)' => Stopped(b)
  BY <1>1, <1>5, ClaimsCalm, SameMoves DEF HandlerInv
<1>7. ~Begun(q) /\ ~Releases(requests[r])
  BY <1>1, <1>3 DEF Begun, Releases
<1> QED
  BY <1>1, <1>2, <1>3, <1>4, <1>5, <1>6, <1>7, GoesOn

LEMMA InvSwitch ==
    ASSUME HandlerInv, NEW r \in Requests, Switch(r)
    PROVE  HandlerInv'
<1>1. /\ requests[r].pc = "switch" /\ requests[r].pc \in Steps \ {"leave"}
      /\ UNCHANGED negotiationVars
      /\ entries' = entries /\ activationSequence' = activationSequence
      /\ Slots!ReleaseSwitchedSource(requests[r].switch)
  BY DEF Switch, At, Steps, storeVars
<1>2. /\ RequestFits(requests[r]) /\ requests[r] \in ServedShape
      /\ requests[r].attempt \in Attempts /\ requests[r].switch \in switches
      /\ DOMAIN requests = Requests
  BY <1>1, OpKinds DEF RequestFits, HandlerInv, SwitchesHeld, At, RequestsShape
<1>3. PICK q : q = [requests[r] EXCEPT !.pc = "activate", !.switch = NoSwitch]
  OBVIOUS
<1>4. /\ q \in ServedShape /\ q.pc = "activate" /\ q.op = requests[r].op
      /\ q.attempt = requests[r].attempt /\ q.late = requests[r].late
      /\ requests' = [requests EXCEPT ![r] = q]
  BY <1>2, <1>3 DEF ServedShape, Programs, Steps, Switch
<1>5. RequestFits(q) /\ Releases(q) /\ ~Begun(q)
  BY <1>1, <1>2, <1>4 DEF RequestFits, Begun, Releases, Steps, ActivationSteps, StopSteps
<1>6. /\ SlotShape' /\ tokens' = tokens
      /\ \A k \in Slots!Key : LiveKept(streams[k], streams'[k])
  <2>1. requests[r].switch.key \in Slots!Key
    BY <1>2 DEF HandlerInv, SwitchesHeld, SwitchShape
  <2> QED
    BY <1>1, <1>2, <2>1, LeaveFrame DEF HandlerInv
<1>7. StoreMoves /\ Calm /\ StoreShape'
  BY <1>1, <1>6, SameMoves DEF Calm, HandlerInv, StoreShape
<1>8. /\ ClaimsOwned' /\ \A b \in Attempts : Claims(b)' => Claims(b)
      /\ \A b \in Attempts : Stopped(b)' => Stopped(b)
  BY <1>1, <1>7, ClaimsCalm, SameMoves DEF HandlerInv
<1>9. /\ published' = published /\ published \subseteq Attempts
  BY <1>1 DEF negotiationVars, HandlerInv, ReservationsHeld
<1>10. RequestsShape' /\ StopsBegun'
  BY <1>4, <1>5, <1>7, <1>9, RequestGoesOn DEF HandlerInv
<1>11. SwitchesHeld'
  <2>1. switches' = switches \ {requests[r].switch}
    BY <1>1 DEF Slots!ReleaseSwitchedSource
  <2>2. requests'[r].pc = "activate" /\ \A p \in Requests \ {r} : requests'[p] = requests[p]
    BY <1>2, <1>4
  <2> QED
    BY <1>1, <2>1, <2>2 DEF HandlerInv, SwitchesHeld, At
<1>12. StoppedClaimsReleased'
  BY <1>2, <1>4, <1>5, <1>8, ReleaserGoesOn DEF HandlerInv
<1>13. ReservationsHeld'
  BY <1>1, <1>6, <1>7, ReservationsSame DEF HandlerInv
<1> QED
  BY <1>6, <1>7, <1>8, <1>10, <1>11, <1>12, <1>13 DEF HandlerInv

LEMMA InvActivate ==
    ASSUME HandlerInv, NEW r \in Requests, Activate(r)
    PROVE  HandlerInv'
<1>1. /\ requests[r].pc = "activate" /\ requests[r].pc \in Steps \ {"leave"}
      /\ UNCHANGED negotiationVars /\ UNCHANGED slotVars
  BY DEF Activate, At, Steps
<1>2. PICK a \in Attempts : a = requests[r].attempt
  BY <1>1, OpKinds
<1>3. /\ streams' = streams /\ switches' = switches /\ tokens' = tokens
      /\ nextVersion' = nextVersion /\ SlotShape' /\ Calm
  BY <1>1 DEF slotVars, HandlerInv, SlotShape, Calm, LiveKept
<1>4. /\ StoreShape' /\ StoreMoves
      /\ \A b \in Attempts : Stopped(b)' => Stopped(b)
  <2>1. CASE Store!Activate(a)
    BY <2>1, WriteFrame, MildMoves DEF HandlerInv
  <2>2. CASE UNCHANGED storeVars
    BY <2>2, SameMoves DEF storeVars, HandlerInv, StoreShape
  <2> QED
    BY <1>2, <2>1, <2>2 DEF Activate
<1>5. PICK pc \in {"check", "giveUp"} :
          Goto(r, pc) /\ (pc = "check" => entries'[a].state = "active")
  BY <1>2 DEF Activate
<1>6. PICK q : /\ requests' = [requests EXCEPT ![r] = q]
               /\ RequestFits(q)
               /\ q.pc = pc /\ q.op = requests[r].op /\ q.attempt = requests[r].attempt
               /\ ~q.late /\ ~requests[r].late
  <2>1. requests[r].op \notin CleanupOps
    BY <1>1, OpKinds DEF RequestFits, ActivationSteps
  <2> QED
    BY <1>1, <1>5, <2>1, GotoFits DEF Steps, ActivationSteps, StopSteps
<1>7. ClaimsOwned' /\ \A b \in Attempts : Claims(b)' => Claims(b)
  BY <1>3, <1>4, ClaimsCalm DEF HandlerInv
<1>8. ~Begun(q)
  BY <1>5, <1>6 DEF Begun
<1>9. Stopped(a)' => Releases(q)
  BY <1>5, <1>6 DEF Stopped, Releases
<1> QED
  BY <1>1, <1>2, <1>3, <1>4, <1>6, <1>7, <1>8, <1>9, GoesOn

LEMMA InvEnsure ==
    ASSUME HandlerInv, NEW r \in Requests, Ensure(r)
    PROVE  HandlerInv'
<1>1. /\ requests[r].pc = "ensure" /\ requests[r].pc \in Steps \ {"leave"}
      /\ UNCHANGED negotiationVars
      /\ entries' = entries /\ activationSequence' = activationSequence
  BY DEF Ensure, At, Steps, storeVars
<1>2. /\ RequestFits(requests[r]) /\ requests[r] \in ServedShape
      /\ requests[r].attempt \in Attempts /\ requests[r].attempt \in published
      /\ DOMAIN requests = Requests /\ requests[r].op \notin CleanupOps
      /\ requests[r].late = FALSE
  BY <1>1, OpKinds DEF RequestFits, HandlerInv, RequestsShape, ActivationSteps, ServedShape
<1>3. PICK a \in Attempts : a = requests[r].attempt
  BY <1>2
<1>4. /\ UserOf(a) \in Users /\ ServerOf(a) \in Servers /\ ItemOf(a) \in Items
      /\ KeyOf(a) \in Slots!Key /\ Meets(streams[KeyOf(a)], a, ItemOf(a))
  BY MeetsOwned DEF HandlerInv
<1>5. PICK from \in Servers : from = origin[a].key[2]
  <2>1. origin[a] \in Held
    BY <1>2, <1>3 DEF HandlerInv, ReservationsHeld, SlotShape
  <2> QED
    BY <2>1 DEF Held, Slots!Key
<1>6. StoreMoves /\ StoreShape' /\ \A b \in Attempts : Stopped(b)' => Stopped(b)
  BY <1>1, SameMoves DEF HandlerInv, StoreShape
<1>7. /\ published' = published /\ published \subseteq Attempts
  BY <1>1 DEF negotiationVars, HandlerInv, ReservationsHeld
<1>8. ASSUME NEW pc \in {"activate", "leave"}, Goto(r, pc)
      PROVE  \E q : /\ requests' = [requests EXCEPT ![r] = q]
                    /\ RequestFits(q)
                    /\ q.pc = pc /\ q.op = requests[r].op /\ q.attempt = requests[r].attempt
                    /\ ~q.late /\ ~requests[r].late
  BY <1>1, <1>2, <1>8, GotoFits DEF Steps, ActivationSteps, StopSteps
<1>9. CASE \E max \in Limits : Slots!RefuseStream(UserOf(a), ServerOf(a), max) /\ Goto(r, "leave")
  <2>1. /\ SlotShape' /\ tokens' = tokens /\ switches' = switches /\ Calm
    BY <1>4, <1>9, LeaveFrame DEF HandlerInv, Slots!RefuseStream, Calm
  <2>2. PICK q : /\ requests' = [requests EXCEPT ![r] = q]
                 /\ RequestFits(q)
                 /\ q.pc = "leave" /\ q.op = requests[r].op /\ q.attempt = requests[r].attempt
                 /\ ~q.late /\ ~requests[r].late
    BY <1>8, <1>9
  <2>3. ClaimsOwned' /\ \A b \in Attempts : Claims(b)' => Claims(b)
    BY <1>6, <2>1, ClaimsCalm DEF HandlerInv
  <2>4. ~Begun(q) /\ ~Releases(requests[r])
    BY <1>1, <1>2, <2>2 DEF Begun, Releases
  <2> QED
    BY <1>1, <1>3, <1>6, <2>1, <2>2, <2>3, <2>4, GoesOn
<1>10. CASE \E max \in Limits :
                Slots!EnsureStreamSlot(UserOf(a), ServerOf(a), from, ItemOf(a), a, max)
  <2>1. PICK k : k = <<UserOf(a), ServerOf(a)>>
    OBVIOUS
  <2>2. /\ SlotShape' /\ tokens' = tokens
        /\ OnlyUnit(k)
        /\ LiveKept(streams[k], streams'[k]) \/ Taken(streams'[k], a, ItemOf(a))
        /\ \/ from = ServerOf(a) /\ switches' = switches
           \/ /\ from # ServerOf(a)
              /\ \E w \in SwitchShape : switches' = switches \cup {w} /\ w \notin switches
    BY <1>4, <1>10, <2>1, StreamFrame DEF HandlerInv, KeyOf
  <2>3. ClaimsOwned' /\ \A b \in Attempts \ {a} : Claims(b)' => Claims(b)
    BY <1>1, <1>4, <2>1, <2>2, ClaimsTaken DEF HandlerInv, KeyOf
  <2>4. CASE from = ServerOf(a) /\ Goto(r, "activate")
    <3>1. PICK q : /\ requests' = [requests EXCEPT ![r] = q]
                   /\ RequestFits(q)
                   /\ q.pc = "activate" /\ q.op = requests[r].op
                   /\ q.attempt = requests[r].attempt
                   /\ ~q.late /\ ~requests[r].late
      BY <1>8, <2>4
    <3>2. ~Begun(q) /\ Releases(q)
      BY <3>1 DEF Begun, Releases
    <3> QED
      BY <1>1, <1>3, <1>6, <2>2, <2>3, <2>4, <3>1, <3>2, GoesOn
  <2>5. ASSUME from # ServerOf(a), NEW w \in switches' \ switches,
               requests' = [requests EXCEPT ![r].pc = "switch", ![r].switch = w]
        PROVE  HandlerInv'
    <3>1. w \in SwitchShape /\ switches' = switches \cup {w} /\ w \notin switches
      BY <2>2, <2>5
    <3>2. PICK q : q = [requests[r] EXCEPT !.pc = "switch", !.switch = w]
      OBVIOUS
    <3>3. /\ q \in ServedShape /\ q.pc = "switch" /\ q.switch = w /\ q.op = requests[r].op
          /\ q.attempt = requests[r].attempt /\ q.late = requests[r].late
          /\ requests' = [requests EXCEPT ![r] = q]
      BY <1>2, <2>5, <3>1, <3>2 DEF ServedShape, Programs, Steps
    <3>4. RequestFits(q) /\ ~Begun(q) /\ Releases(q)
      BY <1>1, <1>2, <3>3 DEF RequestFits, Begun, Releases, Steps, ActivationSteps, StopSteps
    <3>5. RequestsShape' /\ StopsBegun'
      BY <1>6, <1>7, <3>3, <3>4, RequestGoesOn DEF HandlerInv
    <3>6. SwitchesHeld'
      <4>1. requests'[r] = q /\ \A p \in Requests \ {r} : requests'[p] = requests[p]
        BY <1>2, <3>3
      <4>2. \A p \in Requests \ {r} :
                requests'[p].pc = "switch" => requests'[p].switch \in switches
        BY <4>1 DEF HandlerInv, SwitchesHeld, At
      <4> QED
        BY <3>1, <3>3, <4>1, <4>2 DEF HandlerInv, SwitchesHeld, At
    <3>7. StoppedClaimsReleased'
      BY <1>2, <1>3, <1>6, <2>3, <3>3, <3>4, ReleaserGoesOn DEF HandlerInv
    <3>8. ReservationsHeld'
      BY <1>1, <1>6, <2>2, ReservationsSame DEF HandlerInv
    <3> QED
      BY <1>6, <2>2, <2>3, <3>5, <3>6, <3>7, <3>8 DEF HandlerInv
  <2>6. \/ from = ServerOf(a) /\ Goto(r, "activate")
        \/ /\ from # ServerOf(a)
           /\ \E w \in switches' \ switches :
                 requests' = [requests EXCEPT ![r].pc = "switch", ![r].switch = w]
        \/ \E max \in Limits : Slots!RefuseStream(UserOf(a), ServerOf(a), max) /\ Goto(r, "leave")
    BY <1>3, <1>5 DEF Ensure
  <2> QED
    BY <1>9, <2>4, <2>5, <2>6
<1> QED
  BY <1>3, <1>5, <1>9, <1>10 DEF Ensure

\* The two places that end an attempt locally.
LEMMA InvFinishLocally ==
    ASSUME HandlerInv, NEW r \in Requests, GiveUp(r) \/ Superseded(r)
    PROVE  HandlerInv'
<1>1. /\ requests[r].pc \in {"giveUp", "superseded"} /\ requests[r].pc \in Steps \ {"leave"}
      /\ UNCHANGED negotiationVars
      /\ entries' = entries /\ activationSequence' = activationSequence
  BY DEF GiveUp, Superseded, At, Steps, storeVars
<1>2. PICK a \in Attempts : a = requests[r].attempt
  BY <1>1, OpKinds
<1>3. Slots!SessionEvent("stopped", KeyOf(a), ItemOf(a), SlotIdentity(a))
  BY <1>2 DEF GiveUp, Superseded, FinishLocally, KeyOf
<1>4. /\ SlotShape' /\ tokens' = tokens /\ switches' = switches
      /\ ClaimsOwned' /\ ~Claims(a)' /\ \A b \in Attempts : Claims(b)' => Claims(b)
  BY <1>1, <1>3, StopReleases
<1>5. StoreMoves /\ StoreShape' /\ \A b \in Attempts : Stopped(b)' => Stopped(b)
  BY <1>1, SameMoves DEF HandlerInv, StoreShape
<1>6. PICK q : /\ requests' = [requests EXCEPT ![r] = q]
               /\ RequestFits(q)
               /\ q.pc \in {"leave", "fail"} /\ q.attempt = requests[r].attempt
  <2>1. CASE GiveUp(r)
    BY <1>1, <2>1, GotoFits DEF GiveUp, Steps, ActivationSteps, StopSteps
  <2>2. CASE Superseded(r)
    <3>1. requests[r].op \in CleanupOps
      BY <1>1, <2>2, OpKinds DEF RequestFits, StopSteps, Superseded, At
    <3> QED
      BY <1>1, <2>2, <3>1, GotoFits DEF Superseded, Steps, ActivationSteps, StopSteps
  <2> QED
    BY <2>1, <2>2
<1>7. ~Begun(q)
  BY <1>6 DEF Begun
<1> QED
  BY <1>1, <1>2, <1>4, <1>5, <1>6, <1>7, GoesOn

\* Steps of a stop.
LEMMA InvBegin ==
    ASSUME HandlerInv, NEW r \in Requests, Begin(r)
    PROVE  HandlerInv'
<1>1. /\ requests[r].pc = "begin" /\ requests[r].pc \in Steps \ {"leave"}
      /\ UNCHANGED negotiationVars /\ UNCHANGED slotVars
  BY DEF Begin, At, Steps
<1>2. PICK a \in Attempts : a = requests[r].attempt
  BY <1>1, OpKinds
<1>3. PICK op \in CleanupOps : op = requests[r].op
  BY <1>1, OpKinds DEF RequestFits, StopSteps
<1>4. ~Releases(requests[r])
  BY <1>1, OpKinds DEF Releases, RequestFits
<1>5. ASSUME NEW pc \in {"send", "superseded", "leave"}, Goto(r, pc)
      PROVE  \E q : /\ requests' = [requests EXCEPT ![r] = q]
                    /\ RequestFits(q)
                    /\ q.pc = pc /\ q.op = op /\ q.attempt = a
                    /\ ~q.late /\ ~requests[r].late
  <2>1. op # "stream"
    BY DEF CleanupOps
  <2> QED
    BY <1>1, <1>2, <1>3, <1>5, <2>1, GotoFits DEF Steps, ActivationSteps, StopSteps
<1>6. CASE Store!BeginCleanup(a, op) /\ Goto(r, "send")
  <2>1. /\ StoreShape' /\ StoreMoves /\ entries'[a].state \in Left
        /\ \A b \in Attempts \ {a} : Stopped(b)' => Stopped(b)
    BY <1>6, BeginFrame DEF HandlerInv, StoreMoves, Stopped, Left
  <2>2. /\ switches' = switches /\ tokens' = tokens /\ SlotShape' /\ Calm
    BY <1>1 DEF slotVars, HandlerInv, SlotShape, Calm, LiveKept
  <2>3. ClaimsOwned' /\ \A b \in Attempts : Claims(b)' => Claims(b)
    BY <2>1, <2>2, ClaimsCalm DEF HandlerInv
  <2>4. PICK q : /\ requests' = [requests EXCEPT ![r] = q]
                 /\ RequestFits(q)
                 /\ q.pc = "send" /\ q.op = op /\ q.attempt = a
    BY <1>5, <1>6
  <2>5. Releases(q)
    BY <2>4 DEF Releases
  <2> QED
    BY <1>1, <1>2, <2>1, <2>2, <2>3, <2>4, <2>5, GoesOn
<1>7. ASSUME NEW pc \in {"superseded", "leave"}, Goto(r, pc), UNCHANGED storeVars
      PROVE  HandlerInv'
  <2>1. PICK q : /\ requests' = [requests EXCEPT ![r] = q]
                 /\ RequestFits(q)
                 /\ q.pc = pc /\ q.op = op /\ q.attempt = a
    BY <1>5, <1>7
  <2>2. ~Begun(q)
    BY <1>7, <2>1 DEF Begun
  <2> QED
    BY <1>1, <1>2, <1>4, <1>7, <2>1, <2>2, LocalStep
<1> QED
  <2>1. \/ Store!BeginCleanup(a, op) /\ Goto(r, "send")
        \/ \E pc \in {"superseded", "leave"} : Goto(r, pc) /\ UNCHANGED storeVars
    BY <1>2, <1>3 DEF Begin
  <2> QED
    BY <1>6, <1>7, <2>1

\* A call of the store that moves no binding to a stage a stop leaves it in.
LEMMA StoreStep ==
    ASSUME HandlerInv, NEW r \in Requests, requests[r].pc \in Steps,
           UNCHANGED <<slotVars, negotiationVars>>,
           StoreShape', StoreMoves, NEW a \in Attempts, a = requests[r].attempt,
           \A b \in Attempts : Stopped(b)' => Stopped(b),
           NEW q, requests' = [requests EXCEPT ![r] = q], RequestFits(q), q.pc # "switch",
           Begun(q) => q.attempt = a /\ Begun(requests[r]),
           Releases(requests[r]) => q.attempt = a /\ Releases(q)
    PROVE  HandlerInv'
<1>1. /\ switches' = switches /\ tokens' = tokens /\ SlotShape' /\ Calm
  BY DEF slotVars, HandlerInv, SlotShape, Calm, LiveKept
<1>2. ClaimsOwned' /\ \A b \in Attempts : Claims(b)' => Claims(b)
  BY <1>1, ClaimsCalm DEF HandlerInv
<1>3. Begun(q) => entries'[q.attempt].state \in Left
  BY DEF HandlerInv, StopsBegun, StoreMoves
<1> QED
  BY <1>1, <1>2, <1>3, GoesOn

LEMMA InvStoreCalls ==
    ASSUME HandlerInv, NEW r \in Requests, Fail(r) \/ Confirm(r) \/ End(r)
    PROVE  HandlerInv'
<1>1. /\ requests[r].pc \in {"fail", "confirm", "end"} /\ requests[r].pc \in Steps \ {"leave"}
      /\ UNCHANGED <<slotVars, negotiationVars>>
  BY DEF Fail, Confirm, End, At, Steps
<1>2. PICK a \in Attempts : a = requests[r].attempt
  BY <1>1, OpKinds
<1>3. PICK op \in CleanupOps : op = requests[r].op
  BY <1>1, OpKinds DEF RequestFits, StopSteps
<1>4. StoreShape' /\ StoreMoves /\ \A b \in Attempts : Stopped(b)' => Stopped(b)
  <2>1. \/ Store!Finish(a, "failed")
        \/ Store!ConfirmCleanup(a, op) \/ Store!EndCleanup(a, op)
        \/ UNCHANGED storeVars
    BY <1>2, <1>3 DEF Fail, Confirm, End
  <2>2. CASE Store!Finish(a, "failed")
    BY <2>2, WriteFrame, MildMoves DEF HandlerInv
  <2>3. CASE Store!ConfirmCleanup(a, op) \/ Store!EndCleanup(a, op)
    BY <2>3, QuietFrame, MildMoves DEF HandlerInv
  <2>4. CASE UNCHANGED storeVars
    BY <2>4, SameMoves DEF storeVars, HandlerInv, StoreShape
  <2> QED
    BY <2>1, <2>2, <2>3, <2>4
<1>5. PICK pc \in {"leave", "slot", "retire"} :
          /\ Goto(r, pc)
          /\ requests[r].pc = "confirm" =>
                (pc = "slot" /\ op = "Stopped") \/ (pc = "retire" /\ op # "Stopped")
          /\ requests[r].pc # "confirm" => pc = "leave"
  BY <1>3 DEF Fail, Confirm, End, At
<1>6. PICK q : /\ requests' = [requests EXCEPT ![r] = q]
               /\ RequestFits(q)
               /\ q.pc = pc /\ q.op = op /\ q.attempt = a
               /\ ~q.late /\ ~requests[r].late
  <2>1. op # "stream"
    BY DEF CleanupOps
  <2> QED
    BY <1>1, <1>2, <1>3, <1>5, <2>1, GotoFits DEF Steps, ActivationSteps, StopSteps
<1>7. Begun(q) => Begun(requests[r])
  BY <1>1, <1>3, <1>5, <1>6 DEF Begun
<1>8. Releases(requests[r]) => Releases(q)
  BY <1>1, <1>3, <1>5, <1>6 DEF Releases
<1> QED
  BY <1>1, <1>2, <1>4, <1>5, <1>6, <1>7, <1>8, StoreStep

LEMMA InvRetire ==
    ASSUME HandlerInv, NEW r \in Requests, Retire(r)
    PROVE  HandlerInv'
<1>1. /\ requests[r].pc = "retire" /\ requests[r].pc \in Steps \ {"leave"}
      /\ UNCHANGED <<slotVars, negotiationVars>>
  BY DEF Retire, At, Steps
<1>2. PICK a \in Attempts : a = requests[r].attempt
  BY <1>1, OpKinds
<1>3. PICK op \in CleanupOps : op = requests[r].op
  BY <1>1, OpKinds DEF RequestFits, StopSteps
<1>4. Begun(requests[r]) /\ entries[a].state \in Left
  BY <1>1, <1>2, <1>3 DEF Begun, HandlerInv, StopsBegun
<1>5. StoreShape' /\ StoreMoves /\ \A b \in Attempts : Stopped(b)' => Stopped(b)
  <2>1. CASE Store!Found(entries[a]) /\ Store!Finish(a, "retired")
    <3>1. /\ StoreShape'
          /\ \A b \in Attempts : Kin(entries[b], entries'[b])
          /\ \A b \in Attempts \ {a} : Mild(entries[b], entries'[b])
          /\ entries'[a].state \in Left
          /\ entries[a].state = "failed" => entries'[a].state = "failed"
      BY <2>1, RetireFrame DEF HandlerInv
    <3>2. entries[a].state # "gone"
      BY <2>1 DEF Store!Found, Store!Present, Store!Stored, Store!Workable, Store!Terminal
    <3>3. Stopped(a)' => Stopped(a)
      BY <1>4, <3>1, <3>2 DEF Stopped, Left
    <3>4. \A b \in Attempts \ {a} : Stopped(b)' => Stopped(b)
      BY <3>1 DEF Mild, Stopped, Left
    <3>5. StoreMoves
      BY <1>4, <3>1 DEF StoreMoves, Mild, Left
    <3> QED
      BY <3>1, <3>3, <3>4, <3>5
  <2>2. CASE UNCHANGED storeVars
    BY <2>2, SameMoves DEF storeVars, HandlerInv, StoreShape
  <2> QED
    BY <1>2, <2>1, <2>2 DEF Retire
<1>6. PICK pc \in {"end", "slot"} : Goto(r, pc) /\ (pc = "end" <=> op = "Stopped")
  BY <1>3 DEF Retire
<1>7. PICK q : /\ requests' = [requests EXCEPT ![r] = q]
               /\ RequestFits(q)
               /\ q.pc = pc /\ q.op = op /\ q.attempt = a
               /\ ~q.late /\ ~requests[r].late
  <2>1. op # "stream"
    BY DEF CleanupOps
  <2> QED
    BY <1>1, <1>2, <1>3, <1>6, <2>1, GotoFits DEF Steps, ActivationSteps, StopSteps
<1>8. Releases(requests[r]) => Releases(q)
  BY <1>1, <1>3, <1>6, <1>7 DEF Releases
<1> QED
  BY <1>1, <1>2, <1>4, <1>5, <1>6, <1>7, <1>8, StoreStep

LEMMA InvLeave ==
    ASSUME HandlerInv, NEW r \in Requests, Leave(r)
    PROVE  HandlerInv'
<1>1. /\ requests[r].pc = "leave" /\ requests[r].pc \in Steps
      /\ UNCHANGED <<slotVars, negotiationVars>>
  BY DEF Leave, At, Steps
<1>2. PICK a \in Attempts : a = requests[r].attempt
  BY <1>1, OpKinds
<1>3. requests[r] \in ServedShape /\ RequestFits(requests[r])
  BY <1>1, OpKinds DEF RequestFits
<1>4. StoreShape' /\ StoreMoves /\ \A b \in Attempts : Stopped(b)' => Stopped(b)
  <2>1. Store!Release(a)
    BY <1>2 DEF Leave
  <2> QED
    BY <2>1, QuietFrame, MildMoves DEF HandlerInv
<1>5. PICK q : q = IF requests[r].acked \/ requests[r].late
                   THEN [requests[r] EXCEPT !.pc = "done"]
                   ELSE [NotServed EXCEPT !.pc = "done"]
  OBVIOUS
<1>6. requests' = [requests EXCEPT ![r] = q]
  BY <1>5 DEF Leave
<1>7. /\ q \in ServedShape /\ q.pc = "done"
      /\ requests[r].late => q.attempt = a /\ q.late
      /\ q.late => requests[r].late
  <2>1. CASE requests[r].acked \/ requests[r].late
    BY <1>2, <1>3, <1>5, <2>1 DEF ServedShape, Programs
  <2>2. CASE ~(requests[r].acked \/ requests[r].late)
    BY <1>5, <2>2 DEF ServedShape, Programs, NotServed
  <2> QED
    BY <2>1, <2>2
<1>8. RequestFits(q) /\ ~Begun(q)
  BY <1>2, <1>7 DEF RequestFits, Begun, Steps, ActivationSteps, StopSteps
<1>9. Releases(requests[r]) => q.attempt = a /\ Releases(q)
  BY <1>1, <1>7 DEF Releases
<1> QED
  BY <1>1, <1>2, <1>4, <1>6, <1>7, <1>8, <1>9, StoreStep

\* The bookkeeping: a stop takes the unit; a report that is applied to an attempt that
\* no longer resolves is late.
LEMMA InvSlot ==
    ASSUME HandlerInv, NEW r \in Requests, Slot(r)
    PROVE  HandlerInv'
<1>1. /\ requests[r].pc = "slot" /\ requests[r].pc \in Steps \ {"leave"}
      /\ UNCHANGED negotiationVars
      /\ entries' = entries /\ activationSequence' = activationSequence
  BY DEF Slot, At, Steps, storeVars
<1>2. PICK a \in Attempts : a = requests[r].attempt
  BY <1>1, OpKinds
<1>3. /\ RequestFits(requests[r]) /\ requests[r] \in ServedShape /\ requests[r].op # "stream"
      /\ requests[r].op \in CleanupOps \/ requests[r].op \in Reports
  BY <1>1, OpKinds DEF RequestFits
<1>4. StoreMoves /\ StoreShape' /\ \A b \in Attempts : Stopped(b)' => Stopped(b)
  BY <1>1, SameMoves DEF HandlerInv, StoreShape
<1>5. CASE requests[r].op \in CleanupOps
  <2>1. Slots!SessionEvent("stopped", KeyOf(a), ItemOf(a), SlotIdentity(a))
    BY <1>2, <1>5 DEF Slot, IsCleanup, KeyOf
  <2>2. /\ SlotShape' /\ tokens' = tokens /\ switches' = switches
        /\ ClaimsOwned' /\ ~Claims(a)' /\ \A b \in Attempts : Claims(b)' => Claims(b)
    BY <1>1, <2>1, StopReleases
  <2>3. PICK pc \in {"retire", "end"} : Goto(r, pc)
    BY <1>5 DEF Slot, IsCleanup
  <2>4. PICK q : /\ requests' = [requests EXCEPT ![r] = q]
                 /\ RequestFits(q)
                 /\ q.pc = pc /\ q.op = requests[r].op /\ q.attempt = a
    BY <1>1, <1>2, <1>5, <2>3, GotoFits DEF Steps, ActivationSteps, StopSteps
  <2>5. Begun(requests[r]) /\ entries'[a].state \in Left
    BY <1>1, <1>2, <1>5 DEF Begun, HandlerInv, StopsBegun
  <2> QED
    BY <1>1, <1>2, <1>4, <2>2, <2>4, <2>5, GoesOn
<1>6. CASE requests[r].op \notin CleanupOps
  <2>1. /\ KeyOf(a) \in Slots!Key /\ ItemOf(a) \in Items
        /\ Meets(streams[KeyOf(a)], a, ItemOf(a))
    BY MeetsOwned DEF HandlerInv
  <2>2. PICK op \in Reports : op = requests[r].op
    BY <1>3, <1>6
  <2>3. Slots!SessionEvent(op, KeyOf(a), ItemOf(a), SlotIdentity(a))
    BY <1>2, <1>6, <2>2 DEF Slot, IsCleanup, KeyOf
  <2>4. /\ SlotShape' /\ tokens' = tokens /\ switches' = switches /\ OnlyUnit(KeyOf(a))
        /\ \/ LiveKept(streams[KeyOf(a)], streams'[KeyOf(a)])
           \/ Taken(streams'[KeyOf(a)], a, ItemOf(a))
    BY <2>1, <2>2, <2>3, EventFrame DEF HandlerInv, Reports
  <2>5. ClaimsOwned' /\ \A b \in Attempts \ {a} : Claims(b)' => Claims(b)
    BY <1>1, <2>1, <2>4, ClaimsTaken DEF HandlerInv
  <2>6. PICK q : q = [requests[r] EXCEPT !.pc = "leave", !.late = ~Resolves(a)]
    OBVIOUS
  <2>7. /\ q \in ServedShape /\ q.pc = "leave" /\ q.op = requests[r].op /\ q.attempt = a
        /\ requests' = [requests EXCEPT ![r] = q]
    <3>1. (~Resolves(a)) \in BOOLEAN
      BY DEF Resolves
    <3> QED
      BY <1>2, <1>3, <1>6, <2>6, <3>1 DEF ServedShape, Programs, Steps, Slot, IsCleanup
  <2>8. q.late <=> ~Resolves(a)
    BY <1>3, <2>6 DEF ServedShape
  <2>9. RequestFits(q) /\ ~Begun(q)
    BY <1>1, <1>2, <1>3, <2>7 DEF RequestFits, Begun, Steps, ActivationSteps, StopSteps
  <2>10. Stopped(a)' => Releases(q)
    BY <1>4, <2>8 DEF Stopped, Resolves, Store!Workable, Releases
  <2> QED
    BY <1>1, <1>2, <1>4, <2>4, <2>5, <2>7, <2>9, <2>10, GoesOn
<1> QED
  BY <1>5, <1>6

LEMMA InvAdmit ==
    ASSUME HandlerInv, NEW r \in Requests, NEW a \in Attempts, NEW op \in Ops, Admit(r, a, op)
    PROVE  HandlerInv'
<1>1. /\ requests[r].pc = "idle" /\ a \in published
      /\ UNCHANGED <<slotVars, negotiationVars>>
  BY DEF Admit, At
<1>2. /\ requests[r] \in ServedShape /\ RequestFits(requests[r]) /\ DOMAIN requests = Requests
      /\ ~requests[r].late
  BY <1>1 DEF HandlerInv, RequestsShape, RequestFits
<1>3. StoreShape' /\ StoreMoves /\ \A b \in Attempts : Stopped(b)' => Stopped(b)
  <2>1. Store!Lease(a) \/ Store!LeaseCleanup(a)
    BY DEF Admit
  <2> QED
    BY <2>1, WriteFrame, MildMoves DEF HandlerInv
<1>4. PICK pc \in {"leave", "check", "claim"} :
          pc = FirstStep(a, op) /\ (pc = "claim" => op \notin CleanupOps)
  BY DEF FirstStep
<1>5. PICK q : q = [requests[r] EXCEPT !.op = op, !.attempt = a, !.pc = pc]
  OBVIOUS
<1>6. /\ q \in ServedShape /\ q.pc = pc /\ q.op = op /\ q.attempt = a
      /\ q.late = requests[r].late
      /\ requests' = [requests EXCEPT ![r] = q]
  BY <1>2, <1>4, <1>5 DEF ServedShape, Programs, Steps, Admit
<1>7. RequestFits(q) /\ ~Begun(q) /\ ~Releases(requests[r])
  BY <1>1, <1>2, <1>4, <1>6
     DEF RequestFits, Begun, Releases, Steps, ActivationSteps, StopSteps
<1>8. /\ switches' = switches /\ tokens' = tokens /\ SlotShape' /\ Calm
  BY <1>1 DEF slotVars, HandlerInv, SlotShape, Calm, LiveKept
<1>9. ClaimsOwned' /\ \A b \in Attempts : Claims(b)' => Claims(b)
  BY <1>3, <1>8, ClaimsCalm DEF HandlerInv
<1>10. /\ published' = published /\ published \subseteq Attempts
  BY <1>1 DEF negotiationVars, HandlerInv, ReservationsHeld
<1>11. RequestsShape' /\ StopsBegun'
  BY <1>3, <1>6, <1>7, <1>10, RequestGoesOn DEF HandlerInv
<1>12. SwitchesHeld'
  BY <1>2, <1>4, <1>6, <1>8, SwitchesKept DEF HandlerInv
<1>13. StoppedClaimsReleased'
  BY <1>2, <1>3, <1>6, <1>7, <1>9, ReleaserGoesOn DEF HandlerInv
<1>14. ReservationsHeld'
  BY <1>1, <1>3, <1>8, ReservationsSame DEF HandlerInv
<1> QED
  BY <1>3, <1>8, <1>9, <1>11, <1>12, <1>13, <1>14 DEF HandlerInv

\* Steps of the negotiation, of time and of the janitors: no request goes on.
LEMMA NoRequestStep ==
    ASSUME HandlerInv, requests' = requests, switches' = switches,
           StoreShape', SlotShape', Calm, StoreMoves,
           \A b \in Attempts : Stopped(b)' => Stopped(b),
           published \subseteq published', ReservationsHeld'
    PROVE  HandlerInv'
<1>1. published \subseteq Attempts
  BY DEF HandlerInv, ReservationsHeld
<1>2. ClaimsOwned' /\ \A b \in Attempts : Claims(b)' => Claims(b)
  BY ClaimsCalm DEF HandlerInv
<1>3. StoppedClaimsReleased'
  BY <1>2, ReleaserStays DEF HandlerInv
<1>4. RequestsShape' /\ StopsBegun' /\ SwitchesHeld'
  BY <1>1, RequestsStay DEF HandlerInv
<1> QED
  BY <1>2, <1>3, <1>4 DEF HandlerInv

LEMMA InvNegotiate ==
    ASSUME HandlerInv, NEW u \in Users, NEW s \in Servers, NEW i \in Items, NEW max \in Limits,
           Negotiate(u, s, i, max)
    PROVE  HandlerInv'
<1>1. /\ SlotShape' /\ switches' = switches /\ Calm
      /\ \/ tokens' = tokens
         \/ \E t \in Held \ tokens : tokens' = tokens \cup {t}
  BY ReservationFrame DEF HandlerInv, Negotiate, Calm
<1>2. /\ requests' = requests /\ origin' = origin /\ published' = published
      /\ entries' = entries /\ activationSequence' = activationSequence
      /\ open' = open \cup {[token |-> t, item |-> i] : t \in tokens' \ tokens}
  BY DEF Negotiate, storeVars
<1>3. StoreShape' /\ StoreMoves /\ \A b \in Attempts : Stopped(b)' => Stopped(b)
  BY <1>2, SameMoves DEF HandlerInv, StoreShape
<1>4. ReservationsHeld'
  <2>1. CASE tokens' = tokens
    BY <1>2, <2>1 DEF HandlerInv, ReservationsHeld
  <2>2. ASSUME NEW t \in Held \ tokens, tokens' = tokens \cup {t} PROVE ReservationsHeld'
    <3>1. PICK n : n = [token |-> t, item |-> i]
      OBVIOUS
    <3>2. open' = open \cup {n} /\ n.token = t /\ n.item = i
      BY <1>2, <2>2, <3>1
    <3>3. \A m \in open : m.token # t
      BY <2>2 DEF HandlerInv, ReservationsHeld
    <3>4. \A a \in published : origin[a] # t
      BY <2>2 DEF HandlerInv, ReservationsHeld
    <3> QED
      BY <1>2, <2>2, <3>2, <3>3, <3>4 DEF HandlerInv, ReservationsHeld
  <2> QED
    BY <1>1, <2>1, <2>2
<1> QED
  BY <1>1, <1>2, <1>3, <1>4, NoRequestStep

LEMMA InvCandidates ==
    ASSUME HandlerInv, NEW a \in Attempts,
           \/ \E n \in open : Candidate(n, a) \/ \E x \in Aliases : BindCandidate(n, a, x)
           \/ FailCandidate(a)
    PROVE  HandlerInv'
<1>1. /\ UNCHANGED slotVars /\ requests' = requests /\ open' = open /\ published' = published
  BY DEF Candidate, BindCandidate, FailCandidate, negotiationVars
<1>2. /\ switches' = switches /\ tokens' = tokens /\ SlotShape' /\ Calm
  BY <1>1 DEF slotVars, HandlerInv, SlotShape, Calm, LiveKept
<1>3. /\ StoreShape' /\ StoreMoves /\ \A b \in Attempts : Stopped(b)' => Stopped(b)
  <2>1. Store!Reserve(a) \/ (\E x \in Aliases : Store!BindAlias(a, x)) \/ Store!Finish(a, "failed")
    BY DEF Candidate, BindCandidate, FailCandidate
  <2>2. StoreShape' /\ \A b \in Attempts : Mild(entries[b], entries'[b])
    BY <2>1, ReserveFrame, WriteFrame DEF HandlerInv
  <2> QED
    BY <2>2, MildMoves
<1>4. CASE origin' = origin
  BY <1>1, <1>2, <1>3, <1>4, ReservationsSame, NoRequestStep DEF HandlerInv, negotiationVars
<1>5. ASSUME NEW n \in open, Store!Reserve(a), entries'[a].state = "pending",
             origin' = [origin EXCEPT ![a] = n.token]
      PROVE  HandlerInv'
  <2>1. entries[a].state = "unused"
    BY <1>5, ReserveFrame DEF HandlerInv
  <2>2. /\ n.token \in Held /\ n.token \in tokens
        /\ origin \in [Attempts -> Held \cup {NoToken}] /\ origin[a] = NoToken
    BY <2>1 DEF HandlerInv, ReservationsHeld, SlotShape
  <2>3. NoToken \notin tokens
    BY DEF HandlerInv, SlotShape, Held, NoToken
  <2>4. a \notin published
    BY <2>2, <2>3 DEF HandlerInv, ReservationsHeld
  <2>5. /\ origin' \in [Attempts -> Held \cup {NoToken}]
        /\ \A b \in Attempts \ {a} : origin'[b] = origin[b]
    BY <1>5, <2>2
  <2>6. \A b \in Attempts : origin'[b] # NoToken => entries'[b].state # "unused"
    BY <1>3, <1>5, <2>5 DEF HandlerInv, ReservationsHeld, StoreMoves
  <2>7. ReservationsHeld'
    BY <1>1, <1>2, <2>4, <2>5, <2>6 DEF HandlerInv, ReservationsHeld
  <2> QED
    BY <1>1, <1>2, <1>3, <2>7, NoRequestStep
<1> QED
  BY <1>4, <1>5 DEF Candidate, BindCandidate, FailCandidate, negotiationVars

LEMMA InvSettle ==
    ASSUME HandlerInv, NEW n \in open, BindResponse(n) \/ Commit(n) \/ Abort(n)
    PROVE  HandlerInv'
<1>1. /\ requests' = requests /\ origin' = origin
      /\ entries' = entries /\ activationSequence' = activationSequence
      /\ n.token \in tokens /\ published \subseteq published'
  BY DEF BindResponse, Commit, Abort, storeVars, negotiationVars, HandlerInv, ReservationsHeld
<1>2. StoreShape' /\ StoreMoves /\ \A b \in Attempts : Stopped(b)' => Stopped(b)
  BY <1>1, SameMoves DEF HandlerInv, StoreShape
<1>3. CASE BindResponse(n)
  <2>1. SlotShape' /\ switches' = switches /\ Calm /\ tokens' = tokens
    BY <1>1, <1>3, TokenFrame DEF HandlerInv, BindResponse, Calm, Slots!BindReservationPlaySession
  <2>2. ReservationsHeld'
    BY <1>2, <1>3, <2>1, ReservationsSame DEF HandlerInv, BindResponse
  <2> QED
    BY <1>1, <1>2, <2>1, <2>2, NoRequestStep
<1>4. CASE Commit(n)
  <2>1. /\ switches' = switches /\ tokens' = tokens /\ SlotShape' /\ Calm
    BY <1>4 DEF Commit, slotVars, HandlerInv, SlotShape, Calm, LiveKept
  <2>2. PICK used : /\ used = {a \in Attempts : origin[a] = n.token /\ entries[a].state = "pending"}
                    /\ published' = published \cup used /\ open' = open \ {n}
    BY <1>4 DEF Commit
  <2>3. \A m \in open \ {n} : m.token # n.token
    BY DEF HandlerInv, ReservationsHeld
  <2>4. ReservationsHeld'
    BY <1>1, <2>1, <2>2, <2>3 DEF HandlerInv, ReservationsHeld
  <2> QED
    BY <1>1, <1>2, <2>1, <2>4, NoRequestStep
<1>5. CASE Abort(n)
  <2>1. /\ SlotShape' /\ switches' = switches /\ Calm
        /\ tokens' = tokens \ {n.token} /\ open' = open \ {n} /\ published' = published
    BY <1>1, <1>5, TokenFrame DEF HandlerInv, Abort, Calm, Slots!ReleaseReservation
  <2>2. ReservationsHeld'
    BY <1>1, <2>1 DEF HandlerInv, ReservationsHeld
  <2> QED
    BY <1>1, <1>2, <2>1, <2>2, NoRequestStep
<1> QED
  BY <1>3, <1>4, <1>5

LEMMA InvTime ==
    ASSUME HandlerInv, Tick \/ Janitor \/ Prune
    PROVE  HandlerInv'
<1>1. UNCHANGED <<negotiationVars, requests>>
  BY DEF Tick, Janitor, Prune
<1>2. SlotShape' /\ switches' = switches /\ tokens' = tokens /\ Calm
  <2>1. CASE UNCHANGED slotVars
    BY <2>1 DEF slotVars, HandlerInv, SlotShape, Calm, LiveKept
  <2>2. CASE Slots!Tick \/ Slots!Cleanup
    BY <2>2, LeaveFrame DEF HandlerInv, Calm, Slots!Tick, Slots!Cleanup
  <2> QED
    BY <2>1, <2>2 DEF Tick, Janitor, Prune
<1>3. StoreShape' /\ StoreMoves /\ \A b \in Attempts : Stopped(b)' => Stopped(b)
  <2>1. CASE UNCHANGED storeVars
    BY <2>1, SameMoves DEF storeVars, HandlerInv, StoreShape
  <2>2. CASE Store!Tick \/ Store!Cleanup
    BY <2>2, QuietFrame, MildMoves DEF HandlerInv
  <2> QED
    BY <2>1, <2>2 DEF Tick, Janitor, Prune
<1>4. ReservationsHeld'
  BY <1>1, <1>2, <1>3, ReservationsSame DEF HandlerInv
<1> QED
  BY <1>1, <1>2, <1>3, <1>4, NoRequestStep DEF negotiationVars

LEMMA Unmoved ==
    ASSUME HandlerInv, UNCHANGED vars
    PROVE  HandlerInv'
<1>1. UNCHANGED <<streams, nextVersion, tokens, switches, entries, activationSequence>>
  BY DEF vars, slotVars, storeVars
<1>2. UNCHANGED <<open, origin, published, requests>>
  BY DEF vars, negotiationVars
<1>3. StoreShape' /\ StoreMoves /\ \A b \in Attempts : Stopped(b)' => Stopped(b)
  BY <1>1, SameMoves DEF HandlerInv, StoreShape
<1>4. SlotShape' /\ Calm
  BY <1>1 DEF HandlerInv, SlotShape, Calm, LiveKept
<1>5. ReservationsHeld'
  BY <1>1, <1>2 DEF HandlerInv, ReservationsHeld
<1> QED
  BY <1>1, <1>2, <1>3, <1>4, <1>5, NoRequestStep

LEMMA HandlerInit == Init => HandlerInv
<1> SUFFICES ASSUME Init PROVE HandlerInv
  OBVIOUS
<1>1. SlotShape
  BY NoUnitFits DEF Init, Slots!Init, SlotShape, UnitFits
<1>2. \A k \in Slots!Key : ~Slots!LiveClaim(streams[k])
  BY NoUnitFits DEF Init, Slots!Init
<1>3. StoreShape /\ \A a \in Attempts : entries[a].state = "unused"
  <2>1. ASSUME NEW u \in Users, NEW s \in Servers, NEW i \in Items
        PROVE  /\ [Store!Fresh(u, s, i) EXCEPT !.state = "unused"] \in Binding
               /\ [Store!Fresh(u, s, i) EXCEPT !.state = "unused"].state = "unused"
    BY StatesAre DEF Store!Fresh, Binding
  <2>2. ASSUME NEW a \in Attempts
        PROVE  entries[a] \in Binding /\ entries[a].state = "unused"
    <3>1. PICK u \in Users, s \in Servers, i \in Items :
              entries[a] = [Store!Fresh(u, s, i) EXCEPT !.state = "unused"]
      BY DEF Init, Store!Init
    <3> QED
      BY <2>1, <3>1
  <2>3. entries = [a \in Attempts |-> entries[a]] /\ activationSequence = 0
    BY DEF Init, Store!Init
  <2> HIDE DEF Binding
  <2> QED
    BY <2>2, <2>3 DEF StoreShape
<1>4. ReservationsHeld
  BY DEF Init, Slots!Init, ReservationsHeld
<1>5. RequestsShape /\ \A r \in Requests : requests[r].pc = "idle" /\ ~requests[r].late
  <2>1. NotServed \in ServedShape
    BY DEF NotServed, ServedShape, Programs
  <2>2. RequestFits(NotServed)
    BY <2>1 DEF NotServed, RequestFits, Steps, ActivationSteps, StopSteps
  <2> QED
    BY <2>1, <2>2 DEF Init, RequestsShape, NotServed
<1>6. SwitchesHeld /\ StopsBegun
  BY <1>5 DEF Init, Slots!Init, SwitchesHeld, At, StopsBegun, Begun
<1>7. ClaimsOwned /\ StoppedClaimsReleased
  BY <1>2, <1>3 DEF ClaimsOwned, StoppedClaimsReleased, Stopped
<1> QED
  BY <1>1, <1>3, <1>4, <1>5, <1>6, <1>7 DEF HandlerInv

LEMMA HandlerStep == HandlerInv /\ [Next]_vars => HandlerInv'
<1> SUFFICES ASSUME HandlerInv, [Next]_vars PROVE HandlerInv'
  OBVIOUS
<1>1. CASE PlaybackInfo
  BY <1>1, InvNegotiate, InvCandidates, InvSettle DEF PlaybackInfo
<1>2. ASSUME NEW r \in Requests, Step(r) PROVE HandlerInv'
  BY <1>2, InvDecide, InvDelivered, InvClaim, InvSwitch, InvActivate, InvEnsure,
     InvFinishLocally, InvBegin, InvStoreCalls, InvRetire, InvLeave, InvSlot DEF Step
<1>3. ASSUME NEW r \in Requests, NEW a \in Attempts, NEW op \in Ops, Admit(r, a, op)
      PROVE  HandlerInv'
  BY <1>3, InvAdmit
<1>4. CASE Tick \/ Janitor \/ Prune
  BY <1>4, InvTime
<1>5. CASE UNCHANGED vars
  BY <1>5, Unmoved
<1> QED
  BY <1>1, <1>2, <1>3, <1>4, <1>5 DEF Next

\* What the strict handlers hold, at every step they take with the limiter, the store and
\* the clock (handleStrictPlaybackInfo, withStrictPlayback).
THEOREM HandlerInvariance == Spec => []HandlerInv
BY HandlerInit, HandlerStep, PTL DEF Spec

-------------------------------------------------------------------------------
(* The theorems.                                                           *)

\* A request that still has a stop before it is still running.
LEMMA ReleaserRuns ==
    ASSUME HandlerInv, NEW r \in Requests, Releases(requests[r]), ~requests[r].late
    PROVE  requests[r].pc \in Steps
BY DEF Releases, Steps

\* However the requests of an attempt interleave with its stop, with a later
\* negotiation and with each other, the stop or the request it overtook releases
\* the capacity unit, for any number of attempts, requests, users and servers
\* (playback_session_events.go, GiveUp in playback_ingress.go).  Only a report
\* that had already passed its last check may claim the unit again.
THEOREM StoppedAttemptsHoldNothing == Spec => []StoppedAttemptHoldsNoUnit
<1>1. HandlerInv => StoppedAttemptHoldsNoUnit
  <2> SUFFICES ASSUME HandlerInv, NEW a \in Attempts,
                      entries[a].state \in {"stopping", "retired"}, Running(a) = {},
                      \A r \in Requests : requests[r].late => requests[r].attempt # a,
                      HoldsUnit(a)
               PROVE  FALSE
    BY DEF StoppedAttemptHoldsNoUnit
  <2>1. Stopped(a) /\ Claims(a)
    BY DEF Stopped, Claims, HoldsUnit
  <2>2. PICK r \in Requests : requests[r].attempt = a /\ Releases(requests[r])
    BY <2>1 DEF HandlerInv, StoppedClaimsReleased
  <2>3. ~requests[r].late
    BY <2>2
  <2> QED
    BY <2>2, <2>3, ReleaserRuns DEF Running
<1> QED
  BY <1>1, HandlerInvariance, PTL

\* What a handler hands to the components.
LEMMA Arguments ==
    ASSUME HandlerInv, NEW r \in Requests, requests[r].pc \in Steps
    PROVE  LET a == requests[r].attempt IN
           /\ a \in Attempts /\ origin[a] \in tokens
           /\ origin[a].key \in Slots!Key /\ origin[a].key[2] \in Servers
           /\ UserOf(a) \in Users /\ ServerOf(a) \in Servers /\ ItemOf(a) \in Items
           /\ KeyOf(a) \in Slots!Key
           /\ SlotIdentity(a) \in Slots!Identity
<1>1. PICK a : a = requests[r].attempt
  OBVIOUS
<1>2. a \in Attempts /\ a \in published
  BY <1>1, OpKinds
<1>3. origin[a] \in tokens /\ origin[a].key \in Slots!Key
  BY <1>2 DEF HandlerInv, ReservationsHeld, SlotShape, Held
<1>4. origin[a].key[2] \in Servers
  BY <1>3 DEF Slots!Key
<1>5. /\ UserOf(a) \in Users /\ ServerOf(a) \in Servers /\ ItemOf(a) \in Items
      /\ KeyOf(a) \in Slots!Key
  BY <1>2, MeetsOwned DEF HandlerInv
<1>6. SlotIdentity(a) \in Slots!Identity
  BY <1>2 DEF SlotIdentity, Slots!Identity, Slots!MaybePlay
<1> QED
  BY <1>1, <1>2, <1>3, <1>4, <1>5, <1>6

\* The calls a handler makes of the limiter.
LEMMA EventsAreSlotSteps ==
    ASSUME HandlerInv, NEW r \in Requests, requests[r].pc \in Steps,
           NEW op \in {"started", "progress", "stopped"},
           Slots!SessionEvent(op, KeyOf(requests[r].attempt), ItemOf(requests[r].attempt),
                              SlotIdentity(requests[r].attempt))
    PROVE  Slots!Next
BY Arguments DEF Slots!Next, Slots!MaybeItem

LEMMA RequestsUseSlots ==
    ASSUME HandlerInv, NEW r \in Requests, Step(r)
    PROVE  [Slots!Next]_slotVars
<1>1. CASE Claim(r)
  <2>1. requests[r].pc \in Steps
    BY <1>1 DEF Claim, At, Steps
  <2>2. /\ origin[requests[r].attempt] \in tokens
        /\ requests[r].attempt \in Attempts \cup {UpstreamPlay}
    BY <2>1, Arguments
  <2> QED
    BY <1>1, <2>2 DEF Claim, Slots!Next
<1>2. CASE Ensure(r)
  <2>1. requests[r].pc \in Steps
    BY <1>2 DEF Ensure, At, Steps
  <2>2. PICK a, u, s, from :
            /\ a = requests[r].attempt /\ u = UserOf(a) /\ s = ServerOf(a)
            /\ from = origin[a].key[2]
    OBVIOUS
  <2>3. /\ u \in Users /\ s \in Servers /\ from \in Servers /\ ItemOf(a) \in Items
        /\ a \in Slots!MaybePlay
    BY <2>1, <2>2, Arguments DEF Slots!MaybePlay
  <2>4. \E max \in Limits :
            Slots!EnsureStreamSlot(u, s, from, ItemOf(a), a, max) \/ Slots!RefuseStream(u, s, max)
    BY <1>2, <2>2 DEF Ensure
  <2> QED
    BY <2>3, <2>4 DEF Slots!Next
<1>3. CASE Switch(r)
  <2>1. requests[r].switch \in switches
    BY <1>3 DEF Switch, HandlerInv, SwitchesHeld
  <2> QED
    BY <1>3, <2>1 DEF Switch, Slots!Next
<1>4. CASE GiveUp(r) \/ Superseded(r)
  <2>1. requests[r].pc \in Steps
    BY <1>4 DEF GiveUp, Superseded, At, Steps
  <2> QED
    BY <1>4, <2>1, EventsAreSlotSteps DEF GiveUp, Superseded, FinishLocally, KeyOf
<1>5. CASE Slot(r)
  <2>1. requests[r].pc \in Steps /\ requests[r].pc = "slot"
    BY <1>5 DEF Slot, At, Steps
  <2>2. requests[r].op \in CleanupOps \cup Reports
    BY <2>1, OpKinds DEF RequestFits
  <2>3. PICK op : op = IF IsCleanup(r) THEN "stopped" ELSE requests[r].op
    OBVIOUS
  <2>4. op \in {"started", "progress", "stopped"}
    BY <2>2, <2>3 DEF IsCleanup, Reports
  <2> QED
    BY <1>5, <2>1, <2>3, <2>4, EventsAreSlotSteps DEF Slot, KeyOf
<1>6. CASE UNCHANGED slotVars
  BY <1>6
<1> QED
  BY <1>1, <1>2, <1>3, <1>4, <1>5, <1>6
     DEF Step, Refuse, Activate, Check, Begin, Fail, Delivered, NotDelivered, Confirm,
         Resolve, Retire, End, Leave

LEMMA StepsUseSlots == HandlerInv /\ [Next]_vars => [Slots!Next]_slotVars
<1> SUFFICES ASSUME HandlerInv, [Next]_vars PROVE [Slots!Next]_slotVars
  OBVIOUS
<1>1. ASSUME NEW u \in Users, NEW s \in Servers, NEW i \in Items, NEW max \in Limits,
             Negotiate(u, s, i, max)
      PROVE  Slots!Next
  BY <1>1 DEF Negotiate, Slots!Next
<1>2. ASSUME NEW n \in open, BindResponse(n) \/ Abort(n) PROVE Slots!Next
  <2>1. n.token \in tokens /\ UpstreamPlay \in Attempts \cup {UpstreamPlay}
    BY DEF HandlerInv, ReservationsHeld
  <2> QED
    BY <1>2, <2>1 DEF BindResponse, Abort, Slots!Next
<1>3. ASSUME NEW r \in Requests, Step(r) PROVE [Slots!Next]_slotVars
  BY <1>3, RequestsUseSlots
<1>4. CASE Tick \/ Janitor
  BY <1>4 DEF Tick, Janitor, Slots!Next
<1>5. CASE UNCHANGED slotVars
  BY <1>5
<1>6. CASE UNCHANGED vars
  BY <1>6 DEF vars
<1> QED
  BY <1>1, <1>2, <1>3, <1>4, <1>5, <1>6
     DEF Next, PlaybackInfo, Candidate, BindCandidate, FailCandidate, Commit, Admit, Prune

\* The handlers call the limiter only as its specification allows: with tokens it
\* handed out, switches it registered, and an identity of the attempt's own, so
\* what is proved of PlaybackLimiter holds under the strict handlers.
THEOREM HandlersUseSlots == Spec => UsesSlots
<1>1. Init => Slots!Init
  BY DEF Init
<1> QED
  BY <1>1, StepsUseSlots, HandlerInvariance, PTL DEF Spec, UsesSlots

LEMMA StepsUseStore == HandlerInv /\ [Next]_vars => [Store!Next]_storeVars
<1> SUFFICES ASSUME HandlerInv, [Next]_vars PROVE [Store!Next]_storeVars
  OBVIOUS
<1>1. ASSUME NEW r \in Requests, Step(r) PROVE [Store!Next]_storeVars
  <2>1. requests[r].pc \in Steps /\ requests[r].attempt \in Attempts /\ requests[r].op \in Ops
    <3>1. requests[r].pc \in Steps
      BY <1>1 DEF Step, Refuse, Claim, Ensure, Switch, Activate, GiveUp, Check, Begin,
                  Superseded, Fail, Delivered, NotDelivered, Confirm, Resolve, Slot,
                  Retire, End, Leave, At, Steps
    <3> QED
      BY <3>1, OpKinds DEF RequestFits
  <2>2. requests[r].pc \in StopSteps => requests[r].op \in CleanupOps \cap Ops
    BY <2>1, OpKinds DEF RequestFits
  <2>3. CASE Activate(r)
    BY <2>1, <2>3 DEF Activate, Store!Next
  <2>4. CASE Begin(r) \/ Confirm(r) \/ End(r)
    <3>1. requests[r].op \in CleanupOps \cap Ops
      BY <2>2, <2>4 DEF Begin, Confirm, End, At, StopSteps
    <3> QED
      BY <2>1, <2>4, <3>1 DEF Begin, Confirm, End, Store!Next
  <2>5. CASE Fail(r) \/ Retire(r)
    <3>1. "failed" \in Store!Terminal /\ "retired" \in Store!Terminal
      BY DEF Store!Terminal
    <3> QED
      BY <2>1, <2>5, <3>1 DEF Fail, Retire, Store!Next
  <2>6. CASE Leave(r)
    BY <2>1, <2>6 DEF Leave, Store!Next
  <2>7. CASE UNCHANGED storeVars
    BY <2>7
  <2> QED
    BY <1>1, <2>3, <2>4, <2>5, <2>6, <2>7
       DEF Step, Refuse, Claim, Ensure, Switch, GiveUp, Check, Superseded,
           Delivered, NotDelivered, Resolve, Slot
<1>2. ASSUME NEW a \in Attempts, NEW n \in open,
             Candidate(n, a) \/ \E x \in Aliases : BindCandidate(n, a, x)
      PROVE  Store!Next
  BY <1>2 DEF Candidate, BindCandidate, Store!Next
<1>3. ASSUME NEW a \in Attempts, FailCandidate(a) PROVE Store!Next
  <2>1. "failed" \in Store!Terminal
    BY DEF Store!Terminal
  <2> QED
    BY <1>3, <2>1 DEF FailCandidate, Store!Next
<1>4. ASSUME NEW r \in Requests, NEW a \in Attempts, NEW op \in Ops, Admit(r, a, op)
      PROVE  Store!Next
  BY <1>4 DEF Admit, Store!Next
<1>5. CASE Tick \/ Prune
  BY <1>5 DEF Tick, Prune, Store!Next
<1>6. CASE UNCHANGED storeVars
  BY <1>6
<1>7. CASE UNCHANGED vars
  BY <1>7 DEF vars
<1> QED
  BY <1>1, <1>2, <1>3, <1>4, <1>5, <1>6, <1>7
     DEF Next, PlaybackInfo, Negotiate, BindResponse, Commit, Abort, Janitor

\* The handlers call the binding store only as its specification allows, the claims
\* of cleanup operations included, so what is proved of PlaybackIdentityStore holds
\* under the strict handlers.
THEOREM HandlersUseStore == Spec => UsesStore
<1>1. Init => Store!Init
  BY DEF Init
<1> QED
  BY <1>1, StepsUseStore, HandlerInvariance, PTL DEF Spec, UsesStore

-------------------------------------------------------------------------------
(* Every stop is sent once, and to no newer attempt.                       *)

\* The claim of an operation keeps its binding: a request that holds a lease
\* made it, and admission is closed.
Drains(e) == e.inFlight # {} => e.leases > 0 /\ e.state \in Left \ {"gone"}
Sends(q) == q.pc = "send" /\ q.op \in CleanupOps

\* The request that began an operation holds its claim until it ends it, it has
\* not sent the operation before, and what it confirmed stays confirmed.
ClaimHeld(q, e) ==
    /\ Begun(q) => q.op \in e.inFlight
    /\ Sends(q) => q.op \notin e.confirmed
    /\ q.acked /\ q.pc # "confirm" /\ Store!Found(e) => q.op \in e.confirmed
AfterAnswer == {"confirm", "slot", "retire", "end", "leave", "done"}
OperationsOwned ==
    /\ \A r \in Requests :
          requests[r].attempt \in Attempts =>
             ClaimHeld(requests[r], entries[requests[r].attempt])
    /\ \A r \in Requests :
          requests[r].acked =>
             /\ requests[r].pc \in AfterAnswer
             /\ requests[r].attempt \in published
    /\ \A r, q \in Requests :
          Begun(requests[r]) /\ Begun(requests[q]) /\ SameOperation(r, q) => r = q

SendInv ==
    /\ \A a \in Attempts : Drains(entries[a])
    /\ Store!CleanupSparesNewerAttempt
    /\ OperationsOwned

LEMMA SameCardinality == \A S : Store!Cardinality(S) = Cardinality(S)
BY DEF Store!Cardinality, Cardinality

LEMMA NoCleanups == \A S \in SUBSET CleanupOps : Cardinality(S) \in Nat /\ (S # {} => Cardinality(S) > 0)
<1>1. IsFiniteSet(CleanupOps)
  <2>1. IsFiniteSet({}) /\ IsFiniteSet({} \cup {"Stopped"})
    BY FS_EmptySet, FS_AddElement
  <2>2. IsFiniteSet(({} \cup {"Stopped"}) \cup {"ActiveEncodings"})
    BY <2>1, FS_AddElement
  <2>3. IsFiniteSet((({} \cup {"Stopped"}) \cup {"ActiveEncodings"}) \cup {"PlayingItems"})
    BY <2>2, FS_AddElement
  <2>4. CleanupOps = (({} \cup {"Stopped"}) \cup {"ActiveEncodings"}) \cup {"PlayingItems"}
    BY DEF CleanupOps
  <2> QED
    BY <2>3, <2>4
<1>2. \A S \in SUBSET CleanupOps : IsFiniteSet(S)
  BY <1>1, FS_Subset
<1> QED
  BY <1>2, FS_CardinalityType, FS_EmptySet

\* A rewrite that neither claims nor ends an operation, and confirms none: what is
\* not found is never found again.
KeepsClaims(e, f) ==
    /\ f.inFlight = e.inFlight /\ Drains(f)
    /\ f.confirmed \subseteq e.confirmed
    /\ e.state # "unused" /\ Store!Found(f) => Store!Found(e) /\ f.confirmed = e.confirmed
\* A rewrite after which the binding conflicts with nothing, or with what it did.
Spares(e, f) ==
    \/ f.inFlight = {} /\ f.state # "active"
    \/ /\ f.account = e.account /\ f.item = e.item /\ f.alias = e.alias /\ f.seq = e.seq
       /\ f.state = "active" /\ ~Store!Expired(f) => e.state = "active" /\ ~Store!Expired(e)
Unharmed(e, f) == KeepsClaims(e, f) /\ Spares(e, f)

LEMMA UnharmedSame == \A e : Drains(e) => Unharmed(e, e)
BY DEF Unharmed, KeepsClaims, Spares

\* Which states a binding can be found in.
LEMMA FoundStates ==
    \A e : Store!Found(e) => e.state \in {"pending", "active", "stopping", "retired", "failed"}
BY DEF Store!Found, Store!Present, Store!Stored, Store!Workable, Store!Terminal

\* A binding that is found is rewritten: its lease count grows or stays, its state
\* stays or is closed.
LEMMA FoundRewrites ==
    ASSUME NEW e \in Binding, Drains(e), Store!Found(e), NEW f \in Binding,
           f.inFlight = e.inFlight, f.confirmed = e.confirmed, f.leases >= e.leases,
           f.state = e.state \/ f.state \in {"stopping", "retired", "failed"}
    PROVE  /\ KeepsClaims(e, f)
           /\ f.account = e.account /\ f.item = e.item /\ f.alias = e.alias /\ f.seq = e.seq
              => Unharmed(e, f)
<1>1. e.leases \in Int /\ f.leases \in Int
  BY DEF Binding
<1>2. Drains(f)
  BY <1>1 DEF Drains, Left
<1>3. KeepsClaims(e, f)
  BY <1>2 DEF KeepsClaims
<1>4. ~Store!Expired(e)
  BY DEF Store!Found
<1> QED
  BY <1>3, <1>4 DEF Unharmed, Spares

LEMMA RemovedUnharmed ==
    ASSUME NEW e \in Binding, Drains(e), e.leases = 0
    PROVE  Unharmed(e, Store!Removed(e))
<1>1. PICK f : f = Store!Removed(e)
  OBVIOUS
<1>2. f.state = "gone" /\ f.inFlight = {} /\ f.confirmed = {}
  BY <1>1 DEF Store!Removed, Binding
<1>3. e.inFlight = {}
  BY DEF Drains
<1>4. ~Store!Found(f)
  BY <1>2, FoundStates
<1> QED
  BY <1>1, <1>2, <1>3, <1>4 DEF Unharmed, KeepsClaims, Spares, Drains

\* Pruning harms nothing: what has an operation in flight is leased.
LEMMA PruneUnharmed ==
    ASSUME NEW es \in [Attempts -> Binding], \A b \in Attempts : Drains(es[b])
    PROVE  \A b \in Attempts : Unharmed(es[b], Store!Pruned(es)[b])
<1> SUFFICES ASSUME NEW b \in Attempts PROVE Unharmed(es[b], Store!Pruned(es)[b])
  OBVIOUS
<1>1. Store!Pruned(es)[b] = IF Store!Pruneable(es[b]) THEN Store!Removed(es[b]) ELSE es[b]
  BY DEF Store!Pruned
<1>2. Store!Pruneable(es[b]) => es[b].leases = 0
  BY DEF Store!Pruneable
<1> QED
  BY <1>1, <1>2, RemovedUnharmed, UnharmedSame

LEMMA PutUnharmed ==
    ASSUME StoreShape, \A b \in Attempts : Drains(entries[b]), NEW a \in Attempts, NEW f,
           Store!PruneAndPut(a, f)
    PROVE  /\ entries'[a] = f
           /\ \A b \in Attempts \ {a} : Unharmed(entries[b], entries'[b])
<1>1. entries \in [Attempts -> Binding] /\ Store!Pruned(entries) \in [Attempts -> Binding]
  BY PruneMild DEF StoreShape
<1>2. entries' = [Store!Pruned(entries) EXCEPT ![a] = f]
  BY DEF Store!PruneAndPut
<1> HIDE DEF Binding
<1>3. entries'[a] = f /\ \A b \in Attempts \ {a} : entries'[b] = Store!Pruned(entries)[b]
  BY <1>1, <1>2
<1> QED
  BY <1>1, <1>3, PruneUnharmed

\* Every call of the store but an activation and the three about an operation.
Ordinary ==
    \/ \E a \in Attempts :
          \/ Store!Reserve(a)
          \/ \E x \in Aliases : Store!BindAlias(a, x)
          \/ Store!Lease(a) \/ Store!LeaseCleanup(a)
          \/ \E st \in {"failed", "retired"} : Store!Finish(a, st)
          \/ Store!Release(a)
    \/ Store!Cleanup
    \/ Store!Tick
    \/ UNCHANGED storeVars

LEMMA OrdinaryUnharmed ==
    ASSUME StoreShape, \A b \in Attempts : Drains(entries[b]), Ordinary
    PROVE  \A b \in Attempts : Unharmed(entries[b], entries'[b])
<1>1. \A b \in Attempts :
          entries[b] \in Binding /\ Drains(entries[b]) /\ Unharmed(entries[b], entries[b])
  BY UnharmedSame DEF StoreShape
<1>2. /\ entries \in [Attempts -> Binding] /\ Store!Pruned(entries) \in [Attempts -> Binding]
      /\ \A b \in Attempts : Unharmed(entries[b], Store!Pruned(entries)[b])
  BY PruneUnharmed, PruneMild DEF StoreShape
<1>3. ASSUME NEW a \in Attempts, Store!Reserve(a)
      PROVE  \A b \in Attempts : Unharmed(entries[b], entries'[b])
  <2>1. PICK f : f = Store!Fresh(entries[a].user, entries[a].account, entries[a].item)
    OBVIOUS
  <2>2. f.inFlight = {} /\ f.confirmed = {} /\ f.state = "pending"
    BY <2>1 DEF Store!Fresh
  <2>3. entries[a].state = "unused"
    BY <1>3 DEF Store!Reserve
  <2>4. entries[a].inFlight = {}
    BY <2>3 DEF Drains, Left
  <2>5. Unharmed(entries[a], f)
    BY <2>2, <2>3, <2>4 DEF Unharmed, KeepsClaims, Spares, Drains
  <2>6. entries' = Store!Pruned(entries) \/ entries' = [Store!Pruned(entries) EXCEPT ![a] = f]
    BY <1>3, <2>1 DEF Store!Reserve
  <2> HIDE DEF Binding
  <2> QED
    BY <1>2, <2>5, <2>6
<1>4. ASSUME NEW a \in Attempts, NEW x \in Aliases, Store!BindAlias(a, x)
      PROVE  \A b \in Attempts : Unharmed(entries[b], entries'[b])
  <2>1. PICK e : e = entries[a]
    OBVIOUS
  <2>2. e \in Binding /\ Drains(e) /\ e.state = "pending" /\ Store!Found(e)
    BY <1>1, <1>4, <2>1 DEF Store!BindAlias
  <2>3. PICK f : f = [e EXCEPT !.alias = x]
    OBVIOUS
  <2>4. /\ f \in Binding /\ f.state = "pending" /\ f.inFlight = e.inFlight
        /\ f.confirmed = e.confirmed /\ f.leases = e.leases /\ e.leases \in Int
    BY <2>2, <2>3 DEF Binding
  <2>5. e.inFlight = {}
    BY <2>2 DEF Drains, Left
  <2>6. KeepsClaims(e, f)
    BY <2>2, <2>4, FoundRewrites
  <2>7. Unharmed(e, f)
    BY <2>4, <2>5, <2>6 DEF Unharmed, Spares
  <2>8. Store!PruneAndPut(a, f)
    BY <1>4, <2>1, <2>3 DEF Store!BindAlias
  <2> QED
    BY <2>1, <2>7, <2>8, PutUnharmed
<1>5. ASSUME NEW a \in Attempts, Store!Lease(a) \/ Store!LeaseCleanup(a)
      PROVE  \A b \in Attempts : Unharmed(entries[b], entries'[b])
  <2>1. PICK e : e = entries[a]
    OBVIOUS
  <2>2. e \in Binding /\ Drains(e) /\ Store!Found(e)
    BY <1>1, <1>5, <2>1 DEF Store!Lease, Store!LeaseCleanup
  <2>3. PICK d : /\ d \in {e, Store!Used(e)}
                 /\ Store!PruneAndPut(a, [d EXCEPT !.leases = @ + 1])
    BY <1>5, <2>1 DEF Store!Lease, Store!LeaseCleanup
  <2>4. /\ d \in Binding /\ d.state = e.state /\ d.inFlight = e.inFlight
        /\ d.confirmed = e.confirmed /\ d.leases = e.leases /\ d.account = e.account
        /\ d.item = e.item /\ d.alias = e.alias /\ d.seq = e.seq
    BY <2>2, <2>3, BindingWrites DEF Store!Used, Binding
  <2>5. PICK f : f = [d EXCEPT !.leases = @ + 1]
    OBVIOUS
  <2>6. /\ f \in Binding /\ f.state = e.state /\ f.inFlight = e.inFlight
        /\ f.confirmed = e.confirmed /\ f.leases = e.leases + 1 /\ f.account = e.account
        /\ f.item = e.item /\ f.alias = e.alias /\ f.seq = e.seq /\ e.leases \in Int
    BY <2>2, <2>4, <2>5 DEF Binding
  <2>7. Unharmed(e, f)
    BY <2>2, <2>6, FoundRewrites
  <2> QED
    BY <2>1, <2>3, <2>5, <2>7, PutUnharmed
<1>6. ASSUME NEW a \in Attempts, NEW st \in {"failed", "retired"}, Store!Finish(a, st)
      PROVE  \A b \in Attempts : Unharmed(entries[b], entries'[b])
  <2>1. PICK e : e = entries[a]
    OBVIOUS
  <2>2. e \in Binding /\ Drains(e) /\ Store!Found(e)
    BY <1>1, <1>6, <2>1 DEF Store!Finish
  <2>3. PICK f : f = Store!Finished(e, st)
    OBVIOUS
  <2>4. f = e \/ f = Store!Enter(e, st)
    BY <2>3 DEF Store!Finished
  <2>5. /\ f \in Binding /\ f.inFlight = e.inFlight /\ f.confirmed = e.confirmed
        /\ f.leases = e.leases /\ f.account = e.account /\ e.leases \in Int
        /\ f.item = e.item /\ f.alias = e.alias /\ f.seq = e.seq
        /\ f.state = e.state \/ f.state \in {"stopping", "retired", "failed"}
    <3>1. CASE f = e
      BY <2>2, <3>1 DEF Binding
    <3>2. CASE f = Store!Enter(e, st)
      <4>1. st \in Store!States
        BY StatesAre
      <4>2. f \in Binding /\ f.state = st
        BY <2>2, <3>2, <4>1, BindingWrites
      <4>3. f = [e EXCEPT !.state = st, !.age = 0] /\ e.leases \in Int
        BY <2>2, <3>2 DEF Store!Enter, Binding
      <4> QED
        BY <2>2, <4>2, <4>3 DEF Binding
    <3> QED
      BY <2>4, <3>1, <3>2
  <2>6. Unharmed(e, f)
    BY <2>2, <2>5, FoundRewrites
  <2>7. Store!PruneAndPut(a, f)
    BY <1>6, <2>1, <2>3 DEF Store!Finish
  <2> QED
    BY <2>1, <2>6, <2>7, PutUnharmed
<1>7. ASSUME NEW a \in Attempts, Store!Release(a)
      PROVE  \A b \in Attempts : Unharmed(entries[b], entries'[b])
  <2>1. PICK e : e = entries[a]
    OBVIOUS
  <2>2. PICK f : f = [e EXCEPT !.leases = @ - 1]
    OBVIOUS
  <2>3. /\ f \in Binding /\ f.state = e.state /\ f.inFlight = e.inFlight /\ f.age = e.age
        /\ f.confirmed = e.confirmed /\ f.leases = e.leases - 1 /\ f.account = e.account
        /\ f.item = e.item /\ f.alias = e.alias /\ f.seq = e.seq /\ e.leases \in Int
        /\ e.inFlight \in SUBSET CleanupOps
    BY <1>1, <2>1, <2>2 DEF Binding
  <2>4. Cardinality(e.inFlight) < e.leases
    <3>1. Cardinality(entries[a].inFlight) < entries[a].leases
      BY <1>7, SameCardinality DEF Store!Release
    <3> QED
      BY <2>1, <3>1
  <2>5. Drains(f) /\ Drains(e)
    BY <2>1, <2>3, <2>4, NoCleanups DEF Drains
  <2>6. (Store!Found(f) <=> Store!Found(e)) /\ (Store!Expired(f) <=> Store!Expired(e))
    BY <2>3 DEF Store!Found, Store!Present, Store!Expired, Store!Deadline
  <2>7. PICK es : es = [entries EXCEPT ![a] = f]
    OBVIOUS
  <2>8. es[a] = f /\ es \in [Attempts -> Binding] /\ \A b \in Attempts \ {a} : es[b] = entries[b]
    <3> HIDE DEF Binding
    <3> QED
      BY <1>2, <2>3, <2>7
  <2>9. \A b \in Attempts : Unharmed(es[b], Store!Pruned(es)[b])
    BY <2>5, <2>8, PruneUnharmed
  <2>10. entries' = Store!Pruned(es)
    BY <1>7, <2>1, <2>2, <2>7 DEF Store!Release
  <2>11. Unharmed(e, entries'[a])
    BY <2>3, <2>6, <2>8, <2>9, <2>10 DEF Unharmed, KeepsClaims, Spares
  <2> QED
    BY <2>1, <2>8, <2>9, <2>10, <2>11
<1>8. CASE Store!Cleanup
  BY <1>2, <1>8 DEF Store!Cleanup
<1>9. CASE Store!Tick
  <2> SUFFICES ASSUME NEW b \in Attempts PROVE Unharmed(entries[b], entries'[b])
    OBVIOUS
  <2>1. PICK e : e = entries[b]
    OBVIOUS
  <2>2. entries'[b] = IF Store!Found(e) THEN [e EXCEPT !.age = @ + 1] ELSE e
    BY <1>9, <2>1 DEF Store!Tick
  <2>3. CASE Store!Found(e)
    <3>1. PICK f : f = [e EXCEPT !.age = @ + 1]
      OBVIOUS
    <3>2. /\ f \in Binding /\ f.state = e.state /\ f.inFlight = e.inFlight
          /\ f.confirmed = e.confirmed /\ f.leases = e.leases /\ f.account = e.account
          /\ f.item = e.item /\ f.alias = e.alias /\ f.seq = e.seq /\ e.leases \in Int
      BY <1>1, <2>1, <3>1 DEF Binding
    <3>3. f.leases >= e.leases
      BY <3>2
    <3>4. Unharmed(e, f)
      BY <1>1, <2>1, <2>3, <3>2, <3>3, FoundRewrites
    <3> QED
      BY <2>1, <2>2, <2>3, <3>1, <3>4
  <2> QED
    BY <1>1, <2>1, <2>2, <2>3
<1>10. CASE UNCHANGED storeVars
  BY <1>1, <1>10 DEF storeVars
<1> QED
  BY <1>3, <1>4, <1>5, <1>6, <1>7, <1>8, <1>9, <1>10 DEF Ordinary

\* What the store's own invariant says, kept by unharmful calls.
LEMMA SparesKept ==
    ASSUME Store!CleanupSparesNewerAttempt, \A a \in Attempts : Unharmed(entries[a], entries'[a])
    PROVE  Store!CleanupSparesNewerAttempt'
<1> SUFFICES ASSUME NEW a \in Attempts, NEW b \in Attempts, NEW op \in entries'[a].inFlight,
                    entries'[b].state = "active", ~Store!Expired(entries'[b]),
                    Store!RemoteConflict(entries'[b], entries'[a], op)
             PROVE  entries'[b].seq <= entries'[a].seq
  BY DEF Store!CleanupSparesNewerAttempt
<1>1. /\ op \in entries[a].inFlight
      /\ entries'[a].account = entries[a].account /\ entries'[a].item = entries[a].item
      /\ entries'[a].alias = entries[a].alias /\ entries'[a].seq = entries[a].seq
  BY DEF Unharmed, KeepsClaims, Spares
<1>2. /\ entries[b].state = "active" /\ ~Store!Expired(entries[b])
      /\ entries'[b].account = entries[b].account /\ entries'[b].item = entries[b].item
      /\ entries'[b].alias = entries[b].alias /\ entries'[b].seq = entries[b].seq
  BY DEF Unharmed, KeepsClaims, Spares
<1>3. Store!RemoteConflict(entries[b], entries[a], op)
  BY <1>1, <1>2 DEF Store!RemoteConflict
<1> QED
  BY <1>1, <1>2, <1>3 DEF Store!CleanupSparesNewerAttempt

\* An activation is refused while an operation in flight could still hit the attempt.
LEMMA ActivationSpares ==
    ASSUME StoreShape, \A b \in Attempts : Drains(entries[b]), Store!CleanupSparesNewerAttempt,
           NEW a \in Attempts, Store!Activate(a)
    PROVE  /\ \A b \in Attempts : KeepsClaims(entries[b], entries'[b])
           /\ Store!CleanupSparesNewerAttempt'
<1>1. PICK e : e = entries[a]
  OBVIOUS
<1>2. e \in Binding /\ Drains(e) /\ Store!Found(e) /\ Unharmed(e, e)
  BY <1>1, UnharmedSame DEF StoreShape, Store!Activate
<1>3. CASE Store!PruneAndPut(a, e)
  <2>1. \A b \in Attempts : Unharmed(entries[b], entries'[b])
    BY <1>1, <1>2, <1>3, PutUnharmed
  <2> QED
    BY <2>1, SparesKept DEF Unharmed
<1>4. CASE /\ e.state = "pending" /\ ~Store!AliasCleanupInFlight(Store!Pruned(entries), a)
           /\ Store!PruneAndPut(a, [Store!Enter(e, "active") EXCEPT !.seq = activationSequence + 1])
  <2>1. PICK d : d = Store!Enter(e, "active")
    OBVIOUS
  <2>2. PICK f : f = [d EXCEPT !.seq = activationSequence + 1]
    OBVIOUS
  <2>3. /\ f.state = "active" /\ f.inFlight = e.inFlight /\ f.confirmed = e.confirmed
        /\ f.account = e.account /\ f.item = e.item /\ f.alias = e.alias
    BY <1>2, <2>1, <2>2 DEF Store!Enter, Binding
  <2>4. e.inFlight = {}
    BY <1>2, <1>4 DEF Drains, Left
  <2>5. KeepsClaims(e, f)
    BY <1>2, <2>3, <2>4 DEF KeepsClaims, Drains
  <2>6. /\ entries'[a] = f
        /\ \A b \in Attempts \ {a} : Unharmed(entries[b], entries'[b])
    BY <1>4, <2>1, <2>2, PutUnharmed
  <2>7. \A b \in Attempts : KeepsClaims(entries[b], entries'[b])
    BY <1>1, <2>5, <2>6 DEF Unharmed
  <2>8. Store!CleanupSparesNewerAttempt'
    <3> SUFFICES ASSUME NEW c \in Attempts, NEW b \in Attempts, NEW op \in entries'[c].inFlight,
                        entries'[b].state = "active", ~Store!Expired(entries'[b]),
                        Store!RemoteConflict(entries'[b], entries'[c], op)
                 PROVE  entries'[b].seq <= entries'[c].seq
      BY DEF Store!CleanupSparesNewerAttempt
    <3>1. c # a
      BY <2>3, <2>4, <2>6
    <3>2. /\ op \in entries[c].inFlight
          /\ entries'[c].account = entries[c].account /\ entries'[c].item = entries[c].item
          /\ entries'[c].alias = entries[c].alias /\ entries'[c].seq = entries[c].seq
      BY <2>6, <3>1 DEF Unharmed, KeepsClaims, Spares
    <3>3. b # a
      <4> SUFFICES ASSUME b = a PROVE FALSE
        OBVIOUS
      <4>1. Store!Pruned(entries)[a] = e
        BY <1>1, <1>2 DEF Store!Pruned, Store!Pruneable, Store!Found
      <4>2. Store!Pruned(entries)[c] = entries'[c]
        <5>1. entries' = [Store!Pruned(entries) EXCEPT ![a] = f]
          BY <1>4, <2>1, <2>2 DEF Store!PruneAndPut
        <5> QED
          BY <3>1, <5>1 DEF Store!Pruned
      <4>3. Store!RemoteConflict(Store!Pruned(entries)[c], Store!Pruned(entries)[a], op)
        BY <2>3, <2>6, <4>1, <4>2 DEF Store!RemoteConflict
      <4> QED
        BY <1>4, <3>1, <4>2, <4>3 DEF Store!AliasCleanupInFlight
    <3>4. /\ entries[b].state = "active" /\ ~Store!Expired(entries[b])
          /\ entries'[b].account = entries[b].account /\ entries'[b].item = entries[b].item
          /\ entries'[b].alias = entries[b].alias /\ entries'[b].seq = entries[b].seq
      BY <2>6, <3>3 DEF Unharmed, KeepsClaims, Spares
    <3>5. Store!RemoteConflict(entries[b], entries[c], op)
      BY <3>2, <3>4 DEF Store!RemoteConflict
    <3> QED
      BY <3>2, <3>4, <3>5 DEF Store!CleanupSparesNewerAttempt
  <2> QED
    BY <2>7, <2>8
<1> QED
  BY <1>1, <1>3, <1>4 DEF Store!Activate

\* An operation is claimed only when no newer attempt would be hit.
LEMMA BeginSpares ==
    ASSUME StoreShape, \A b \in Attempts : Drains(entries[b]), Store!CleanupSparesNewerAttempt,
           NEW a \in Attempts, NEW op \in CleanupOps, Store!BeginCleanup(a, op)
    PROVE  /\ \A b \in Attempts \ {a} : entries'[b] = entries[b]
           /\ entries'[a].inFlight = entries[a].inFlight \cup {op}
           /\ op \notin entries[a].inFlight /\ op \notin entries[a].confirmed
           /\ entries'[a].confirmed = entries[a].confirmed /\ Store!Found(entries[a])
           /\ Drains(entries'[a])
           /\ Store!CleanupSparesNewerAttempt'
<1>1. PICK e : e = entries[a]
  OBVIOUS
<1>2. /\ e \in Binding /\ Drains(e) /\ Store!Found(e) /\ op \notin e.inFlight
      /\ op \notin e.confirmed /\ ~Store!NewerActiveAlias(a, op)
  BY <1>1 DEF StoreShape, Store!BeginCleanup
<1>3. Cardinality(e.inFlight) < e.leases
  <2>1. Cardinality(entries[a].inFlight) < entries[a].leases
    BY SameCardinality DEF Store!BeginCleanup
  <2> QED
    BY <1>1, <2>1
<1>4. PICK d : d = Store!Drained(e)
  OBVIOUS
<1>5. /\ d \in Binding /\ d.inFlight = e.inFlight /\ d.confirmed = e.confirmed
      /\ d.leases = e.leases /\ d.account = e.account /\ d.item = e.item
      /\ d.alias = e.alias /\ d.seq = e.seq
      /\ d.state \in {"stopping", "retired", "failed"}
  <2>1. CASE e.state \in Store!Workable
    <3>1. d = Store!Enter(e, "stopping")
      BY <1>4, <2>1 DEF Store!Drained
    <3>2. "stopping" \in Store!States
      BY StatesAre
    <3> QED
      BY <1>2, <3>1, <3>2, BindingWrites DEF Store!Enter, Binding
  <2>2. CASE e.state \notin Store!Workable
    BY <1>2, <1>4, <2>2, FoundStates DEF Store!Drained, Store!Workable, Binding
  <2> QED
    BY <2>1, <2>2
<1>6. PICK f : f = [d EXCEPT !.inFlight = @ \cup {op}]
  OBVIOUS
<1>7. /\ f.inFlight = e.inFlight \cup {op} /\ f.confirmed = e.confirmed
      /\ f.leases = e.leases /\ f.account = e.account /\ f.item = e.item
      /\ f.alias = e.alias /\ f.seq = e.seq
      /\ f.state \in {"stopping", "retired", "failed"}
  BY <1>5, <1>6 DEF Binding
<1>8. Drains(f)
  <2>1. Cardinality(e.inFlight) \in Nat /\ e.leases \in Int
    BY <1>2, NoCleanups DEF Binding
  <2> QED
    BY <1>3, <1>7, <2>1 DEF Drains, Left
<1>9. entries'[a] = f /\ \A b \in Attempts \ {a} : entries'[b] = entries[b]
  <2>1. entries' = [entries EXCEPT ![a] = f]
    BY <1>1, <1>4, <1>6 DEF Store!BeginCleanup
  <2> QED
    BY <2>1 DEF StoreShape
<1>10. Store!CleanupSparesNewerAttempt'
  <2> SUFFICES ASSUME NEW c \in Attempts, NEW b \in Attempts, NEW o \in entries'[c].inFlight,
                      entries'[b].state = "active", ~Store!Expired(entries'[b]),
                      Store!RemoteConflict(entries'[b], entries'[c], o)
               PROVE  entries'[b].seq <= entries'[c].seq
    BY DEF Store!CleanupSparesNewerAttempt
  <2>1. b # a /\ entries'[b] = entries[b]
    BY <1>7, <1>9
  <2>2. /\ entries'[c].account = entries[c].account /\ entries'[c].item = entries[c].item
        /\ entries'[c].alias = entries[c].alias /\ entries'[c].seq = entries[c].seq
    BY <1>1, <1>7, <1>9
  <2>3. Store!RemoteConflict(entries[b], entries[c], o)
    BY <2>1, <2>2 DEF Store!RemoteConflict
  <2>4. CASE o \in entries[c].inFlight
    BY <2>1, <2>2, <2>3, <2>4 DEF Store!CleanupSparesNewerAttempt
  <2>5. CASE c = a /\ o = op
    <3>1. ~(entries[b].seq > entries[a].seq)
      BY <1>2, <2>1, <2>3, <2>5 DEF Store!NewerActiveAlias
    <3>2. entries[b].seq \in Int /\ entries[a].seq \in Int
      BY DEF StoreShape, Binding
    <3> QED
      BY <2>1, <2>2, <2>5, <3>1, <3>2
  <2>6. o \in entries[c].inFlight \/ (c = a /\ o = op)
    BY <1>1, <1>7, <1>9
  <2> QED
    BY <2>4, <2>5, <2>6
<1> QED
  BY <1>1, <1>2, <1>7, <1>8, <1>9, <1>10

\* The upstream's acknowledgment adds to what is confirmed, the end of an operation
\* gives its claim back; neither changes what a conflict depends on.
LEMMA SettleSpares ==
    ASSUME StoreShape, \A b \in Attempts : Drains(entries[b]), Store!CleanupSparesNewerAttempt,
           NEW a \in Attempts, NEW op \in CleanupOps,
           Store!ConfirmCleanup(a, op) \/ Store!EndCleanup(a, op)
    PROVE  /\ \A b \in Attempts \ {a} : entries'[b] = entries[b]
           /\ Drains(entries'[a]) /\ op \in entries[a].inFlight
           /\ Store!Found(entries'[a]) <=> Store!Found(entries[a])
           /\ Store!ConfirmCleanup(a, op) =>
                 /\ entries'[a].inFlight = entries[a].inFlight
                 /\ entries'[a].confirmed = entries[a].confirmed \cup {op}
           /\ Store!EndCleanup(a, op) =>
                 /\ entries'[a].inFlight = entries[a].inFlight \ {op}
                 /\ entries'[a].confirmed = entries[a].confirmed
           /\ Store!CleanupSparesNewerAttempt'
<1>1. PICK e : e = entries[a]
  OBVIOUS
<1>2. e \in Binding /\ Drains(e) /\ op \in e.inFlight
  BY <1>1 DEF StoreShape, Store!ConfirmCleanup, Store!EndCleanup
<1>3. PICK f, g : f = [e EXCEPT !.confirmed = @ \cup {op}] /\ g = [e EXCEPT !.inFlight = @ \ {op}]
  OBVIOUS
<1>4. /\ f.inFlight = e.inFlight /\ f.confirmed = e.confirmed \cup {op}
      /\ f.leases = e.leases /\ f.account = e.account /\ f.item = e.item /\ f.age = e.age
      /\ f.alias = e.alias /\ f.seq = e.seq /\ f.state = e.state
  BY <1>2, <1>3 DEF Binding
<1>5. /\ g.inFlight = e.inFlight \ {op} /\ g.confirmed = e.confirmed
      /\ g.leases = e.leases /\ g.account = e.account /\ g.item = e.item /\ g.age = e.age
      /\ g.alias = e.alias /\ g.seq = e.seq /\ g.state = e.state
  BY <1>2, <1>3 DEF Binding
<1>6. PICK h \in {f, g} : entries' = [entries EXCEPT ![a] = h]
  BY <1>1, <1>3 DEF Store!ConfirmCleanup, Store!EndCleanup
<1>7. /\ h.inFlight \subseteq e.inFlight /\ h.leases = e.leases /\ h.account = e.account
      /\ h.item = e.item /\ h.age = e.age /\ h.alias = e.alias /\ h.seq = e.seq
      /\ h.state = e.state
  BY <1>4, <1>5, <1>6
<1>8. entries'[a] = h /\ \A b \in Attempts \ {a} : entries'[b] = entries[b]
  BY <1>6 DEF StoreShape
<1>9. Drains(h)
  BY <1>2, <1>7 DEF Drains
<1>10. (Store!Found(h) <=> Store!Found(e)) /\ (Store!Expired(h) <=> Store!Expired(e))
  BY <1>7 DEF Store!Found, Store!Present, Store!Expired, Store!Deadline
<1>11. Store!CleanupSparesNewerAttempt'
  <2> SUFFICES ASSUME NEW c \in Attempts, NEW b \in Attempts, NEW o \in entries'[c].inFlight,
                      entries'[b].state = "active", ~Store!Expired(entries'[b]),
                      Store!RemoteConflict(entries'[b], entries'[c], o)
               PROVE  entries'[b].seq <= entries'[c].seq
    BY DEF Store!CleanupSparesNewerAttempt
  <2>1. ASSUME NEW x \in Attempts
        PROVE  /\ entries'[x].account = entries[x].account /\ entries'[x].item = entries[x].item
               /\ entries'[x].alias = entries[x].alias /\ entries'[x].seq = entries[x].seq
               /\ entries'[x].state = entries[x].state
               /\ Store!Expired(entries'[x]) <=> Store!Expired(entries[x])
               /\ entries'[x].inFlight \subseteq entries[x].inFlight
    BY <1>1, <1>7, <1>8, <1>10
  <2>2. Store!RemoteConflict(entries[b], entries[c], o)
    BY <2>1 DEF Store!RemoteConflict
  <2>3. /\ entries[b].state = "active" /\ ~Store!Expired(entries[b]) /\ o \in entries[c].inFlight
        /\ entries'[b].seq = entries[b].seq /\ entries'[c].seq = entries[c].seq
    BY <2>1
  <2> QED
    BY <2>2, <2>3 DEF Store!CleanupSparesNewerAttempt
<1>12. /\ Store!ConfirmCleanup(a, op) => entries'[a] = f
       /\ Store!EndCleanup(a, op) => entries'[a] = g
  BY <1>1, <1>3 DEF StoreShape, Store!ConfirmCleanup, Store!EndCleanup
<1> QED
  BY <1>1, <1>2, <1>4, <1>5, <1>8, <1>9, <1>10, <1>11, <1>12

\* What a client knows of was reserved.
LEMMA PublishedUsed ==
    ASSUME HandlerInv, NEW a \in published
    PROVE  a \in Attempts /\ entries[a].state # "unused"
<1>1. a \in Attempts /\ origin[a] \in tokens /\ tokens \subseteq Held
  BY DEF HandlerInv, ReservationsHeld, SlotShape
<1>2. origin[a] # NoToken
  BY <1>1 DEF Held, NoToken
<1> QED
  BY <1>1, <1>2 DEF HandlerInv, ReservationsHeld

LEMMA BegunServes ==
    ASSUME HandlerInv, NEW r \in Requests, Begun(requests[r])
    PROVE  /\ requests[r].pc \in Steps /\ requests[r].attempt \in published
           /\ requests[r].attempt \in Attempts /\ requests[r].op \in CleanupOps
<1>1. requests[r].pc \in Steps
  BY DEF Begun, Steps
<1> QED
  BY <1>1, OpKinds DEF Begun

LEMMA ClaimKept ==
    ASSUME NEW q, NEW e, NEW f, ClaimHeld(q, e), KeepsClaims(e, f),
           q.acked => e.state # "unused"
    PROVE  ClaimHeld(q, f)
BY DEF ClaimHeld, KeepsClaims

\* What a request that goes on may do without a call about its operation.
Follows(q, n) ==
    /\ Begun(n) \/ n.acked => n.attempt = q.attempt /\ n.op = q.op
    /\ Begun(n) => Begun(q)
    /\ Sends(n) => Sends(q)
    /\ n.acked => /\ q.acked /\ q.pc # "confirm"
                  /\ n.pc \in AfterAnswer

\* What stays true of the others while one request goes on.
OthersHold(r) ==
    \A q \in Requests \ {r} :
        requests[q].attempt \in Attempts =>
           ClaimHeld(requests[q], entries'[requests[q].attempt])

LEMMA OthersKeep ==
    ASSUME HandlerInv, OperationsOwned, NEW r,
           \A b \in Attempts : KeepsClaims(entries[b], entries'[b])
    PROVE  OthersHold(r)
<1> SUFFICES ASSUME NEW q \in Requests \ {r}, requests[q].attempt \in Attempts
             PROVE  ClaimHeld(requests[q], entries'[requests[q].attempt])
  BY DEF OthersHold
<1>1. ClaimHeld(requests[q], entries[requests[q].attempt])
  BY DEF OperationsOwned
<1>2. requests[q].acked => requests[q].attempt \in published
  BY DEF OperationsOwned
<1> QED
  BY <1>1, <1>2, ClaimKept, PublishedUsed

\* One request goes on, and its own operation is as it should be.
LEMMA OwnedByOne ==
    ASSUME HandlerInv, OperationsOwned, NEW r \in Requests, NEW n,
           requests' = [requests EXCEPT ![r] = n], published' = published, OthersHold(r),
           n.attempt \in Attempts => ClaimHeld(n, entries'[n.attempt]),
           n.acked => n.pc \in AfterAnswer /\ n.attempt \in published,
           Begun(n) =>
              \A q \in Requests \ {r} :
                 Begun(requests[q]) /\ requests[q].attempt = n.attempt => requests[q].op # n.op
    PROVE  OperationsOwned'
<1>1. /\ requests'[r] = n
      /\ \A q \in Requests \ {r} : requests'[q] = requests[q]
  BY DEF HandlerInv, RequestsShape
<1>2. ASSUME NEW q \in Requests, requests'[q].attempt \in Attempts
      PROVE  ClaimHeld(requests'[q], entries'[requests'[q].attempt])
  BY <1>1, <1>2 DEF OthersHold
<1>3. ASSUME NEW q \in Requests, requests'[q].acked
      PROVE  /\ requests'[q].pc \in AfterAnswer
             /\ requests'[q].attempt \in published'
  BY <1>1, <1>3 DEF OperationsOwned
<1>4. ASSUME NEW p \in Requests, NEW q \in Requests, Begun(requests'[p]), Begun(requests'[q]),
             SameOperation(p, q)'
      PROVE  p = q
  <2>1. /\ requests'[p].attempt = requests'[q].attempt
        /\ requests'[p].op = requests'[q].op
    BY <1>4 DEF SameOperation
  <2>2. CASE p # r /\ q # r
    BY <1>1, <1>4, <2>1, <2>2 DEF OperationsOwned, SameOperation
  <2>3. CASE p = r /\ q # r
    BY <1>1, <1>4, <2>1, <2>3
  <2>4. CASE p # r /\ q = r
    BY <1>1, <1>4, <2>1, <2>4
  <2> QED
    BY <2>2, <2>3, <2>4
<1> QED
  BY <1>2, <1>3, <1>4 DEF OperationsOwned

\* A request that goes on and claims, confirms or ends nothing.
LEMMA OwnedFollows ==
    ASSUME HandlerInv, OperationsOwned, NEW r \in Requests, NEW n,
           requests' = [requests EXCEPT ![r] = n], published' = published,
           \A b \in Attempts : KeepsClaims(entries[b], entries'[b]),
           Follows(requests[r], n)
    PROVE  OperationsOwned'
<1>1. OthersHold(r)
  BY OthersKeep
<1>2. n.acked => n.pc \in AfterAnswer /\ n.attempt \in published
  BY DEF Follows, OperationsOwned
<1>3. ASSUME n.attempt \in Attempts PROVE ClaimHeld(n, entries'[n.attempt])
  <2>1. CASE Begun(n) \/ n.acked
    <3>1. ClaimHeld(requests[r], entries[n.attempt])
      BY <1>3, <2>1 DEF Follows, OperationsOwned
    <3>2. requests[r].acked => entries[n.attempt].state # "unused"
      BY <2>1, PublishedUsed DEF Follows, OperationsOwned
    <3>3. ClaimHeld(requests[r], entries'[n.attempt])
      BY <1>3, <3>1, <3>2, ClaimKept
    <3> QED
      BY <2>1, <3>3 DEF ClaimHeld, Follows, Sends, Begun
  <2>2. CASE ~(Begun(n) \/ n.acked)
    BY <2>2 DEF ClaimHeld, Sends, Begun
  <2> QED
    BY <2>1, <2>2
<1>4. ASSUME Begun(n), NEW q \in Requests \ {r}, Begun(requests[q]),
             requests[q].attempt = n.attempt
      PROVE  requests[q].op # n.op
  BY <1>4 DEF Follows, OperationsOwned, SameOperation
<1> QED
  BY <1>1, <1>2, <1>3, <1>4, OwnedByOne

LEMMA OwnedStays ==
    ASSUME HandlerInv, OperationsOwned, requests' = requests, published \subseteq published',
           \A b \in Attempts : KeepsClaims(entries[b], entries'[b])
    PROVE  OperationsOwned'
<1>1. ASSUME NEW q \in Requests, requests[q].attempt \in Attempts
      PROVE  ClaimHeld(requests[q], entries'[requests[q].attempt])
  <2>1. ClaimHeld(requests[q], entries[requests[q].attempt])
    BY <1>1 DEF OperationsOwned
  <2>2. requests[q].acked => requests[q].attempt \in published
    BY DEF OperationsOwned
  <2> QED
    BY <1>1, <2>1, <2>2, ClaimKept, PublishedUsed
<1>2. \A q \in Requests : requests'[q].acked =>
          /\ requests'[q].pc \in AfterAnswer
          /\ requests'[q].attempt \in published'
  BY DEF OperationsOwned
<1>3. \A p, q \in Requests :
          Begun(requests'[p]) /\ Begun(requests'[q]) /\ SameOperation(p, q)' => p = q
  BY DEF OperationsOwned, SameOperation
<1> QED
  BY <1>1, <1>2, <1>3 DEF OperationsOwned

LEMMA AckedAfter ==
    ASSUME HandlerInv, OperationsOwned, NEW r \in Requests
    PROVE  /\ requests[r] \in ServedShape /\ RequestFits(requests[r])
           /\ requests[r].acked => requests[r].pc \in AfterAnswer
           /\ DOMAIN requests = Requests
BY DEF HandlerInv, RequestsShape, OperationsOwned, AfterAnswer

\* A request that keeps its record but for its program counter, its switch and the
\* mark of a late report.
LEMMA MovesFollow ==
    ASSUME HandlerInv, OperationsOwned, NEW r \in Requests, NEW n,
           n.op = requests[r].op, n.attempt = requests[r].attempt, n.acked = requests[r].acked,
           requests[r].op \in CleanupOps =>
              /\ n.pc \in {"slot", "retire", "end"} =>
                    requests[r].pc \in {"send", "slot", "retire"}
              /\ n.pc \notin {"send", "confirm"},
           requests[r].pc \in AfterAnswer =>
              requests[r].pc # "confirm" /\ n.pc \in AfterAnswer
    PROVE  Follows(requests[r], n)
<1>1. requests[r].acked => requests[r].pc \in AfterAnswer
  BY AckedAfter
<1> QED
  BY <1>1 DEF Follows, Begun, Sends, AfterAnswer

LEMMA GotoFollows ==
    ASSUME HandlerInv, OperationsOwned, NEW r \in Requests, NEW pc \in Programs, Goto(r, pc),
           requests[r].op \in CleanupOps =>
              /\ pc \in {"slot", "retire", "end"} =>
                    requests[r].pc \in {"send", "slot", "retire"}
              /\ pc \notin {"send", "confirm"},
           requests[r].pc \in AfterAnswer =>
              requests[r].pc # "confirm" /\ pc \in AfterAnswer
    PROVE  \E n : requests' = [requests EXCEPT ![r] = n] /\ Follows(requests[r], n)
<1>1. PICK n : n = [requests[r] EXCEPT !.pc = pc]
  OBVIOUS
<1>2. /\ n.pc = pc /\ n.op = requests[r].op /\ n.attempt = requests[r].attempt
      /\ n.acked = requests[r].acked /\ requests' = [requests EXCEPT ![r] = n]
  BY <1>1, GotoRecord DEF HandlerInv
<1>3. Follows(requests[r], n)
  BY <1>2, MovesFollow
<1> QED
  BY <1>2, <1>3

\* The steps that leave the operation of the request as it is.
Passes(r) ==
    \/ Refuse(r) \/ Claim(r) \/ Ensure(r) \/ Switch(r) \/ Activate(r) \/ GiveUp(r)
    \/ Check(r) \/ Superseded(r) \/ Fail(r) \/ NotDelivered(r) \/ Resolve(r)
    \/ Slot(r) \/ Retire(r) \/ Leave(r)

LEMMA PassesFollow ==
    ASSUME HandlerInv, OperationsOwned, NEW r \in Requests, Passes(r)
    PROVE  \E n : requests' = [requests EXCEPT ![r] = n] /\ Follows(requests[r], n)
<1>1. requests[r] \in ServedShape /\ RequestFits(requests[r])
  BY AckedAfter
<1> DEFINE Goal == \E n : requests' = [requests EXCEPT ![r] = n] /\ Follows(requests[r], n)
<1> SUFFICES Goal
  OBVIOUS
<1>2. CASE Refuse(r) \/ Claim(r) \/ Activate(r) \/ GiveUp(r) \/ Superseded(r) \/ Fail(r)
  <2>1. PICK pc \in {"leave", "ensure", "check", "giveUp", "fail"} :
            Goto(r, pc) /\ requests[r].pc \in {"claim", "check", "activate", "giveUp", "superseded", "fail"}
    BY <1>2 DEF Refuse, Claim, Activate, GiveUp, Superseded, Fail, At
  <2>2. pc \in Programs
    BY <2>1 DEF Programs, Steps
  <2> QED
    BY <2>1, <2>2, GotoFollows DEF AfterAnswer
<1>3. CASE Ensure(r)
  <2>1. requests[r].pc = "ensure"
    BY <1>3 DEF Ensure, At
  <2>2. CASE \E pc \in {"activate", "leave"} : Goto(r, pc)
    <3>1. PICK pc \in {"activate", "leave"} : Goto(r, pc)
      BY <2>2
    <3>2. pc \in Programs
      BY DEF Programs, Steps
    <3> QED
      BY <2>1, <3>1, <3>2, GotoFollows DEF AfterAnswer
  <2>3. CASE \E w : requests' = [requests EXCEPT ![r].pc = "switch", ![r].switch = w]
    <3>1. PICK w : requests' = [requests EXCEPT ![r].pc = "switch", ![r].switch = w]
      BY <2>3
    <3>2. PICK n : n = [requests[r] EXCEPT !.pc = "switch", !.switch = w]
      OBVIOUS
    <3>3. /\ n.pc = "switch" /\ n.op = requests[r].op /\ n.attempt = requests[r].attempt
          /\ n.acked = requests[r].acked
      BY <1>1, <3>2 DEF ServedShape
    <3>4. requests' = [requests EXCEPT ![r] = n]
      BY <3>1, <3>2, AckedAfter
    <3>5. Follows(requests[r], n)
      BY <2>1, <3>3, MovesFollow DEF AfterAnswer
    <3> QED
      BY <3>4, <3>5
  <2> QED
    BY <1>3, <2>2, <2>3 DEF Ensure
<1>4. CASE Switch(r)
  <2>1. requests[r].pc = "switch"
        /\ requests' = [requests EXCEPT ![r].pc = "activate", ![r].switch = NoSwitch]
    BY <1>4 DEF Switch, At
  <2>2. PICK n : n = [requests[r] EXCEPT !.pc = "activate", !.switch = NoSwitch]
    OBVIOUS
  <2>3. /\ n.pc = "activate" /\ n.op = requests[r].op /\ n.attempt = requests[r].attempt
        /\ n.acked = requests[r].acked
    BY <1>1, <2>2 DEF ServedShape
  <2>4. requests' = [requests EXCEPT ![r] = n]
    BY <2>1, <2>2, AckedAfter
  <2>5. Follows(requests[r], n)
    BY <2>1, <2>3, MovesFollow DEF AfterAnswer
  <2> QED
    BY <2>4, <2>5
<1>5. CASE Check(r)
  <2>1. PICK pc \in {"superseded", "leave", "begin", "send"} :
            /\ Goto(r, pc) /\ requests[r].pc = "check"
            /\ pc = "send" => requests[r].op \notin CleanupOps
    BY <1>5 DEF Check, At, IsCleanup
  <2>2. pc \in Programs
    BY <2>1 DEF Programs, Steps
  <2> QED
    BY <2>1, <2>2, GotoFollows DEF AfterAnswer
<1>6. CASE NotDelivered(r) \/ Resolve(r)
  <2>1. PICK pc \in {"slot", "resolve", "leave"} :
            /\ Goto(r, pc) /\ requests[r].pc \in {"send", "resolve"}
            /\ requests[r].op \in CleanupOps => requests[r].pc = "send" /\ pc = "slot"
    BY <1>1, <1>6 DEF NotDelivered, Resolve, At, IsCleanup, RequestFits
  <2>2. pc \in Programs
    BY <2>1 DEF Programs, Steps
  <2> QED
    BY <2>1, <2>2, GotoFollows DEF AfterAnswer
<1>7. CASE Slot(r)
  <2>1. requests[r].pc = "slot"
    BY <1>7 DEF Slot, At
  <2>2. CASE \E pc \in {"retire", "end"} : Goto(r, pc)
    <3>1. PICK pc \in {"retire", "end"} : Goto(r, pc)
      BY <2>2
    <3>2. pc \in Programs
      BY DEF Programs, Steps
    <3> QED
      BY <2>1, <3>1, <3>2, GotoFollows DEF AfterAnswer
  <2>3. CASE \E late : requests' = [requests EXCEPT ![r].pc = "leave", ![r].late = late]
    <3>1. PICK late : requests' = [requests EXCEPT ![r].pc = "leave", ![r].late = late]
      BY <2>3
    <3>2. PICK n : n = [requests[r] EXCEPT !.pc = "leave", !.late = late]
      OBVIOUS
    <3>3. /\ n.pc = "leave" /\ n.op = requests[r].op /\ n.attempt = requests[r].attempt
          /\ n.acked = requests[r].acked
      BY <1>1, <3>2 DEF ServedShape
    <3>4. requests' = [requests EXCEPT ![r] = n]
      BY <3>1, <3>2, AckedAfter
    <3>5. Follows(requests[r], n)
      BY <2>1, <3>3, MovesFollow DEF AfterAnswer
    <3> QED
      BY <3>4, <3>5
  <2> QED
    BY <1>7, <2>2, <2>3 DEF Slot
<1>8. CASE Retire(r)
  <2>1. PICK pc \in {"slot", "end"} : Goto(r, pc) /\ requests[r].pc = "retire"
    BY <1>8 DEF Retire, At
  <2>2. pc \in Programs
    BY <2>1 DEF Programs, Steps
  <2> QED
    BY <2>1, <2>2, GotoFollows DEF AfterAnswer
<1>9. CASE Leave(r)
  <2>1. requests[r].pc = "leave"
    BY <1>9 DEF Leave, At
  <2>2. PICK n : n = IF requests[r].acked \/ requests[r].late
                     THEN [requests[r] EXCEPT !.pc = "done"]
                     ELSE [NotServed EXCEPT !.pc = "done"]
    OBVIOUS
  <2>3. requests' = [requests EXCEPT ![r] = n]
    BY <1>9, <2>2 DEF Leave
  <2>4. CASE requests[r].acked \/ requests[r].late
    <3>1. /\ n.pc = "done" /\ n.op = requests[r].op /\ n.attempt = requests[r].attempt
          /\ n.acked = requests[r].acked
      BY <1>1, <2>2, <2>4 DEF ServedShape
    <3> QED
      BY <2>1, <2>3, <3>1, MovesFollow DEF AfterAnswer
  <2>5. CASE ~(requests[r].acked \/ requests[r].late)
    <3>1. n.pc = "done" /\ ~n.acked
      BY <2>2, <2>5 DEF NotServed
    <3>2. Follows(requests[r], n)
      BY <3>1 DEF Follows, Begun, Sends
    <3> QED
      BY <2>3, <3>2
  <2> QED
    BY <2>4, <2>5
<1> QED
  BY <1>2, <1>3, <1>4, <1>5, <1>6, <1>7, <1>8, <1>9 DEF Passes

\* Those steps call the store as Ordinary says, or activate.
LEMMA PassesOrdinary ==
    ASSUME HandlerInv, NEW r \in Requests, Passes(r)
    PROVE  Ordinary \/ \E a \in Attempts : Store!Activate(a)
<1>1. requests[r].pc \in Steps
  BY DEF Passes, Refuse, Claim, Ensure, Switch, Activate, GiveUp, Check, Superseded, Fail,
         NotDelivered, Resolve, Slot, Retire, Leave, At, Steps
<1>2. requests[r].attempt \in Attempts
  BY <1>1, OpKinds
<1>3. CASE UNCHANGED storeVars
  BY <1>3 DEF Ordinary
<1>4. CASE Activate(r) /\ ~UNCHANGED storeVars
  BY <1>2, <1>4 DEF Activate
<1>5. CASE (Fail(r) \/ Retire(r) \/ Leave(r)) /\ ~UNCHANGED storeVars
  BY <1>2, <1>5 DEF Fail, Retire, Leave, Ordinary
<1> QED
  BY <1>3, <1>4, <1>5
     DEF Passes, Refuse, Claim, Ensure, Switch, GiveUp, Check, Superseded, NotDelivered,
         Resolve, Slot

LEMMA PassesSend ==
    ASSUME HandlerInv, SendInv, NEW r \in Requests, Passes(r)
    PROVE  SendInv'
<1>1. StoreShape /\ (\A b \in Attempts : Drains(entries[b])) /\ Store!CleanupSparesNewerAttempt
      /\ OperationsOwned
  BY DEF HandlerInv, SendInv
<1>2. /\ \A b \in Attempts : KeepsClaims(entries[b], entries'[b])
      /\ Store!CleanupSparesNewerAttempt'
  <2>1. CASE Ordinary
    <3>1. \A b \in Attempts : Unharmed(entries[b], entries'[b])
      BY <1>1, <2>1, OrdinaryUnharmed
    <3> QED
      BY <1>1, <3>1, SparesKept DEF Unharmed
  <2>2. CASE \E a \in Attempts : Store!Activate(a)
    BY <1>1, <2>2, ActivationSpares
  <2> QED
    BY <2>1, <2>2, PassesOrdinary
<1>3. published' = published
  BY DEF Passes, Refuse, Claim, Ensure, Switch, Activate, GiveUp, Check, Superseded, Fail,
         NotDelivered, Resolve, Slot, Retire, Leave, negotiationVars
<1>4. PICK n : requests' = [requests EXCEPT ![r] = n] /\ Follows(requests[r], n)
  BY <1>1, PassesFollow
<1>5. OperationsOwned'
  BY <1>1, <1>2, <1>3, <1>4, OwnedFollows
<1>6. \A b \in Attempts : Drains(entries'[b])
  BY <1>2 DEF KeepsClaims
<1> QED
  BY <1>2, <1>5, <1>6 DEF SendInv

LEMMA DeliveredSends ==
    ASSUME HandlerInv, SendInv, NEW r \in Requests, Delivered(r)
    PROVE  SendInv'
<1>1. OperationsOwned /\ requests[r].pc = "send" /\ requests[r] \in ServedShape
  BY AckedAfter DEF SendInv, Delivered, At
<1>2. entries' = entries /\ published' = published
  BY DEF Delivered, storeVars, negotiationVars
<1>3. /\ \A b \in Attempts : KeepsClaims(entries[b], entries'[b]) /\ Drains(entries'[b])
      /\ Store!CleanupSparesNewerAttempt'
  BY <1>2, UnharmedSame DEF SendInv, Unharmed, Store!CleanupSparesNewerAttempt,
     Store!RemoteConflict, Store!Expired, Store!Deadline
<1>4. CASE requests[r].op \notin CleanupOps
  <2>1. Goto(r, "resolve") /\ "resolve" \in Programs
    BY <1>4 DEF Delivered, IsCleanup, Programs, Steps
  <2>2. PICK n : requests' = [requests EXCEPT ![r] = n] /\ Follows(requests[r], n)
    BY <1>1, <1>4, <2>1, GotoFollows DEF AfterAnswer
  <2>3. OperationsOwned'
    BY <1>1, <1>2, <1>3, <2>2, OwnedFollows
  <2> QED
    BY <1>3, <2>3 DEF SendInv
<1>5. CASE requests[r].op \in CleanupOps
  <2>1. requests' = [requests EXCEPT ![r].pc = "confirm", ![r].acked = TRUE]
    BY <1>5 DEF Delivered, IsCleanup
  <2>2. PICK n : n = [requests[r] EXCEPT !.pc = "confirm", !.acked = TRUE]
    OBVIOUS
  <2>3. n.pc = "confirm" /\ n.op = requests[r].op /\ n.attempt = requests[r].attempt
    BY <1>1, <2>2 DEF ServedShape
  <2>4. requests' = [requests EXCEPT ![r] = n]
    BY <2>1, <2>2, AckedAfter, <1>1
  <2>5. Begun(requests[r]) /\ Sends(requests[r])
    BY <1>1, <1>5 DEF Begun, Sends
  <2>6. requests[r].attempt \in Attempts /\ requests[r].attempt \in published
    BY <2>5, BegunServes
  <2>7. ClaimHeld(requests[r], entries[n.attempt])
    BY <1>1, <2>3, <2>6 DEF OperationsOwned
  <2>8. ClaimHeld(n, entries'[n.attempt])
    BY <1>2, <2>3, <2>5, <2>7 DEF ClaimHeld, Sends
  <2>9. OthersHold(r)
    BY <1>1, <1>3, OthersKeep
  <2>10. ASSUME NEW q \in Requests \ {r}, Begun(requests[q]), requests[q].attempt = n.attempt
         PROVE  requests[q].op # n.op
    BY <1>1, <2>3, <2>5, <2>10 DEF OperationsOwned, SameOperation
  <2>11. OperationsOwned'
    BY <1>1, <1>2, <2>3, <2>4, <2>6, <2>8, <2>9, <2>10, OwnedByOne DEF AfterAnswer
  <2> QED
    BY <1>3, <2>11 DEF SendInv
<1> QED
  BY <1>4, <1>5

LEMMA BeginSends ==
    ASSUME HandlerInv, SendInv, NEW r \in Requests, Begin(r)
    PROVE  SendInv'
<1>1. OperationsOwned /\ requests[r].pc = "begin" /\ requests[r] \in ServedShape
  BY AckedAfter DEF SendInv, Begin, At
<1>2. published' = published /\ StoreShape /\ \A b \in Attempts : Drains(entries[b])
  BY DEF Begin, negotiationVars, HandlerInv, SendInv
<1>3. PICK a, op : a = requests[r].attempt /\ op = requests[r].op
  OBVIOUS
<1>4. a \in Attempts /\ a \in published /\ op \in CleanupOps
  BY <1>1, <1>3, OpKinds DEF RequestFits, Steps, StopSteps
<1>5. CASE Store!BeginCleanup(a, op) /\ Goto(r, "send")
  <2>1. PICK n : n = [requests[r] EXCEPT !.pc = "send"]
    OBVIOUS
  <2>2. /\ n.pc = "send" /\ n.op = op /\ n.attempt = a /\ n.acked = requests[r].acked
        /\ requests' = [requests EXCEPT ![r] = n]
    <3>1. "send" \in Programs
      BY DEF Programs, Steps
    <3> QED
      BY <1>3, <1>5, <2>1, <3>1, GotoRecord DEF HandlerInv
  <2>3. ~n.acked
    BY <1>1, <2>2, AckedAfter DEF AfterAnswer
  <2>4. /\ \A b \in Attempts \ {a} : entries'[b] = entries[b]
        /\ entries'[a].inFlight = entries[a].inFlight \cup {op}
        /\ op \notin entries[a].inFlight /\ op \notin entries[a].confirmed
        /\ entries'[a].confirmed = entries[a].confirmed /\ Store!Found(entries[a])
        /\ Drains(entries'[a])
        /\ Store!CleanupSparesNewerAttempt'
    BY <1>2, <1>4, <1>5, BeginSpares DEF SendInv
  <2>5. OthersHold(r)
    <3> SUFFICES ASSUME NEW q \in Requests \ {r}, requests[q].attempt \in Attempts
                 PROVE  ClaimHeld(requests[q], entries'[requests[q].attempt])
      BY DEF OthersHold
    <3>1. ClaimHeld(requests[q], entries[requests[q].attempt])
      BY <1>1 DEF OperationsOwned
    <3> QED
      BY <2>4, <3>1 DEF ClaimHeld
  <2>6. ClaimHeld(n, entries'[n.attempt])
    BY <2>2, <2>3, <2>4 DEF ClaimHeld
  <2>7. ASSUME NEW q \in Requests \ {r}, Begun(requests[q]), requests[q].attempt = n.attempt
        PROVE  requests[q].op # n.op
    <3>1. requests[q].op \in entries[a].inFlight
      BY <1>1, <1>4, <2>2, <2>7 DEF OperationsOwned, ClaimHeld
    <3> QED
      BY <2>2, <2>4, <3>1
  <2>8. OperationsOwned'
    BY <1>1, <1>2, <2>2, <2>3, <2>5, <2>6, <2>7, OwnedByOne
  <2>9. \A b \in Attempts : Drains(entries'[b])
    BY <1>2, <2>4
  <2> QED
    BY <2>4, <2>8, <2>9 DEF SendInv
<1>6. ASSUME NEW pc \in {"superseded", "leave"}, Goto(r, pc), UNCHANGED storeVars
      PROVE  SendInv'
  <2>1. pc \in Programs
    BY DEF Programs, Steps
  <2>2. PICK n : requests' = [requests EXCEPT ![r] = n] /\ Follows(requests[r], n)
    BY <1>1, <1>6, <2>1, GotoFollows DEF AfterAnswer
  <2>3. Ordinary
    BY <1>6 DEF Ordinary
  <2>4. \A b \in Attempts : Unharmed(entries[b], entries'[b])
    BY <1>2, <2>3, OrdinaryUnharmed
  <2>5. Store!CleanupSparesNewerAttempt'
    BY <2>4, SparesKept DEF SendInv
  <2>6. OperationsOwned'
    BY <1>1, <1>2, <2>2, <2>4, OwnedFollows DEF Unharmed
  <2> QED
    BY <2>4, <2>5, <2>6 DEF SendInv, Unharmed, KeepsClaims
<1> QED
  <2>1. \/ Store!BeginCleanup(a, op) /\ Goto(r, "send")
        \/ \E pc \in {"superseded", "leave"} : Goto(r, pc) /\ UNCHANGED storeVars
    BY <1>3 DEF Begin
  <2> QED
    BY <1>5, <1>6, <2>1

\* The acknowledgment is written under the claim, and the claim is given back.
LEMMA SettlesSend ==
    ASSUME HandlerInv, SendInv, NEW r \in Requests, Confirm(r) \/ End(r)
    PROVE  SendInv'
<1>1. OperationsOwned /\ requests[r].pc \in {"confirm", "end"} /\ requests[r] \in ServedShape
  BY AckedAfter DEF SendInv, Confirm, End, At
<1>2. published' = published /\ StoreShape /\ \A b \in Attempts : Drains(entries[b])
  BY DEF Confirm, End, negotiationVars, HandlerInv, SendInv
<1>3. PICK a, op : a = requests[r].attempt /\ op = requests[r].op
  OBVIOUS
<1>4. /\ a \in Attempts /\ a \in published /\ op \in CleanupOps /\ Begun(requests[r])
  BY <1>1, <1>3, OpKinds DEF RequestFits, Steps, StopSteps, Begun
<1>5. PICK pc \in {"slot", "retire", "leave"} :
          /\ Goto(r, pc)
          /\ Confirm(r) => pc \in {"slot", "retire"}
          /\ End(r) => pc = "leave"
  <2>1. Confirm(r) => ~End(r)
    BY DEF Confirm, End, At
  <2> QED
    BY <2>1 DEF Confirm, End
<1>6. PICK n : n = [requests[r] EXCEPT !.pc = pc]
  OBVIOUS
<1>7. /\ n.pc = pc /\ n.op = op /\ n.attempt = a /\ n.acked = requests[r].acked
      /\ requests' = [requests EXCEPT ![r] = n]
  <2>1. pc \in Programs
    BY DEF Programs, Steps
  <2> QED
    BY <1>3, <1>5, <1>6, <2>1, GotoRecord DEF HandlerInv
<1>8. \A q \in Requests \ {r} :
          Begun(requests[q]) /\ requests[q].attempt = a => requests[q].op # op
  BY <1>1, <1>3, <1>4 DEF OperationsOwned, SameOperation
<1>9. n.acked => n.pc \in AfterAnswer /\ n.attempt \in published
  BY <1>4, <1>5, <1>7 DEF AfterAnswer
<1>10. Begun(n) => \A q \in Requests \ {r} :
          Begun(requests[q]) /\ requests[q].attempt = n.attempt => requests[q].op # n.op
  BY <1>7, <1>8
<1>11. ClaimHeld(requests[r], entries[a])
  BY <1>1, <1>3, <1>4 DEF OperationsOwned
<1>12. CASE \/ Store!ConfirmCleanup(a, op) /\ Confirm(r)
            \/ Store!EndCleanup(a, op) /\ End(r)
  <2>1. /\ \A b \in Attempts \ {a} : entries'[b] = entries[b]
        /\ Drains(entries'[a])
        /\ Store!Found(entries'[a]) <=> Store!Found(entries[a])
        /\ Store!CleanupSparesNewerAttempt'
    BY <1>2, <1>4, <1>12, SettleSpares DEF SendInv
  <2>2. \/ /\ Confirm(r)
           /\ entries'[a].inFlight = entries[a].inFlight
           /\ entries'[a].confirmed = entries[a].confirmed \cup {op}
        \/ /\ End(r)
           /\ entries'[a].inFlight = entries[a].inFlight \ {op}
           /\ entries'[a].confirmed = entries[a].confirmed
    BY <1>2, <1>4, <1>12, SettleSpares DEF SendInv
  <2>3. OthersHold(r)
    <3> SUFFICES ASSUME NEW q \in Requests \ {r}, requests[q].attempt \in Attempts
                 PROVE  ClaimHeld(requests[q], entries'[requests[q].attempt])
      BY DEF OthersHold
    <3>1. ClaimHeld(requests[q], entries[requests[q].attempt])
      BY <1>1 DEF OperationsOwned
    <3>2. CASE requests[q].attempt # a
      BY <2>1, <3>1, <3>2
    <3>3. CASE requests[q].attempt = a
      <4>1. Begun(requests[q]) => requests[q].op # op
        BY <1>8, <3>3
      <4>2. Sends(requests[q]) => Begun(requests[q])
        BY DEF Sends, Begun
      <4> QED
        BY <2>1, <2>2, <3>1, <3>3, <4>1, <4>2 DEF ClaimHeld
    <3> QED
      BY <3>2, <3>3
  <2>4. ClaimHeld(n, entries'[n.attempt])
    <3>1. CASE Confirm(r)
      <4>0. ~End(r)
        BY <3>1 DEF End, Confirm, At
      <4>1. op \in entries'[a].inFlight /\ op \in entries'[a].confirmed
        <5>1. op \in entries[a].inFlight
          BY <1>3, <1>4, <1>11 DEF ClaimHeld
        <5> QED
          BY <2>2, <4>0, <5>1
      <4>2. ~Sends(n)
        BY <1>5, <1>7 DEF Sends
      <4> QED
        BY <1>7, <4>1, <4>2 DEF ClaimHeld
    <3>2. CASE End(r)
      <4>1. requests[r].pc = "end" /\ n.pc = "leave" /\ ~Begun(n) /\ ~Sends(n)
        BY <1>5, <1>7, <3>2 DEF End, At, Begun, Sends
      <4>2. entries'[a].confirmed = entries[a].confirmed
        BY <2>2, <3>2, <4>1 DEF Confirm, At
      <4>3. n.acked /\ Store!Found(entries[a]) => op \in entries[a].confirmed
        BY <1>3, <1>7, <1>11, <4>1 DEF ClaimHeld
      <4> QED
        BY <1>7, <2>1, <4>1, <4>2, <4>3 DEF ClaimHeld
    <3> QED
      BY <2>2, <3>1, <3>2
  <2>5. OperationsOwned'
    BY <1>1, <1>2, <1>7, <1>9, <1>10, <2>3, <2>4, OwnedByOne
  <2> QED
    BY <1>2, <2>1, <2>5 DEF SendInv
<1>13. CASE Confirm(r) /\ ~Store!Found(entries[a]) /\ UNCHANGED storeVars
  <2>1. Ordinary /\ entries' = entries
    BY <1>13 DEF Ordinary, storeVars
  <2>2. \A b \in Attempts : Unharmed(entries[b], entries'[b])
    BY <1>2, <2>1, OrdinaryUnharmed
  <2>3. Store!CleanupSparesNewerAttempt'
    BY <2>2, SparesKept DEF SendInv
  <2>4. OthersHold(r)
    BY <1>1, <2>2, OthersKeep DEF Unharmed
  <2>5. ClaimHeld(n, entries'[n.attempt])
    <3>1. op \in entries[a].inFlight
      BY <1>3, <1>4, <1>11 DEF ClaimHeld
    <3>2. ~Sends(n)
      BY <1>5, <1>7 DEF Sends
    <3> QED
      BY <1>7, <1>13, <2>1, <3>1, <3>2 DEF ClaimHeld
  <2>6. OperationsOwned'
    BY <1>1, <1>2, <1>7, <1>9, <1>10, <2>4, <2>5, OwnedByOne
  <2> QED
    BY <2>2, <2>3, <2>6 DEF SendInv, Unharmed, KeepsClaims
<1>14. CASE Confirm(r)
  <2>1. IF Store!Found(entries[a]) THEN Store!ConfirmCleanup(a, op) ELSE UNCHANGED storeVars
    BY <1>3, <1>14 DEF Confirm
  <2>2. CASE Store!Found(entries[a])
    BY <1>12, <1>14, <2>1, <2>2
  <2>3. CASE ~Store!Found(entries[a])
    BY <1>13, <1>14, <2>1, <2>3
  <2> QED
    BY <2>2, <2>3
<1>15. CASE End(r)
  <2>1. Store!EndCleanup(a, op)
    BY <1>3, <1>15 DEF End
  <2> QED
    BY <1>12, <1>15, <2>1
<1> QED
  BY <1>14, <1>15

LEMMA AdmitSends ==
    ASSUME HandlerInv, SendInv, NEW r \in Requests, NEW a \in Attempts, NEW op \in Ops,
           Admit(r, a, op)
    PROVE  SendInv'
<1>1. OperationsOwned /\ requests[r].pc = "idle" /\ requests[r] \in ServedShape
  BY AckedAfter DEF SendInv, Admit, At
<1>2. published' = published /\ StoreShape /\ \A b \in Attempts : Drains(entries[b])
  BY DEF Admit, negotiationVars, HandlerInv, SendInv
<1>3. PICK pc : pc = FirstStep(a, op)
  OBVIOUS
<1>4. pc \in {"leave", "check", "claim"}
  BY <1>3 DEF FirstStep
<1>5. PICK n : n = [requests[r] EXCEPT !.op = op, !.attempt = a, !.pc = pc]
  OBVIOUS
<1>6. n.pc = pc /\ n.acked = requests[r].acked
  BY <1>1, <1>5 DEF ServedShape
<1>7. requests' = [requests EXCEPT ![r] = n]
  <2>1. requests' = [requests EXCEPT ![r].op = op, ![r].attempt = a, ![r].pc = pc]
    BY <1>3 DEF Admit
  <2> QED
    BY <1>5, <2>1, AckedAfter, <1>1
<1>8. ~n.acked
  BY <1>1, <1>6, AckedAfter DEF AfterAnswer
<1>9. Follows(requests[r], n)
  BY <1>4, <1>6, <1>8 DEF Follows, Begun, Sends
<1>10. Ordinary
  BY DEF Admit, Ordinary
<1>11. \A b \in Attempts : Unharmed(entries[b], entries'[b])
  BY <1>2, <1>10, OrdinaryUnharmed
<1>12. Store!CleanupSparesNewerAttempt'
  BY <1>11, SparesKept DEF SendInv
<1>13. OperationsOwned'
  BY <1>1, <1>2, <1>7, <1>9, <1>11, OwnedFollows DEF Unharmed
<1> QED
  BY <1>11, <1>12, <1>13 DEF SendInv, Unharmed, KeepsClaims

\* The negotiation, time and the janitors.
LEMMA OtherSends ==
    ASSUME HandlerInv, SendInv, requests' = requests, published \subseteq published', Ordinary
    PROVE  SendInv'
<1>1. StoreShape /\ (\A b \in Attempts : Drains(entries[b])) /\ OperationsOwned
  BY DEF HandlerInv, SendInv
<1>2. \A b \in Attempts : Unharmed(entries[b], entries'[b])
  BY <1>1, OrdinaryUnharmed
<1>3. Store!CleanupSparesNewerAttempt'
  BY <1>2, SparesKept DEF SendInv
<1>4. OperationsOwned'
  BY <1>1, <1>2, OwnedStays DEF Unharmed
<1> QED
  BY <1>2, <1>3, <1>4 DEF SendInv, Unharmed, KeepsClaims

LEMMA SendStep == HandlerInv /\ SendInv /\ [Next]_vars => SendInv'
<1> SUFFICES ASSUME HandlerInv, SendInv, [Next]_vars PROVE SendInv'
  OBVIOUS
<1>1. CASE PlaybackInfo \/ Tick \/ Janitor \/ Prune \/ UNCHANGED vars
  <2>1. requests' = requests /\ published \subseteq published'
    BY <1>1 DEF PlaybackInfo, Negotiate, Candidate, BindCandidate, BindResponse, Commit, Abort,
                FailCandidate, Tick, Janitor, Prune, negotiationVars, vars
  <2>2. Ordinary
    <3>1. CASE PlaybackInfo
      BY <3>1 DEF PlaybackInfo, Negotiate, Candidate, BindCandidate, BindResponse, Commit,
                  Abort, FailCandidate, Ordinary
    <3>2. CASE Tick \/ Janitor \/ Prune
      BY <3>2 DEF Tick, Janitor, Prune, Ordinary
    <3>3. CASE UNCHANGED vars
      BY <3>3 DEF vars, Ordinary
    <3> QED
      BY <1>1, <3>1, <3>2, <3>3
  <2> QED
    BY <2>1, <2>2, OtherSends
<1>2. ASSUME NEW r \in Requests, Step(r) PROVE SendInv'
  BY <1>2, PassesSend, DeliveredSends, BeginSends, SettlesSend DEF Step, Passes
<1>3. ASSUME NEW r \in Requests, NEW a \in Attempts, NEW op \in Ops, Admit(r, a, op)
      PROVE  SendInv'
  BY <1>3, AdmitSends
<1> QED
  BY <1>1, <1>2, <1>3 DEF Next

LEMMA SendInit == Init => SendInv
<1> SUFFICES ASSUME Init PROVE SendInv
  OBVIOUS
<1>1. \A a \in Attempts : entries[a].inFlight = {}
  <2>1. \A u, s, i : [Store!Fresh(u, s, i) EXCEPT !.state = "unused"].inFlight = {}
    BY DEF Store!Fresh
  <2>2. \A a \in Attempts :
            \E u \in Users, s \in Servers, i \in Items :
               entries[a] = [Store!Fresh(u, s, i) EXCEPT !.state = "unused"]
    BY DEF Init, Store!Init
  <2>3. ASSUME NEW a \in Attempts PROVE entries[a].inFlight = {}
    <3>1. PICK u, s, i : entries[a] = [Store!Fresh(u, s, i) EXCEPT !.state = "unused"]
      BY <2>2
    <3> QED
      BY <2>1, <3>1
  <2> QED
    BY <2>3
<1>2. \A r \in Requests : requests[r].pc = "idle" /\ ~requests[r].acked
  BY DEF Init, NotServed
<1>3. OperationsOwned
  BY <1>2 DEF OperationsOwned, ClaimHeld, Begun, Sends
<1> QED
  BY <1>1, <1>3 DEF SendInv, Drains, Store!CleanupSparesNewerAttempt

\* Whatever stops, retries, first uses and negotiations are under way: a stop on its
\* way to the upstream hits no newer attempt, it is the only one of its operation,
\* and once the upstream accepted an operation it is not sent again while the
\* binding lives (beginCleanup, confirmCleanup and endCleanup around the upstream
\* call in forwardStrictCleanup), for any number of attempts and requests.
THEOREM StopsAreSentOnce == Spec => []StopsSentOnce
<1>1. HandlerInv /\ SendInv => StopsSentOnce
  <2> SUFFICES ASSUME HandlerInv, SendInv, NEW r \in Requests, AtUpstream(r)
               PROVE  LET a == requests[r].attempt
                          op == requests[r].op
                      IN  /\ \A b \in Attempts :
                                /\ entries[b].state = "active" /\ ~Store!Expired(entries[b])
                                /\ Store!RemoteConflict(entries[b], entries[a], op)
                                => entries[b].seq <= entries[a].seq
                          /\ \A q \in Requests \ {r} : SameOperation(r, q) =>
                                ~AtUpstream(q) /\ ~(requests[q].acked /\ Store!Found(entries[a]))
    BY DEF StopsSentOnce
  <2>1. PICK a, op : a = requests[r].attempt /\ op = requests[r].op
    OBVIOUS
  <2>2. OperationsOwned /\ Begun(requests[r]) /\ Sends(requests[r])
    BY DEF SendInv, AtUpstream, At, IsCleanup, Begun, Sends
  <2>3. a \in Attempts /\ op \in entries[a].inFlight /\ op \notin entries[a].confirmed
    BY <2>1, <2>2, BegunServes DEF OperationsOwned, ClaimHeld
  <2>4. \A b \in Attempts :
            /\ entries[b].state = "active" /\ ~Store!Expired(entries[b])
            /\ Store!RemoteConflict(entries[b], entries[a], op)
            => entries[b].seq <= entries[a].seq
    BY <2>3 DEF SendInv, Store!CleanupSparesNewerAttempt
  <2>5. ASSUME NEW q \in Requests \ {r}, SameOperation(r, q)
        PROVE  ~AtUpstream(q) /\ ~(requests[q].acked /\ Store!Found(entries[a]))
    <3>1. ~Begun(requests[q]) /\ requests[q].attempt = a /\ requests[q].op = op
      BY <2>1, <2>2, <2>5 DEF OperationsOwned, SameOperation
    <3>2. ~AtUpstream(q) /\ requests[q].pc # "confirm"
      BY <2>1, <2>2, <3>1 DEF AtUpstream, At, IsCleanup, Begun, Sends
    <3>3. ~(requests[q].acked /\ Store!Found(entries[a]))
      BY <2>2, <2>3, <3>1, <3>2 DEF OperationsOwned, ClaimHeld
    <3> QED
      BY <3>2, <3>3
  <2> QED
    BY <2>1, <2>4, <2>5
<1> QED
  BY <1>1, SendInit, SendStep, HandlerInvariance, PTL DEF Spec

===============================================================================
