--------------------- MODULE PlaybackIdentityStore_proofs ---------------------
(***************************************************************************)
(* Proofs about PlaybackIdentityStore, for every number of attempts, every *)
(* deadline and every capacity: type correctness, that the per-user        *)
(* counters are exact, that no stop in flight at an upstream can hit a     *)
(* newer attempt, and that the life of a binding only moves forward.       *)
(***************************************************************************)
EXTENDS PlaybackIdentityStore, FiniteSetTheorems, TLAPS

-------------------------------------------------------------------------------
(* Types.                                                                  *)

LEMMA TTLs ==
    /\ MaxTTL \in Nat /\ 0 \in 0..MaxTTL
    /\ PendingTTL <= MaxTTL /\ ActiveTTL <= MaxTTL /\ TerminalTTL <= MaxTTL
BY TTLAssumption DEF MaxTTL

LEMMA OperationsFinite ==
    \A ops \in SUBSET Operations : IsFiniteSet(ops) /\ Cardinality(ops) \in Nat
<1>1. IsFiniteSet({"Stopped", "ActiveEncodings", "PlayingItems"})
  <2>1. IsFiniteSet({}) /\ IsFiniteSet({} \cup {"Stopped"})
    BY FS_EmptySet, FS_AddElement
  <2>2. IsFiniteSet(({} \cup {"Stopped"}) \cup {"ActiveEncodings"})
    BY <2>1, FS_AddElement
  <2>3. IsFiniteSet((({} \cup {"Stopped"}) \cup {"ActiveEncodings"}) \cup {"PlayingItems"})
    BY <2>2, FS_AddElement
  <2>4. {"Stopped", "ActiveEncodings", "PlayingItems"} =
          (({} \cup {"Stopped"}) \cup {"ActiveEncodings"}) \cup {"PlayingItems"}
    OBVIOUS
  <2> QED BY <2>3, <2>4
<1> QED BY <1>1, OperationsAssumption, FS_Subset, FS_CardinalityType

LEMMA EntryTypes ==
    ASSUME NEW e \in Entry
    PROVE  /\ Removed(e) \in Entry
           /\ \A st \in States : Enter(e, st) \in Entry
           /\ Used(e) \in Entry
           /\ \A st \in Terminal : Finished(e, st) \in Entry
           /\ Drained(e) \in Entry
<1>. USE TTLs, CapacityAssumption
<1>1. Removed(e) \in Entry
  <2>1. "gone" \in States /\ 0 \in 0..MaxTTL /\ 0 \in 0..MaxLeases /\ 0 \in Nat
        /\ None \in Aliases \cup {None} /\ {} \in SUBSET Operations
    BY DEF States
  <2> QED BY <2>1 DEF Removed, Entry
<1>2. \A st \in States : Enter(e, st) \in Entry
  BY DEF Enter, Entry
<1>3. Used(e) \in Entry
  BY DEF Used, Entry
<1>4. "stopping" \in States /\ Terminal \subseteq States
  BY DEF States, Stored, Terminal
<1> QED BY <1>1, <1>2, <1>3, <1>4 DEF Finished, Drained

LEMMA FreshType ==
    ASSUME NEW u \in Users, NEW acc \in Accounts, NEW i \in Items
    PROVE  Fresh(u, acc, i) \in Entry
BY TTLs, CapacityAssumption DEF Fresh, Entry, States, Stored, Workable

LEMMA PrunedType ==
    ASSUME NEW es \in [Attempts -> Entry]
    PROVE  Pruned(es) \in [Attempts -> Entry]
BY EntryTypes DEF Pruned

LEMMA CountsType ==
    ASSUME NEW es \in [Attempts -> Entry], perUser \in [Users -> Int]
    PROVE  CountsAfterPrune(es) \in [Users -> Int]
<1>1. \A u \in Users : Cardinality(PrunedOf(es, u)) \in Nat
  BY AttemptsAssumption, FS_Subset, FS_CardinalityType DEF PrunedOf
<1> QED BY <1>1 DEF CountsAfterPrune

LEMMA PutType ==
    ASSUME TypeOK, NEW a \in Attempts, NEW e \in Entry, PruneAndPut(a, e),
           activationSequence' \in Nat
    PROVE  TypeOK'
BY PrunedType, CountsType DEF PruneAndPut, TypeOK

LEMMA TypeInit == Init => TypeOK
<1> SUFFICES ASSUME Init PROVE TypeOK
  OBVIOUS
<1>1. ASSUME NEW u \in Users, NEW acc \in Accounts, NEW i \in Items
      PROVE  [Fresh(u, acc, i) EXCEPT !.state = "unused"] \in Entry
  BY FreshType DEF Entry, States
<1> QED BY <1>1 DEF Init, TypeOK

LEMMA TypeStep == TypeOK /\ [Next]_vars => TypeOK'
<1> SUFFICES ASSUME TypeOK, [Next]_vars PROVE TypeOK'
  OBVIOUS
<1>0. entries \in [Attempts -> Entry] /\ perUser \in [Users -> Int] /\ activationSequence \in Nat
  BY DEF TypeOK
<1>1. ASSUME NEW a \in Attempts, Reserve(a) PROVE TypeOK'
  <2>1. entries[a].user \in Users /\ Fresh(entries[a].user, entries[a].account, entries[a].item) \in Entry
    BY <1>0, FreshType DEF Entry
  <2>2. Pruned(entries) \in [Attempts -> Entry] /\ CountsAfterPrune(entries) \in [Users -> Int]
    BY <1>0, PrunedType, CountsType
  <2>3. entries' \in [Attempts -> Entry]
    BY <1>1, <2>1, <2>2 DEF Reserve
  <2>4. perUser' \in [Users -> Int]
    BY <1>1, <2>1, <2>2 DEF Reserve
  <2> QED BY <1>0, <1>1, <2>3, <2>4 DEF Reserve, TypeOK
<1>2. ASSUME NEW a \in Attempts, NEW value \in Aliases, BindAlias(a, value) PROVE TypeOK'
  <2>1. [entries[a] EXCEPT !.alias = value] \in Entry
    BY <1>0 DEF Entry
  <2> QED BY <1>0, <1>2, <2>1, PutType DEF BindAlias
<1>3. ASSUME NEW a \in Attempts, Activate(a) PROVE TypeOK'
  <2>1. Enter(entries[a], "active") \in Entry
    BY <1>0, EntryTypes DEF States, Stored, Workable
  <2>2. ASSUME NEW e \in Entry, NEW n \in Nat
        PROVE  [e EXCEPT !.seq = n] \in Entry
    BY DEF Entry
  <2>3. [Enter(entries[a], "active") EXCEPT !.seq = activationSequence + 1] \in Entry
    BY <1>0, <2>1, <2>2
  <2> QED BY <1>0, <1>3, <2>3, PutType DEF Activate
<1>4. ASSUME NEW a \in Attempts, Lease(a) \/ LeaseCleanup(a) PROVE TypeOK'
  <2>1. ASSUME NEW e \in Entry, e.leases < MaxLeases
        PROVE  [e EXCEPT !.leases = @ + 1] \in Entry
    BY <2>1, CapacityAssumption DEF Entry
  <2>2. Used(entries[a]) \in Entry /\ Used(entries[a]).leases = entries[a].leases
    BY <1>0, EntryTypes DEF Used, Entry
  <2>3. entries[a].leases < MaxLeases
    BY <1>4 DEF Lease, LeaseCleanup
  <2>4. [Used(entries[a]) EXCEPT !.leases = @ + 1] \in Entry /\ [entries[a] EXCEPT !.leases = @ + 1] \in Entry
    BY <1>0, <2>1, <2>2, <2>3
  <2> QED BY <1>0, <1>4, <2>4, PutType DEF Lease, LeaseCleanup
<1>5. ASSUME NEW a \in Attempts, Touch(a) \/ Stop(a) \/ (\E st \in Terminal : Finish(a, st)) PROVE TypeOK'
  BY <1>0, <1>5, EntryTypes, PutType DEF Touch, Stop, Finish
<1>6. ASSUME NEW a \in Attempts, NEW op \in Operations,
             BeginCleanup(a, op) \/ ConfirmCleanup(a, op) \/ EndCleanup(a, op)
      PROVE  TypeOK'
  <2>0. ASSUME NEW e \in Entry
        PROVE  /\ [e EXCEPT !.inFlight = @ \cup {op}] \in Entry
               /\ [e EXCEPT !.confirmed = @ \cup {op}] \in Entry
               /\ [e EXCEPT !.inFlight = @ \ {op}] \in Entry
    BY DEF Entry
  <2>1. /\ [Drained(entries[a]) EXCEPT !.inFlight = @ \cup {op}] \in Entry
        /\ [entries[a] EXCEPT !.confirmed = @ \cup {op}] \in Entry
        /\ [entries[a] EXCEPT !.inFlight = @ \ {op}] \in Entry
    BY <1>0, <2>0, EntryTypes
  <2>2. entries' \in [Attempts -> Entry]
    BY <1>0, <1>6, <2>1 DEF BeginCleanup, ConfirmCleanup, EndCleanup
  <2> QED BY <1>6, <2>2 DEF BeginCleanup, ConfirmCleanup, EndCleanup, TypeOK
<1>7. ASSUME NEW a \in Attempts, Release(a) PROVE TypeOK'
  <2>1. Cardinality(entries[a].inFlight) \in Nat
    BY <1>0, OperationsFinite DEF Entry
  <2>2. [entries[a] EXCEPT !.leases = @ - 1] \in Entry
    <3>1. entries[a].leases \in 0..MaxLeases /\ entries[a].leases > 0
      BY <1>0, <1>7, <2>1, CapacityAssumption DEF Release, Entry
    <3>2. entries[a].leases - 1 \in 0..MaxLeases
      BY <3>1, CapacityAssumption
    <3> QED BY <1>0, <3>2 DEF Entry
  <2>3. [entries EXCEPT ![a].leases = @ - 1] \in [Attempts -> Entry]
    BY <1>0, <2>2
  <2> QED BY <1>0, <1>7, <2>3, PrunedType, CountsType DEF Release, TypeOK
<1>8. CASE Cleanup
  BY <1>0, <1>8, PrunedType, CountsType DEF Cleanup, TypeOK
<1>9. CASE Tick
  <2>1. ASSUME NEW a \in Attempts, Found(entries[a])
        PROVE  [entries[a] EXCEPT !.age = @ + 1] \in Entry
    BY <1>0, <2>1, TTLs, TTLAssumption DEF Found, Expired, Deadline, Entry
  <2> QED BY <1>0, <1>9, <2>1 DEF Tick, TypeOK
<1>10. CASE UNCHANGED vars
  BY <1>10 DEF vars, TypeOK
<1> QED BY <1>1, <1>2, <1>3, <1>4, <1>5, <1>6, <1>7, <1>8, <1>9, <1>10 DEF Next

\* Every binding stays well-formed: its age never passes the deadline of its state,
\* whatever operations repeat, retry or overlap.
THEOREM TypeCorrect == Spec => []TypeOK
BY TypeInit, TypeStep, PTL DEF Spec

-------------------------------------------------------------------------------
(* Collisions at the upstream.                                             *)

\* An attempt with a cleanup in flight has left the workable states for good.
DrainingInv ==
    \A a \in Attempts :
        entries[a].inFlight # {} => entries[a].state \in {"stopping"} \cup Terminal
CollisionInv == TypeOK /\ DrainingInv /\ CleanupSparesNewerAttempt

\* How every operation but an activation and the begin of a cleanup rewrites a
\* binding: either it is idle afterwards, or nothing a collision depends on grew.
Calm(e, f) ==
    \/ f.inFlight = {} /\ f.state # "active"
    \/ /\ f.inFlight \subseteq e.inFlight
       /\ f.account = e.account /\ f.item = e.item /\ f.alias = e.alias /\ f.seq = e.seq
       /\ f.state = "active" /\ ~Expired(f) => e.state = "active" /\ ~Expired(e)
       /\ e.state \in {"stopping"} \cup Terminal => f.state \in {"stopping"} \cup Terminal

LEMMA CalmStep ==
    ASSUME CollisionInv, TypeOK', \A a \in Attempts : Calm(entries[a], entries'[a])
    PROVE  CollisionInv'
<1>1. DrainingInv'
  BY DEF CollisionInv, DrainingInv, Calm
<1>2. CleanupSparesNewerAttempt'
  <2> SUFFICES ASSUME NEW a \in Attempts, NEW b \in Attempts, NEW op \in entries'[a].inFlight,
                      entries'[b].state = "active", ~Expired(entries'[b]),
                      RemoteConflict(entries'[b], entries'[a], op)
               PROVE  entries'[b].seq <= entries'[a].seq
    BY DEF CleanupSparesNewerAttempt
  <2>1. /\ op \in entries[a].inFlight
        /\ entries'[a].account = entries[a].account /\ entries'[a].item = entries[a].item
        /\ entries'[a].alias = entries[a].alias /\ entries'[a].seq = entries[a].seq
    BY DEF Calm
  <2>2. /\ entries[b].state = "active" /\ ~Expired(entries[b])
        /\ entries'[b].account = entries[b].account /\ entries'[b].item = entries[b].item
        /\ entries'[b].alias = entries[b].alias /\ entries'[b].seq = entries[b].seq
    BY DEF Calm
  <2>3. RemoteConflict(entries[b], entries[a], op)
    BY <2>1, <2>2 DEF RemoteConflict
  <2> QED BY <2>1, <2>2, <2>3 DEF CollisionInv, CleanupSparesNewerAttempt
<1> QED BY <1>1, <1>2 DEF CollisionInv

LEMMA CalmSame == \A e : Calm(e, e)
BY DEF Calm

LEMMA CalmRemoved == \A e \in Entry : \A d : Calm(d, Removed(e))
BY DEF Calm, Removed, Entry

\* Pruning is calm, and so is pruning after one calm write.
LEMMA CalmPruned ==
    ASSUME NEW es \in [Attempts -> Entry], NEW a \in Attempts
    PROVE  Calm(es[a], Pruned(es)[a])
BY CalmSame, CalmRemoved DEF Pruned

LEMMA CalmPut ==
    ASSUME CollisionInv, TypeOK', NEW a \in Attempts, NEW e \in Entry, PruneAndPut(a, e),
           Calm(entries[a], e)
    PROVE  CollisionInv'
<1>1. entries \in [Attempts -> Entry] /\ Pruned(entries) \in [Attempts -> Entry]
  BY PrunedType DEF CollisionInv, TypeOK
<1>2. ASSUME NEW b \in Attempts PROVE Calm(entries[b], entries'[b])
  BY <1>1, CalmPruned DEF PruneAndPut
<1> QED BY <1>2, CalmStep

LEMMA CollisionActivate ==
    ASSUME CollisionInv, TypeOK', NEW a \in Attempts, Activate(a)
    PROVE  CollisionInv'
<1>. DEFINE f == [Enter(entries[a], "active") EXCEPT !.seq = activationSequence + 1]
<1>0. /\ entries \in [Attempts -> Entry] /\ entries[a] \in Entry
      /\ Pruned(entries) \in [Attempts -> Entry] /\ activationSequence \in Nat
  BY PrunedType DEF CollisionInv, TypeOK
<1>1. CASE PruneAndPut(a, entries[a])
  BY <1>0, <1>1, CalmPut, CalmSame
<1>2. CASE /\ entries[a].state = "pending" /\ ~AliasCleanupInFlight(Pruned(entries), a)
           /\ PruneAndPut(a, f)
  <2>1. entries' = [Pruned(entries) EXCEPT ![a] = f]
    BY <1>2 DEF PruneAndPut
  <2>2. entries[a].inFlight = {}
    BY <1>2 DEF CollisionInv, DrainingInv, Terminal
  <2>3. /\ f.state = "active" /\ f.inFlight = {} /\ f.account = entries[a].account
        /\ f.item = entries[a].item /\ f.alias = entries[a].alias
    BY <1>0, <2>2 DEF Enter, Entry
  <2>4. entries'[a] = f /\ \A b \in Attempts \ {a} : entries'[b] = Pruned(entries)[b]
    BY <1>0, <2>1
  <2>5. DrainingInv'
    <3> SUFFICES ASSUME NEW b \in Attempts, entries'[b].inFlight # {}
                 PROVE  entries'[b].state \in {"stopping"} \cup Terminal
      BY DEF DrainingInv
    <3>1. b # a
      BY <2>3, <2>4
    <3>2. Calm(entries[b], entries'[b])
      BY <1>0, <2>4, <3>1, CalmPruned
    <3>3. entries[b].inFlight # {} /\ entries[b].state \in {"stopping"} \cup Terminal
      BY <3>2 DEF Calm, CollisionInv, DrainingInv
    <3> QED BY <3>2, <3>3 DEF Calm
  <2>6. CleanupSparesNewerAttempt'
    <3> SUFFICES ASSUME NEW c \in Attempts, NEW b \in Attempts, NEW op \in entries'[c].inFlight,
                        entries'[b].state = "active", ~Expired(entries'[b]),
                        RemoteConflict(entries'[b], entries'[c], op)
                 PROVE  entries'[b].seq <= entries'[c].seq
      BY DEF CleanupSparesNewerAttempt
    <3>1. c # a
      BY <2>3, <2>4
    <3>2. op \in Pruned(entries)[c].inFlight /\ entries'[c] = Pruned(entries)[c]
      BY <2>4, <3>1
    <3>3. b # a
      <4> SUFFICES ASSUME b = a PROVE FALSE
        OBVIOUS
      <4>0. Pruned(entries)[a] = entries[a] \/ Pruned(entries)[a] = Removed(entries[a])
        BY <1>0 DEF Pruned
      <4>1. ~Pruneable(entries[a])
        BY DEF Activate, Found, Pruneable
      <4>2. Pruned(entries)[a] = entries[a]
        BY <4>1 DEF Pruned
      <4>3. RemoteConflict(Pruned(entries)[c], Pruned(entries)[a], op)
        BY <2>3, <2>4, <3>2, <4>2 DEF RemoteConflict
      <4> QED BY <1>2, <3>1, <3>2, <4>3 DEF AliasCleanupInFlight
    <3>4. /\ Calm(entries[c], entries'[c]) /\ Calm(entries[b], entries'[b])
      BY <1>0, <2>4, <3>1, <3>3, CalmPruned
    <3>5. /\ op \in entries[c].inFlight
          /\ entries'[c].account = entries[c].account /\ entries'[c].item = entries[c].item
          /\ entries'[c].alias = entries[c].alias /\ entries'[c].seq = entries[c].seq
      BY <3>4 DEF Calm
    <3>6. /\ entries[b].state = "active" /\ ~Expired(entries[b])
          /\ entries'[b].account = entries[b].account /\ entries'[b].item = entries[b].item
          /\ entries'[b].alias = entries[b].alias /\ entries'[b].seq = entries[b].seq
      BY <3>4 DEF Calm
    <3>7. RemoteConflict(entries[b], entries[c], op)
      BY <3>5, <3>6 DEF RemoteConflict
    <3> QED BY <3>5, <3>6, <3>7 DEF CollisionInv, CleanupSparesNewerAttempt
  <2> QED BY <2>5, <2>6 DEF CollisionInv
<1> QED BY <1>1, <1>2 DEF Activate

LEMMA CollisionBegin ==
    ASSUME CollisionInv, TypeOK', NEW a \in Attempts, NEW op \in Operations, BeginCleanup(a, op)
    PROVE  CollisionInv'
<1>. DEFINE f == [Drained(entries[a]) EXCEPT !.inFlight = @ \cup {op}]
<1>0. entries \in [Attempts -> Entry] /\ entries[a] \in Entry /\ Drained(entries[a]) \in Entry
  BY EntryTypes DEF CollisionInv, TypeOK
<1>1. entries'[a] = f /\ \A b \in Attempts \ {a} : entries'[b] = entries[b]
  BY <1>0 DEF BeginCleanup
<1>2. /\ f.inFlight = entries[a].inFlight \cup {op} /\ f.account = entries[a].account
      /\ f.item = entries[a].item /\ f.alias = entries[a].alias /\ f.seq = entries[a].seq
      /\ f.state \in {"stopping"} \cup Terminal
  <2>1. entries[a].state \in Stored
    BY DEF BeginCleanup, Found, Present
  <2> QED BY <1>0, <2>1 DEF Drained, Enter, Entry, Stored, Workable
<1>3. DrainingInv'
  BY <1>1, <1>2 DEF CollisionInv, DrainingInv
<1>4. CleanupSparesNewerAttempt'
  <2> SUFFICES ASSUME NEW c \in Attempts, NEW b \in Attempts, NEW o \in entries'[c].inFlight,
                      entries'[b].state = "active", ~Expired(entries'[b]),
                      RemoteConflict(entries'[b], entries'[c], o)
               PROVE  entries'[b].seq <= entries'[c].seq
    BY DEF CleanupSparesNewerAttempt
  <2>1. b # a
    BY <1>1, <1>2 DEF Terminal
  <2>2. entries'[b] = entries[b]
    BY <1>1, <2>1
  <2>3. /\ entries'[c].account = entries[c].account /\ entries'[c].item = entries[c].item
        /\ entries'[c].alias = entries[c].alias /\ entries'[c].seq = entries[c].seq
    BY <1>1, <1>2
  <2>4. RemoteConflict(entries[b], entries[c], o)
    BY <2>2, <2>3 DEF RemoteConflict
  <2>5. CASE o \in entries[c].inFlight
    BY <2>2, <2>3, <2>4, <2>5 DEF CollisionInv, CleanupSparesNewerAttempt
  <2>6. CASE c = a /\ o = op
    <3>1. ~(entries[b].seq > entries[a].seq)
      <4>1. ~NewerActiveAlias(a, op) /\ b \in Attempts \ {a}
        BY <2>1 DEF BeginCleanup
      <4>2. /\ entries[b].state = "active" /\ ~Expired(entries[b])
            /\ RemoteConflict(entries[b], entries[a], op)
        BY <2>2, <2>4, <2>6
      <4> QED BY <4>1, <4>2 DEF NewerActiveAlias
    <3>2. entries[b].seq \in Nat /\ entries[a].seq \in Nat
      BY <1>0 DEF Entry
    <3> QED BY <2>2, <2>3, <2>6, <3>1, <3>2
  <2>7. o \in entries[c].inFlight \/ (c = a /\ o = op)
    <3>1. entries'[a].inFlight = entries[a].inFlight \cup {op}
      BY <1>1, <1>2
    <3>2. c # a => entries'[c].inFlight = entries[c].inFlight
      BY <1>1
    <3> QED BY <3>1, <3>2
  <2> QED BY <2>5, <2>6, <2>7
<1> QED BY <1>3, <1>4 DEF CollisionInv

LEMMA CollisionInit == Init => CollisionInv
<1> SUFFICES ASSUME Init PROVE CollisionInv
  OBVIOUS
<1>1. \A a \in Attempts : entries[a].inFlight = {}
  <2>1. ASSUME NEW u, NEW acc, NEW i
        PROVE  [Fresh(u, acc, i) EXCEPT !.state = "unused"].inFlight = {}
    BY DEF Fresh
  <2>2. \A a \in Attempts : \E u, acc, i : entries[a] = [Fresh(u, acc, i) EXCEPT !.state = "unused"]
    BY DEF Init
  <2>3. ASSUME NEW a \in Attempts PROVE entries[a].inFlight = {}
    <3>1. PICK u, acc, i : entries[a] = [Fresh(u, acc, i) EXCEPT !.state = "unused"]
      BY <2>2
    <3> QED BY <2>1, <3>1
  <2> QED BY <2>3
<1> QED BY <1>1, TypeInit DEF CollisionInv, DrainingInv, CleanupSparesNewerAttempt

-------------------------------------------------------------------------------
(* The operations that only rewrite the binding they are called for.       *)

Rewrite(e, f) == f \in Entry /\ Present(f) /\ f.user = e.user /\ LifeStep(e, f)

Ordinary(a) ==
    \/ \E value \in Aliases : BindAlias(a, value)
    \/ Lease(a) \/ LeaseCleanup(a) \/ Touch(a) \/ Stop(a)
    \/ \E state \in Terminal : Finish(a, state)

\* A binding that is found is neither terminally nor temporally out of reach: what
\* is left to check of LifeStep is that its state does not move backward.
LEMMA FoundRewrite ==
    ASSUME NEW e \in Entry, Found(e), NEW f \in Entry, Present(f), f.user = e.user,
           f.state # e.state => Stage(f.state) > Stage(e.state)
    PROVE  Rewrite(e, f)
BY DEF Rewrite, LifeStep, Found, Present, Stored, Workable, Terminal

LEMMA Stages ==
    /\ Stage("unused") = 0 /\ Stage("pending") = 1 /\ Stage("active") = 2
    /\ Stage("stopping") = 3 /\ Stage("retired") = 4 /\ Stage("failed") = 4
    /\ Stage("gone") = 5
BY DEF Stage

LEMMA Writes ==
    ASSUME NEW e \in Entry, Found(e)
    PROVE  /\ Rewrite(e, e) /\ Calm(e, e)
           /\ Rewrite(e, Used(e)) /\ Calm(e, Used(e))
           /\ Rewrite(e, Drained(e)) /\ Calm(e, Drained(e))
           /\ \A st \in Terminal : Rewrite(e, Finished(e, st)) /\ Calm(e, Finished(e, st))
<1>0. Present(e) /\ ~Expired(e) /\ e.state \in Stored
  BY DEF Found, Present
<1>1. Rewrite(e, e) /\ Calm(e, e)
  BY <1>0, FoundRewrite, CalmSame
<1>2. Rewrite(e, Used(e)) /\ Calm(e, Used(e))
  <2>1. Used(e) \in Entry
    BY EntryTypes
  <2>2. /\ Used(e).state = e.state /\ Used(e).user = e.user /\ Used(e).inFlight = e.inFlight
        /\ Used(e).account = e.account /\ Used(e).item = e.item /\ Used(e).alias = e.alias
        /\ Used(e).seq = e.seq
    BY DEF Used, Entry
  <2> QED BY <1>0, <2>1, <2>2, FoundRewrite DEF Present, Calm
<1>3. ASSUME NEW st \in {"stopping"} \cup Terminal
      PROVE  /\ Enter(e, st) \in Entry
             /\ Enter(e, st).state = st /\ Enter(e, st).user = e.user
             /\ Enter(e, st).inFlight = e.inFlight
             /\ Enter(e, st).account = e.account /\ Enter(e, st).item = e.item
             /\ Enter(e, st).alias = e.alias /\ Enter(e, st).seq = e.seq
             /\ Calm(e, Enter(e, st))
             /\ Present(Enter(e, st))
  <2>1. st \in States /\ st # "active" /\ st \in Stored
    BY DEF States, Stored, Terminal
  <2>2. Enter(e, st) \in Entry
    BY <2>1, EntryTypes
  <2>3. /\ Enter(e, st).state = st /\ Enter(e, st).user = e.user
        /\ Enter(e, st).inFlight = e.inFlight
        /\ Enter(e, st).account = e.account /\ Enter(e, st).item = e.item
        /\ Enter(e, st).alias = e.alias /\ Enter(e, st).seq = e.seq
    BY DEF Enter, Entry
  <2> QED BY <2>1, <2>2, <2>3 DEF Calm, Present
<1>4. Rewrite(e, Drained(e)) /\ Calm(e, Drained(e))
  <2>1. CASE e.state \in Workable
    <3>1. Stage("stopping") > Stage(e.state)
      BY <2>1, Stages DEF Workable
    <3> QED BY <2>1, <3>1, <1>3, FoundRewrite DEF Drained
  <2>2. CASE e.state \notin Workable
    BY <1>1, <2>2 DEF Drained
  <2> QED BY <2>1, <2>2
<1>5. ASSUME NEW st \in Terminal
      PROVE  Rewrite(e, Finished(e, st)) /\ Calm(e, Finished(e, st))
  <2>1. CASE e.state \in Terminal
    BY <1>1, <2>1 DEF Finished
  <2>2. CASE e.state \notin Terminal
    <3>1. Stage(st) > Stage(e.state)
      BY <1>0, <2>2, Stages DEF Terminal, Stored, Workable
    <3> QED BY <2>2, <3>1, <1>3, FoundRewrite DEF Finished
  <2> QED BY <2>1, <2>2
<1> QED BY <1>1, <1>2, <1>4, <1>5

\* A lease changes nothing but the lease count.
LEMMA Leased ==
    ASSUME NEW e \in Entry, NEW f \in Entry, Found(e), Rewrite(e, f), Calm(e, f),
           f.state = e.state, f.leases < MaxLeases
    PROVE  LET g == [f EXCEPT !.leases = @ + 1] IN Rewrite(e, g) /\ Calm(e, g)
<1>. DEFINE g == [f EXCEPT !.leases = @ + 1]
<1>1. g \in Entry
  BY CapacityAssumption DEF Entry
<1>2. /\ g.state = f.state /\ g.user = f.user /\ g.inFlight = f.inFlight /\ g.age = f.age
      /\ g.account = f.account /\ g.item = f.item /\ g.alias = f.alias /\ g.seq = f.seq
  BY DEF Entry
<1>3. Expired(g) <=> Expired(f)
  BY <1>2 DEF Expired, Deadline
<1>4. Calm(e, g)
  BY <1>2, <1>3 DEF Calm
<1>5. Rewrite(e, g)
  BY <1>1, <1>2, FoundRewrite DEF Rewrite, Present
<1> QED BY <1>4, <1>5

LEMMA OrdinaryWrites ==
    ASSUME TypeOK, DrainingInv, NEW a \in Attempts, Ordinary(a)
    PROVE  /\ Found(entries[a])
           /\ \E f : Rewrite(entries[a], f) /\ Calm(entries[a], f) /\ PruneAndPut(a, f)
<1>0. entries[a] \in Entry
  BY DEF TypeOK
<1>1. ASSUME NEW value \in Aliases, BindAlias(a, value)
      PROVE  /\ Found(entries[a])
             /\ \E f : Rewrite(entries[a], f) /\ Calm(entries[a], f) /\ PruneAndPut(a, f)
  <2>. DEFINE f == [entries[a] EXCEPT !.alias = value]
  <2>1. f \in Entry /\ f.state = "pending" /\ f.user = entries[a].user /\ entries[a].state = "pending"
        /\ f.inFlight = entries[a].inFlight
    BY <1>0, <1>1 DEF BindAlias, Entry
  <2>2. f.inFlight = {}
    BY <2>1 DEF DrainingInv, Terminal
  <2>3. Rewrite(entries[a], f)
    BY <1>0, <1>1, <2>1, FoundRewrite DEF BindAlias, Present, Stored, Workable
  <2> QED BY <1>1, <2>1, <2>2, <2>3 DEF BindAlias, Calm
<1>2. CASE Lease(a)
  <2>1. Used(entries[a]) \in Entry /\ Used(entries[a]).state = entries[a].state
        /\ Used(entries[a]).leases = entries[a].leases
    BY <1>0, EntryTypes DEF Used, Entry
  <2> QED BY <1>0, <1>2, <2>1, Writes, Leased DEF Lease
<1>3. CASE LeaseCleanup(a)
  BY <1>0, <1>3, Writes, Leased DEF LeaseCleanup
<1>4. CASE Touch(a) \/ Stop(a) \/ (\E state \in Terminal : Finish(a, state))
  BY <1>0, <1>4, Writes DEF Touch, Stop, Finish
<1> QED BY <1>1, <1>2, <1>3, <1>4 DEF Ordinary

-------------------------------------------------------------------------------
(* No stop in flight hits a newer attempt.                                 *)

LEMMA CollisionStep == CollisionInv /\ [Next]_vars => CollisionInv'
<1> SUFFICES ASSUME CollisionInv, [Next]_vars PROVE CollisionInv'
  OBVIOUS
<1>0. /\ TypeOK /\ TypeOK' /\ DrainingInv
      /\ entries \in [Attempts -> Entry] /\ Pruned(entries) \in [Attempts -> Entry]
  BY TypeStep, PrunedType DEF CollisionInv, TypeOK
<1>1. ASSUME NEW a \in Attempts, Reserve(a) PROVE CollisionInv'
  <2>1. \A u, acc, i : Fresh(u, acc, i).inFlight = {} /\ Fresh(u, acc, i).state = "pending"
    BY DEF Fresh
  <2>2. ASSUME NEW b \in Attempts PROVE Calm(entries[b], entries'[b])
    <3>1. \/ entries'[b] = Pruned(entries)[b]
          \/ \E u, acc, i : entries'[b] = Fresh(u, acc, i)
      BY <1>0, <1>1 DEF Reserve
    <3> QED BY <1>0, <2>1, <3>1, CalmPruned DEF Calm
  <2> QED BY <1>0, <2>2, CalmStep
<1>2. ASSUME NEW a \in Attempts, Ordinary(a) PROVE CollisionInv'
  BY <1>0, <1>2, OrdinaryWrites, CalmPut DEF Rewrite
<1>3. ASSUME NEW a \in Attempts, NEW op \in Operations, ConfirmCleanup(a, op) \/ EndCleanup(a, op)
      PROVE  CollisionInv'
  <2>1. ASSUME NEW e \in Entry
        PROVE  /\ Calm(e, [e EXCEPT !.confirmed = @ \cup {op}])
               /\ Calm(e, [e EXCEPT !.inFlight = @ \ {op}])
    BY DEF Calm, Entry, Expired, Deadline
  <2>2. ASSUME NEW b \in Attempts PROVE Calm(entries[b], entries'[b])
    BY <1>0, <1>3, <2>1, CalmSame DEF ConfirmCleanup, EndCleanup
  <2> QED BY <1>0, <2>2, CalmStep
<1>4. ASSUME NEW a \in Attempts, Release(a) PROVE CollisionInv'
  <2>. DEFINE es == [entries EXCEPT ![a].leases = @ - 1]
  <2>1. ASSUME NEW b \in Attempts
        PROVE  Calm(entries[b], es[b]) /\ (es[b].inFlight # {} => Calm(entries[b], es[b]))
    BY <1>0, CalmSame DEF Calm, Entry, Expired, Deadline
  <2>2. ASSUME NEW b \in Attempts PROVE Calm(entries[b], entries'[b])
    <3>1. entries'[b] = es[b] \/ entries'[b] = Removed(es[b])
      BY <1>4 DEF Release, Pruned
    <3>2. \A e : Removed(e) = [e EXCEPT !.state = "gone", !.age = 0, !.leases = 0, !.seq = 0,
                                        !.alias = None, !.inFlight = {}, !.confirmed = {}]
      BY DEF Removed
    <3>3. Removed(es[b]).inFlight = {} /\ Removed(es[b]).state = "gone"
      BY <1>0, <3>2 DEF Entry
    <3> QED BY <2>1, <3>1, <3>3 DEF Calm
  <2> QED BY <1>0, <2>2, CalmStep
<1>5. CASE Cleanup
  BY <1>0, <1>5, CalmPruned, CalmStep DEF Cleanup
<1>6. CASE Tick
  <2>1. ASSUME NEW e \in Entry, Found(e) PROVE Calm(e, [e EXCEPT !.age = @ + 1])
    BY <2>1, TTLAssumption DEF Calm, Entry, Found
  <2>2. ASSUME NEW b \in Attempts PROVE Calm(entries[b], entries'[b])
    BY <1>0, <1>6, <2>1, CalmSame DEF Tick
  <2> QED BY <1>0, <2>2, CalmStep
<1>7. CASE UNCHANGED vars
  BY <1>7, <1>0, CalmSame, CalmStep DEF vars
<1> QED BY <1>0, <1>1, <1>2, <1>3, <1>4, <1>5, <1>6, <1>7, CollisionActivate, CollisionBegin
        DEF Next, Ordinary

LEMMA CollisionInvariant == Spec => []CollisionInv
BY CollisionInit, CollisionStep, PTL DEF Spec

\* No stop, encoding delete or PlayingItems delete in flight at an upstream reaches
\* a session a newer attempt has meanwhile become active on (beginCleanup,
\* newerActiveAliasLocked, aliasCleanupInFlightLocked).
THEOREM CleanupsSpareNewerAttempts == Spec => []CleanupSparesNewerAttempt
<1>1. CollisionInv => CleanupSparesNewerAttempt
  BY DEF CollisionInv
<1> QED BY <1>1, CollisionInvariant, PTL

-------------------------------------------------------------------------------
(* The life of a binding.                                                  *)

LEMMA LifeSame == \A e \in Entry : LifeStep(e, e)
BY DEF LifeStep, Present, Stored, Workable, Terminal, Entry

LEMMA LifeRemoved ==
    ASSUME NEW e \in Entry, Pruneable(e)
    PROVE  LifeStep(e, Removed(e))
<1>1. Removed(e).state = "gone" /\ Removed(e).leases = 0
  BY DEF Removed, Entry
<1>2. Stage("gone") > Stage(e.state) /\ "gone" \notin Stored
  BY Stages DEF Pruneable, Present, Stored, Workable, Terminal
<1> QED BY <1>1, <1>2 DEF LifeStep, Pruneable, Present

LEMMA LifePruned ==
    ASSUME NEW es \in [Attempts -> Entry], NEW a \in Attempts
    PROVE  LifeStep(es[a], Pruned(es)[a])
BY LifeSame, LifeRemoved DEF Pruned

LEMMA LifeStepLemma ==
    CollisionInv /\ [Next]_vars => [\A a \in Attempts : LifeStep(entries[a], entries'[a])]_vars
<1> SUFFICES ASSUME CollisionInv, Next, NEW b \in Attempts PROVE LifeStep(entries[b], entries'[b])
  BY DEF vars
<1>0. /\ TypeOK /\ DrainingInv /\ entries[b] \in Entry
      /\ entries \in [Attempts -> Entry] /\ Pruned(entries) \in [Attempts -> Entry]
      /\ LifeStep(entries[b], entries[b]) /\ LifeStep(entries[b], Pruned(entries)[b])
  BY PrunedType, LifePruned, LifeSame DEF CollisionInv, TypeOK
<1>1. ASSUME NEW a \in Attempts, Reserve(a) PROVE LifeStep(entries[b], entries'[b])
  <2>1. entries'[b] = Pruned(entries)[b]
        \/ (entries[b].state = "unused" /\ \E u, acc, i : entries'[b] = Fresh(u, acc, i))
    BY <1>0, <1>1 DEF Reserve
  <2>2. \A u, acc, i : Fresh(u, acc, i).state = "pending"
    BY DEF Fresh
  <2> QED BY <1>0, <2>1, <2>2, Stages DEF LifeStep, Present, Stored, Workable, Terminal
<1>2. ASSUME NEW a \in Attempts, Ordinary(a) PROVE LifeStep(entries[b], entries'[b])
  <2>1. PICK f : Rewrite(entries[a], f) /\ PruneAndPut(a, f)
    BY <1>0, <1>2, OrdinaryWrites
  <2> QED BY <1>0, <2>1 DEF PruneAndPut, Rewrite
<1>3. ASSUME NEW a \in Attempts, Activate(a) PROVE LifeStep(entries[b], entries'[b])
  <2>. DEFINE f == [Enter(entries[a], "active") EXCEPT !.seq = activationSequence + 1]
  <2>1. CASE PruneAndPut(a, entries[a])
    BY <1>0, <2>1, LifeSame DEF PruneAndPut
  <2>2. CASE entries[a].state = "pending" /\ PruneAndPut(a, f)
    <3>1. f.state = "active"
      BY <1>0 DEF Enter, Entry
    <3>2. LifeStep(entries[a], f)
      BY <1>3, <2>2, <3>1, Stages DEF Activate, Found, LifeStep
    <3> QED BY <1>0, <2>2, <3>2 DEF PruneAndPut
  <2> QED BY <1>3, <2>1, <2>2 DEF Activate
<1>4. ASSUME NEW a \in Attempts, NEW op \in Operations, BeginCleanup(a, op)
      PROVE  LifeStep(entries[b], entries'[b])
  <2>. DEFINE f == [Drained(entries[a]) EXCEPT !.inFlight = @ \cup {op}]
  <2>1. Found(entries[a]) /\ entries' = [entries EXCEPT ![a] = f]
    BY <1>4 DEF BeginCleanup
  <2>2. Rewrite(entries[a], Drained(entries[a])) /\ Drained(entries[a]) \in Entry
    BY <1>0, <2>1, Writes DEF Rewrite
  <2>3. f.state = Drained(entries[a]).state
    BY <2>2 DEF Entry
  <2>4. LifeStep(entries[a], f)
    BY <2>1, <2>2, <2>3 DEF Rewrite, LifeStep, Found, Present
  <2> QED BY <1>0, <2>1, <2>4
<1>5. ASSUME NEW a \in Attempts, NEW op \in Operations, ConfirmCleanup(a, op) \/ EndCleanup(a, op)
      PROVE  LifeStep(entries[b], entries'[b])
  <2>1. ASSUME NEW e \in Entry, Found(e)
        PROVE  LifeStep(e, [e EXCEPT !.confirmed = @ \cup {op}])
    <3>1. [e EXCEPT !.confirmed = @ \cup {op}].state = e.state
      BY DEF Entry
    <3> QED BY <2>1, <3>1 DEF LifeStep, Found, Present, Stored, Workable, Terminal
  <2>2. ASSUME NEW e \in Entry
        PROVE  LifeStep(e, [e EXCEPT !.inFlight = @ \ {op}])
    <3>. DEFINE g == [e EXCEPT !.inFlight = @ \ {op}]
    <3>1. /\ g.state = e.state /\ g.age = e.age /\ g.confirmed = e.confirmed
          /\ g.leases = e.leases /\ g.inFlight \subseteq e.inFlight /\ e.leases \in Nat
      BY CapacityAssumption DEF Entry
    <3> QED BY <3>1 DEF LifeStep, Present, Stored, Workable, Terminal
  <2> QED BY <1>0, <1>5, <2>1, <2>2 DEF ConfirmCleanup, EndCleanup
<1>6. ASSUME NEW a \in Attempts, Release(a) PROVE LifeStep(entries[b], entries'[b])
  <2>. DEFINE es == [entries EXCEPT ![a].leases = @ - 1]
  <2>1. entries'[b] = es[b] \/ (Pruneable(es[b]) /\ entries'[b] = Removed(es[b]))
    BY <1>6 DEF Release, Pruned
  <2>2. /\ es[b].state = entries[b].state /\ es[b].age = entries[b].age
        /\ es[b].confirmed = entries[b].confirmed /\ es[b].inFlight = entries[b].inFlight
        /\ es[b].leases <= entries[b].leases
    BY <1>0, CapacityAssumption DEF Entry
  <2>3. Removed(es[b]).state = "gone" /\ Removed(es[b]).leases = 0
    <3>1. es[b] = entries[b] \/ es[b] = [entries[b] EXCEPT !.leases = @ - 1]
      BY <1>0
    <3> QED BY <1>0, <3>1 DEF Removed, Entry
  <2>4. Expired(es[b]) <=> Expired(entries[b])
    BY <2>2 DEF Expired, Deadline
  <2>5. CASE entries'[b] = es[b]
    BY <2>2, <2>5 DEF LifeStep, Present, Stored, Workable, Terminal
  <2>6. CASE Pruneable(es[b]) /\ entries'[b] = Removed(es[b])
    <3>1. Present(entries[b]) /\ Expired(entries[b])
      BY <2>2, <2>4, <2>6 DEF Pruneable, Present
    <3> QED BY <2>3, <2>6, <3>1, Stages DEF LifeStep, Present, Stored, Workable, Terminal
  <2> QED BY <2>1, <2>5, <2>6
<1>7. CASE Cleanup
  BY <1>0, <1>7 DEF Cleanup
<1>8. CASE Tick
  <2>1. ASSUME NEW e \in Entry, Found(e) PROVE LifeStep(e, [e EXCEPT !.age = @ + 1])
    <3>1. [e EXCEPT !.age = @ + 1].state = e.state
      BY DEF Entry
    <3> QED BY <2>1, <3>1 DEF LifeStep, Found, Present, Stored, Workable, Terminal
  <2> QED BY <1>0, <1>8, <2>1 DEF Tick
<1> QED BY <1>1, <1>2, <1>3, <1>4, <1>5, <1>6, <1>7, <1>8 DEF Next, Ordinary

\* The life of a binding only moves forward, terminal states are final, and the
\* deadline of a drained binding is never extended (activate, stop, finish, touch,
\* lease, prune), in every interleaving of requests, retries and the janitor.
THEOREM BindingsLiveForward == Spec => LivesForward
BY CollisionInvariant, LifeStepLemma, PTL DEF Spec, LivesForward

-------------------------------------------------------------------------------
(* The counters.                                                           *)

\* Two tables that store the same bindings of the same users count alike.
SameStore(es, fs) ==
    \A a \in Attempts : (Present(es[a]) <=> Present(fs[a])) /\ es[a].user = fs[a].user

Exact(counts, es) ==
    /\ \A u \in Users : counts[u] = Cardinality(CountedFor(es, u)) /\ counts[u] <= MaxPerUser
    /\ Cardinality(StoredOf(es)) <= MaxEntries

LEMMA ExactSame ==
    ASSUME NEW es, NEW fs, SameStore(es, fs), NEW counts, Exact(counts, es)
    PROVE  Exact(counts, fs)
<1>1. StoredOf(fs) = StoredOf(es) /\ \A u : CountedFor(fs, u) = CountedFor(es, u)
  BY DEF StoredOf, CountedFor, SameStore
<1> QED BY <1>1 DEF Exact

\* Pruning takes as many bindings out of the table as off the counters.
LEMMA ExactPruned ==
    ASSUME NEW es \in [Attempts -> Entry], perUser \in [Users -> Int], Exact(perUser, es)
    PROVE  Exact(CountsAfterPrune(es), Pruned(es))
<1>1. \A a \in Attempts :
        /\ Present(Pruned(es)[a]) <=> Present(es[a]) /\ ~Pruneable(es[a])
        /\ Pruned(es)[a].user = es[a].user
  <2>1. ASSUME NEW e \in Entry PROVE ~Present(Removed(e)) /\ Removed(e).user = e.user
    BY DEF Present, Removed, Entry, Stored, Workable, Terminal
  <2> QED BY <2>1 DEF Pruned
<1>2. IsFiniteSet(StoredOf(es)) /\ StoredOf(Pruned(es)) \subseteq StoredOf(es)
  BY <1>1, AttemptsAssumption, FS_Subset DEF StoredOf
<1>3. Cardinality(StoredOf(Pruned(es))) <= MaxEntries
  BY <1>2, FS_Subset, FS_CardinalityType, CapacityAssumption DEF Exact
<1>4. ASSUME NEW u \in Users
      PROVE  /\ CountsAfterPrune(es)[u] = Cardinality(CountedFor(Pruned(es), u))
             /\ CountsAfterPrune(es)[u] <= MaxPerUser
  <2>1. CountedFor(Pruned(es), u) = CountedFor(es, u) \ PrunedOf(es, u)
    BY <1>1 DEF CountedFor, StoredOf, PrunedOf, Pruneable
  <2>2. CountedFor(es, u) \cap PrunedOf(es, u) = PrunedOf(es, u)
    BY DEF CountedFor, StoredOf, PrunedOf, Pruneable
  <2>3. IsFiniteSet(CountedFor(es, u)) /\ IsFiniteSet(PrunedOf(es, u))
    BY AttemptsAssumption, FS_Subset DEF CountedFor, StoredOf, PrunedOf
  <2>4. Cardinality(CountedFor(Pruned(es), u)) =
          Cardinality(CountedFor(es, u)) - Cardinality(PrunedOf(es, u))
    BY <2>1, <2>2, <2>3, FS_Difference
  <2>5. Cardinality(PrunedOf(es, u)) \in Nat /\ Cardinality(CountedFor(es, u)) \in Nat
    BY <2>3, FS_CardinalityType
  <2> QED BY <2>4, <2>5, CapacityAssumption DEF CountsAfterPrune, Exact
<1> QED BY <1>3, <1>4 DEF Exact

LEMMA ExactPut ==
    ASSUME TypeOK, Exact(perUser, entries), NEW a \in Attempts, NEW f, Found(entries[a]),
           Present(f), f.user = entries[a].user, PruneAndPut(a, f)
    PROVE  Exact(perUser', entries')
<1>1. Exact(CountsAfterPrune(entries), Pruned(entries)) /\ Pruned(entries) \in [Attempts -> Entry]
  BY ExactPruned, PrunedType DEF TypeOK
<1>2. Pruned(entries)[a] = entries[a]
  BY DEF Pruned, Pruneable, Found
<1>3. SameStore(Pruned(entries), entries')
  BY <1>1, <1>2 DEF SameStore, PruneAndPut, Found
<1> QED BY <1>1, <1>3, ExactSame DEF PruneAndPut

LEMMA ExactReserve ==
    ASSUME TypeOK, Exact(perUser, entries), NEW a \in Attempts, Reserve(a)
    PROVE  Exact(perUser', entries')
<1>. DEFINE after == Pruned(entries)
<1>. DEFINE counts == CountsAfterPrune(entries)
<1>. DEFINE f == Fresh(entries[a].user, entries[a].account, entries[a].item)
<1>. DEFINE v == entries[a].user
<1>0. /\ Exact(counts, after) /\ after \in [Attempts -> Entry] /\ counts \in [Users -> Int]
      /\ v \in Users
  BY ExactPruned, PrunedType, CountsType DEF TypeOK, Entry
<1>1. CASE entries' = after /\ perUser' = counts
  BY <1>0, <1>1
<1>2. CASE /\ Cardinality(StoredOf(after)) < MaxEntries /\ counts[v] < MaxPerUser
           /\ entries' = [after EXCEPT ![a] = f]
           /\ perUser' = [counts EXCEPT ![v] = @ + 1]
  <2>1. Present(f) /\ f.user = v
    BY DEF Fresh, Present, Stored, Workable
  <2>2. ~Present(after[a])
    <3>1. ~Present(entries[a])
      BY DEF Reserve, Present, Stored, Workable, Terminal
    <3> QED BY <3>1 DEF Pruned, Pruneable
  <2>3. StoredOf(entries') = StoredOf(after) \cup {a} /\ a \notin StoredOf(after)
    BY <1>0, <1>2, <2>1, <2>2 DEF StoredOf
  <2>4. CountedFor(entries', v) = CountedFor(after, v) \cup {a} /\ a \notin CountedFor(after, v)
    BY <1>0, <1>2, <2>1, <2>2 DEF CountedFor, StoredOf
  <2>5. \A u \in Users \ {v} : CountedFor(entries', u) = CountedFor(after, u)
    BY <1>0, <1>2, <2>1, <2>2 DEF CountedFor, StoredOf
  <2>6. IsFiniteSet(StoredOf(after)) /\ IsFiniteSet(CountedFor(after, v))
    BY AttemptsAssumption, FS_Subset DEF StoredOf, CountedFor
  <2>7. /\ Cardinality(StoredOf(entries')) = Cardinality(StoredOf(after)) + 1
        /\ Cardinality(CountedFor(entries', v)) = Cardinality(CountedFor(after, v)) + 1
        /\ Cardinality(StoredOf(after)) \in Nat
    BY <2>3, <2>4, <2>6, FS_AddElement, FS_CardinalityType
  <2>8. Cardinality(StoredOf(entries')) <= MaxEntries
    BY <1>2, <2>7, CapacityAssumption
  <2>9. ASSUME NEW u \in Users
        PROVE  perUser'[u] = Cardinality(CountedFor(entries', u)) /\ perUser'[u] <= MaxPerUser
    <3>1. CASE u = v
      <4>1. perUser'[v] = counts[v] + 1 /\ counts[v] = Cardinality(CountedFor(after, v))
        BY <1>0, <1>2 DEF Exact
      <4>2. counts[v] + 1 <= MaxPerUser
        BY <1>0, <1>2, CapacityAssumption
      <4> QED BY <2>7, <3>1, <4>1, <4>2
    <3>2. CASE u # v
      BY <1>0, <1>2, <2>5, <3>2 DEF Exact
    <3> QED BY <3>1, <3>2
  <2> QED BY <2>8, <2>9 DEF Exact
<1> QED BY <1>1, <1>2 DEF Reserve

LEMMA ExactStep == CollisionInv /\ Exact(perUser, entries) /\ [Next]_vars => Exact(perUser', entries')
<1> SUFFICES ASSUME CollisionInv, Exact(perUser, entries), [Next]_vars
             PROVE  Exact(perUser', entries')
  OBVIOUS
<1>0. /\ TypeOK /\ DrainingInv /\ entries \in [Attempts -> Entry] /\ perUser \in [Users -> Int]
  BY DEF CollisionInv, TypeOK
<1>1. ASSUME NEW a \in Attempts, Ordinary(a) PROVE Exact(perUser', entries')
  BY <1>0, <1>1, OrdinaryWrites, ExactPut DEF Rewrite
<1>2. ASSUME NEW a \in Attempts, Activate(a) PROVE Exact(perUser', entries')
  <2>. DEFINE f == [Enter(entries[a], "active") EXCEPT !.seq = activationSequence + 1]
  <2>1. f.state = "active" /\ f.user = entries[a].user
    BY <1>0 DEF Enter, Entry
  <2>2. Found(entries[a]) /\ (PruneAndPut(a, entries[a]) \/ PruneAndPut(a, f))
    BY <1>2 DEF Activate
  <2>3. Present(f) /\ Present(entries[a])
    BY <2>1, <2>2 DEF Present, Found, Stored, Workable
  <2> QED BY <1>0, <2>1, <2>2, <2>3, ExactPut
<1>3. ASSUME NEW a \in Attempts, NEW op \in Operations,
             BeginCleanup(a, op) \/ ConfirmCleanup(a, op) \/ EndCleanup(a, op)
      PROVE  Exact(perUser', entries')
  <2>1. ASSUME NEW e \in Entry
        PROVE  /\ [e EXCEPT !.inFlight = @ \cup {op}].state = e.state
               /\ [e EXCEPT !.inFlight = @ \cup {op}].user = e.user
               /\ [e EXCEPT !.confirmed = @ \cup {op}].state = e.state
               /\ [e EXCEPT !.confirmed = @ \cup {op}].user = e.user
               /\ [e EXCEPT !.inFlight = @ \ {op}].state = e.state
               /\ [e EXCEPT !.inFlight = @ \ {op}].user = e.user
    BY DEF Entry
  <2>2. CASE BeginCleanup(a, op)
    <3>1. Rewrite(entries[a], Drained(entries[a])) /\ Found(entries[a])
      BY <1>0, <2>2, Writes DEF BeginCleanup
    <3>2. SameStore(entries, entries')
      BY <1>0, <2>1, <2>2, <3>1 DEF BeginCleanup, SameStore, Rewrite, Present, Found
    <3> QED BY <2>2, <3>2, ExactSame DEF BeginCleanup
  <2>3. CASE ConfirmCleanup(a, op) \/ EndCleanup(a, op)
    <3>0. /\ \A b \in Attempts \ {a} : entries'[b] = entries[b]
          /\ entries'[a].state = entries[a].state /\ entries'[a].user = entries[a].user
      <4>1. CASE ConfirmCleanup(a, op)
        BY <1>0, <2>1, <4>1 DEF ConfirmCleanup
      <4>2. CASE EndCleanup(a, op)
        BY <1>0, <2>1, <4>2 DEF EndCleanup
      <4> QED BY <2>3, <4>1, <4>2
    <3>1. SameStore(entries, entries')
      BY <3>0 DEF SameStore, Present
    <3> QED BY <2>3, <3>1, ExactSame DEF ConfirmCleanup, EndCleanup
  <2> QED BY <1>3, <2>2, <2>3
<1>4. ASSUME NEW a \in Attempts, Release(a) PROVE Exact(perUser', entries')
  <2>. DEFINE es == [entries EXCEPT ![a].leases = @ - 1]
  <2>1. entries[a].leases > 0 /\ entries[a].leases \in 0..MaxLeases
    BY <1>0, <1>4, OperationsFinite, CapacityAssumption DEF Release, Entry
  <2>2. [entries[a] EXCEPT !.leases = @ - 1] \in Entry
    <3>1. entries[a].leases - 1 \in 0..MaxLeases
      BY <2>1, CapacityAssumption
    <3> QED BY <1>0, <3>1 DEF Entry
  <2>3. es \in [Attempts -> Entry] /\ SameStore(entries, es)
    <3>1. [entries[a] EXCEPT !.leases = @ - 1].state = entries[a].state
          /\ [entries[a] EXCEPT !.leases = @ - 1].user = entries[a].user
      BY <1>0 DEF Entry
    <3> QED BY <1>0, <2>2, <3>1 DEF SameStore, Present
  <2>4. Exact(perUser, es)
    BY <2>3, ExactSame
  <2> QED BY <1>0, <1>4, <2>3, <2>4, ExactPruned DEF Release
<1>5. CASE Cleanup
  BY <1>0, <1>5, ExactPruned DEF Cleanup
<1>6. CASE Tick
  <2>1. ASSUME NEW e \in Entry
        PROVE  [e EXCEPT !.age = @ + 1].state = e.state /\ [e EXCEPT !.age = @ + 1].user = e.user
    BY DEF Entry
  <2>2. SameStore(entries, entries')
    BY <1>0, <1>6, <2>1 DEF Tick, SameStore, Present
  <2> QED BY <1>6, <2>2, ExactSame DEF Tick
<1>7. CASE UNCHANGED vars
  BY <1>7 DEF vars
<1> QED BY <1>0, <1>1, <1>2, <1>3, <1>4, <1>5, <1>6, <1>7, ExactReserve DEF Next, Ordinary

LEMMA ExactInit == Init => Exact(perUser, entries)
<1> SUFFICES ASSUME Init PROVE Exact(perUser, entries)
  OBVIOUS
<1>1. ASSUME NEW a \in Attempts PROVE ~Present(entries[a])
  <2>1. PICK u, acc, i : entries[a] = [Fresh(u, acc, i) EXCEPT !.state = "unused"]
    BY DEF Init
  <2>2. \A x, y, z : [Fresh(x, y, z) EXCEPT !.state = "unused"].state = "unused"
    BY DEF Fresh
  <2> QED BY <2>1, <2>2 DEF Present, Stored, Workable, Terminal
<1>2. StoredOf(entries) = {} /\ \A u : CountedFor(entries, u) = {}
  BY <1>1 DEF StoredOf, CountedFor
<1>3. Cardinality({}) = 0 /\ \A u \in Users : perUser[u] = 0
  BY FS_EmptySet DEF Init
<1>4. 0 <= MaxPerUser /\ 0 <= MaxEntries
  BY CapacityAssumption
<1> QED BY <1>2, <1>3, <1>4 DEF Exact

\* The per-user counter equals the number of the user's stored bindings and both
\* limits hold, although expired bindings are pruned inside almost every operation
\* (reserve, pruneLocked, removeLocked).
THEOREM CountersAreExact == Spec => []CountsExact
<1>1. Exact(perUser, entries) <=> CountsExact
  BY DEF Exact, CountsExact
<1>2. Exact(perUser, entries)' <=> Exact(perUser', entries')
  BY DEF Exact, CountedFor, StoredOf
<1> QED BY <1>1, <1>2, ExactInit, ExactStep, CollisionInvariant, PTL DEF Spec
===============================================================================
