------------------------- MODULE PlaybackIdentityStore -------------------------
(***************************************************************************)
(* The strict playback bindings (playback_identity_store.go,               *)
(* playback_cleanup.go, playback_alias_lifecycle.go): one bounded,         *)
(* in-memory table of playback attempts.                                   *)
(*                                                                         *)
(* PlaybackInfo reserves a pending binding per candidate and may bind it   *)
(* to the upstream's own session (the alias); the first request of the     *)
(* chosen candidate activates it; a stop drains it; retire and fail end    *)
(* it.  Requests hold leases.  Two attempts can collide at the upstream:   *)
(* a stop addresses a remote session (account and alias) or an item of the *)
(* account, never one of our attempts.                                     *)
(*                                                                         *)
(* Every method runs under the store's mutex and is one action.  Deadlines *)
(* are ages in clock ticks since the event the deadline counts from.       *)
(***************************************************************************)
EXTENDS Integers, FiniteSets

CONSTANTS
    Attempts,       \* attempt IDs; random, so each is reserved at most once
    Users,          \* owners: a local user with one authenticated session
    Accounts,       \* upstream server and account principal
    Items,          \* virtual items
    Aliases,        \* upstream PlaySessionIds
    None,           \* no alias
    Operations,     \* the cleanup operations clients use
    PendingTTL, ActiveTTL, TerminalTTL,     \* deadlines, in ticks
    MaxEntries, MaxPerUser,                 \* capacity of the table
    MaxLeases       \* bound: requests in flight per attempt

ASSUME AttemptsAssumption == IsFiniteSet(Attempts)
ASSUME TTLAssumption ==
    PendingTTL \in Nat \ {0} /\ ActiveTTL \in Nat \ {0} /\ TerminalTTL \in Nat \ {0}
ASSUME CapacityAssumption == MaxEntries \in Nat /\ MaxPerUser \in Nat /\ MaxLeases \in Nat
ASSUME NoneAssumption == None \notin Aliases
ASSUME OperationsAssumption ==
    Operations \subseteq {"Stopped", "ActiveEncodings", "PlayingItems"}

VARIABLES
    entries,                \* entries[a]: the binding of attempt a
    perUser,                \* perUser[u]: the bindings counted for user u
    activationSequence      \* activations so far

vars == <<entries, perUser, activationSequence>>

-------------------------------------------------------------------------------
Terminal == {"retired", "failed"}
Workable == {"pending", "active"}
Stored == Workable \cup {"stopping"} \cup Terminal
States == Stored \cup {"unused", "gone"}

MaxTTL == IF PendingTTL >= ActiveTTL /\ PendingTTL >= TerminalTTL THEN PendingTTL
          ELSE IF ActiveTTL >= TerminalTTL THEN ActiveTTL ELSE TerminalTTL

Entry == [state : States, user : Users, account : Accounts, item : Items,
          alias : Aliases \cup {None}, age : 0..MaxTTL, leases : 0..MaxLeases,
          seq : Nat, inFlight : SUBSET Operations,
          confirmed : SUBSET Operations]

Fresh(u, acc, i) ==
    [state |-> "pending", user |-> u, account |-> acc, item |-> i, alias |-> None,
     age |-> 0, leases |-> 0, seq |-> 0, inFlight |-> {}, confirmed |-> {}]

Removed(e) == [e EXCEPT !.state = "gone", !.age = 0, !.leases = 0, !.seq = 0,
                        !.alias = None, !.inFlight = {}, !.confirmed = {}]

Present(e) == e.state \in Stored

\* The deadline depends on the state: pending from creation, active from the
\* last use, everything else from the moment the state was entered.
Deadline(e) == CASE e.state = "pending" -> PendingTTL
                 [] e.state = "active"  -> ActiveTTL
                 [] OTHER               -> TerminalTTL
Expired(e) == e.age >= Deadline(e)

\* What an operation on an attempt finds: present and within its deadline.
Found(e) == Present(e) /\ ~Expired(e)

Enter(e, state) == [e EXCEPT !.state = state, !.age = 0]
\* Faulty: every stop restarts the deadline.
DrainedAgain(e) == IF e.state \in Terminal THEN e ELSE Enter(e, "stopping")
Drained(e) == IF e.state \in Workable THEN Enter(e, "stopping") ELSE e
\* Faulty: leaves a terminal state.
FinishedAgain(e, state) == Enter(e, state)
Finished(e, state) == IF e.state \in Terminal THEN e ELSE Enter(e, state)
Used(e) == IF e.state = "active" THEN [e EXCEPT !.age = 0] ELSE e

\* Expired bindings go, unless a request still holds one.
Pruneable(e) == Present(e) /\ Expired(e) /\ e.leases = 0
Pruned(es) == [a \in Attempts |-> IF Pruneable(es[a]) THEN Removed(es[a]) ELSE es[a]]
PrunedOf(es, u) == {a \in Attempts : es[a].user = u /\ Pruneable(es[a])}
\* Faulty: forgets the counter.
CountsKept(es) == perUser
CountsAfterPrune(es) == [u \in Users |-> perUser[u] - Cardinality(PrunedOf(es, u))]
StoredOf(es) == {a \in Attempts : Present(es[a])}
CountedFor(es, u) == {a \in StoredOf(es) : es[a].user = u}

\* An operation on attempt a that first prunes, then writes e.
PruneAndPut(a, e) ==
    /\ entries' = [Pruned(entries) EXCEPT ![a] = e]
    /\ perUser' = CountsAfterPrune(entries)

-------------------------------------------------------------------------------
(* Collisions at the upstream.                                             *)

\* A PlayingItems delete addresses an item of the account; the other operations
\* address the session the alias names.
RemoteConflict(l, r, op) ==
    /\ l.account = r.account
    /\ IF op = "PlayingItems" THEN l.item = r.item
       ELSE l.alias # None /\ l.alias = r.alias

NewerActiveAlias(a, op) ==
    \E b \in Attempts \ {a} :
        /\ entries[b].state = "active" /\ ~Expired(entries[b])
        /\ RemoteConflict(entries[b], entries[a], op)
        /\ entries[b].seq > entries[a].seq

\* Faulty: forgets deletes that address an item.
AliasOnlyInFlight(es, a) ==
    \E b \in Attempts \ {a} : \E op \in es[b].inFlight \ {"PlayingItems"} :
        RemoteConflict(es[b], es[a], op)
AliasCleanupInFlight(es, a) ==
    \E b \in Attempts \ {a} : \E op \in es[b].inFlight : RemoteConflict(es[b], es[a], op)

-------------------------------------------------------------------------------
Init ==
    /\ entries \in [Attempts -> {[Fresh(u, acc, i) EXCEPT !.state = "unused"] :
                                    u \in Users, acc \in Accounts, i \in Items}]
    /\ perUser = [u \in Users |-> 0]
    /\ activationSequence = 0

\* The slot of an unused attempt already names the user, account and item its
\* reservation will be made for.
Reserve(a) ==
    LET e == entries[a]
        after == Pruned(entries)
        counts == CountsAfterPrune(entries)
    IN  /\ e.state = "unused"
        /\ \/ /\ Cardinality(StoredOf(after)) < MaxEntries /\ counts[e.user] < MaxPerUser
              /\ entries' = [after EXCEPT ![a] = Fresh(e.user, e.account, e.item)]
              /\ perUser' = [counts EXCEPT ![e.user] = @ + 1]
           \/ /\ Cardinality(StoredOf(after)) >= MaxEntries \/ counts[e.user] >= MaxPerUser
              /\ entries' = after
              /\ perUser' = counts
        /\ UNCHANGED activationSequence

\* Only the negotiation binds an alias, before the client learns of the attempt:
\* the binding is still pending.
BindAlias(a, value) ==
    /\ Found(entries[a]) /\ entries[a].state = "pending"
    /\ entries[a].alias = None
    /\ PruneAndPut(a, [entries[a] EXCEPT !.alias = value])
    /\ UNCHANGED activationSequence

\* Refused while a cleanup in flight at the upstream could still hit this attempt.
Activate(a) ==
    LET e == entries[a]
        after == Pruned(entries)
    IN  /\ Found(e) /\ e.state \in Workable
        /\ IF e.state = "pending" /\ ~AliasCleanupInFlight(after, a)
           THEN /\ activationSequence' = activationSequence + 1
                /\ PruneAndPut(a, [Enter(e, "active") EXCEPT !.seq = activationSequence + 1])
           ELSE /\ PruneAndPut(a, e)
                /\ UNCHANGED activationSequence

Lease(a) ==
    /\ Found(entries[a]) /\ entries[a].state \in Workable
    /\ entries[a].leases < MaxLeases
    /\ PruneAndPut(a, [Used(entries[a]) EXCEPT !.leases = @ + 1])
    /\ UNCHANGED activationSequence

LeaseCleanup(a) ==
    /\ Found(entries[a]) /\ entries[a].state # "failed"
    /\ entries[a].leases < MaxLeases
    /\ PruneAndPut(a, [entries[a] EXCEPT !.leases = @ + 1])
    /\ UNCHANGED activationSequence

Touch(a) ==
    /\ Found(entries[a]) /\ entries[a].state \in Workable
    /\ PruneAndPut(a, Used(entries[a]))
    /\ UNCHANGED activationSequence

Stop(a) ==
    /\ Found(entries[a])
    /\ PruneAndPut(a, Drained(entries[a]))
    /\ UNCHANGED activationSequence

Finish(a, state) ==
    /\ Found(entries[a])
    /\ PruneAndPut(a, Finished(entries[a], state))
    /\ UNCHANGED activationSequence

\* A request that holds a lease claims one cleanup operation before it is sent
\* upstream.  This and the next two operations do not prune.
BeginCleanup(a, op) ==
    /\ Cardinality(entries[a].inFlight) < entries[a].leases
    /\ Found(entries[a]) /\ entries[a].state # "failed"
    /\ op \notin entries[a].confirmed
    /\ ~NewerActiveAlias(a, op)
    /\ op \notin entries[a].inFlight
    /\ entries' = [entries EXCEPT ![a] = [Drained(entries[a]) EXCEPT !.inFlight = @ \cup {op}]]
    /\ UNCHANGED <<perUser, activationSequence>>

\* The upstream accepted the operation.
ConfirmCleanup(a, op) ==
    /\ op \in entries[a].inFlight
    /\ Found(entries[a])
    /\ entries' = [entries EXCEPT ![a].confirmed = @ \cup {op}]
    /\ UNCHANGED <<perUser, activationSequence>>

EndCleanup(a, op) ==
    /\ op \in entries[a].inFlight
    /\ entries' = [entries EXCEPT ![a].inFlight = @ \ {op}]
    /\ UNCHANGED <<perUser, activationSequence>>

\* The release itself also prunes, the released binding included.
Release(a) ==
    LET es == [entries EXCEPT ![a].leases = @ - 1]
    IN  /\ Cardinality(entries[a].inFlight) < entries[a].leases
        /\ entries' = Pruned(es)
        /\ perUser' = CountsAfterPrune(es)
        /\ UNCHANGED activationSequence

\* The janitor, and every read that finds nothing to do but prune.
Cleanup ==
    /\ \E a \in Attempts : Pruneable(entries[a])
    /\ entries' = Pruned(entries)
    /\ perUser' = CountsAfterPrune(entries)
    /\ UNCHANGED activationSequence

Tick ==
    /\ \E a \in Attempts : Found(entries[a])
    /\ entries' = [a \in Attempts |->
                      IF Found(entries[a]) THEN [entries[a] EXCEPT !.age = @ + 1] ELSE entries[a]]
    /\ UNCHANGED <<perUser, activationSequence>>

Next ==
    \/ \E a \in Attempts :
          \/ Reserve(a)
          \/ \E value \in Aliases : BindAlias(a, value)
          \/ Activate(a)
          \/ Lease(a)
          \/ LeaseCleanup(a)
          \/ Touch(a)
          \/ Stop(a)
          \/ \E state \in Terminal : Finish(a, state)
          \/ \E op \in Operations :
                BeginCleanup(a, op) \/ ConfirmCleanup(a, op) \/ EndCleanup(a, op)
          \/ Release(a)
    \/ Cleanup
    \/ Tick

Spec == Init /\ [][Next]_vars /\ WF_vars(Tick)

-------------------------------------------------------------------------------
(* Properties.                                                             *)

TypeOK ==
    /\ entries \in [Attempts -> Entry]
    /\ perUser \in [Users -> Int]
    /\ activationSequence \in Nat

\* The per-user counter is the number of the user's stored bindings and neither
\* limit is ever exceeded: no path that removes a binding forgets the counter,
\* or a user is locked out for good.
CountsExact ==
    /\ \A u \in Users :
          /\ perUser[u] = Cardinality(CountedFor(entries, u))
          /\ perUser[u] <= MaxPerUser
    /\ Cardinality(StoredOf(entries)) <= MaxEntries

\* A stop in flight at the upstream never hits a newer attempt: no attempt that
\* shares the operation's remote scope became active after the one being stopped.
CleanupSparesNewerAttempt ==
    \A a, b \in Attempts : \A op \in entries[a].inFlight :
        /\ entries[b].state = "active" /\ ~Expired(entries[b])
        /\ RemoteConflict(entries[b], entries[a], op)
        => entries[b].seq <= entries[a].seq

\* The life of a binding only moves forward, a terminal state is final, and a
\* deadline is never extended: an expired binding is found by no operation, only
\* drained by the requests that still hold it, and removed when none does.
Stage(state) == CASE state = "unused"   -> 0
                  [] state = "pending"  -> 1
                  [] state = "active"   -> 2
                  [] state = "stopping" -> 3
                  [] state = "gone"     -> 5
                  [] OTHER              -> 4
LifeStep(e, f) ==
    /\ f.state # e.state => Stage(f.state) > Stage(e.state)
    /\ Present(e) /\ f.state = "gone" => Expired(e) /\ f.leases = 0
    /\ Present(e) /\ Expired(e) /\ Present(f) =>
         /\ f.state = e.state /\ f.age = e.age /\ f.confirmed = e.confirmed
         /\ f.leases <= e.leases /\ f.inFlight \subseteq e.inFlight
LivesForward == [][\A a \in Attempts : LifeStep(entries[a], entries'[a])]_vars

\* Draining ends: a binding that stops reaches its deadline no matter how often
\* the stop is repeated or a cleanup retried.
DrainingEnds ==
    \A a \in Attempts :
        entries[a].state \in {"stopping"} \cup Terminal
            ~> entries[a].state = "gone" \/ Expired(entries[a])
===============================================================================
