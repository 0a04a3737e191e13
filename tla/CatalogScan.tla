------------------------------ MODULE CatalogScan ------------------------------
(***************************************************************************)
(* Collecting the item lists of all upstreams for one answer               *)
(* (aggregation.go, media_items_scan.go, catalog_scan.go) over the store   *)
(* of resumable list prefixes they share (catalog_snapshot.go).            *)
(*                                                                         *)
(* A request starts one task per upstream and answers when all have        *)
(* finished, when the grace period after the first success ends, at the    *)
(* global deadline, or when its client is gone; what comes later is        *)
(* drained.  A task claims the entry of its query: it waits for a fill     *)
(* that is under way, reuses a complete prefix, or leads a fill that       *)
(* fetches page after page, each step under the store's mutex, the         *)
(* fetches outside of it.                                                  *)
(***************************************************************************)
EXTENDS Naturals, Sequences, SequencesExt, FiniteSetsExt

CONSTANTS
    Requests,       \* client requests of one query
    Keys,           \* the query on each upstream
    Lists,          \* the ways an upstream may answer
    Window, Fallback,   \* upstreamPageLimitCeiling, fallbackUpstreamPageLimit
    WideWindow,     \* mergedItemsScanLimit
    Round, MaxCandidates, MaxEntries, MaxBytes, TTL,   \* the limits of the store
    Budget,         \* page requests per client request
    Grace, Global,  \* the grace period and the aggregation timeout
    MaxTime, MaxFills   \* bounds: the clock, fills started

ASSUME ScanLimits ==
    /\ {Window, Fallback, WideWindow, Round, MaxCandidates, MaxEntries, MaxBytes, TTL, Budget,
        Grace, Global, MaxTime, MaxFills} \subseteq Nat
    /\ Lists \subseteq [rows : Nat, total : BOOLEAN, paged : BOOLEAN, offsets : BOOLEAN,
                        limits : BOOLEAN, cap : Nat, ceiling : Nat]

VARIABLES
    lists,  \* how the upstream of a key answers
    now,
    objs,   \* the entries made so far, those no longer in the store included
    store,  \* the entry of a key, or 0, and the bytes counted
    fills,  \* the fills started so far
    task,   \* task[<<request, key>>]
    req     \* requests

vars == <<lists, now, objs, store, fills, task, req>>
Tasks == Requests \X Keys
\* catalogSnapshotKey: one user's requests of one query to an upstream share its key.
KeyOf(task_) == task_[2]

(* An upstream has the rows 1 to rows of a list; it may report their        *)
(* number, ignore the offset or the limit, cap its pages or refuse wide     *)
(* windows.                                                                 *)
Whole(l) == [i \in 1..l.rows |-> i]

Min2(a, b) == IF a < b THEN a ELSE b
Answered(l, offset, limit) ==
    LET rest == SubSeq(Whole(l), IF l.offsets THEN offset + 1 ELSE 1, l.rows)
    IN  IF l.limits THEN SubSeq(rest, 1, Min2(Len(rest), Min2(limit, l.cap))) ELSE rest

Idle == [pc |-> "idle", entry |-> 0, fill |-> 0, offset |-> 0, limit |-> 0, added |-> 0,
         fellBack |-> FALSE, rows |-> <<>>, complete |-> FALSE, failed |-> FALSE]

Expired(e) == now >= e.expires
Filling(e) == e.fill # 0
Stored == {n \in DOMAIN objs : store.at[objs[n].key] = n}
\* A row costs one byte.
RowsOf(entries) == UNION {{n} \X (1..Len(objs[n].rows)) : n \in entries}
BytesOf(entries) == Cardinality(RowsOf(entries))

TypeOK ==
    /\ now \in 0..MaxTime
    /\ store.at \in [Keys -> 0..Len(objs)] /\ store.bytes \in Nat
    /\ \A n \in DOMAIN objs : objs[n].key \in Keys /\ objs[n].fill \in 0..Len(fills)
    /\ \A t \in Tasks : /\ task[t].pc \in {"idle", "called", "leading", "fetching", "finishing",
                                           "waiting", "reusing", "done"}
                        /\ task[t].fill \in 0..Len(fills)
    /\ \A q \in Requests : req[q].pc \in {"idle", "collecting", "draining", "ended"}

-------------------------------------------------------------------------------
(* The store.                                                              *)

Without(gone) ==
    [at |-> [k \in Keys |-> IF store.at[k] \in gone THEN 0 ELSE store.at[k]],
     bytes |-> LET cost == BytesOf(gone \cap Stored)
               IN IF cost > store.bytes THEN 0 ELSE store.bytes - cost]

\* purgeExpiredLocked
Stale == {n \in Stored : ~Filling(objs[n]) /\ Expired(objs[n])}

\* Faulty: a fill does not protect its entry.
EvictableAlways(n, spared) == n \notin spared
Evictable(n, spared) == n \notin spared /\ ~Filling(objs[n])

\* Expired entries go first, then complete ones; the earlier expiry, the older entry.
Class(n) == IF Expired(objs[n]) THEN 1 ELSE IF objs[n].complete THEN 2 ELSE 3
Sooner(m, n) ==
    \/ Class(m) < Class(n)
    \/ Class(m) = Class(n) /\ objs[m].expires < objs[n].expires
    \/ Class(m) = Class(n) /\ objs[m].expires = objs[n].expires /\ m < n

\* Entries are evicted one by one until there is enough room, or none is left.
Able(among, spared) == {n \in among : Evictable(n, spared)}
Cuts(able) == {{m \in able : Sooner(m, n)} : n \in able} \cup {able}
Victims(able, enough) ==
    IF enough = {} THEN able ELSE CHOOSE c \in enough : \A d \in enough : c \subseteq d

NewFill(n) == [entry |-> n, done |-> FALSE, end |-> 0, complete |-> FALSE]
Paged(t) == lists[KeyOf(t)].paged

(* Fill: a caller joins, reuses, or leads.                                 *)
Claim(t) ==
    LET k == KeyOf(t)
        n == IF store.at[k] \in Stale THEN 0 ELSE store.at[k]
        left == Stored \ Stale
        able == Able(left, {})
        out == Victims(able, {c \in Cuts(able) : Cardinality(left \ c) < MaxEntries})
        full == Cardinality(left \ out) >= MaxEntries
        Start(m, entry) ==
            /\ fills' = Append(fills, NewFill(m))
            /\ objs' = IF m \in DOMAIN objs THEN [objs EXCEPT ![m] = entry] ELSE Append(objs, entry)
            /\ task' = [task EXCEPT ![t].pc = "leading", ![t].fill = Len(fills) + 1]
    IN  /\ task[t].pc = "called"
        /\ \/ /\ n # 0 /\ Filling(objs[n])
              /\ task' = [task EXCEPT ![t].pc = "waiting", ![t].fill = objs[n].fill]
              /\ store' = Without(Stale) /\ UNCHANGED <<objs, fills>>
           \/ /\ n # 0 /\ ~Filling(objs[n]) /\ objs[n].complete
              /\ task' = [task EXCEPT ![t].pc = "reusing", ![t].entry = n]
              /\ store' = Without(Stale) /\ UNCHANGED <<objs, fills>>
           \/ /\ n # 0 /\ ~Filling(objs[n]) /\ ~objs[n].complete
              /\ Start(n, [objs[n] EXCEPT !.fill = Len(fills) + 1])
              /\ store' = Without(Stale)
           \/ /\ n = 0 /\ ~full
              /\ Start(Len(objs) + 1, [key |-> k, rows |-> <<>>, window |-> Window, complete |-> FALSE,
                                       expires |-> now + TTL, seen |-> {}, fill |-> Len(fills) + 1])
              /\ store' = [Without(Stale \cup out) EXCEPT !.at[k] = Len(objs) + 1]
           \/ /\ n = 0 /\ full
              /\ task' = [task EXCEPT ![t].pc = "done", ![t].failed = TRUE]
              /\ store' = Without(Stale \cup out) /\ UNCHANGED <<objs, fills>>
    /\ UNCHANGED <<lists, now, req>>

EntryOf(t) == fills[task[t].fill].entry
Entry(t) == objs[EntryOf(t)]

\* The context of a task: cancelled at the deadline, or when its request is over.
Cancelled(q) == now >= req[q].deadline \/ req[q].pc = "ended"

Leave(t, failed) == [task EXCEPT ![t].pc = "finishing", ![t].failed = failed]

\* nextPageRequest; a page request costs one token of the budget.
NextPage(t) ==
    LET q == t[1]
        room == MaxCandidates - Len(Entry(t).rows)
        left == Round - task[t].added
        window == IF Paged(t) THEN Entry(t).window ELSE WideWindow
        limit == Min2(window, Min2(left, room))
        over == Expired(Entry(t)) \/ limit <= 0 \/ req[q].budget = 0
    IN  /\ task[t].pc = "leading"
        /\ \/ /\ Cancelled(q)
              /\ task' = Leave(t, TRUE) /\ UNCHANGED req
           \/ /\ ~Cancelled(q) /\ over
              /\ task' = Leave(t, FALSE) /\ UNCHANGED req
           \/ /\ ~Cancelled(q) /\ ~over
              /\ req' = [req EXCEPT ![q].budget = @ - 1]
              /\ task' = [task EXCEPT ![t].pc = "fetching", ![t].limit = limit,
                                      ![t].offset = Len(Entry(t).rows)]
        /\ UNCHANGED <<lists, now, objs, store, fills>>

\* The request fails or is cancelled.
FetchFails(t) ==
    /\ task[t].pc = "fetching"
    /\ task' = Leave(t, TRUE)
    /\ UNCHANGED <<lists, now, objs, store, fills, req>>

\* A window too wide for the upstream: once, a narrower one is tried.
Refused(t) ==
    LET narrower == Paged(t) /\ ~task[t].fellBack /\ Entry(t).window > Fallback
    IN  /\ task[t].pc = "fetching" /\ task[t].limit > lists[KeyOf(t)].ceiling
        /\ IF narrower
           THEN /\ objs' = [objs EXCEPT ![EntryOf(t)].window = Fallback]
                /\ task' = [task EXCEPT ![t].pc = "leading", ![t].fellBack = TRUE]
           ELSE task' = Leave(t, ~Paged(t)) /\ UNCHANGED objs
        /\ UNCHANGED <<lists, now, store, fills, req>>

\* Faulty: pages are stored whatever they repeat.
RepeatsNothing(e, items) == FALSE
Repeats(e, items) == items \in e.seen

\* What the loop does after a page was stored.
After(l, items, limit, offset, overflowed) ==
    IF l.total /\ offset >= l.rows THEN "complete"
    ELSE IF overflowed THEN "partial"
    ELSE IF ~l.paged THEN IF ~l.total /\ Len(items) < limit THEN "complete" ELSE "partial"
    ELSE IF Len(items) = limit \/ (l.total /\ offset < l.rows) THEN "more" ELSE "complete"

\* appendPage and the rest of the iteration.
Receive(t) ==
    LET l == lists[KeyOf(t)]
        page == Answered(l, task[t].offset, task[t].limit)
        items == SubSeq(page, 1, Min2(Len(page), task[t].limit))
        e == Entry(t)
        Fits(c) == Without(c).bytes + Len(items) <= MaxBytes
        able == Able(Stored, {EntryOf(t)})
        out == Victims(able, {c \in Cuts(able) : Fits(c)})
        next == After(l, items, task[t].limit, Len(e.rows) + Len(items), Len(page) > Len(items))
        Complete(x) == [x EXCEPT !.complete = TRUE]
        Longer == [e EXCEPT !.rows = @ \o items, !.seen = @ \cup {items}]
    IN  /\ task[t].pc = "fetching" /\ task[t].limit <= l.ceiling
        /\ \/ /\ items = <<>>
              /\ objs' = IF l.total /\ task[t].offset < l.rows THEN objs
                         ELSE [objs EXCEPT ![EntryOf(t)] = Complete(e)]
              /\ task' = Leave(t, FALSE) /\ UNCHANGED store
           \/ /\ items # <<>>
              /\ Expired(e) \/ Repeats(e, items) \/ Len(items) > MaxBytes
              /\ task' = Leave(t, FALSE) /\ UNCHANGED <<objs, store>>
           \/ /\ items # <<>> /\ ~Expired(e) /\ ~Repeats(e, items) /\ Len(items) <= MaxBytes
              /\ ~Fits(out)
              /\ store' = Without(out)
              /\ task' = Leave(t, FALSE) /\ UNCHANGED objs
           \/ /\ items # <<>> /\ ~Expired(e) /\ ~Repeats(e, items) /\ Fits(out)
              /\ store' = [Without(out) EXCEPT !.bytes = @ + Len(items)]
              /\ objs' = [objs EXCEPT ![EntryOf(t)] = IF next = "complete" THEN Complete(Longer) ELSE Longer]
              /\ task' = IF next = "more"
                         THEN [task EXCEPT ![t].pc = "leading", ![t].added = @ + Len(items)]
                         ELSE Leave(t, FALSE)
        /\ UNCHANGED <<lists, now, fills, req>>

\* finishFill: the entry is idle again, or gone when it expired.
FinishFill(t) ==
    LET complete == Entry(t).complete /\ ~Expired(Entry(t))
    IN  /\ task[t].pc = "finishing"
        /\ objs' = [objs EXCEPT ![EntryOf(t)].fill = 0, ![EntryOf(t)].complete = complete]
        /\ fills' = [fills EXCEPT ![task[t].fill].done = TRUE,
                                  ![task[t].fill].end = Len(Entry(t).rows),
                                  ![task[t].fill].complete = complete]
        /\ store' = IF Expired(Entry(t)) THEN Without({EntryOf(t)}) ELSE store
        /\ task' = [task EXCEPT ![t].pc = "waiting"]
        /\ UNCHANGED <<lists, now, req>>

\* The leader, and whoever waited: the prefix as the fill left it.
ViewForFill(t) ==
    LET f == fills[task[t].fill]
    IN  /\ task[t].pc = "waiting"
        /\ f.done
        /\ task' = [task EXCEPT ![t].pc = "done", ![t].complete = f.complete,
                                ![t].rows = SubSeq(objs[f.entry].rows, 1, f.end)]
        /\ UNCHANGED <<lists, now, objs, store, fills, req>>

StopWaiting(t) ==
    /\ task[t].pc = "waiting" /\ Cancelled(t[1])
    /\ task' = [task EXCEPT ![t].pc = "done", ![t].failed = TRUE]
    /\ UNCHANGED <<lists, now, objs, store, fills, req>>

ViewForEntry(t) ==
    LET e == objs[task[t].entry]
    IN  /\ task[t].pc = "reusing"
        /\ task' = [task EXCEPT ![t].pc = "done", ![t].complete = e.complete, ![t].rows = e.rows]
        /\ UNCHANGED <<lists, now, objs, store, fills, req>>

-------------------------------------------------------------------------------
(* The request.                                                            *)

\* A client asks, or asks again once the tasks of its last request are gone.
Begin(q) ==
    /\ Len(fills) < MaxFills
    /\ req[q].pc \in {"idle", "ended"}
    /\ \A k \in Keys : task[<<q, k>>].pc \in {"idle", "done"}
    /\ req' = [req EXCEPT ![q] = [pc |-> "collecting", deadline |-> now + Global, grace |-> 0,
                                  got |-> {}, incomplete |-> FALSE, budget |-> Budget]]
    /\ task' = [t \in Tasks |-> IF t[1] = q THEN [Idle EXCEPT !.pc = "called"] ELSE task[t]]
    /\ UNCHANGED <<lists, now, objs, store, fills>>

Arrived(q, k) == task[<<q, k>>].pc = "done" /\ k \notin req[q].got

\* A failed task, or a prefix that is not the whole list.
Lacks(t) == task[t].failed \/ ~task[t].complete

Collect(q, k) ==
    LET t == <<q, k>>
        all == req[q].got \cup {k} = Keys
    IN  /\ req[q].pc = "collecting" /\ Arrived(q, k)
        /\ req' = [req EXCEPT ![q].got = @ \cup {k}, ![q].incomplete = @ \/ Lacks(t),
                              ![q].grace = IF @ = 0 /\ ~task[t].failed /\ Grace > 0 THEN now + Grace ELSE @,
                              ![q].pc = IF all THEN "ended" ELSE @]
        /\ UNCHANGED <<lists, now, objs, store, fills, task>>

\* The request is answered with what has arrived; the tasks go on.
AnswersPartly(q) == /\ req[q].pc = "collecting"
                    /\ req' = [req EXCEPT ![q].pc = "draining", ![q].incomplete = TRUE]
                    /\ UNCHANGED <<lists, now, objs, store, fills, task>>

\* The grace period ends or the deadline passes ...
AnswerEarly(q) ==
    /\ \/ req[q].grace # 0 /\ now >= req[q].grace
       \/ now >= req[q].deadline
    /\ AnswersPartly(q)

\* ... or the client is gone.
ClientGone(q) == AnswersPartly(q)

\* drainBackgroundResults, until nothing is left or the deadline.
Drain(q, k) ==
    /\ req[q].pc = "draining" /\ Arrived(q, k)
    /\ req' = [req EXCEPT ![q].got = @ \cup {k},
                          ![q].pc = IF req[q].got \cup {k} = Keys THEN "ended" ELSE @]
    /\ UNCHANGED <<lists, now, objs, store, fills, task>>

DrainEnds(q) ==
    /\ req[q].pc = "draining" /\ now >= req[q].deadline
    /\ req' = [req EXCEPT ![q].pc = "ended"]
    /\ UNCHANGED <<lists, now, objs, store, fills, task>>

Tick == /\ now < MaxTime /\ now' = now + 1
        /\ UNCHANGED <<lists, objs, store, fills, task, req>>

-------------------------------------------------------------------------------
Init ==
    /\ lists \in [Keys -> Lists]
    /\ now = 0 /\ objs = <<>> /\ fills = <<>>
    /\ store = [at |-> [k \in Keys |-> 0], bytes |-> 0]
    /\ task = [t \in Tasks |-> Idle]
    /\ req = [q \in Requests |-> [pc |-> "idle", deadline |-> 0, grace |-> 0, got |-> {},
                                  incomplete |-> FALSE, budget |-> 0]]

\* What the leader of a fill does; a fetch is answered, or times out.
Lead(t) == NextPage(t) \/ Receive(t) \/ Refused(t) \/ FetchFails(t) \/ FinishFill(t)

Next ==
    \/ \E t \in Tasks : Claim(t) \/ Lead(t) \/ ViewForFill(t) \/ StopWaiting(t) \/ ViewForEntry(t)
    \/ \E q \in Requests : Begin(q) \/ AnswerEarly(q) \/ ClientGone(q) \/ DrainEnds(q)
    \/ \E q \in Requests, k \in Keys : Collect(q, k) \/ Drain(q, k)
    \/ Tick

Spec == Init /\ [][Next]_vars

-------------------------------------------------------------------------------
(* The upstreams that nothing misleads: one that caps its pages says how    *)
(* many rows it has, or caps none that is asked for, as a short page is     *)
(* taken for the last one.  If it ignores the offset its first page must    *)
(* come again when the next one is asked for, so that the fill notices: the *)
(* limits must leave room for two pages of one size.                        *)
Candid(l) ==
    l.limits => /\ l.cap > 0
                /\ \/ l.total
                   \/ IF l.paged THEN l.cap >= Window /\ l.cap >= Fallback ELSE l.cap >= WideWindow
Ample(l) ==
    IF l.paged THEN \A w \in {Window, Fallback} : 2 * w <= Round /\ 2 * w <= MaxCandidates
    ELSE 2 * Min2(WideWindow, Round) <= MaxCandidates
Orderly(l) == Candid(l) /\ (l.offsets \/ Ample(l))

\* The tasks that run the fill of their entry.
Leaders == {t \in Tasks : task[t].pc \in {"leading", "fetching", "finishing"}}

\* An answer that is not marked incomplete holds the whole list of every upstream,
\* in order, however its pages were collected: over several requests and leaders,
\* behind evictions, expiries and cancelled fills, from upstreams that cap or
\* repeat their pages or refuse wide windows.
UnmarkedAnswersAreWhole ==
    \A q \in Requests :
        req[q].pc \in {"draining", "ended"} /\ ~req[q].incomplete =>
            \A k \in Keys : task[<<q, k>>].rows = Whole(lists[k])

\* No query is filled twice at a time; the entry a fill writes is in the store until
\* the fill ends; whoever waits for a fill waits for one that has ended or that some
\* task still leads; and the store holds no more entries than it may.
EntriesOwned ==
    /\ \A t \in Leaders : store.at[KeyOf(t)] = EntryOf(t) /\ Entry(t).fill = task[t].fill
    /\ \A s, t \in Leaders : KeyOf(s) = KeyOf(t) => s = t
    /\ \A t \in Tasks : task[t].pc = "waiting" =>
          fills[task[t].fill].done \/ \E s \in Leaders : task[s].fill = task[t].fill
    /\ Cardinality(Stored) <= MaxEntries

\* Fills own their entries, and the bytes counted are those of the entries, within
\* the limit.
FillsOwnTheirEntries ==
    /\ EntriesOwned
    /\ store.bytes = BytesOf(Stored) /\ store.bytes <= MaxBytes

=============================================================================
