# Emby-In-One: specifications, model checks and proofs

Emby-In-One (Go, `src/internal/backend`) is a proxy that shows several upstream
Emby servers to its users as one. This directory holds TLA+ specifications of
the parts of it where orderings matter, the TLC configurations that check them,
and TLAPS proofs of most of their safety properties. Paths below are relative to
`src/internal/backend/` unless they start with `src/`.

Contents

1. Inventory: the system's components
2. Modules, and how their state and actions correspond to the code
3. Properties and runs
4. Fairness, deadlock and bounds
5. Proofs
6. Disagreements found between comments and code
7. Observations that are no disagreement
8. What is not modelled
9. Plan

## 1. Inventory

Everything runs in one process: an HTTP server whose handlers are goroutines, a
few background goroutines (health checks, login recovery, the janitor of the
playback limit) and one SQLite database with some JSON files beside it. The
components share memory; each keeps its own mutex, and no handler holds one
component's mutex while it calls another or waits for the network. The hard
behaviours are therefore interleavings of handlers *between* critical sections.

| Component | State | Operations | Hard behaviour |
|---|---|---|---|
| Concurrent playback limit (`playback_limiter.go`, `playback_session_identity.go`) | one capacity unit per user and upstream server: item, heartbeat, version, claim, reservation | reserve, bind, release; stream request; leave a switched source; session events; cleanup | late requests of a superseded attempt meet the unit of a newer one; tokens and versions are held across upstream calls |
| Strict playback bindings (`playback_identity_store.go`, `playback_cleanup.go`, `playback_alias_lifecycle.go`) | a bounded table of attempts: state, deadline, leases, alias, cleanup claims; a counter per user | reserve, bind alias, activate, lease, touch, stop, finish, begin/confirm/end a cleanup, release | two attempts that share an upstream session collide; deadlines against leases; counters kept by several paths |
| Strict playback handlers (`playback_ingress.go`, `playback_negotiation.go`, `playback_candidate.go`, `playback_session_events.go`, `playback_session_playing_items.go`, `playback_lifecycle.go`) | none of their own: a snapshot of the leased binding, a reservation token, a switch reference | first use of a candidate, reports, stops and deletes | act on a snapshot while other requests activate, stop or expire the binding |
| PlaybackInfo and stream handlers (`media_playback.go`, `media_stream.go`, `playback_stream.go`) | a reservation token during a negotiation | negotiate, stream | the failure path runs after a newer negotiation replaced the reservation |
| Session events and watch history (`session_userdata.go`, `watch_event.go`, `watch_store.go`) | session event tracker; a watch record per user and item | apply an event, enrich, save | read, network call, write back: lost updates and lost final positions |
| Listings by the user's state (`local_filter_candidates.go`, `user_filter.go`, `media_items.go`) | none: a listing in progress | look up, ask, merge, filter, overlay | the records are read twice with upstream requests between; removals and merges meanwhile |
| Upstream clients (`upstream.go`, `upstream_resident_identity.go`, `upstream_ua_updates.go`, `healthcheck.go`, `upstream_auth_state.go`) | per client object: session, online flag, login in progress, last recovery | login, recover, reload, swap, probe | recoveries, logins and reloads overlap; objects outlive their place in the pool |
| Client identities (`identity.go`, `identity_persistence.go`) | captured headers per token, per upstream and the latest; a JSON file | capture, resolve, record success | a login and a capture publish out of order |
| Upstream activity (`upstream_activity_*.go`, `admin_upstream_activity.go`) | samples per session, write slots, ended marks; policy and summary rows | observe, record, finish, settings | answers out of order, failed writes, account changes |
| Virtual IDs (`idstore.go`) | maps in memory and the same in SQLite | create, associate, remove a server, load | memory and database must change together |
| Tokens, users (`auth_manager.go`, `user_store.go`, `handlers_admin.go`, `handlers_auth.go`) | token map and its file, users, grants | issue, validate, revoke, cut off | revocation against a failed save |
| Configuration and administration (`config.go`, `ua_library.go`, `handlers_admin*.go`, `admin_ua_assignments.go`) | configuration, library of identities, their files; the pool; the panel's caches; hidden libraries | edit, assign, reorder, delete, replace an identity | checks and effects far apart; files that leave out defaults |
| Themes (`theme_store*.go`) | rows in SQLite, directories on disk, copies in memory | install, enable, delete, recover | a crash between row and directory |
| Catalog snapshots (`catalog_snapshot.go`, `catalog_scan.go`, `aggregation.go`) | resumable list prefixes per query, byte budget | fill, wait, expire, evict, collect | one fill with many waiters, expiry and eviction meanwhile |
| Stream resources and capabilities (`stream_resource_store.go`, `stream_resource_attempt.go`, the capability store in `playback_ingress.go`) | registered URLs per play, rolling windows, credentials | register, look up, reclaim, revoke | a segment leaves one window while another names it |
| Login limiter, parental control, outbound requests, routing and logging, web player, legacy server | snapshots or none | mostly pure data and I/O | see section 8 |

How they interact on the playback path, which is the program's own core:

```
PlaybackInfo ──reserve──────────────► limit ◄──claim / ensure / leave── stream request
     │       ──reserve, bind alias──► bindings ◄──lease, activate────── (ingress)
     │                                  ▲                                   │
     └── response: PlaySessionId        └── begin / confirm / end, finish ──┤
                                      limit ◄──── session events ───────────┘
                                        │
                          verdict ──► watch record, activity sample
```

and around the configuration:

```
panel ──edit──► AdminConfig: config ──► pool of client objects ──login──► UpstreamClient
                    │ delete                    ▲ identity                     │
                    ▼                           └── ClientIdentity ◄─capture───┘
        IDStore, WatchHistory, activity rows, grants
```

What makes each correct:

* *Limit*: never more users on a server than configured, and nobody locked out
  for good; a request acts on a unit only if it belongs to the attempt that
  holds it; what a handler remembers across a call (token, version) never hits
  a newer attempt.
* *Bindings*: counters equal the table; an attempt's life only moves forward;
  a stop in flight never hits a newer attempt that shares its upstream scope;
  draining ends.
* *Handlers*: they use both components only as those allow; whatever fails, a
  stopped attempt gives its unit back, and a stop the upstream accepted is not
  sent again; every request lets its lease and its cleanup claim go.
* *Tokens and accounts*: a revocation reported as done is final; a restart
  revives nothing; a session ends with the account or the credential it came
  from.
* *Upstream clients*: an attestation describes the session it stands beside; one
  recovery per debounce window; a configured server comes back.
* *Ids and history*: indexes, database and entries agree; rows follow their
  item; a report forgets nothing the user decided.
* *Listings and catalog*: an answer that is not marked incomplete is whole.
* *Activity*: credit never exceeds elapsed time; no write is forgotten; the
  panel shows and changes one account only.
* *Configuration*: every binding names a resident; the pool follows; an edit is
  saved over what its author saw; a restart changes nothing.
* *Themes*: a row has its files; a choice resolves; nothing published is lost.

`PROJECT.json` lists every component with what is modelled of it, and under
`hazards` every place where this code is hard to test, with the properties that
watch it.

## 2. Modules

### SlotPool: the abstract limit

What an operator of the proxy configures: every server has a pool of units, a
user holds at most one of each server, and one who holds none gets one only
while fewer than `max` users do. No claims, no versions, no heartbeats.

### PlaybackLimiter

The limiter as it is. `streams[<<user, server>>]` is `activeStreams`, a unit
has the fields of `activeStream`; `nextVersion` the version counter. Every
method that a handler calls is one action, because every method holds the
limiter's mutex from start to end:

| Action | Code |
|---|---|
| `TryReserve`, `BindReservationPlaySession`, `ReleaseReservation` | the methods of the same names |
| `ForgetReservation` | a successful PlaybackInfo drops its token |
| `EnsureStreamSlot`, `RefuseStream` | `EnsureStreamSlot`, by what it finds: `StreamHeldLive`, `StreamHeldFrozen`, `StreamHeldUnclaimed`, `StreamNew`, or 429 |
| `ReleaseSwitchedSource` | `ReleaseSwitchedSource`, some time after the `EnsureStreamSlot` of the same stream request |
| `SessionEvent` | `ClaimStarted`, `TouchProgress`, `StoppedRelease` (`trackSessionEvent`), by the verdict of `playback_session_identity.go` |
| `Tick`, `Cleanup` | the clock; `Cleanup`, called by the janitor of `server.go` |

What handlers hold between two calls is part of the state: `tokens`
(reservations whose PlaybackInfo or candidate may still bind or release them)
and `switches` (stream requests between their two calls, with the reference
version they read). `last` is history: what was served last, to which unit, and
whether the request had a right to act for the attempt that held it (`Owns`).
It decides nothing.

Abstractions. Timestamps are ages in ticks since the last heartbeat. The limit
is a parameter `max` of each request, drawn from `Limits`: the code reads the
configuration before every call, and it may change between two requests. A
request that reads no limit (0), and every request of an administrator, returns
before it reaches a unit. `TryStart`, `Heartbeat` and `Stop`, the methods from
before sessions had identities, are called by tests only and are left out.

### PlaybackIdentityStore

The binding table. `entries[a]` is the binding of attempt `a` (attempt IDs are
random, so each is reserved at most once: `unused`, then stored, then `gone`),
`perUser` and `activationSequence` are the fields of those names. One action
per method that changes the table; the pruning that a method starts with is part
of its action (`PruneAndPut`, `CountsAfterPrune`). `Cleanup` is the pruning of
every method that then only reads (`resolve`, `resolveAlias`, `validateAuth`,
`count`).

A deadline is a bound on the age since the event the code computes it from. The
owner of an attempt, a user with one authenticated session, is one value; the
server and the account principal are one `account`. The index from alias to
attempts is the set of entries with that alias. `BeginCleanup` and `Release`
ask for a lease that is not yet used by another cleanup: a handler begins at
most one cleanup under its lease and ends it before it lets the lease go.

### StrictPlayback: the composition

The handlers of the strict path over both components, which it instantiates
(`Slots == INSTANCE PlaybackLimiter`, `Store == INSTANCE PlaybackIdentityStore`).
A request is a process with a program counter; every call that takes a lock is
a step of its own and the upstream's answer is one, so all interleavings of the
critical sections are behaviours:

```
first use   claim -> ensure (-> switch) -> activate (-> giveUp)
report      check -> send -> resolve -> slot
Stopped     check -> begin -> send -> confirm -> slot -> retire -> end
the others  check -> begin -> send -> confirm -> retire -> slot -> end
```

PlaybackInfo is split the same way: reserve a unit, reserve bindings
(`Candidate`), bind their aliases, bind the unit to the response, publish
(`Commit`) or fail (`Abort`, `FailCandidate`). `Refuse` is every early return of
a request that was admitted (grants, ratings, an offline source, a body that
names something else), and also a stream that goes on without another step
here. `Delivered` and `NotDelivered` are the upstream's answers: a stop that is
not accepted is not confirmed but still releases the unit; a report whose
connection broke may have arrived, so it may be applied. A limit of 0 is left
out here: no step then touches a unit. A start sent as `POST PlayingItems` is
covered by a report that leaves after it was sent.

### AuthManager

The proxy tokens: `tokens` is the map in memory, `file` what `tokens.json`
holds. A handler's call is split at its critical sections: `Issue` or a
revocation (`RevokeToken`, `RevokeTokensByUserID`, `RevokeAllTokens`) changes
the map, `Save` takes the snapshot and writes the file under one lock,
`SaveFails` goes on to `PutBack` when there is something to put back. `calls[h]`
holds where the call of handler `h` is and what it took out. `Restart` stops the
process anywhere and reads the file; `Reset` is the command that resets the
administrator's password while the process is stopped (`src/cmd/emby-in-one`).
`revoked` and `spent` are history. A token is its owner and a serial number;
names, roles and times are left out.

### Accounts: the handlers over the tokens

Extends `AuthManager` by the user store (`accounts`, whose memory and database
change in one critical section) and the configured servers, and by the handlers
that use both:

```
login        Verify -> Login (Issue) -> Saved | NotSaved
logout       Logout (RevokeToken) -> Saved | NotSaved -> Kept
user update  Update -> [ PatchFails | Revoke -> Saved | NotSaved -> Kept ]
user delete  Delete -> Revoke -> ...
settings     ChangeAdminPassword -> RevokeAll -> ...      (one at a time)
upstream     RemoveServer -> RemoveServerGrants           (one at a time)
```

`Update` is any change of fields in one request; it goes on to revoke when it
disables the account or changes the password, which it may do together with
anything else. `ended` is history: what a change of account or password was to
end. `excused` and `halfway` record, by reason, the tokens that outlive it.

### ClientIdentity and UpstreamClient

`ClientIdentity` is what passthrough upstreams present: the identity captured
with each local token, the latest one, the last successful one per upstream key,
and `captured-headers.json`. `ResolvePassthrough` tries the sources in the code's
order; `RecordSuccess` and `SetCaptured` publish.

`UpstreamClient` extends it by one configured server. `objs` is every client
object ever built, `pool` the one in use. A change of the configuration builds
an object (`EditServer`, `SaveSettings`, `RemoveServer`, `ReplaceProfile`: each
decides what session it inherits) and publishes it in a later step
(`PublishClient`), while the six callers of logins go on with the object they
hold: `LoginAll`, the reconnect job, the health check, the recovery after a 401,
the administrator's button, and a capture. A login begins (`BeginLogin`, one at a
time per object), then succeeds or fails. `RequestRejected` and `Recover` are the
debounced recovery with its check before and inside the goroutine; a rejection may
arrive when its client is offline or replaced by now. `issued` and
`recovered` are history. A credential is the account it authenticates.

### IDStore, WatchHistory and LocalListing

`IDStore` is `idstore.go`: published ids with a primary and further copies, the
derived indexes (`index`, `known`, `oldest`), the database (`disk`), the active
stream hints and the borrowed artwork. A write that fails (`saved` is FALSE)
leaves the database behind. `RemoveByServerID` promotes copies, drops ids and
rebuilds the indexes; `Load` is the start.

`WatchHistory` extends it by the watch records, the tracker of live sessions and
the session handlers, one action per step without a common lock:

```
arrive -> forward -> verdict -> read -> accept (-> enrich) -> write (-> register)
```

`verdict` is the limiter's answer, either one here. A removal is
`CommitRemoval` (the configuration), later `RemoveServer` (ids and rows in one
transaction); handlers and merges go on between the two. `Restart` stops
anywhere and loads.

`LocalListing` extends it by one listing by the user's own state: `Begin` (ids
of the matching records), batches per server (`BatchAnswered`, `BatchUnsent`,
`Stops`, `Collected`), `MergeFirst` and `MergeDuplicate`, `Filter` (the records
again), `Overlay`. Everything `WatchHistory` does may come between two steps.
`owed`, `steady` and `missed` are history. Ids are random, so none that the listing
names is drawn again.

### UpstreamActivity

The viewing statistics of one server: an event is numbered (`Begin`), sent,
attributed to the account of the moment (`ConfirmScope`), judged by a cached
threshold (`ReadThreshold`), counted under the tracker's lock (`Observe`),
written (`Record`) and marked (`MarkRecord`). The panel's form, the cached
summary and the settings (`ShowActivity`, `SavePolicy`), account changes, the
deletion of the server, expiry, eviction and restarts interleave with it.

### ThemeStore

Rows in SQLite, directories on disk, the store's memory. Operations hold one
lock but crash between their steps: stage, rename, commit, publish, forget,
remove. `Lose` is damage done by somebody else; `Recover` is the start.

### AdminConfig

The configuration and the library of client identities with their files, and
what follows from them. `Rendered` and `Parsed` are the file (defaults are left
out and filled in), `Reloaded` and `Swapped` the two ways the pool follows,
`jobs` the handlers between their checks and the last of their effects under
`withAdminMutation`. A handler that changes the configuration passes its checks
(`BeginConfig`), replaces file and memory under the lock of the configuration
(`SaveConfig`, or `ConfigSaveFails`), rebuilds the pool under the pool's
(`RebuildPool`), and after an edit or a removal forgets what was kept of the server
(`ForgetHidden`, `ForgetList`), each a step of its own; `stage` says how far it
is. Captures, panels that hold a form open, library lists in flight, hidden
libraries and restarts interleave with the steps.

### CatalogScan and StreamResources

`CatalogScan`: requests start a task per upstream; tasks claim the entry of
their query, lead its fill page by page or wait for another's; entries are
evicted by expiry and age, counted in bytes. The upstreams differ in what they
honour (totals, offsets, limits, caps, wide windows).

`StreamResources`: handles for upstream URLs, rolling windows per playlist,
credentials of strict attempts; what the tables ask of the bindings is reduced
to five states. `promise` and `used` are history.

### Instances, proofs, faulty definitions

`MCPlaybackLimiter`, `MCPlaybackIdentityStore`, `MCStrictPlayback`,
`MCUpstreamClient` and `MCWatchHistory` (with `LocalListing`) instantiate one
component each. `MCAdministration` puts `Accounts` and `AdminConfig` in one run,
`MCStores` puts `UpstreamActivity` and `ThemeStore`, `MCMemoryStores` puts
`CatalogScan` and `StreamResources`: they share no state, and a variable `focus`,
chosen at the start, says which of them a behaviour is about, or which part of
its environment is active. The modules ending in `_proofs` hold the theorems.

An operator under a comment "Faulty" is a plausible bug of the definition after
it; no specification uses it. It is there so that each property can be shown to
fail when the code is wrong in that way (`mutants` in `PROJECT.json`).

## 3. Properties and runs

**Limiter** (two users, one server, two items, two attempts, one device).
`UnprovenRequestInert`: a request that does not own the unit neither refreshes,
claims, moves nor releases it. `BoundReservationSettles` (liveness): late
requests of other attempts cannot keep a bound reservation alive for good.
`ImplementsPool`: the limiter refines `SlotPool`, holders being the users with an
unexpired unit.

**LimiterSwitching** (one user, two servers). `AttemptEndsByItsOwner`: an
attempt's unit ends only by its owner, a newer reservation, the very token that
made it, or a switch whose reference is not older than the unit: neither the
late failure path of an old PlaybackInfo nor a late segment takes it.

**IdentityStore** (two attempts, two users, one account, item and alias; one
binding per user). `CountsExact`, `CleanupSparesNewerAttempt`, `LivesForward`
and, for liveness, `DrainingEnds`.

**StrictLifecycle** (two negotiations, two attempts, two concurrent requests,
each a stream, a progress report, a stop or a delete; one server).
`StoppedAttemptHoldsNoUnit`: once the requests of a stopped attempt are done, it
holds no unit, whatever the upstream answered and wherever the first request of
the attempt was when the stop came; the exception is a report that was past its
last check (section 6). `StopsSentOnce`: a stop at the upstream spares every
newer attempt in its scope, and no second request sends it at the same time or
after it was accepted.

**StrictComponents** (one attempt that is served from either of two servers, so
that switching happens). `UsesSlots` and `UsesStore`: every step of the handlers
is a step, or a stutter, of the limiter's and of the store's own specification.
This carries the safety results of those two modules, proved ones included, over
to the composition. `DrainedBindingIsLetGo` (liveness): every lease and cleanup
claim of a binding that left the workable states ends.

**Upstream** (two accounts, three client objects, two rejections, one restart;
edits, answers or captures vary). `SessionsAreTheirOwn`: an attestation describes
the credential it stands beside, and the session of a resident client was granted
to the identity version it presents, through reloads, swaps and logins of
replaced objects. `OneRecoveryPerWindow`. `ServerComesBack` (liveness).

**WatchHistory** (two ids, two originals, three servers, one user, two sessions,
one handler; ids, events of one item, aliases or listings vary).
`StoreConsistent`: indexes, database and artwork hints agree with the entries.
`RowsRouted`: a row names a server that has a copy of its item.
`ReportsForgetNothing`, `HistorySurvivesRemoval`, `OnlyStartsReplaceSessions`:
what reports, removals and late events may never undo.
`UnmarkedListingIsWhole`: a listing that is not marked incomplete has every item
whose records matched all along.

**Stores** (two accounts, two plays, two requests; two themes, four versions).
`CreditIsElapsedTime`, `NoWriteForgotten`, `ViewSpeaksOfAccount`,
`FormsFollowTheAccount` of the statistics (the account is changed and the server
deleted around two events, the second of which qualifies its session and may arrive
under the next account); `NoRowWithoutFiles`,
`SelectionsResolve`, `PublishedStays` of the themes.

**Administration** (one user and the administrator with one token each, two
handlers; two servers, residents, prints and addresses). `RevokedStaysRevoked`
and `RestartRevivesNothing` of `AuthManager`; `UsesTokens`: the handlers use the
token map as it specifies, so both hold for them. `CutOffSessionsEnd`: a token of
a disabled, deleted or re-keyed account is gone or about to be revoked; the four
reasons the code has to let one outlive the cut (a login that had verified the
old password, a failed save, a stop before the save, an update that failed
half-way) are named in it. `BindingsResolve`, `EditsSeeWhatTheyChange` and
`RestartChangesNothing` of the configuration. `PoolFollowsConfig`: the pool is the
one of the configuration, client by client; between a handler's save and its
rebuild it is that of the configuration the handler replaced, whole, and between a
new identity and its swap only the identity of the swapped servers may be old.

**MemoryStores** (two requests, two queries, eight kinds of upstream; two plays,
two URLs, two playlists). `UnmarkedAnswersAreWhole` and `FillsOwnTheirEntries`
of the catalog, `GivenStaysUsable` of the stream resources. Entries expire under their
fill and its waiters, and compete for bytes; there are no more queries than entries, so
the limit on their number and its eviction are left to the proof of
`FillsOwnTheirEntries`, which covers every limit.

**ListingRead** and **GraceRestart** are the runs TLC finds violated (section 6).

## 4. Fairness, deadlock and bounds

*Fairness.* The limiter and the bindings assume only that time passes
(`WF(Tick)`): no client has to send anything. `StrictPlayback` assumes weak
fairness of the steps of a request that was admitted: a handler runs on, every
upstream call has a timeout, and no lock is held across one. Nothing is assumed of
clients, negotiations, the janitor or the clock there. `UpstreamClient` assumes
weak fairness of the steps of goroutines that were started (publishing, the
login jobs), of the health check's ticker and of the start of a login that
waits, and strong fairness of a login's success: an upstream that is asked again
and again answers. Nothing obliges the administrator or the clients.

*Deadlock.* The limiter never stops, so TLC checks that. Attempts, requests,
tokens, objects, revisions and the clock are used up in the others, so their
configurations switch the check off.

*Bounds* are constants with "bound" in their comment: `MaxVersion`, `MaxTokens`,
`MaxSwitches`, `MaxLeases`, `Requests`, `MaxNegotiations`, `Serials`,
`MaxObjects`, `MaxRejections`, `MaxRestarts`, `MaxEvents`, `MaxTime`,
`MaxRevision`, `MaxThemeRevision`, `MaxLosses`, `MaxFills`, `RequestBudget`,
`Horizon`. They cut behaviours short and change nothing before that. Why they
suffice:

* A race in the limiter needs an old attempt, a new one and a late request of
  the old: two PlaySessionIds, two items and four versions allow reserve, claim,
  reserve again, and a late request or a restart. A switch needs two servers and
  a source that is reserved anew meanwhile: three versions. Users meet in the
  limiter only in the count, so two users and a limit of one reach the full
  server, the refused and the re-admitted user.
* Bindings collide in pairs. Two attempts of one user or of two, with one
  alias, item and account, reach every conflict; a third one adds no new pair
  except in the counters, which are proved for any number. Deadlines of one or
  two ticks distinguish "in time", "just expired" and "expired while leased".
* In the composition, two requests at once cover each pairing of operations;
  ages of one tick let a unit or a binding expire between any two steps. Three
  requests are beyond a run; the first safety property and both component
  properties are proved for any number.
* The token map races in pairs of handlers: two handlers and two tokens, one of
  each owner, reach every pair. The proofs cover any number.
* An inherited session passes from one object to the next, so three objects
  reach "inherited, replaced, and a late login on the first". Two rejections
  meet in one window.
* The ids need two ids that share a copy and three servers, so that a removal
  promotes between two survivors; the tracker of two entries reaches eviction.
  A listing has one batch of one id per request and two servers, so that one is
  asked after the other gave something.
* The statistics need two accounts and two events in flight beside a third; the
  themes three versions of one theme (previous, current, next) and one more
  for the quota. Two servers and two residents reach every swap of bindings; two
  panels differ by what they saw, which `form` and `Views` give.
* Two requests of two queries reach every meeting of leaders and waiters; four
  fills allow a prefix to be resumed, evicted and filled anew.
* `VIEW` drops only the history variable `last`, and symmetry is used only in
  runs without liveness.

## 5. Proofs

`tlapm` on each module ending in `_proofs` checks the theorems below for *every*
value of the constants that satisfies the named assumptions (finitely many users,
attempts, versions or requests, positive timeouts, natural limits and bounds, an
absent value that is none of the present ones, an administrator who is no regular
user, ids with an order). Each theorem about a safety property has the same
argument: an inductive invariant that implies it, checked by TLC before it was
proved, with one lemma per action of the next-state relation.

**PlaybackLimiter_proofs**

* `TypeCorrect`.
* `ClaimsFrozenByReservations`. `FrozenIffReserved` is not inductive by itself:
  when a reservation bumps the version, the old claim must become frozen, which
  needs that no claim carries a version that was not handed out yet. The
  inductive invariant is `IInv`: `TypeOK`, and for each unit `UnitInv`, that is
  its type, `FrozenIffReserved` for it, versions of the unit and its claim not
  beyond `nextVersion`, and that an absent unit is exactly `NoUnit`. `UnitInv`
  speaks of one unit, so a lemma per shape of update (`UnitInvKept`,
  `UnitInvRestarted`) serves all actions.
* `UnprovenRequestsAreInert`, an action property under `IInv`: one lemma for
  stream requests, one for session events, by what `Owns` means for a live, a
  frozen and an absent claim.
* `AttemptsEndByTheirOwner`, an action property under `TypeOK`: a version
  changes only through a bump, a release or a switch.
* `LimiterImplementsPool`: initial states map to initial states; each action is
  `Admit`, `Leave` or a stutter of the pool. An admission counts only active
  units, so the lemmas relate what a call finds to who holds a unit.
* `LimiterRespectsCapacity`, from the refinement's step.

**PlaybackIdentityStore_proofs**

* `TypeCorrect`.
* `CleanupsSpareNewerAttempts`. Inductive as `CollisionInv`: `TypeOK`, the
  property, and `DrainingInv` (a binding with a cleanup in flight has left the
  workable states, so it cannot become active). The two interesting steps are
  `Activate`, refused while a conflicting cleanup is in flight, and
  `BeginCleanup`, refused when a newer attempt is active; every other write is
  "calm" (`CalmStep`): it adds no cleanup and activates nothing.
* `BindingsLiveForward`, an action property under `TypeOK`.
* `CountersAreExact`: the counters as cardinalities, step by step, with the
  pruned bindings split off; no step can make them negative.

**StrictPlayback_proofs**

* `HandlersUseSlots` and `HandlersUseStore`: each step of a handler is a step or a
  stutter of the component, with the token, the switch reference and the lease it
  uses shown to be there.
* `StoppedAttemptsHoldNothing`. The reason why no interleaving leaks a unit is a
  debt: `StoppedClaimsReleased` says that every live claim of a stopped attempt
  has a request that still has a release before it, or was a report past its
  last check. The rest of `HandlerInv` is what makes the debt payable: the shape of
  units and bindings (`SlotShape`, `StoreShape`), of requests (`RequestsShape`:
  what a request at each step holds and has seen), that reservations and switches
  under way name what their request holds (`ReservationsHeld`, `SwitchesHeld`),
  that a claim belongs to the user and item of its attempt (`ClaimsOwned`), and
  that an attempt is stopped only by a request that goes on to release
  (`StopsBegun`). `tlapm` cannot cite a theorem about an instance, so the frames of
  the two components that this proof needs are stated again for `Slots` and `Store`.
* `StopsAreSentOnce`. One attempt can have two cleanups, and what keeps the second
  from sending the stop again is spread over store and requests. `SendInv` puts it
  together: the claim of an operation keeps its binding leased and draining
  (`Drains`), a collision spares the newer attempt (the store's own property, restated
  for `Store`), and an operation is owned (`OperationsOwned`): the request that began it
  holds its claim until it ends it, has not sent the stop before, no two requests
  share one, and what was confirmed stays confirmed while the binding is found.
  Every other call of the store is `Unharmed` by all of it.

**Administration_proofs**, first the token map of `AuthManager` and `Accounts`

* `TypeCorrect`, `RevocationsAreFinal`, `RestartsReviveNothing`. Neither property
  is inductive: a put-back must not bring back what another handler revoked. The
  strengthening says that a token is in one place, in memory or with the one
  handler that took it out (`TakenApart`), and that what was revoked is in none
  (`RevokedNowhere`); the lemmas follow a token through take, save and put-back.
* `AccountsUseTokens`: each step of a handler is one of the token map or leaves
  it alone; the two properties follow for the handlers.
* `AccountsTypeCorrect` and `SessionsEndWithCredential`. `CutOffSessionsEnd` needs
  besides that a handler with a token call under way is not the one a cut-off
  token waits for (`CallsApart`), and for restarts `RestartRevivesNothing`.

then `AdminConfig`

* `ConfigInvariant`, and from it `BindingsAlwaysResolve`, `PoolAlwaysFollows`,
  `NoEditIsBlind`, `RestartsLoseNothing` and, with the bounds of what the panel sees
  (`PanelOK`), `ConfigTypeCorrect`. `AdminInv` says what none of the four says alone.
  The mutex leaves at most one handler between its checks and its effects, and what
  that handler is about to save is a sane configuration (`Sane`: one kind of
  credential and an identity exactly in resident mode for each server, ids given
  once) whose residents exist (`JobOK`). Captures do not take the mutex; the first
  one adds a resident when no server can be bound to one, later ones add none, so
  they disturb no check. What a panel shows of a resident (`ViewOK`) has an old
  revision or the identity of now, which is why the revision it echoes is enough.
  The file is read back as a sane configuration of the same effect (`FileRoundTrip`,
  server by server `WrittenBack`), and a swap of single clients after an edit
  rebuilds the pool of the new configuration (`SwapFollows`), because an edit that
  swaps keeps the order and adds one server at most, at the end. Between save and
  rebuild the pool is tied to the configuration the handler started from, which nothing
  changes meanwhile because no other handler runs (`SaveConfigKeeps`,
  `RebuildPoolKeeps`); captures add no resident a server is bound to. Assumed: the value
  for a missing field is none of the values it can have (`MissingFields`), and the
  grace periods are numbers with the default among them (`ConfigNumbers`).

**WatchHistory_proofs**

* `IndexesAreExact`, `DiskNeverAhead`, `SourcesStayCopies`, together
  `StoreStaysConsistent`, by `IDInv`: the three and that only published ids have
  further copies, never their primary (`OthersApart`). Without it a promotion could
  leave a copy twice and the next removal drop it from one place only. The hints
  need that the step which drops a copy drops them, or that its server is gone.
* `ReportsTakeNothing`, an action property: only the step `Write` and the user's
  own marks touch the columns, and `Upsert` keeps what the event does not know.
* `RowsAlwaysRouted`, by `RoutedInv`: as long as the database took every write it
  would restore the very copies that memory has (`Synced`), and not only the rows
  but also the records that events under way are about to write name a server that
  has a copy, or one that left the configuration for good. A row read before a
  removal and written after it is what needs the second half.
* `RemovalsKeepHistory`, an action property: a removal deletes the rows of ids that
  vanish and no other row of an id that keeps a copy.
* `LateReportsReplaceNothing`: with `TrackerOK` (one entry for each user and item,
  at most `MaxWatchEntries`) every entry after a step was there before, or is of an
  item that had none, or is the session that a start registers (`Keeps`).
  `WatchTypesCorrect` is the type invariant of the module.
* `UnmarkedListingsAreWhole`, by `ListInv`, for `ListingSpec`. It rests on the
  store alone (`StoreSound`, which every step keeps, `Filter` included) and follows
  a listing: an id counts as steady only while it matches (`SteadyMatch`), and until
  something marks the listing, every copy that is owed is still due, fetched, or a
  copy of an id that is listed, and every listed id keeps a copy on a server that was
  asked (`OwedIsComing`). Lemmas about the operators carry the two ends:
  `MatchingIsWhole` says that the narrow selection of rows loses no item that
  matches, because aliases form classes (`AliasIsMutual`) that match together
  (`AliasesAgree`); `WorkKeepsCopies` that no step takes a copy away from a server
  that is configured. Removing a server that was asked breaks the second half of
  `OwedIsComing`, which is why the property excepts it. `ListingTypesCorrect` is the
  type invariant. Assumed besides: batch and budget are numbers (`ListingBounds`).
* `ListingsKeepStore`, `ListingsKeepRoutes`, `ListingsKeepHistory`: the properties
  above under `ListingSpec`. Every step of a listing is a step of the store and the
  rows (`ListingStepIsStep`) but `Filter`, which records for all listed ids at once
  where they are shown from. It keeps the hints sound because a listed id, as long as
  it is published and the server is configured, is listed from one of its copies
  (`ListedFromCopies`); this needs that a random id which the listing names is not
  drawn a second time, a guard of `Meanwhile` and `MergeFirst`.

**Stores_proofs**, first `ThemeStore`

* `ThemesSound`, and from it `RowsHaveFiles`, `ChoicesResolve`. `ThemeInv` follows
  an operation through its steps: what is staged, renamed and committed so far,
  which directories the running operation may still remove (none that a row or the
  memory names), and what the memory may say while the row is already ahead.
* `PublishedThemesStay`, an action property under `ThemeInv`.

then `UpstreamActivity`

* `ActivitySound`, and from it `CreditsAreEarned`, `WritesAreRetried`,
  `ViewsAreTheAccounts`, `FormsAreTheAccounts`. `ActivityInv` has two halves:
  `RowsInv` (which account the policy, summary, form and cached threshold speak of)
  and `TrackerInv` (numbers and moments of samples, and that each claimed write is
  on its way or failed with its handler).

**MemoryStores_proofs**, first `StreamResources`

* `GivenIsKept`, and with it `WindowsAreCounted`. `StreamInv` relates four tables
  that expire on their own: a session lasts for its idle time after its player's
  last request (`Timed`), every entry belongs to a session and was given by it
  while that lasts (`EntriesGiven`), what a window names is there and does not
  retire, what was given is there and is only retired if a newer window replaced
  it, and a credential that was shown belongs to an attempt that can go on. The
  hard step is `Enter`, which prunes, evicts and replaces a window at once and
  keeps the handles that both windows name. The count is
  an equality of cardinalities, kept window by window.

then `CatalogScan`

* `FillsAlwaysOwnTheirEntries`. `Owned` says for each leader that its entry is
  stored under its own key and holds its fill (`Leads`), that no two lead one fill
  (`FillsLed`), and that a waiter's fill has ended or is led (`Awaits`). That the
  store keeps its size needs that eviction finds enough victims: `VictimsAreAble`,
  by the well-foundedness of inclusion on finite sets, because there is no
  induction. `Counted` says that the bytes of the store are the rows of its entries
  and within the limit. A sum over the entries would be a fold, beyond the provers;
  `BytesOf` is the cardinality of the set of their rows instead, and every step is
  a fact about disjoint finite sets: dropping entries takes off their rows
  (`DroppingCounts`, with which the code's clamp at zero is never reached), a page
  adds as many as it has to the one entry that is still stored (`ReceiveCounts`).
* `OrderlyListsAreWhole`, and from it `OrderlyAnswersAreWhole`. `InOrder` follows
  the rows from a page to an entry, a fill, a task's view and a request: an entry is
  a prefix of its list and a complete one is all of it, a page is fetched from where
  the entry ends, a request that is not marked has seen nobody who lacks anything.
  An upstream that ignores the offset gives its first page over and over; the code
  compares each page with those it has (`Repeats`), which helps only if the page
  comes again in the same size. `Again` says why it does: what a leader asks of such
  an upstream is always the window (`Span`), because the round and the store have
  room for a second page of that size (`AsksAgain`); so the one page an entry can
  have is among those it has seen (`TakenAgain`), and a narrower window is tried
  only before the first page came (`RefusedAgain`).
  The result is conditional on the upstream (`Orderly`): it gives at least one row
  of a page; it caps no page below the window its list is asked with unless it
  reports its total, as the code takes a short page without a total for the last
  one (`catalog_snapshot.go:340-392`); and if it ignores the offset, twice the
  window fits the limits. The program's do: 200 and 100 for paged lists, 5000 for
  the others, against 5000 a round and 50000 in all. Without that condition the
  statement is false: with a window of 3 and a round of 3 TLC finds an answer that
  repeats a row and is not marked. The conditions are about one upstream each, so
  the others may do what they like; that the upstreams of the run meet them is
  `ListsAreOrderly`, which TLC evaluates. Assumed: the limits are
  natural numbers (`ScanLimits`, `StreamTimes`), tables are finite (`StreamTables`)
  and the absent value is none of the present ones (`NoneIsNowhere`).

**UpstreamClient_proofs**

* `ClientsSound`, and from it `SessionsBelong` and `WindowsRecoverOnce`. `UpInv`
  says of every object, and of the one that is built but not published yet, what the
  two properties say, and two facts more: only a resident client holds an identity
  of the library, and a recovery is only counted in an open window (`ObjectSound`).
  A login finishes long after it began, on an object that may have been replaced,
  so the invariant also follows it: a login under way is about an object that
  exists and presents that object's identity (`CallSound`). What an object presents
  never changes (`SameClient`), so logins of other objects keep their promise.

**Only model-checked.** Liveness is out of the provers' reach:
`BoundReservationSettles`, `DrainingEnds`, `DrainedBindingIsLetGo`,
`ServerComesBack`. `UnmarkedAnswersAreWhole` is proved for
orderly upstreams, which those of the run are; of the others it need not hold, see
above. Every other safety property that a passing run checks is proved for all values of
the constants. The two runs of section 6 are expected to fail and have nothing to
prove.

## 6. Disagreements between comments and code

Two runs that TLC finds violated:

* **ListingRead** (`FailedReadIsNoAnswer`): `local_filter_candidates.go:56-58` says
  that an unreadable local record must not become a complete empty answer. The
  second reading, in `filterItemsByLocalUserState` (`user_filter.go:243`), matches
  nothing when it fails, and the answer is not marked.
* **GraceRestart** (`GraceSurvivesRestart`): the panel accepts a grace period of 0,
  which switches the timer off; `config.go:164` reads a stored 0 as "not set", so
  a restart brings the default back.

Disagreements found while modelling, which the modules contain as the code has
them:

* `playback_limiter.go:583-584` says a switch without an identity leaves the older
  unit to heartbeat expiry. The code (`:610-621`) releases an unclaimed unit of the
  same item, even one reserved and bound for an attempt that has not started.
* `media_playback.go:269-271` and `playback_limiter.go:519` say only the announced
  attempt can claim a bound reservation. Between reserve (`:51`) and bind (`:274`)
  the unit is unbound; a late start of the previous attempt claims it, and the
  later bind leaves that claim as it is.
* `playback_session_events.go:350-351` says a report in flight when a stop begins
  may not reclaim a released unit. The check and the update are two critical
  sections; a stop and a new reservation fit between. None of these three loses
  capacity for good: the unit expires by its heartbeat.
* `handlers_admin.go:911-914` says that disabling a user and changing a password
  cut the user's access. The handler writes the account first and revokes last;
  when saving the hidden libraries fails in between, it returns, and the tokens of
  the old password stay valid (`halfway` in `Accounts`).
* `src/README_EN.md:69` says that users reach only their assigned servers. Removing
  a user's only granted server leaves an empty grant list, which means every server
  (`user_store.go:336`).
* `upstream.go:997-999` and `upstream_auth_state.go:3-4` speak of one consistent
  snapshot of a login; `upstream.go:615` publishes an API key's token before it is
  validated, beside the old user and online flag.
* `admin_ua_assignments.go:99-101` says that an edit starts no login without an
  identity; the targeted login of `upstream_ua_updates.go:141-145` asks whatever client
  the pool holds when it runs.
* `session_userdata.go:112-114` says that a report without a position keeps the
  stored one; a read that fails (`:129-132`) counts as "no record", and position 0
  is written.
* `upstream_activity_events.go:547-548` says that a deleted server gains no marker;
  a write that is on its way when the server is deleted leaves one.
* `handlers_admin.go:374-376` says that a changed server's cached library list is
  dropped so that the panel shows the current target; a list requested before the
  change and answered after it (`handlers_admin_home_libraries.go:76-105`) fills the
  cache again, for up to its ten minutes.
* `playback_ingress.go:214-216` says that finalization (retire, fail, rollback) drops the
  capabilities of an attempt. A rollback does (`playback_negotiation.go:51`); those of an
  attempt that was retired or failed otherwise stay until they expire or a reclaim finds
  its binding gone (`playback_lifecycle.go:45`). Lookups fail at the binding meanwhile.

## 7. Observations that are no disagreement

Behaviours the models show and no text of the repository denies.

* *Listings.* Rows whose id the store forgot mark every filtered listing as
  incomplete, for ever. Without an allowed online server the answer is empty and
  unmarked. A browse in flight can republish the ids of a removed server. An item
  merged into a copy whose server is removed at that moment is listed under a dead
  id and filtered out, which is why `UnmarkedListingIsWhole` asks that the servers
  asked are still configured. A merge in flight at a removal leaves an artwork hint
  that names the removed server.
* *History.* A first start records before it registers, so while an older session is
  tracked its own record is dropped. A row may be written for a user or a server
  that was deleted while the event was on its way. The tracker evicts at capacity
  even when nothing is inserted.
* *Clients.* A login that waits behind a successful one may fail and take an online
  client offline. A resident server whose address changed inherits the old token
  until its targeted login. A login that succeeds with the latest capture can put an
  older identity back in its place.
* *Activity.* The threshold cache may keep a value read before a change dropped it.
  A stop that is rejected or late never ends its session; one without PlaySessionId
  ends nothing. A failed late answer does not break the chain of samples. A write
  stuck beyond the session's time to live marks a session that was created anew as
  persisted past its own valid time; the rows merge by maximum, so nothing is lost.
  `CreditIsElapsedTime` therefore does not bound the persisted mark: an earlier
  form did, and its proof failed there.
* *Themes.* A version reclaimed for the quota stays lost when the install is then
  refused. Uploading the current version again after its directory vanished skips
  the quota check. A preference read in flight can restore a deleted user's row.
* *Catalog.* Waiters that join a fill get a cancelled leader's partial prefix
  without an error, and the leader's request budget.
* *Stream resources.* A playlist in flight when its attempt is removed registers its
  resources again, until reclaim or expiry. A rolling playlist without entries
  leaves its old window as it is.
* *Configuration.* A handler publishes the configuration (`handlers_admin.go:969`,
  `admin_ua_assignments.go:118`) before it rebuilds the pool (`:972`, `:121`), so requests
  meet the old clients under the new configuration for a moment. Own User-Agent fields stay in memory but are written in custom
  mode only. A crash between saving the configuration and removing a deleted
  server's ids leaves them behind.

## 8. What is not modelled

Pure data (merging, filtering, URL and header rewriting, theme and CSS parsing,
ratings), I/O and logging, browser code and the superseded Node.js server. Where
the modelled handlers depend on such a decision it is a nondeterministic choice.
The login limiter (`login_limiter.go`) is a table of counters with one lock.
Parental filters and random order in listings take the full-scan path, which is
left out of `LocalListing`, and so is the list of resumable items of the home
screen. The bindings, units and capabilities live in memory only, so a restart is
an initial state and these modules need no crash actions. A reset with `--force`
of a process that is still running, and a file system that does not replace a
file atomically, are left out.

## 9. Plan

Done: every module of section 2, their runs, and the proofs of section 5. Next:

1. The six hazards that no property covers; each has a note in `PROJECT.json` on
   what the code does there and why no property states it.
2. The parts of section 8 that are not modelled, parental control first.
