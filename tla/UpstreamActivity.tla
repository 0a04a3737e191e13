---------------------------- MODULE UpstreamActivity ----------------------------
(***************************************************************************)
(* The viewing statistics of one upstream server: the tracker of play      *)
(* sessions (upstream_activity_tracker.go), the wiring of session events   *)
(* (upstream_activity_events.go), the policy and summary rows              *)
(* (upstream_activity_store.go), the reminder state computed from them     *)
(* (upstream_activity_policy.go) and the settings form of the panel        *)
(* (admin_upstream_activity.go).                                           *)
(*                                                                         *)
(* An event is numbered when it is received, sent to the upstream, and     *)
(* counted when its answer arrives; answers come in any order, and the     *)
(* administrator may change the account or delete the server meanwhile.    *)
(* The scope of an account (upstream_activity_scope.go) is the account:    *)
(* Blank has none.  The admin mutation lock makes scope checks, settings   *)
(* and configuration changes atomic; the tracker and the store have their  *)
(* own locks, each held for one step.                                      *)
(***************************************************************************)
EXTENDS Integers, FiniteSets

CONSTANTS
  Accounts,      \* accounts the server may be configured with
  Blank,         \* an entry without URL, user name and API key
  None,          \* nothing; as an account: the server is deleted
  Plays,         \* upstream PlaySessionIds; None: the event has none
  Handlers,      \* requests served at the same time
  Thresholds,    \* minimum watch times
  DefaultMin,    \* the one a server starts with
  Positions,     \* positions, in units of the clock
  MaxSessions, MaxSampleGap, SeekFactor, SeekSlack, Refresh, PersistInterval, TTL, Cycle,
  MaxTime, MaxEvents, MaxRevision   \* bounds

ASSUME ActivityBounds ==
  /\ Thresholds \subseteq Nat \ {0} /\ DefaultMin \in Thresholds /\ Positions \subseteq Nat
  /\ {MaxSessions, MaxSampleGap, SeekFactor, Refresh, PersistInterval, TTL, Cycle}
       \subseteq Nat \ {0}
  /\ SeekSlack \in Nat /\ MaxTime \in Nat /\ MaxEvents \in Nat /\ MaxRevision \in Nat
ASSUME AccountNames == None \notin Accounts /\ Blank \notin Accounts /\ None # Blank /\ None \notin Plays

Keys == Accounts \X (Plays \union {None})
\* A tracked play session.  Positions are moments of the stream, the rest moments and
\* spans of the clock; attempt, claimed and born are 0 before there is one.
Sessions == [seen : Nat, seq : Nat, stopped : BOOLEAN, min : Nat, base : BOOLEAN, baseAt : Nat,
             basePos : Nat, credit : Nat, qualified : BOOLEAN, valid : Nat, persisted : Nat,
             attempt : Nat, claimed : Nat, born : Nat]
ASSUME NoneIsAbsence == None \notin Nat /\ None \notin Sessions /\ None \notin Keys

VARIABLES
  account,   \* the account of the server in the configuration
  ensured,   \* activityScopes: the account whose rows are known to be there
  cache,     \* activityPolicies: a threshold, 0 for a failed reading, or None
  policy,    \* the policy row
  summary,   \* the summary row
  health,    \* kinds of operations whose last attempt failed
  sessions,  \* play sessions of the tracker
  ended,     \* when a session was stopped
  slots,     \* activityFlushedAt: when an account's activity was last written
  seq, now,
  event,     \* the session event each request carries
  form       \* the settings form an administrator has loaded

storeVars == <<policy, summary>>
trackerVars == <<sessions, ended, slots>>
adminVars == <<account, ensured, form>>
vars == <<account, ensured, cache, policy, summary, health, sessions, ended, slots,
          seq, now, event, form>>

NoSummary == [scope |-> None, activity |-> 0, qualified |-> 0, by |-> {}]
NoForm == [rev |-> 0, account |-> None]
Idle == [step |-> "idle", kind |-> "Report", key |-> None, seq |-> 0, at |-> 0, pos |-> None,
         min |-> None, activity |-> 0, qualified |-> 0, stored |-> FALSE]

-----------------------------------------------------------------------------
(* The rows.  A revision is random and different from the one it replaces;  *)
(* here it is a fresh number.  The manual reference carries its account.    *)

NoPolicy == [enabled |-> FALSE, min |-> DefaultMin, manual |-> 0, scope |-> None, rev |-> 0]
NewPolicy(rev) == [NoPolicy EXCEPT !.rev = rev]
Revised == policy.rev + 1

\* Faulty: an account without a manual reference keeps the revision.
RescopedQuietly(p) == IF p.manual = 0 THEN (IF p.rev = 0 THEN NewPolicy(1) ELSE p)
                      ELSE [p EXCEPT !.manual = 0, !.scope = None, !.rev = Revised]
\* bumpPolicyForScopeChange
Rescoped(p) == IF p.rev = 0 THEN NewPolicy(1)
               ELSE [p EXCEPT !.manual = 0, !.scope = None, !.rev = Revised]

\* EnsureScope: the rows of account a exist and know nothing of other accounts.
ScopedSummary(a) == IF summary.scope = a THEN summary ELSE [NoSummary EXCEPT !.scope = a]
ScopedPolicy(a) == IF summary.scope # a THEN Rescoped(policy)
                   ELSE IF policy.rev = 0 THEN NewPolicy(1) ELSE policy

Later(x, y) == IF x > y THEN x ELSE y
Merged(e) == [summary EXCEPT !.activity = Later(@, e.activity),
                             !.qualified = Later(@, e.qualified), !.by = @ \union {e.key[1]}]

-----------------------------------------------------------------------------
(* The tracker.                                                             *)

NewSession(min) ==
  [seen |-> 0, seq |-> 0, stopped |-> FALSE, min |-> min, base |-> FALSE, baseAt |-> 0,
   basePos |-> 0, credit |-> 0, qualified |-> FALSE, valid |-> 0, persisted |-> 0,
   attempt |-> 0, claimed |-> 0, born |-> 0]

Live(k) == sessions[k] # None
\* evictExpiredLocked, at the next observation
Fresh(at) == now - at < TTL
KeptSessions == [k \in Keys |-> IF Live(k) /\ ~Fresh(sessions[k].seen) THEN None ELSE sessions[k]]
KeptEnded == [k \in Keys |-> IF ended[k] # None /\ ~Fresh(ended[k]) THEN None ELSE ended[k]]
KeptSlots == [a \in Accounts |-> IF slots[a] # None /\ ~Fresh(slots[a]) THEN None ELSE slots[a]]

Tracked(ss) == {k \in Keys : ss[k] # None}
Stoppable(ss) == {k \in Tracked(ss) : ss[k].stopped}
\* makeRoomLocked: the stopped session seen longest ago gives way.
RoomMade(ss) ==
  IF Cardinality(Tracked(ss)) < MaxSessions THEN {ss}
  ELSE {[ss EXCEPT ![k] = None] : k \in {j \in Stoppable(ss) :
           \A i \in Stoppable(ss) : ss[j].seen <= ss[i].seen}}

\* accumulateLocked: one accepted sample.
Credited(s, at, pos) ==
  LET rebased == [s EXCEPT !.base = TRUE, !.baseAt = at, !.basePos = pos]
      elapsed == at - s.baseAt
      delta == pos - s.basePos
  IN IF pos = None THEN [s EXCEPT !.base = FALSE]
     ELSE IF ~s.base \/ elapsed <= 0 \/ elapsed > MaxSampleGap \/ delta < 0 THEN rebased
     ELSE IF delta = 0 THEN s
     ELSE IF delta > elapsed * SeekFactor + SeekSlack THEN rebased
     ELSE [rebased EXCEPT !.credit = @ + (IF delta > elapsed THEN elapsed ELSE delta),
                          !.valid = at]
\* Faulty: answers are taken in the order of their arrival.
AnyNewer(s, n) == ~s.stopped
Newer(s, n) == n > s.seq /\ ~s.stopped

\* the sample, and whether the session qualifies by it
Sampled(s, e) ==
  LET c == Credited([s EXCEPT !.seq = e.seq, !.seen = e.at,
                              !.born = IF s.seq = 0 THEN e.at ELSE @], e.at, e.pos)
  IN [c EXCEPT !.qualified = @ \/ (c.credit >= c.min /\ c.valid # 0)]
\* a qualified time is due when it is news and the window of the last attempt is over
QualifiedDue(s, e) ==
  /\ s.qualified /\ s.valid > s.persisted
  /\ e.kind = "Stopped" \/ s.attempt = 0 \/ e.at - s.attempt >= Refresh
ActivityDue(sl, e) ==
  sl[e.key[1]] = None \/ e.at - sl[e.key[1]] >= PersistInterval

Go(h, e) == event' = [event EXCEPT ![h] = e]
Done(h) == Go(h, Idle)
At(h, s) == event[h].step = s

\* the step after an observation
Onward(e, activity, qualified) ==
  LET e2 == [e EXCEPT !.activity = activity, !.qualified = qualified]
  IN IF activity # 0 \/ qualified # 0 THEN [e2 EXCEPT !.step = "write"]
     ELSE IF e.kind = "Stopped" THEN [e2 EXCEPT !.step = "finish"] ELSE Idle

\* activityOnlyObservation: no session, or no room for one; a stop ends nothing then.
ActivityOnly(h, ss) ==
  LET e == event[h] due == ActivityDue(KeptSlots, e) IN
  /\ sessions' = ss /\ ended' = KeptEnded
  /\ slots' = IF due /\ e.kind # "Stopped" THEN [KeptSlots EXCEPT ![e.key[1]] = e.at] ELSE KeptSlots
  /\ IF due \/ e.kind = "Stopped" THEN Go(h, [e EXCEPT !.step = "write", !.kind = "Report", !.activity = e.at])
     ELSE Done(h)

Ignored(h, ss) ==
  /\ sessions' = ss /\ ended' = KeptEnded /\ slots' = KeptSlots
  /\ Done(h)

Counted(h, ss, s0) ==
  LET e == event[h]
      s == Sampled(s0, e)
      due == ActivityDue(KeptSlots, e)
      news == QualifiedDue(s, e)
  IN /\ sessions' = [ss EXCEPT ![e.key] = IF news THEN [s EXCEPT !.attempt = e.at, !.claimed = s.valid] ELSE s]
     /\ ended' = KeptEnded
     /\ slots' = IF due /\ e.kind # "Stopped" THEN [KeptSlots EXCEPT ![e.key[1]] = e.at] ELSE KeptSlots
     /\ Go(h, Onward(e, IF due \/ e.kind = "Stopped" THEN e.at ELSE 0, IF news THEN s.valid ELSE 0))

ObserveSample(h) ==
  LET e == event[h] ss == KeptSessions IN
  IF e.key[2] = None THEN ActivityOnly(h, ss)
  ELSE IF ss[e.key] # None
  THEN IF Newer(ss[e.key], e.seq) THEN Counted(h, ss, ss[e.key]) ELSE Ignored(h, ss)
  ELSE IF KeptEnded[e.key] # None THEN Ignored(h, ss)
  ELSE IF RoomMade(ss) = {} THEN ActivityOnly(h, ss)
  ELSE \E room \in RoomMade(ss) : Counted(h, room, NewSession(e.min))

\* Faulty: the window of a failed write is kept.
PersistFailedSilently(e) == UNCHANGED <<sessions, slots>>
\* MarkPersistFailed
PersistFailed(e) ==
  /\ slots' = IF e.activity # 0 THEN [slots EXCEPT ![e.key[1]] = None] ELSE slots
  /\ sessions' = IF e.qualified # 0 /\ Live(e.key)
                 THEN [sessions EXCEPT ![e.key].attempt = 0] ELSE sessions
\* MarkPersisted
Persisted(e) ==
  /\ sessions' = IF e.qualified # 0 /\ Live(e.key)
                 THEN [sessions EXCEPT ![e.key].persisted = Later(@, e.qualified)] ELSE sessions
  /\ UNCHANGED slots

\* Finish: the session stays, marked; a tombstone outlives it.  Only MaxSessions
\* tombstones are kept.
Ended(k) ==
  LET e2 == [ended EXCEPT ![k] = now]
      held == {j \in Keys : e2[j] # None}
  IN IF Cardinality(held) <= MaxSessions THEN {e2}
     ELSE {[e2 EXCEPT ![j] = None] : j \in {i \in held : \A m \in held : e2[i] <= e2[m]}}
Finish(k) ==
  /\ sessions' = IF Live(k) THEN [sessions EXCEPT ![k].stopped = TRUE] ELSE sessions
  /\ ended' \in Ended(k)
  /\ UNCHANGED slots

-----------------------------------------------------------------------------
(* The session events (upstream_activity_events.go), one action per step.   *)

\* beginUpstreamActivityEvent: numbered and timed on receipt, then bound to the account
\* if the client that will carry it still has the configured one; else nothing counts.
Begin(h, kind, play, pos) ==
  /\ At(h, "idle") /\ account \in Accounts /\ seq < MaxEvents
  /\ seq' = seq + 1
  /\ Go(h, [Idle EXCEPT !.step = "sent", !.kind = kind, !.key = <<account, play>>,
                        !.seq = seq + 1, !.at = now, !.pos = pos])
  /\ UNCHANGED <<adminVars, cache, storeVars, health, trackerVars, now>>

\* Refused, or nobody knows: the interval up to the event proves nothing (Discard).
Unconfirmed(h) ==
  LET e == event[h] IN
  /\ At(h, "sent")
  /\ sessions' = IF e.key[2] # None /\ Live(e.key) /\ Newer(sessions[e.key], e.seq)
                 THEN [sessions EXCEPT ![e.key].seq = e.seq, ![e.key].base = FALSE] ELSE sessions
  /\ Done(h)
  /\ UNCHANGED <<adminVars, cache, storeVars, health, ended, slots, seq, now>>

\* The limiter or the session tracker did not accept the event.
NotAllowed(h) ==
  /\ At(h, "sent") /\ Done(h)
  /\ UNCHANGED <<adminVars, cache, storeVars, health, trackerVars, seq, now>>

\* What the rows, the guard, the cache and the health are after making sure of the
\* account's rows; when the guard knows the account nothing can fail.
EnsureRows(ok) ==
  /\ ensured = account => ok
  /\ IF ensured = account \/ ~ok THEN UNCHANGED <<storeVars, ensured>>
     ELSE /\ summary' = ScopedSummary(account) /\ policy' = ScopedPolicy(account)
          /\ policy'.rev <= MaxRevision
          /\ ensured' = account
CacheEnsured(ok) == IF ensured = account \/ ~ok THEN cache ELSE None
HealthEnsured(ok) == IF ensured = account THEN health
                     ELSE IF ok THEN health \ {"scope"} ELSE health \union {"scope"}

\* confirmUpstreamActivityScope: the account must still be the one of the request.
ConfirmScope(h) ==
  /\ At(h, "sent")
  /\ IF account = event[h].key[1]
     THEN \E ok \in BOOLEAN :
            /\ EnsureRows(ok) /\ cache' = CacheEnsured(ok) /\ health' = HealthEnsured(ok)
            /\ IF ok THEN Go(h, [event[h] EXCEPT !.step = "threshold"]) ELSE Done(h)
     ELSE /\ cache' = IF account = None THEN cache ELSE None
          /\ Done(h) /\ UNCHANGED <<storeVars, health, ensured>>
  /\ UNCHANGED <<account, form, trackerVars, seq, now>>

\* upstreamActivityMinWatch: from the cache, or from the row, cached later.  A failure is
\* cached too and never replaced by the default; it still ends a stopped session.
ReadThreshold(h) ==
  /\ At(h, "threshold")
  /\ \/ /\ cache \in Thresholds
        /\ Go(h, [event[h] EXCEPT !.step = "observe", !.min = cache])
        /\ UNCHANGED <<cache, health, trackerVars>>
     \/ /\ cache = None
        /\ Go(h, [event[h] EXCEPT !.step = "fetched", !.min = policy.min])
        /\ UNCHANGED <<cache, health, trackerVars>>
     \/ /\ cache \notin Thresholds
        /\ cache' = 0 /\ health' = health \union {"read"}
        /\ IF event[h].kind = "Stopped" THEN Finish(event[h].key) ELSE UNCHANGED trackerVars
        /\ Done(h)
  /\ UNCHANGED <<adminVars, storeVars, seq, now>>

Observe(h) ==
  /\ At(h, "observe") \/ At(h, "fetched")
  /\ cache' = IF At(h, "fetched") THEN event[h].min ELSE cache
  /\ health' = health \ {"read"}
  /\ ObserveSample(h)
  /\ UNCHANGED <<adminVars, storeVars, seq, now>>

\* Faulty: an answer is written into the row whoever it belongs to by now.
RecordWhoever(h) ==
  LET e == event[h] IN
  /\ At(h, "write")
  /\ \E ok \in BOOLEAN :
       /\ summary' = IF ok THEN Merged(e) ELSE summary
       /\ Go(h, [e EXCEPT !.step = "mark", !.stored = ok])
  /\ UNCHANGED <<adminVars, cache, policy, health, trackerVars, seq, now>>
\* Record: refused when the rows belong to another account by now.
Record(h) ==
  LET e == event[h] IN
  /\ At(h, "write")
  /\ \E ok \in BOOLEAN :
       /\ ok => summary.scope = e.key[1]
       /\ summary' = IF ok THEN Merged(e) ELSE summary
       /\ Go(h, [e EXCEPT !.step = "mark", !.stored = ok])
  /\ UNCHANGED <<adminVars, cache, policy, health, trackerVars, seq, now>>

MarkRecord(h) ==
  LET e == event[h] IN
  /\ At(h, "mark")
  /\ IF e.stored THEN Persisted(e) ELSE PersistFailed(e)
  /\ health' = IF e.stored THEN health \ {"summary"} ELSE health \union {"summary"}
  /\ IF e.kind = "Stopped" THEN Go(h, [e EXCEPT !.step = "finish"]) ELSE Done(h)
  /\ UNCHANGED <<adminVars, cache, storeVars, ended, seq, now>>

FinishStop(h) ==
  /\ At(h, "finish") /\ Finish(event[h].key) /\ Done(h)
  /\ UNCHANGED <<adminVars, cache, storeVars, health, seq, now>>

-----------------------------------------------------------------------------
(* The administrator, under the admin mutation lock.                        *)

\* ComputeUpstreamActivityView: unavailable before disabled before unknown before the
\* tiers of the time that remains of a cycle.
Tier(p, ref) ==
  LET left == ref + Cycle - now IN
  IF ~p.enabled THEN "disabled"
  ELSE IF ref = 0 \/ ref > now THEN "unknown"
  ELSE IF 2 * left > Cycle THEN "normal"
  ELSE IF 4 * left > Cycle THEN "warning"
  ELSE IF left > 0 THEN "urgent" ELSE "overdue"

\* adminUpstreamActivityView drops a manual reference of another account.
ManualOf(p) == IF p.scope = account THEN p.manual ELSE 0

View(p, s, available) ==
  LET manual == ManualOf(p)
      observed == IF s.scope = account THEN s.qualified ELSE 0
      ref == Later(observed, manual)
  IN IF ~available THEN [state |-> "unavailable", by |-> {}]
     ELSE [state |-> Tier(p, ref),
           by |-> IF ref = 0 THEN {} ELSE IF manual > observed THEN {p.scope} ELSE s.by]

\* what a reading of the panel finds and shows: the rows of the account
Shown == LET known == ensured = account IN
  View(IF known THEN policy ELSE ScopedPolicy(account),
       IF known THEN summary ELSE ScopedSummary(account), account # Blank /\ health = {})

\* GET of one server and of the list: the rows are ensured, then read; the panel may
\* keep what it gets as a form.
ShowActivity(keep) ==
  /\ account # None
  /\ IF account = Blank
     THEN UNCHANGED <<storeVars, ensured, cache, health, form>>
     ELSE \E ok, read \in BOOLEAN :
            /\ EnsureRows(ok) /\ cache' = CacheEnsured(ok)
            /\ health' = IF ~ok THEN HealthEnsured(FALSE)
                         ELSE IF read THEN HealthEnsured(TRUE) \ {"read"}
                         ELSE HealthEnsured(TRUE) \union {"read"}
            /\ form' = IF ~keep THEN form
                       ELSE [rev |-> IF ok /\ read THEN policy'.rev ELSE 0, account |-> account]
  /\ UNCHANGED <<account, trackerVars, seq, now, event>>

\* PUT: the policy is saved over the revision the form was made from.
SavePolicy(enabled, min, manual) ==
  /\ form # NoForm /\ account \in Accounts
  /\ \E ok, stored \in BOOLEAN :
       LET p == IF ensured = account \/ ~ok THEN policy ELSE ScopedPolicy(account)
           s == IF ensured = account \/ ~ok THEN summary ELSE ScopedSummary(account)
           saves == ok /\ stored /\ s.scope = account /\ p.rev # 0 /\ p.rev = form.rev
       IN /\ ensured = account => ok
          /\ ensured' = IF ok THEN account ELSE ensured
          /\ summary' = s
          /\ policy' = IF saves THEN [enabled |-> enabled, min |-> min, manual |-> manual,
                                      scope |-> IF manual = 0 THEN None ELSE account,
                                      rev |-> p.rev + 1]
                       ELSE p
          /\ policy'.rev <= MaxRevision
          /\ cache' = IF saves THEN None ELSE CacheEnsured(ok)
          /\ \E read \in BOOLEAN :
               /\ health' = IF ~ok THEN HealthEnsured(FALSE)
                            ELSE IF saves /\ read THEN HealthEnsured(TRUE) \ {"policy", "read"}
                            ELSE IF saves THEN (HealthEnsured(TRUE) \ {"policy"}) \union {"read"}
                            ELSE IF stored THEN HealthEnsured(TRUE)
                            ELSE HealthEnsured(TRUE) \union {"policy"}
  /\ UNCHANGED <<account, form, trackerVars, seq, now, event>>

\* The configuration of the server is saved with another account, or none.
EditAccount(a) ==
  /\ account # None /\ a # account
  /\ account' = a
  /\ UNCHANGED <<ensured, form, cache, storeVars, health, trackerVars, seq, now, event>>

NoSessions == [k \in Keys |-> None]
\* purgeUpstreamActivityServer
DeleteServer ==
  /\ account # None
  /\ account' = None /\ ensured' = None /\ cache' = None
  /\ \/ policy' = NoPolicy /\ summary' = NoSummary /\ health' = {}
     \/ UNCHANGED storeVars /\ health' = health \union {"summary"}
  /\ sessions' = NoSessions /\ ended' = NoSessions /\ slots' = [a \in Accounts |-> None]
  /\ UNCHANGED <<form, seq, now, event>>

-----------------------------------------------------------------------------
\* A cached threshold is used for a minute.
ExpireCache ==
  /\ cache # None /\ cache' = None
  /\ UNCHANGED <<adminVars, storeVars, health, trackerVars, seq, now, event>>

Tick ==
  /\ now < MaxTime /\ now' = now + 1
  /\ UNCHANGED <<adminVars, cache, storeVars, health, trackerVars, seq, event>>

\* The process restarts and ensures the rows of the configured account; the forms stay
\* open in the panel.
Restart ==
  /\ sessions' = NoSessions /\ ended' = NoSessions /\ slots' = [a \in Accounts |-> None]
  /\ event' = [h \in Handlers |-> Idle] /\ cache' = None
  /\ IF account \notin Accounts
     THEN ensured' = None /\ health' = {} /\ UNCHANGED storeVars
     ELSE \/ ensured' = None /\ health' = {"scope"} /\ UNCHANGED storeVars
          \/ /\ ensured' = account /\ health' = {}
             /\ summary' = ScopedSummary(account) /\ policy' = ScopedPolicy(account)
             /\ policy'.rev <= MaxRevision
  /\ UNCHANGED <<account, form, seq, now>>

Init ==
  /\ account \in Accounts /\ ensured = account /\ cache = None
  /\ policy = NewPolicy(1) /\ summary = [NoSummary EXCEPT !.scope = account]
  /\ health = {} /\ sessions = NoSessions /\ ended = NoSessions
  /\ slots = [a \in Accounts |-> None]
  /\ seq = 0 /\ now = 1
  /\ event = [h \in Handlers |-> Idle] /\ form = NoForm

Report(h) ==
  \/ \E kind \in {"Report", "Stopped"}, play \in Plays \union {None}, pos \in Positions \union {None} :
        Begin(h, kind, play, pos)
  \/ Unconfirmed(h) \/ NotAllowed(h) \/ ConfirmScope(h) \/ ReadThreshold(h)
  \/ Observe(h) \/ Record(h) \/ MarkRecord(h) \/ FinishStop(h)

Next ==
  \/ \E h \in Handlers : Report(h)
  \/ \E keep \in BOOLEAN : ShowActivity(keep)
  \/ \E enabled \in BOOLEAN, min \in Thresholds, manual \in {0, now} : SavePolicy(enabled, min, manual)
  \/ \E a \in Accounts \union {Blank} : EditAccount(a)
  \/ DeleteServer \/ ExpireCache \/ Tick \/ Restart

ActivitySpec == Init /\ [][Next]_vars

-----------------------------------------------------------------------------
(* Properties.                                                              *)

(* Credited viewing is elapsed time: whatever the order of the answers and *)
(* the positions reported, a play session is never credited with more than *)
(* the time from its first counted sample to its last valid one, and it    *)
(* qualifies only with the watch time that was asked for at its start.     *)
CreditIsElapsedTime ==
  \A k \in Keys : Live(k) =>
    LET s == sessions[k] IN
    /\ s.credit <= IF s.valid = 0 THEN 0 ELSE s.valid - s.born
    /\ s.qualified => s.credit >= s.min /\ s.valid # 0

(* The window that keeps a qualified session from being written again is   *)
(* always backed by a write that is under way or by one that succeeded: a  *)
(* failed write is retried by the next heartbeat.                          *)
NoWriteForgotten ==
  \A k \in Keys : Live(k) /\ sessions[k].attempt # 0 =>
    \/ sessions[k].persisted >= sessions[k].claimed
    \/ \E h \in Handlers : /\ event[h].key = k /\ event[h].at = sessions[k].attempt
                           /\ event[h].step \in {"write", "mark"} /\ event[h].qualified # 0

(* What the panel shows about an account rests on that account: events and *)
(* manual references of an earlier account, answers that arrive after a    *)
(* change included, never make the current one look safe.  A deleted server *)
(* has no view.                                                            *)
ViewSpeaksOfAccount ==
  account # None /\ Shown.state \in {"normal", "warning", "urgent", "overdue"} => Shown.by = {account}

(* A settings form whose revision would be accepted was made for the       *)
(* account the server has now: whatever was saved in between, and whether  *)
(* or not an earlier account left a manual reference, a change of account  *)
(* makes every form of the one before stale.                               *)
FormsFollowTheAccount ==
  form # NoForm /\ form.rev # 0 /\ account \in Accounts =>
    LET p == IF ensured = account THEN policy ELSE ScopedPolicy(account)
    IN p.rev = form.rev => form.account = account
=================================================================================
