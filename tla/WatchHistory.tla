------------------------------ MODULE WatchHistory ------------------------------
(***************************************************************************)
(* Session events, the per-user watch history and the virtual ids it is    *)
(* keyed by: the handlers of session_userdata.go over watch_event.go,      *)
(* watch_store.go and idstore.go.                                          *)
(*                                                                         *)
(* A handler forwards an event to the upstream, asks the playback limiter  *)
(* for a verdict (PlaybackLimiter models it; here either answer may come), *)
(* then reads the user's record, consults the session tracker, perhaps     *)
(* fetches metadata over the network, and writes the record.  No lock      *)
(* spans these steps.                                                      *)
(***************************************************************************)
EXTENDS IDStore, SequencesExt

CONSTANTS Users, Sessions, Handlers,
          Full,            \* the runtime of an item, in units of position
          Bodies,          \* the position and runtime fields an event may carry
          MaxWatchEntries  \* maxSessionWatchEntries

ASSUME WatchBounds ==
  /\ Full \in Nat \ {0} /\ MaxWatchEntries \in Nat \ {0}
  /\ Bodies \subseteq [pos : 0 .. Full \union {None}, run : {0, Full, None}]

Kinds == {"Started", "Progress", "Stopped"}
Positions == 0 .. Full
\* Stopping at or past nine tenths of the runtime marks an item as played.
NearEnd(pos, run) == run > 0 /\ pos > 0 /\ pos * 10 >= run * 9

NoRow == [server |-> None, pos |-> 0, run |-> 0, played |-> FALSE, fav |-> FALSE,
          typed |-> FALSE, exists |-> FALSE]
Rows == [server : Servers \union {None}, pos : Positions, run : {0, Full},
         played : BOOLEAN, fav : BOOLEAN, typed : BOOLEAN, exists : BOOLEAN]

Steps == {"idle", "forward", "verdict", "read", "accept", "enrich", "write", "register"}

VARIABLES
  rows,       \* user_watch_progress
  tracker,    \* sessionEventTracker: least recently seen entry first
  handler,    \* the session event that each handler goroutine serves
  live,       \* the configured upstream servers
  unsaved     \* some write of the id store failed (history)
watchVars == <<rows, tracker, handler, live, unsaved>>
vars == <<idVars, watchVars>>

Idle == [step |-> "idle", kind |-> "Started", user |-> None, item |-> None, server |-> None,
         session |-> None, body |-> None, seen |-> NoRow, typed |-> FALSE]

TypeOK ==
  /\ IDTypeOK
  /\ rows \in [Users -> [VIDs -> Rows]]
  /\ \A i \in DOMAIN tracker : tracker[i] \in [user : Users, item : VIDs, session : Sessions]
  /\ Len(tracker) <= MaxWatchEntries
  /\ \A i, j \in DOMAIN tracker :
        tracker[i].user = tracker[j].user /\ tracker[i].item = tracker[j].item => i = j
  /\ \A h \in Handlers : handler[h] = Idle \/
       handler[h] \in [step : Steps, kind : Kinds, user : Users, item : VIDs, server : Servers,
                       session : Sessions \union {None}, body : Bodies,
                       seen : Rows, typed : BOOLEAN]
  /\ live \subseteq Servers /\ unsaved \in BOOLEAN

Init ==
  /\ IDInit
  /\ rows = [u \in Users |-> [v \in VIDs |-> NoRow]]
  /\ tracker = <<>> /\ handler = [h \in Handlers |-> Idle]
  /\ live = Servers /\ unsaved = FALSE

-----------------------------------------------------------------------------
(* The tracker of live sessions (watch_event.go).                           *)

Holds(t, u, v) == \E i \in DOMAIN t : t[i].user = u /\ t[i].item = v
EntryOf(t, u, v) == CHOOSE i \in DOMAIN t : t[i].user = u /\ t[i].item = v
Tracked(u, v) == Holds(tracker, u, v)
SessionOf(u, v) == IF Tracked(u, v) THEN tracker[EntryOf(tracker, u, v)].session ELSE None

\* evictLocked: room for one more entry is made whether or not one will be added.
Evicted(t) == IF Len(t) < MaxWatchEntries THEN t ELSE Tail(t)
\* The entry of a key replaces the key's earlier one and is the most recently seen.
Put(t, u, v, x) ==
  Append(IF Holds(t, u, v) THEN RemoveAt(t, EntryOf(t, u, v)) ELSE t,
         [user |-> u, item |-> v, session |-> x])
Belongs(t, u, v, x) == [user |-> u, item |-> v, session |-> x] \in {t[i] : i \in DOMAIN t}

\* AcceptEvent: unidentified events pass, an untracked stream is taken over.
Accepts(u, v, x) == LET t == Evicted(tracker)
                    IN x = None \/ ~Holds(t, u, v) \/ Belongs(t, u, v, x)
\* Faulty: an event of another session becomes the tracked one.
TakeOver(u, v, x) == IF x = None THEN tracker ELSE Put(Evicted(tracker), u, v, x)
AfterAccept(u, v, x) == LET t == Evicted(tracker)
                        IN IF x = None THEN tracker
                           ELSE IF Accepts(u, v, x) THEN Put(t, u, v, x) ELSE t
AfterStart(u, v, x) == IF x = None THEN tracker ELSE Put(Evicted(tracker), u, v, x)

\* An entry is forgotten ten minutes after its last event.
ExpireSession ==
  /\ tracker # <<>>
  /\ tracker' = Tail(tracker)
  /\ UNCHANGED <<idVars, rows, handler, live, unsaved>>

-----------------------------------------------------------------------------
(* The watch store.                                                         *)

\* Faulty: the values that were read are written back.
UpsertEverything(row, p) ==
  [exists |-> TRUE, server |-> p.server, pos |-> p.pos, run |-> p.run,
   played |-> p.played, fav |-> p.fav, typed |-> p.typed]
\* The statement of RecordProgress: position and server are taken over, every other
\* column only when the event knows something.
Upsert(row, p) ==
  [exists |-> TRUE, server |-> p.server, pos |-> p.pos,
   run    |-> IF p.run > 0 THEN p.run ELSE row.run,
   played |-> p.played \/ row.played, fav |-> row.fav, typed |-> p.typed \/ row.typed]

\* recordSessionToWatchStore: what an event makes of the record it read.
Reported(e) ==
  LET pos == IF e.body.pos = None THEN e.seen.pos ELSE e.body.pos
      run == IF e.body.run = None THEN e.seen.run ELSE e.body.run
      done == e.kind = "Stopped" /\ NearEnd(pos, run)
  IN [server |-> e.server, pos |-> IF done THEN 0 ELSE pos,
      run |-> IF run = 0 /\ e.typed THEN Full ELSE run,
      played |-> done, fav |-> FALSE, typed |-> e.typed \/ e.seen.typed]

MarkPlayed(u, v, b) ==
  /\ rows' = [rows EXCEPT ![u][v] = [@ EXCEPT !.exists = TRUE, !.played = b]]
  /\ UNCHANGED <<idVars, tracker, handler, live, unsaved>>

\* SetFavoriteAliases over AliasVirtualIDs, in one transaction.
SetFavorite(u, v, b) ==
  /\ rows' = [rows EXCEPT ![u] = [w \in VIDs |-> IF w \in AliasVirtualIDs(v)
                                    THEN [@[w] EXCEPT !.exists = TRUE, !.fav = b] ELSE @[w]]]
  /\ UNCHANGED <<idVars, tracker, handler, live, unsaved>>

\* localUserState: the record window of an item is the union over its aliases.
Window(u, v) == {rows[u][w] : w \in AliasVirtualIDs(v)} \ {NoRow}

\* The user is deleted: DeleteUser.
DeleteUser(u) ==
  /\ \E v \in VIDs : rows[u][v] # NoRow
  /\ rows' = [rows EXCEPT ![u] = [v \in VIDs |-> NoRow]]
  /\ UNCHANGED <<idVars, tracker, handler, live, unsaved>>

-----------------------------------------------------------------------------
(* The session handlers, one action per step.                               *)

Step(h, e) == handler' = [handler EXCEPT ![h] = e]
Goes(h, s) == Step(h, [handler[h] EXCEPT !.step = s])
Done(h) == Step(h, Idle)
At(h, s) == handler[h].step = s

\* translateSessionBodyIDs: the item's primary server, or the server of a selected copy.
Routes(v) == {ServerOf(p) : p \in Copies(v)}

\* An event arrives and is attributed; an upstream that is gone hears nothing, and only
\* a stop is finished locally then.
Arrive(h, k, u, v, x, body, s) ==
  /\ At(h, "idle") /\ Published(v) /\ s \in Routes(v)
  /\ s \in live \/ k = "Stopped"
  /\ \E online \in BOOLEAN :
       /\ online => s \in live
       /\ k # "Stopped" => online
       /\ Step(h, [Idle EXCEPT !.step = IF online THEN "forward" ELSE "verdict", !.kind = k,
                               !.user = u, !.item = v, !.server = s, !.session = x, !.body = body])
  /\ UNCHANGED <<idVars, rows, tracker, live, unsaved>>

\* The forward: an answer, or a transport failure that may have been delivered, go on; a
\* refusal is not recorded, nor is an event that could not be prepared, but a stop that
\* could not be prepared is.
Forwarded(h) ==
  /\ At(h, "forward")
  /\ \E outcome \in {"answered", "lost", "refused", "unprepared"} :
       IF outcome \in {"answered", "lost"} \/ (outcome = "unprepared" /\ handler[h].kind = "Stopped")
       THEN Goes(h, "verdict") ELSE Done(h)
  /\ UNCHANGED <<idVars, rows, tracker, live, unsaved>>

\* applySessionEvent: a start that the limiter refuses is not registered either.
Verdict(h) ==
  /\ At(h, "verdict")
  /\ \E local \in BOOLEAN : IF local THEN Goes(h, "read") ELSE Done(h)
  /\ UNCHANGED <<idVars, rows, tracker, live, unsaved>>

\* What follows the record of an event, written or not.
AfterRecord(h) == IF handler[h].kind = "Started" THEN Goes(h, "register") ELSE Done(h)

\* GetProgress; a read that fails counts as "no record".
Read(h) ==
  /\ At(h, "read")
  /\ \E seen \in {rows[handler[h].user][handler[h].item], NoRow} :
       Step(h, [handler[h] EXCEPT !.step = "accept", !.seen = seen])
  /\ UNCHANGED <<idVars, rows, tracker, live, unsaved>>

Accept(h) ==
  LET e == handler[h] IN
  /\ At(h, "accept")
  /\ tracker' = AfterAccept(e.user, e.item, e.session)
  /\ IF Accepts(e.user, e.item, e.session)
     THEN Goes(h, IF e.seen.typed THEN "write" ELSE "enrich")
     ELSE AfterRecord(h)
  /\ UNCHANGED <<idVars, rows, live, unsaved>>

\* enrichWatchProgressMetadata: a request to the upstream, which may fail.
Enrich(h) ==
  /\ At(h, "enrich")
  /\ \E known_ \in BOOLEAN : Step(h, [handler[h] EXCEPT !.step = "write", !.typed = known_])
  /\ UNCHANGED <<idVars, rows, tracker, live, unsaved>>

\* RecordProgress; a failed write is only logged.
Write(h) ==
  LET e == handler[h] IN
  /\ At(h, "write")
  /\ \E ok \in BOOLEAN :
       rows' = IF ok THEN [rows EXCEPT ![e.user][e.item] = Upsert(@, Reported(e))] ELSE rows
  /\ AfterRecord(h)
  /\ UNCHANGED <<idVars, tracker, live, unsaved>>

\* StartSession: a permitted start becomes the live session of its stream.
Register(h) ==
  /\ At(h, "register")
  /\ tracker' = AfterStart(handler[h].user, handler[h].item, handler[h].session)
  /\ Done(h)
  /\ UNCHANGED <<idVars, rows, live, unsaved>>

-----------------------------------------------------------------------------
(* The virtual ids and the rows change together.                            *)

\* A browse or detail answer publishes an item or finds another copy of one.
Publish(v, p) ==
  \E saved \in BOOLEAN :
    /\ GetOrCreateVirtualID(v, p, saved)
    /\ unsaved' = (unsaved \/ ~saved)
    /\ UNCHANGED <<rows, tracker, handler, live>>

Associate(v, p) ==
  \E saved \in BOOLEAN :
    /\ p \notin others[v]
    /\ AssociateAdditionalInstance(v, p, saved)
    /\ unsaved' = (unsaved \/ ~saved)
    /\ UNCHANGED <<rows, tracker, handler, live>>

\* An upstream is deleted: the configuration first ...
CommitRemoval(s) ==
  /\ s \in live
  /\ live' = live \ {s}
  /\ UNCHANGED <<idVars, rows, tracker, handler, unsaved>>

\* Faulty: a row follows its item only when it was recorded on the primary copy.
RehomedPrimaries(row, v, s) ==
  IF Vanishes(v, s) \/ (row.server = s /\ ~Moves(v, s)) THEN NoRow
  ELSE IF row.server = s THEN [row EXCEPT !.server = ServerOf(RouteAfter(v, s))] ELSE row
\* The rows of a touched id follow it to the copy that survives; rows of a vanished id,
\* and stale rows of the server, are deleted.
Rehomed(row, v, s) ==
  IF Vanishes(v, s) \/ (row.server = s /\ ~Touched(v, s)) THEN NoRow
  ELSE IF row.server = s THEN [row EXCEPT !.server = ServerOf(RouteAfter(v, s))] ELSE row

\* ... then the ids with the rows, in one transaction that leaves all as it is if it fails.
RemoveServer(s) ==
  /\ s \notin live
  /\ \E v \in VIDs : Touched(v, s)
  /\ rows' = [u \in Users |-> [v \in VIDs |-> Rehomed(rows[u][v], v, s)]]
  /\ RemoveByServerID(s)
  /\ UNCHANGED <<tracker, handler, live, unsaved>>

\* NewWatchStore marks rows as played that an older version left at the end.
Migrated(row) == IF ~row.played /\ NearEnd(row.pos, row.run) THEN [row EXCEPT !.played = TRUE] ELSE row

\* The process restarts: the tracker and the requests are gone, ids come from the database.
Restart ==
  /\ Load
  /\ rows' = [u \in Users |-> [v \in VIDs |-> Migrated(rows[u][v])]]
  /\ tracker' = <<>> /\ handler' = [h \in Handlers |-> Idle]
  /\ UNCHANGED <<live, unsaved>>

\* A merge names the copies it found; the item or the server may be gone by then.
Offers(v, p) == p \in Copies(v) \/ ~Published(v) \/ ServerOf(p) \notin live
Hint(v) ==
  /\ \/ \E s \in Servers : SetActiveStream(v, s)
     \/ EvictExpiredStreamState(v)
     \/ \E p \in Pairs : Offers(v, p) /\ SetSource(v, p)
  /\ UNCHANGED watchVars

Flag(u, v) ==
  /\ Published(v)
  /\ \E b \in BOOLEAN : MarkPlayed(u, v, b) \/ SetFavorite(u, v, b)

Report(h) ==
  \/ \E k \in Kinds, u \in Users, v \in VIDs, x \in Sessions \union {None}, body \in Bodies,
        s \in Servers : Arrive(h, k, u, v, x, body, s)
  \/ Forwarded(h) \/ Verdict(h) \/ Read(h) \/ Accept(h) \/ Enrich(h) \/ Write(h) \/ Register(h)

Work ==
  \/ \E h \in Handlers : Report(h)
  \/ \E u \in Users, v \in VIDs : Flag(u, v)
  \/ \E u \in Users : DeleteUser(u)
  \/ \E v \in VIDs, p \in Pairs : Publish(v, p) \/ Associate(v, p)
  \/ \E v \in VIDs : Hint(v)
  \/ \E s \in Servers : CommitRemoval(s) \/ RemoveServer(s)
  \/ ExpireSession

Next == Work \/ Restart

WatchSpec == Init /\ [][Next]_vars

-----------------------------------------------------------------------------
(* Properties.                                                              *)

(* Borrowed artwork of a published item comes from a copy the item really  *)
(* has, or from a server that is no longer configured: a removal drops the *)
(* hints that name the server's copies, also of the ids that survive it,   *)
(* and a restart drops them all; only a merge that was under way may name  *)
(* the removed server again.                                               *)
SourcesAreCopies ==
  \A v \in VIDs : Published(v) /\ source[v] # None /\ ServerOf(source[v]) \in live =>
    source[v] \in Copies(v)

(* What is published, merged, borrowed, removed and reloaded agrees: the   *)
(* indexes with the entries, the database with the memory, the hints with  *)
(* the copies.                                                             *)
StoreConsistent == IndexExact /\ DiskBehindMemory /\ SourcesAreCopies

(* A row always points to a server that has a copy of its item, to no      *)
(* server at all (a favourite of something never played), or to a server   *)
(* that is no longer configured and whose event was still under way, as    *)
(* long as the database took every id.  Copies are promoted and removed,   *)
(* and the process restarts, meanwhile.                                    *)
RowsRouted ==
  ~unsaved => \A u \in Users, v \in VIDs :
    rows[u][v].exists /\ rows[u][v].server \in live /\ Published(v) =>
      rows[u][v].server \in Routes(v)

(* Reports never undo what the user decided or what was learnt: whatever   *)
(* an event read before another request wrote, a favourite is lost only by *)
(* removing it, a played mark only by un-marking it, and metadata and      *)
(* runtime never.                                                          *)
ReportsForgetNothing ==
  [][\A u \in Users, v \in VIDs :
       LET row == rows[u][v] new == rows'[u][v] IN
       row.exists /\ new.exists =>
         /\ row.fav /\ ~new.fav => \E w \in VIDs : SetFavorite(u, w, FALSE)
         /\ row.played /\ ~new.played => MarkPlayed(u, v, FALSE)
         /\ row.typed => new.typed
         /\ row.run > 0 => new.run > 0]_vars

(* The history of an item lives as long as some copy of it: the removal of *)
(* a server deletes no row of an id that is still published afterwards.    *)
HistorySurvivesRemoval ==
  [][\A u \in Users, v \in VIDs :
       rows[u][v].exists /\ ~rows'[u][v].exists /\ Published(v)' =>
         DeleteUser(u) \/ rows[u][v].server \notin Routes(v) \union {None}]_vars

(* A tracked live session is replaced by a permitted start of another one, *)
(* never by a report that arrives late, as long as the tracker has room.   *)
OnlyStartsReplaceSessions ==
  [][\A u \in Users, v \in VIDs :
       Tracked(u, v) /\ Len(tracker) < MaxWatchEntries /\ Tracked(u, v)' =>
         \/ SessionOf(u, v)' = SessionOf(u, v)
         \/ \E h \in Handlers : At(h, "register") /\ handler[h].session = SessionOf(u, v)']_vars
=================================================================================
