------------------------------ MODULE LocalListing ------------------------------
(***************************************************************************)
(* A listing that a user asks for by the user's own state                  *)
(* (Filters=IsFavorite, IsPlayed, IsResumable): the handlers of            *)
(* media_items.go over local_filter_candidates.go and user_filter.go.      *)
(*                                                                         *)
(* The upstreams only know the state of the shared account, so the         *)
(* candidates are looked up by the ids of the user's own records, merged   *)
(* under their virtual ids, and filtered by the records once more before   *)
(* the answer.  Between the two reads of the records lie the requests to   *)
(* the upstreams, while WatchHistory goes on: the user marks and plays,    *)
(* other requests publish and merge ids, servers are removed.              *)
(***************************************************************************)
EXTENDS WatchHistory

CONSTANTS BatchLimit,     \* localFilterBatchLimit
          RequestBudget   \* requests that one listing may send

ASSUME ListingBounds == BatchLimit \in Nat \ {0} /\ RequestBudget \in Nat

Filters == (SUBSET {"favorite", "played", "resumable"}) \ {{}}

VARIABLE listing   \* the listing that is being answered
listVars == <<vars, listing>>
Listed == {v \in VIDs : listing.from[v] # None}   \* the merged ids, each shown from some copy

Unasked == [step |-> "idle", user |-> None, filter |-> {}, named |-> None,
            asked |-> {}, due |-> {}, got |-> {}, budget |-> 0, marked |-> FALSE,
            from |-> [v \in VIDs |-> None], shown |-> {}, unread |-> FALSE,
            owed |-> {}, steady |-> {}, missed |-> {}]

ListingTypeOK ==
  /\ listing.step \in {"idle", "fetch", "merge", "filter", "overlay", "done"}
  /\ listing.due \subseteq Pairs /\ listing.got \subseteq Pairs
  /\ listing.budget \in 0 .. RequestBudget
  /\ listing.from \in [VIDs -> Pairs \union {None}] /\ listing.shown \subseteq VIDs

ListingInit == Init /\ listing = Unasked

-----------------------------------------------------------------------------
(* The user's records.                                                      *)

\* localUserState and satisfiesUserState: flags are united over the aliases of an item,
\* and a position counts wherever it was recorded.
Satisfies(u, v, f) ==
  /\ "favorite" \in f => \E r \in Window(u, v) : r.fav
  /\ "played" \in f => \E r \in Window(u, v) : r.played
  /\ "resumable" \in f => /\ \E r \in Window(u, v) : r.pos > 0
                          /\ \A r \in Window(u, v) : ~r.played

\* The narrowest rows that the store can select.
Selected(u, f) ==
  {v \in VIDs : LET r == rows[u][v] IN
     IF "favorite" \in f THEN r.fav
     ELSE IF "resumable" \in f THEN r.pos > 0 /\ ~r.played
     ELSE r.played}

\* localFilterStateRows, and localUserStateRows: the ids that match.
Matching(u, f) ==
  UNION {AliasVirtualIDs(v) : v \in {w \in Selected(u, f) : Satisfies(u, w, f)}}

-----------------------------------------------------------------------------
(* The candidates.                                                          *)

\* localFilterTargets: what to ask the servers for, or nothing without a server.
Targets(matching, servers) ==
  {p \in UNION {Copies(v) : v \in matching} : ServerOf(p) \in servers}
Unresolved(matching, servers) == servers # {} /\ \E v \in matching : ~Published(v)

\* intersectLocalFilterTargets: the client may name an id.
Named(p, v) == v # None => TranslateForServer(v, ServerOf(p)) = OriginalOf(p)

\* A listing over the allowed servers that are online.  Nothing is asked when the records
\* cannot be read, or when none matches.
Begin(u, f, named, servers) ==
  LET matching == Matching(u, f) IN
  /\ listing.step \in {"idle", "done"}
  /\ servers \subseteq live
  /\ \E readable \in BOOLEAN :
       listing' = [Unasked EXCEPT
         !.step = "fetch", !.user = u, !.filter = f, !.named = named, !.asked = servers,
         !.budget = RequestBudget,
         !.due = IF readable THEN {p \in Targets(matching, servers) : Named(p, named)} ELSE {},
         !.marked = ~readable \/ Unresolved(matching, servers),
         !.owed = {p \in Pairs : /\ ServerOf(p) \in servers /\ Named(p, named)
                                 /\ \E v \in VIDs : p \in Copies(v) /\ Satisfies(u, v, f)},
         !.steady = {v \in VIDs : Satisfies(u, v, f)}]
  /\ UNCHANGED vars

DueOn(s) == {p \in listing.due : ServerOf(p) = s}
FirstOf(S) == {p \in S : Cardinality({q \in S : OriginalOf(q) < OriginalOf(p)}) < BatchLimit}

\* The next batch of a server is answered; of the ids some may be gone there.  What was
\* not asked for, repeated or promised beyond the batch marks the listing.
BatchAnswered(s) ==
  LET batch == FirstOf(DueOn(s)) IN
  /\ listing.step = "fetch" /\ batch # {} /\ listing.budget > 0
  /\ \E found \in SUBSET batch, strange \in BOOLEAN :
       listing' = [listing EXCEPT
         !.budget = @ - 1, !.due = @ \ batch, !.got = @ \union found,
         !.owed = @ \ (batch \ found), !.marked = @ \/ strange]
  /\ UNCHANGED vars

\* A batch too long for a request is left out.
BatchUnsent(s) ==
  LET batch == FirstOf(DueOn(s)) IN
  /\ listing.step = "fetch" /\ batch # {}
  /\ listing' = [listing EXCEPT !.due = @ \ batch, !.marked = TRUE]
  /\ UNCHANGED vars

\* Faulty: a prefix counts as the answer of the server.
StopsUnmarked(s) ==
  /\ listing.step = "fetch" /\ DueOn(s) # {}
  /\ listing' = [listing EXCEPT !.due = @ \ DueOn(s),
                                !.marked = @ \/ ~\E p \in listing.got : ServerOf(p) = s]
  /\ UNCHANGED vars
\* A request fails or the budget is spent: what the server gave before it is kept.
Stops(s) ==
  /\ listing.step = "fetch" /\ DueOn(s) # {}
  /\ listing' = [listing EXCEPT !.due = @ \ DueOn(s), !.marked = TRUE]
  /\ UNCHANGED vars

\* All servers are through; or the time is up, and a server that is not counts for nothing.
Collected ==
  /\ listing.step = "fetch"
  /\ \E late \in SUBSET listing.asked :
       /\ \A s \in listing.asked : DueOn(s) # {} => s \in late
       /\ listing' = [listing EXCEPT
            !.step = "merge", !.due = {}, !.marked = @ \/ late # {},
            !.got = {p \in @ : ServerOf(p) \notin late}]
  /\ UNCHANGED vars

-----------------------------------------------------------------------------
(* The answer.                                                              *)

\* An id is steady as long as its records match.
Steadily(next) ==
  \E u \in {listing.user}, f \in {listing.filter} :
    listing' = [next EXCEPT !.steady = {v \in @ : Satisfies(u, v, f)'}]
Merged(p, v, shown) ==
  \E next \in {[listing EXCEPT !.got = @ \ {p}, !.from[v] = shown]} : Steadily(next)

\* mergeRoundRobinItems: an item is listed under its id, a fresh one if need be ...
MergeFirst(p) ==
  /\ listing.step = "merge" /\ p \in listing.got
  /\ IF index[p] # None
     THEN UNCHANGED vars /\ Merged(p, index[p], p)
     ELSE \E v \in VIDs \ Listed : Publish(v, p) /\ Merged(p, v, p)

\* ... or it is another copy of one that is listed already, which may make the better show.
MergeDuplicate(p, v) ==
  /\ listing.step = "merge" /\ p \in listing.got /\ v \in Listed
  /\ IF Published(v) /\ primary[v] # p /\ p \notin others[v]
     THEN Associate(v, p) ELSE UNCHANGED vars
  /\ \E shown \in {listing.from[v], p} : Merged(p, v, shown)

\* Items whose records matched all along, with a copy that some server had and that still
\* is one: they are missed unless one of their ids is listed.
Missed(ids) ==
  {v \in listing.steady : /\ Copies(v) \intersect listing.owed # {}
                          /\ AliasVirtualIDs(v) \intersect ids = {}}

\* The merge ends by recording where each item is shown from; filterItemsByLocalUserState
\* reads the records again, and when that fails nothing matches.
Filter ==
  /\ listing.step = "merge" /\ listing.got = {}
  /\ source' = [v \in VIDs |-> IF v \in Listed THEN listing.from[v] ELSE source[v]]
  /\ \E readable \in BOOLEAN :
       LET shown == IF readable THEN Listed \intersect Matching(listing.user, listing.filter) ELSE {}
       IN  listing' = [Unasked EXCEPT !.step = "overlay", !.asked = listing.asked,
                                      !.marked = listing.marked, !.unread = ~readable,
                                      !.shown = shown, !.missed = Missed(shown)]
  /\ UNCHANGED <<primary, others, index, known, oldest, disk, stream, watchVars>>

\* strictSanitizedUserDataItems: the items carry the user's records, or the request fails.
Overlay ==
  /\ listing.step = "overlay"
  /\ \/ listing' = [listing EXCEPT !.step = "done"]
     \/ listing.shown # {} /\ listing' = Unasked
  /\ UNCHANGED vars

-----------------------------------------------------------------------------
\* What WatchHistory does meanwhile; an id that the listing names is not drawn again.
Meanwhile ==
  /\ Work /\ Steadily(listing)
  /\ \A v \in Listed : Published(v)' => Published(v)

Lost == Restart /\ listing' = Unasked

List ==
  \/ \E u \in Users, f \in Filters, named \in VIDs \union {None}, servers \in SUBSET Servers :
        Begin(u, f, named, servers)
  \/ \E s \in Servers : BatchAnswered(s) \/ BatchUnsent(s) \/ Stops(s)
  \/ Collected \/ Filter \/ Overlay
  \/ \E p \in Pairs : MergeFirst(p) \/ \E v \in VIDs : MergeDuplicate(p, v)

ListingNext == Meanwhile \/ Lost \/ List
ListingSpec == ListingInit /\ [][ListingNext]_listVars

-----------------------------------------------------------------------------
(* Properties.                                                              *)

(* An answer that is not marked as incomplete misses nothing: whatever was *)
(* marked, merged, published or removed while it was collected, every item *)
(* of the user's that matched all along is in it.  When a server that was  *)
(* asked is removed meanwhile this fails: a copy that is merged with one   *)
(* of the removed server is listed under an id that nothing stands for.    *)
UnmarkedListingIsWhole ==
  ~listing.marked /\ ~listing.unread /\ listing.asked \subseteq live => listing.missed = {}

(* local_filter_candidates.go:56-58: "an unreadable local record is not    *)
(* the same answer as an empty one, and must not turn a database failure   *)
(* into a complete empty candidate set."                                   *)
FailedReadIsNoAnswer == listing.step = "done" /\ ~listing.marked => listing.missed = {}
=================================================================================
