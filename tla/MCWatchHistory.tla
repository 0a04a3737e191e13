---------------------------- MODULE MCWatchHistory ----------------------------
(* Instances of WatchHistory and LocalListing for TLC.                     *)
EXTENDS LocalListing, TLC

CONSTANTS u1, h1, x1, x2

OneUser == {u1}
OneHandler == {h1}
TwoSessions == {x1, x2}

\* An event with nothing, with a position, and with the position and length of the end.
Nothing == [pos |-> None, run |-> None]
Position == [pos |-> Full, run |-> None]
Ending == [pos |-> Full, run |-> Full]
AllBodies == {Nothing, Position, Ending}

(* The ids with all their hints, the events of one item, and the history of *)
(* an item with two ids, and the listings of two items are explored in      *)
(* turns: an instance varies one of them and keeps the others small.        *)
VARIABLES focus,
          moves   \* what the rest did while a listing was answered

EventServers == {1, 2}

\* Only listings have two copies on one server.
OneOriginal == \A p \in Pairs : OriginalOf(p) > 1 => index'[p] = None

\* Only ids, hints, removals and restarts.
IdsOnly ==
  /\ \A v \in VIDs : v > 1 => stream'[v] = None /\ source'[v] = None
  /\ unsaved' \/ source'[1] # None => stream'[1] = None
  /\ unsaved' => source'[1] = None

\* Without hints; browsing comes before the events, and nothing is learnt from then on.
Browsed == \A h \in Handlers : handler[h] = Idle /\ \A u \in Users, v \in VIDs : rows[u][v] = NoRow
EventsOnly ==
  /\ ~unsaved'
  /\ \A v \in VIDs : stream'[v] = None /\ source'[v] = None
  /\ \A p \in Pairs : ServerOf(p) \notin EventServers => index'[p] = None
  /\ Browsed \/ \A v \in VIDs : Cardinality(Copies(v)') <= Cardinality(Copies(v))

\* One item on one server: every kind of event of two sessions.
OneItem ==
  /\ EventsOnly
  /\ \A v \in VIDs, p \in Pairs : primary'[v] = p => v = 1 /\ ServerOf(p) = 1
  /\ \A u \in Users, v \in VIDs : ~rows'[u][v].fav
  /\ \A h \in Handlers : handler'[h].body # Position
  /\ \A h \in Handlers : handler'[h].kind = "Started" => handler'[h].body # Ending

\* Two ids, plain progress and favourites.
Aliases ==
  /\ EventsOnly
  /\ \A h \in Handlers : handler'[h] # Idle => /\ handler'[h].kind = "Progress"
                                              /\ handler'[h].session = None
                                              /\ handler'[h].body = Position
                                              /\ ~handler'[h].typed
  /\ \A u \in Users, v \in VIDs : ~rows'[u][v].played

\* A listing begins where two ids share no copy, or one, or are known apart on one server,
\* with records of either; marks, merges and the removal of a server go on.
Known(first, more, second, extra) ==
  /\ primary = [v \in VIDs |-> IF v = 1 THEN first ELSE second]
  /\ others = [v \in VIDs |-> IF v = 1 THEN more ELSE extra]
  /\ index = [p \in Pairs |-> LeastOrNone(HoldersIn(primary, others, p))]
  /\ known = [o \in Originals |-> NamedIn(primary, others, o)]
  /\ oldest = [o \in Originals |-> LeastOrNone(NamedIn(primary, others, o))]
  /\ disk = [primary |-> primary, others |-> others]
  /\ stream = [v \in VIDs |-> None] /\ source = [v \in VIDs |-> None]
Begun(v) == [NoRow EXCEPT !.exists = TRUE, !.server = ServerOf(primary[v]), !.pos = Full, !.fav = TRUE]
Seen(v) == [NoRow EXCEPT !.exists = TRUE, !.played = TRUE]

ListingsInit ==
  /\ \/ Known(<<1, 1>>, {<<1, 2>>}, <<2, 1>>, {})
     \/ Known(<<1, 1>>, {}, <<1, 2>>, {})
     \/ Known(<<1, 1>>, {<<1, 2>>}, <<2, 1>>, {<<1, 2>>})
  /\ \/ rows = [u \in Users |-> [v \in VIDs |-> IF Published(v) THEN Begun(v) ELSE NoRow]]
     \/ rows = [u \in Users |-> [v \in VIDs |-> IF v = 1 THEN Begun(v) ELSE Seen(v)]]
  /\ tracker = <<>> /\ handler = [h \in Handlers |-> Idle]
  /\ live = Servers /\ unsaved = FALSE /\ listing = Unasked

\* No events, no failed writes, three pairs at most; only server 2 is ever removed.
Quiet == unsaved' = FALSE /\ UNCHANGED <<tracker, handler, stream>>
FewIds ==
  /\ \A p \in Pairs : p \notin {<<1, 1>>, <<2, 1>>, <<1, 2>>} => index'[p] = None
  /\ {1, 3} \subseteq live'

\* One listing, by any one filter that some item matches.
AsksFew ==
  /\ listing.step # "done" /\ (listing.marked => listing.step = "fetch")
  /\ Quiet /\ List /\ FewIds
  /\ listing.step = "idle" => /\ moves = 0
                              /\ Cardinality(listing'.filter) = 1 /\ listing'.steady # {}
                              /\ \/ listing'.named = None /\ listing'.asked \in {{1}, {1, 2}}
                                 \/ listing'.named = 1 /\ listing'.asked = {1, 2}
  /\ UNCHANGED moves
\* The requests read nothing of what others change, so it may as well change after them; a
\* listing that is marked by then is of no interest.
Interferes ==
  /\ moves = 0 \/ (moves = 1 /\ live # Servers)
  /\ listing.step = "merge" /\ ~listing.marked
  /\ moves' = moves + 1
  /\ Quiet /\ UNCHANGED source
  /\ Meanwhile \/ Lost
  /\ FewIds /\ (listing.asked \subseteq live' \/ (Listed = {} /\ Cardinality(listing.got) = 1))

MCInit == /\ moves = 0
          /\ \/ ListingInit /\ focus \in {"ids", "item", "alias"}
             \/ ListingsInit /\ focus = "listing"
Alone == Next /\ UNCHANGED <<listing, moves>> /\ Cardinality(live') >= 2 /\ OneOriginal
MCNext ==
  /\ UNCHANGED focus
  /\ \/ focus = "ids" /\ UNCHANGED <<rows, tracker, handler>> /\ Alone /\ IdsOnly
     \/ focus = "item" /\ UNCHANGED <<others, live>> /\ Alone /\ OneItem
     \/ focus = "alias" /\ Alone /\ Aliases
     \/ focus = "listing" /\ (AsksFew \/ Interferes)
MCSpec == MCInit /\ [][MCNext]_<<listVars, focus, moves>>
=================================================================================
