-------------------------- MODULE MemoryStores_proofs --------------------------
(***************************************************************************)
(* Proofs about the two stores in memory.  The resources and credentials   *)
(* of a playback: for every number of players, playlists and handles and   *)
(* for every idle time, what a player was given stays usable while it      *)
(* plays.  The snapshots of listings: for every number of requests and     *)
(* upstreams, every limit and every page size, an entry of the store is    *)
(* there under its own name and within the store's size, and an answer     *)
(* that is not marked incomplete holds all that each orderly upstream      *)
(* lists.                                                                  *)
(***************************************************************************)
EXTENDS CatalogScan, StreamResources, SequenceTheorems, FiniteSetTheorems, TLAPS

(***************************************************************************)
(* The resources and credentials of playbacks.                             *)
(***************************************************************************)

\* The types of everything, what the players were given included.
StreamTypes ==
    /\ TablesTypeOK
    /\ promise \in [Handles -> Given \cup {None}]
    /\ used \in [Plays -> Nat]

LivePlays == {k \in Plays : ~Strict(k) \/ Live(Tries[k])}

\* The tables at time t: entries H, sessions P, promises pr, last requests us; L are the
\* plays that may go on.
\* A session lasts for its idle time after the last request of its player.
Timed(P, us, t) ==
    \A k \in Plays : us[k] <= t /\ (P[k] # None => P[k].expires = us[k] + IdleTTL)
\* An entry belongs to a session, and while that lasts its player was given it.
EntriesGiven(H, P, pr, t) ==
    \A h \in Handles : H[h] # None =>
        /\ P[H[h].play] # None
        /\ t < P[H[h].play].expires => pr[h] # None /\ pr[h].play = H[h].play
\* What a window names is there, is of its session and does not retire.
WindowsHeld(H, P) ==
    \A k \in Plays, m \in Playlists : P[k] # None /\ P[k].windows[m] # None =>
        \A h \in P[k].windows[m] : H[h] # None /\ H[h].play = k /\ H[h].retire = None
\* An entry lasts as it was promised.
Lasting(e, p) ==
    /\ e # None /\ e.play = p.play
    /\ p.vod => e.pinned /\ e.retire = None
    /\ e.retire = None \/ p.at + CatchupGrace <= e.retire
PromiseKept(e, P, p, us, t, L) ==
    /\ p.at <= t /\ t < us[p.play] + IdleTTL
    /\ p.play \in L => P[p.play] # None
    /\ p.play \in L /\ (p.vod \/ t < p.at + CatchupGrace) => Lasting(e, p)
PromisesKept(H, P, pr, us, t, L) ==
    \A h \in Handles : pr[h] # None => PromiseKept(H[h], P, pr[h], us, t, L)
Tables(H, P, pr, us, t, L) ==
    /\ Timed(P, us, t) /\ EntriesGiven(H, P, pr, t) /\ WindowsHeld(H, P)
    /\ PromisesKept(H, P, pr, us, t, L)

\* An attempt that was never reserved has had nothing.
UnusedIsNew ==
    /\ \A a \in negotiating : binding[a] # "unused"
    /\ \A r \in Readers : reader[r] # None /\ Strict(reader[r].play) =>
          binding[Tries[reader[r].play]] # "unused"
    /\ \A h \in Handles : promise[h] # None /\ Strict(promise[h].play) =>
          binding[Tries[promise[h].play]] # "unused"

\* Credential c of play k is not lost before its idle time is over.
Credited(k, c, shown) ==
    /\ Strict(k)
    /\ Live(Tries[k]) /\ clock < shown + CapabilityTTL =>
         capability[c] # None /\ capability[c].attempt = Tries[k] /\ shown <= capability[c].used
CredentialsKept ==
    /\ \A c \in Capabilities : capability[c] # None => capability[c].used <= clock
    /\ \A r \in Readers : reader[r] # None /\ reader[r].cap # None =>
          Credited(reader[r].play, reader[r].cap, 0)
    /\ \A h \in Handles : promise[h] # None /\ promise[h].cap # None =>
          Credited(promise[h].play, promise[h].cap, promise[h].shown)

\* The count that bounds the windows is theirs.
CountHolds == windowCount = CountOf(Plays) /\ windowCount <= Cardinality(Handles)

StreamInv == /\ StreamTypes
             /\ Tables(handle, playing, promise, used, clock, LivePlays)
             /\ UnusedIsNew /\ CredentialsKept /\ CountHolds

\* A set that is not larger than another one can be injected into it.
LEMMA InjectionsExist ==
  ASSUME NEW S, NEW T, IsFiniteSet(S), IsFiniteSet(T), Cardinality(S) <= Cardinality(T)
  PROVE  Injections(S, T) # {}
<1>1. PICK n \in Nat : n = Cardinality(S)  BY FS_CardinalityType
<1>2. PICK m \in Nat : m = Cardinality(T)  BY FS_CardinalityType
<1>3. PICK f \in Bijection(1 .. n, S) : TRUE
  BY <1>1, FS_CardinalityType DEF ExistsBijection
<1>4. PICK g \in Bijection(1 .. m, T) : TRUE
  BY <1>2, FS_CardinalityType DEF ExistsBijection
<1>5. /\ f \in [1 .. n -> S] /\ \A x \in S : \E i \in 1 .. n : f[i] = x
      /\ g \in [1 .. m -> T] /\ \A i, j \in 1 .. m : g[i] = g[j] => i = j
  BY DEF Bijection, Injection, Surjection, IsInjective
<1>6. 1 .. n \subseteq 1 .. m
  BY <1>1, <1>2
<1> DEFINE at == [x \in S |-> CHOOSE i \in 1 .. n : f[i] = x]
           to == [x \in S |-> g[at[x]]]
<1>7. \A x \in S : at[x] \in 1 .. n /\ f[at[x]] = x
  BY <1>5
<1> HIDE DEF at
<1>8. to \in [S -> T]
  BY <1>5, <1>6, <1>7
<1>9. \A x, y \in S : to[x] = to[y] => x = y
  <2>1. TAKE x, y \in S
  <2>2. HAVE to[x] = to[y]
  <2>3. g[at[x]] = g[at[y]]
    BY <2>2
  <2>4. at[x] = at[y]
    BY <2>3, <1>5, <1>6, <1>7
  <2>5. QED
    BY <2>4, <1>7
<1>10. QED
  BY <1>8, <1>9 DEF Injections

\* The registration of a batch finds free handles for what is missing.
LEMMA RoomForMissing ==
  ASSUME NEW k \in Plays, NEW urls \in SUBSET URLs, NEW m, FitsIn(k, urls, m)
  PROVE  \A f : f = (CHOOSE f1 \in Injections(Missing(k, urls), Free) : TRUE) =>
            f \in [Missing(k, urls) -> Free]
<1>1. IsFiniteSet(Missing(k, urls))
  BY StreamTables, FS_Subset DEF Missing
<1>2. IsFiniteSet(Free)
  BY StreamTables, FS_Subset DEF Free
<1>3. Injections(Missing(k, urls), Free) # {}
  BY <1>1, <1>2, InjectionsExist DEF FitsIn
<1>4. QED
  BY <1>3 DEF Injections

\* Pruning keeps the types.
LEMMA PrunedTypes ==
  ASSUME StreamTypes
  PROVE  /\ PrunedHandles \in [Handles -> Resource \cup {None}]
         /\ PrunedPlaying \in [Plays -> ResourceSession \cup {None}]
         /\ \A h \in Handles : PrunedHandles[h] \in {None, handle[h]}
         /\ \A k \in Plays : PrunedPlaying[k] \in {None, playing[k]}
BY DEF StreamTypes, TablesTypeOK, PrunedHandles, PrunedPlaying, HandlesWithout, PlayingWithout

LEMMA WindowsTyped ==
  ASSUME StreamTypes, NEW k \in Plays
  PROVE  Windows(k) \in Windowing
<1>1. PrunedPlaying[k] \in ResourceSession \cup {None}
  BY PrunedTypes
<1>2. CASE PrunedPlaying[k] = None
  BY <1>2 DEF Windows, NoWindows, Windowing
<1>3. CASE PrunedPlaying[k] # None
  BY <1>1, <1>3 DEF Windows, ResourceSession
<1>4. QED
  BY <1>2, <1>3

\* What a registration that fits does to the tables.
EnterEffect(k, m, c, members, left, W) ==
    /\ members \in SUBSET Handles /\ left \in SUBSET Handles /\ W \in Windowing
    /\ W = IF m = None THEN Windows(k) ELSE [Windows(k) EXCEPT ![m] = members]
    /\ \A h \in members : PrunedHandles[h] = None \/ PrunedHandles[h].play = k
    /\ \A h \in left, n \in Playlists : W[n] # None => h \notin W[n]
    /\ \A h \in left : m \in Playlists /\ Windows(k)[m] # None /\ h \in Windows(k)[m]
    /\ playing' = [PrunedPlaying EXCEPT ![k] = [expires |-> clock + IdleTTL, windows |-> W]]
    /\ windowCount' = PrunedCount + NewWindows(k, m)
    /\ used' = [used EXCEPT ![k] = clock]
    /\ \A h \in members :
         /\ handle'[h] \in Resource
         /\ handle'[h].play = k /\ handle'[h].retire = None
         /\ handle'[h].pinned = ((PrunedHandles[h] # None /\ PrunedHandles[h].pinned) \/ m = None)
         /\ promise'[h] \in Given
         /\ promise'[h].play = k /\ promise'[h].at = clock /\ promise'[h].cap = c
         /\ promise'[h].shown = LastUse(c, Tries[k])
         /\ promise'[h].vod = (m = None \/ (PrunedHandles[h] # None /\ promise[h].vod))
    /\ \A h \in Handles \ members :
         /\ promise'[h] = promise[h]
         /\ \/ handle'[h] = PrunedHandles[h]
            \/ /\ h \in left /\ PrunedHandles[h] # None /\ ~PrunedHandles[h].pinned
               /\ handle'[h] \in Resource
               /\ handle'[h].play = PrunedHandles[h].play /\ ~handle'[h].pinned
               /\ handle'[h].retire = clock + CatchupGrace
    /\ handle' \in [Handles -> Resource \cup {None}]
    /\ promise' \in [Handles -> Given \cup {None}]

LEMMA EnterHas ==
  ASSUME StreamTypes, Tables(handle, playing, promise, used, clock, LivePlays),
         NEW k \in Plays, NEW urls \in SUBSET URLs, NEW m \in Playlists \cup {None},
         NEW c \in Capabilities \cup {None}, FitsIn(k, urls, m), Enter(k, urls, m, c)
  PROVE  \E members, left, W : EnterEffect(k, m, c, members, left, W)
<1> DEFINE fresh == CHOOSE f \in Injections(Missing(k, urls), Free) : TRUE
           at(u) == IF HandleOf(k, u) = {} THEN fresh[u] ELSE CHOOSE h \in HandleOf(k, u) : TRUE
           mem == {at(u) : u \in urls}
           win == IF m = None THEN Windows(k) ELSE [Windows(k) EXCEPT ![m] = mem]
           lef == IF m = None \/ Windows(k)[m] = None THEN {}
                  ELSE LeftBehind(Windows(k)[m], mem, win)
           entry(h) == IF PrunedHandles[h] # None THEN PrunedHandles[h]
                       ELSE [play |-> k, url |-> CHOOSE u \in urls : at(u) = h,
                             pinned |-> FALSE, retire |-> None]
           leaves(h) == h \in lef /\ PrunedHandles[h] # None /\ ~PrunedHandles[h].pinned
           given(h) == [play |-> k, at |-> clock, cap |-> c, shown |-> LastUse(c, Tries[k]),
                        vod |-> m = None \/ (PrunedHandles[h] # None /\ promise[h].vod)]
<1>1. /\ handle' = [h \in Handles |->
             IF h \in mem THEN Registered(entry(h), m # None)
             ELSE IF leaves(h) THEN [PrunedHandles[h] EXCEPT !.retire = clock + CatchupGrace]
             ELSE PrunedHandles[h]]
      /\ playing' = [PrunedPlaying EXCEPT ![k] = [expires |-> clock + IdleTTL, windows |-> win]]
      /\ windowCount' = PrunedCount + NewWindows(k, m)
      /\ promise' = [h \in Handles |-> IF h \notin mem THEN promise[h] ELSE given(h)]
      /\ used' = [used EXCEPT ![k] = clock]
  BY DEF Enter
<1>2. fresh \in [Missing(k, urls) -> Free]
  BY RoomForMissing
<1>3. ASSUME NEW u \in urls
      PROVE  at(u) \in Handles /\ (PrunedHandles[at(u)] = None \/ PrunedHandles[at(u)].play = k)
  <2>1. CASE HandleOf(k, u) = {}
    <3>1. u \in Missing(k, urls)
      BY <2>1 DEF Missing
    <3>2. at(u) \in Free
      BY <1>2, <2>1, <3>1
    <3>3. QED
      BY <3>2 DEF Free
  <2>2. CASE HandleOf(k, u) # {}
    <3>1. at(u) \in HandleOf(k, u)
      BY <2>2
    <3>2. QED
      BY <3>1 DEF HandleOf
  <2>3. QED
    BY <2>1, <2>2
<1> HIDE DEF fresh
<1>4. mem \in SUBSET Handles /\ \A h \in mem : PrunedHandles[h] = None \/ PrunedHandles[h].play = k
  BY <1>3
<1>5. \A h \in mem : (CHOOSE u \in urls : at(u) = h) \in URLs
  OBVIOUS
<1> HIDE DEF at
<1>6. ASSUME NEW h \in mem
      PROVE  /\ entry(h) \in Resource /\ entry(h).play = k
             /\ entry(h).pinned = (PrunedHandles[h] # None /\ PrunedHandles[h].pinned)
  <2>1. CASE PrunedHandles[h] # None
    BY <1>4, <2>1, PrunedTypes DEF Resource
  <2>2. CASE PrunedHandles[h] = None
    <3>1. PICK v \in URLs : v = (CHOOSE u \in urls : at(u) = h)
      BY <1>5
    <3>2. entry(h) = [play |-> k, url |-> v, pinned |-> FALSE, retire |-> None]
      BY <2>2, <3>1
    <3>3. QED
      BY <2>2, <3>2 DEF Resource
  <2>3. QED
    BY <2>1, <2>2
<1> HIDE DEF entry
<1>7. Windows(k) \in Windowing
  BY WindowsTyped
<1> HIDE DEF mem
<1>8. win \in Windowing
  BY <1>4, <1>7 DEF Windowing
<1>9. /\ lef \in SUBSET Handles
      /\ \A h \in lef, n \in Playlists : win[n] # None => h \notin win[n]
      /\ \A h \in lef : m \in Playlists /\ Windows(k)[m] # None /\ h \in Windows(k)[m]
  <2>1. CASE m = None \/ Windows(k)[m] = None
    BY <2>1
  <2>2. CASE m \in Playlists /\ Windows(k)[m] # None
    <3>1. lef = Windows(k)[m] \ UNION {win[n] : n \in {i \in Playlists : win[i] # None}}
      BY <2>2, NoneIsNowhere DEF LeftBehind
    <3>2. Windows(k)[m] \in SUBSET Handles
      BY <2>2, <1>7 DEF Windowing
    <3> HIDE DEF win, lef
    <3>3. QED
      BY <2>2, <3>1, <3>2
  <2>3. QED
    BY <2>1, <2>2
<1>10. win = IF m = None THEN Windows(k) ELSE [Windows(k) EXCEPT ![m] = mem]
  OBVIOUS
<1> HIDE DEF win, lef
<1>11. ASSUME NEW h \in mem
       PROVE  /\ handle'[h] \in Resource
              /\ handle'[h].play = k /\ handle'[h].retire = None
              /\ handle'[h].pinned = ((PrunedHandles[h] # None /\ PrunedHandles[h].pinned) \/ m = None)
  <2>1. handle'[h] = [entry(h) EXCEPT !.pinned = @ \/ m = None, !.retire = None]
    BY <1>1, <1>4 DEF Registered
  <2>2. PICK e \in Resource : e = entry(h)
    BY <1>6
  <2>3. handle'[h] = [e EXCEPT !.pinned = e.pinned \/ m = None, !.retire = None]
    BY <2>1, <2>2
  <2>4. PICK b \in BOOLEAN : b = (e.pinned \/ m = None)
    OBVIOUS
  <2>5. handle'[h] = [e EXCEPT !.pinned = b, !.retire = None]
    BY <2>3, <2>4
  <2>6. handle'[h] \in Resource /\ handle'[h].play = e.play /\ handle'[h].retire = None
        /\ handle'[h].pinned = b
    BY <2>5 DEF Resource
  <2>7. e.play = k /\ e.pinned = (PrunedHandles[h] # None /\ PrunedHandles[h].pinned)
    BY <1>6, <2>2
  <2>8. QED
    BY <2>4, <2>6, <2>7
<1>12. ASSUME NEW h \in mem
       PROVE  /\ promise'[h] \in Given
              /\ promise'[h].play = k /\ promise'[h].at = clock /\ promise'[h].cap = c
              /\ promise'[h].shown = LastUse(c, Tries[k])
              /\ promise'[h].vod = (m = None \/ (PrunedHandles[h] # None /\ promise[h].vod))
  <2>1. LastUse(c, Tries[k]) \in Nat
    BY DEF LastUse, StreamTypes, TablesTypeOK, Credential
  <2>2. (m = None \/ (PrunedHandles[h] # None /\ promise[h].vod)) \in BOOLEAN
    OBVIOUS
  <2>3. promise'[h] = given(h)
    BY <1>1, <1>4
  <2>4. PICK b \in BOOLEAN : b = (m = None \/ (PrunedHandles[h] # None /\ promise[h].vod))
    BY <2>2
  <2>5. promise'[h] = [play |-> k, at |-> clock, cap |-> c, shown |-> LastUse(c, Tries[k]), vod |-> b]
    BY <2>3, <2>4
  <2>6. clock \in Nat
    BY StreamTimes DEF StreamTypes, TablesTypeOK
  <2>7. promise'[h] \in Given
    BY <2>1, <2>5, <2>6 DEF Given
  <2>8. QED
    BY <2>4, <2>5, <2>7
<1>13. ASSUME NEW h \in Handles \ mem
       PROVE  /\ promise'[h] = promise[h]
              /\ \/ handle'[h] = PrunedHandles[h]
                 \/ /\ h \in lef /\ PrunedHandles[h] # None /\ ~PrunedHandles[h].pinned
                    /\ handle'[h] \in Resource
                    /\ handle'[h].play = PrunedHandles[h].play /\ ~handle'[h].pinned
                    /\ handle'[h].retire = clock + CatchupGrace
  <2>1. promise'[h] = promise[h]
    BY <1>1
  <2>2. CASE ~leaves(h)
    BY <1>1, <2>1, <2>2
  <2>3. CASE leaves(h)
    <3>1. handle'[h] = [PrunedHandles[h] EXCEPT !.retire = clock + CatchupGrace]
      BY <1>1, <2>3
    <3>2. PICK e \in Resource : e = PrunedHandles[h]
      BY <2>3, PrunedTypes
    <3>3. PICK w \in Nat : w = clock + CatchupGrace
      BY StreamTimes DEF StreamTypes, TablesTypeOK
    <3>4. handle'[h] = [e EXCEPT !.retire = w]
      BY <3>1, <3>2, <3>3
    <3>5. handle'[h] \in Resource /\ handle'[h].play = e.play /\ handle'[h].pinned = e.pinned
          /\ handle'[h].retire = w
      BY <3>4 DEF Resource
    <3>6. QED
      BY <2>1, <2>3, <3>2, <3>3, <3>5
  <2>4. QED
    BY <2>2, <2>3
<1>14. handle' \in [Handles -> Resource \cup {None}]
  <2>1. \A h \in Handles : handle'[h] \in Resource \cup {None}
    BY <1>11, <1>13, PrunedTypes
  <2>2. QED
    BY <1>1, <2>1
<1>15. promise' \in [Handles -> Given \cup {None}]
  <2>1. \A h \in Handles : promise'[h] \in Given \cup {None}
    BY <1>12, <1>13 DEF StreamTypes
  <2>2. QED
    BY <1>1, <2>1
<1> HIDE DEF leaves, given
<1>16. EnterEffect(k, m, c, mem, lef, win)
  BY <1>1, <1>4, <1>8, <1>9, <1>10, <1>11, <1>12, <1>13, <1>14, <1>15 DEF EnterEffect
<1>17. QED
  BY <1>16

\* Pruning takes nothing that lasts: an entry in a window or one that was promised is
\* of a session under way and does not retire yet.
LEMMA PruningKeeps ==
  ASSUME StreamTypes, NEW L \in SUBSET Plays, Tables(handle, playing, promise, used, clock, L)
  PROVE  /\ Tables(PrunedHandles, PrunedPlaying, promise, used, clock, L)
         /\ \A k \in Plays : PrunedPlaying[k] # None => clock < PrunedPlaying[k].expires
<1> USE DEF StreamTypes, TablesTypeOK
<1>0. clock \in Nat /\ IdleTTL \in Nat /\ CatchupGrace \in Nat
  BY StreamTimes
<1>1. \A k \in Plays : /\ PrunedPlaying[k] = (IF k \in GonePlays THEN None ELSE playing[k])
                       /\ k \in GonePlays <=> playing[k] # None /\ clock >= playing[k].expires
  BY DEF PrunedPlaying, PlayingWithout, GonePlays, IsGone
<1>2. \A h \in Handles :
        PrunedHandles[h] = IF handle[h] = None \/ handle[h].play \in GonePlays \/ Lapsed(h)
                           THEN None ELSE handle[h]
  BY DEF PrunedHandles, HandlesWithout
<1>3. \A h \in Handles : handle[h] # None /\ handle[h].play \notin GonePlays
        /\ (handle[h].retire = None \/ clock < handle[h].retire) => PrunedHandles[h] = handle[h]
  <2>1. TAKE h \in Handles
  <2>2. HAVE handle[h] # None /\ handle[h].play \notin GonePlays
             /\ (handle[h].retire = None \/ clock < handle[h].retire)
  <2>3. handle[h].play \in Plays /\ handle[h].retire \in Nat \cup {None}
    BY <2>2 DEF Resource
  <2>4. ~IsGone(handle[h].play)
    BY <2>2, <2>3 DEF GonePlays
  <2>5. ~IsRetired(h)
    BY <1>0, <2>2, <2>3 DEF IsRetired
  <2>6. QED
    BY <1>2, <2>2, <2>4, <2>5 DEF Lapsed
<1>4. \A k \in Plays : PrunedPlaying[k] # None => clock < PrunedPlaying[k].expires
  <2>1. TAKE k \in Plays
  <2>2. HAVE PrunedPlaying[k] # None
  <2>3. PrunedPlaying[k] = playing[k] /\ k \notin GonePlays
    BY <1>1, <2>2
  <2>4. playing[k].expires \in Nat
    BY <2>2, <2>3 DEF ResourceSession
  <2>5. QED
    BY <1>0, <1>1, <2>2, <2>3, <2>4
<1>5. Timed(PrunedPlaying, used, clock)
  BY <1>1 DEF Tables, Timed
<1>6. EntriesGiven(PrunedHandles, PrunedPlaying, promise, clock)
  <2>1. SUFFICES ASSUME NEW h \in Handles, PrunedHandles[h] # None
                 PROVE  /\ PrunedPlaying[PrunedHandles[h].play] # None
                        /\ clock < PrunedPlaying[PrunedHandles[h].play].expires =>
                             promise[h] # None /\ promise[h].play = PrunedHandles[h].play
    BY DEF EntriesGiven
  <2>2. PrunedHandles[h] = handle[h] /\ handle[h] # None /\ handle[h].play \notin GonePlays
    BY <1>2, <2>1
  <2>3. handle[h].play \in Plays
    BY <2>2 DEF Resource
  <2>4. PrunedPlaying[handle[h].play] = playing[handle[h].play]
    BY <1>1, <2>2, <2>3
  <2>5. QED
    BY <2>2, <2>3, <2>4 DEF Tables, EntriesGiven
<1>7. WindowsHeld(PrunedHandles, PrunedPlaying)
  <2>1. SUFFICES ASSUME NEW k \in Plays, NEW m \in Playlists, PrunedPlaying[k] # None,
                        PrunedPlaying[k].windows[m] # None, NEW h \in PrunedPlaying[k].windows[m]
                 PROVE  /\ PrunedHandles[h] # None /\ PrunedHandles[h].play = k
                        /\ PrunedHandles[h].retire = None
    BY DEF WindowsHeld
  <2>2. PrunedPlaying[k] = playing[k] /\ k \notin GonePlays
    BY <1>1, <2>1
  <2>3. handle[h] # None /\ handle[h].play = k /\ handle[h].retire = None
    BY <2>1, <2>2 DEF Tables, WindowsHeld
  <2>4. h \in Handles
    <3>1. playing[k].windows \in Windowing
      BY <2>1, <2>2 DEF ResourceSession
    <3>2. playing[k].windows[m] \in SUBSET Handles
      BY <3>1, <2>1, <2>2 DEF Windowing
    <3>3. QED
      BY <3>2, <2>1, <2>2
  <2>5. QED
    BY <1>3, <2>2, <2>3, <2>4
<1>8. PromisesKept(PrunedHandles, PrunedPlaying, promise, used, clock, L)
  <2>1. SUFFICES ASSUME NEW h \in Handles, promise[h] # None
                 PROVE  PromiseKept(PrunedHandles[h], PrunedPlaying, promise[h], used, clock, L)
    BY DEF PromisesKept
  <2>2. PICK p \in Given : p = promise[h]
    BY <2>1
  <2>3. p.play \in Plays /\ p.at \in Nat /\ p.vod \in BOOLEAN
    BY DEF Given
  <2>4. PromiseKept(handle[h], playing, p, used, clock, L)
    BY <2>1, <2>2 DEF Tables, PromisesKept
  <2>5. p.play \in L => p.play \notin GonePlays /\ PrunedPlaying[p.play] # None
    <3>1. HAVE p.play \in L
    <3>2. playing[p.play] # None /\ clock < used[p.play] + IdleTTL
      BY <2>4, <3>1 DEF PromiseKept
    <3>3. playing[p.play].expires = used[p.play] + IdleTTL
      BY <2>3, <3>2 DEF Tables, Timed
    <3>4. used[p.play] \in Nat
      BY <2>3
    <3>5. QED
      BY <1>0, <1>1, <2>3, <3>2, <3>3, <3>4
  <2>6. p.play \in L /\ (p.vod \/ clock < p.at + CatchupGrace) => Lasting(PrunedHandles[h], p)
    <3>1. HAVE p.play \in L /\ (p.vod \/ clock < p.at + CatchupGrace)
    <3>2. Lasting(handle[h], p)
      BY <2>4, <3>1 DEF PromiseKept
    <3>3. handle[h] # None /\ handle[h].play \notin GonePlays
      BY <2>5, <3>1, <3>2 DEF Lasting
    <3>4. handle[h].retire \in Nat \cup {None}
      BY <3>3 DEF Resource
    <3>5. handle[h].retire = None \/ clock < handle[h].retire
      BY <1>0, <2>3, <3>1, <3>2, <3>4 DEF Lasting
    <3>6. PrunedHandles[h] = handle[h]
      BY <1>3, <3>3, <3>5
    <3>7. QED
      BY <3>2, <3>6
  <2>7. QED
    BY <2>2, <2>4, <2>5, <2>6 DEF PromiseKept
<1>9. QED
  BY <1>4, <1>5, <1>6, <1>7, <1>8 DEF Tables

\* A removal takes the entries and sessions of plays that may not go on.
LEMMA RemovingKeeps ==
  ASSUME StreamTypes, NEW L \in SUBSET Plays, NEW gone \in SUBSET Plays, gone \cap L = {},
         Tables(handle, playing, promise, used, clock, L)
  PROVE  Tables(HandlesWithout(gone, {}), PlayingWithout(gone), promise, used, clock, L)
<1> USE DEF StreamTypes, TablesTypeOK
<1> DEFINE H == HandlesWithout(gone, {})
           P == PlayingWithout(gone)
<1>1. \A k \in Plays : P[k] = IF k \in gone THEN None ELSE playing[k]
  BY DEF PlayingWithout
<1>2. \A h \in Handles : H[h] = IF handle[h] = None \/ handle[h].play \in gone THEN None ELSE handle[h]
  BY DEF HandlesWithout
<1> HIDE DEF H, P
<1>3. Timed(P, used, clock)
  BY <1>1 DEF Tables, Timed
<1>4. EntriesGiven(H, P, promise, clock)
  <2>1. SUFFICES ASSUME NEW h \in Handles, H[h] # None
                 PROVE  /\ P[H[h].play] # None
                        /\ clock < P[H[h].play].expires =>
                             promise[h] # None /\ promise[h].play = H[h].play
    BY DEF EntriesGiven
  <2>2. H[h] = handle[h] /\ handle[h] # None /\ handle[h].play \notin gone
    BY <1>2, <2>1
  <2>3. handle[h].play \in Plays
    BY <2>2 DEF Resource
  <2>4. QED
    BY <1>1, <2>2, <2>3 DEF Tables, EntriesGiven
<1>5. WindowsHeld(H, P)
  <2>1. SUFFICES ASSUME NEW k \in Plays, NEW m \in Playlists, P[k] # None,
                        P[k].windows[m] # None, NEW h \in P[k].windows[m]
                 PROVE  H[h] # None /\ H[h].play = k /\ H[h].retire = None
    BY DEF WindowsHeld
  <2>2. P[k] = playing[k] /\ k \notin gone
    BY <1>1, <2>1
  <2>3. handle[h] # None /\ handle[h].play = k /\ handle[h].retire = None
    BY <2>1, <2>2 DEF Tables, WindowsHeld
  <2>4. h \in Handles
    <3>1. playing[k].windows \in Windowing
      BY <2>1, <2>2 DEF ResourceSession
    <3>2. playing[k].windows[m] \in SUBSET Handles
      BY <3>1, <2>1, <2>2 DEF Windowing
    <3>3. QED
      BY <3>2, <2>1, <2>2
  <2>5. QED
    BY <1>2, <2>2, <2>3, <2>4
<1>6. PromisesKept(H, P, promise, used, clock, L)
  <2>1. SUFFICES ASSUME NEW h \in Handles, promise[h] # None
                 PROVE  PromiseKept(H[h], P, promise[h], used, clock, L)
    BY DEF PromisesKept
  <2>2. PICK p \in Given : p = promise[h]
    BY <2>1
  <2>3. p.play \in Plays
    BY DEF Given
  <2>4. PromiseKept(handle[h], playing, p, used, clock, L)
    BY <2>1, <2>2 DEF Tables, PromisesKept
  <2>5. p.play \in L => P[p.play] = playing[p.play]
    BY <1>1, <2>3
  <2>6. p.play \in L /\ Lasting(handle[h], p) => Lasting(H[h], p)
    BY <1>2 DEF Lasting
  <2>7. QED
    BY <2>2, <2>4, <2>5, <2>6 DEF PromiseKept
<1>7. QED
  BY <1>3, <1>4, <1>5, <1>6 DEF Tables, H, P

\* A play that was given nothing may begin, and any play may end.
LEMMA OthersMayLive ==
  ASSUME NEW L, NEW M, NEW H, NEW P, NEW pr, NEW us, NEW t, Tables(H, P, pr, us, t, L),
         \A h \in Handles : pr[h] # None /\ pr[h].play \in M => pr[h].play \in L
  PROVE  Tables(H, P, pr, us, t, M)
BY DEF Tables, PromisesKept, PromiseKept

\* A registration keeps what the other playlists of its session name, and what leaves
\* every window was promised no longer than it stays.
LEMMA EnteringKeeps ==
  ASSUME StreamTypes, NEW L \in SUBSET Plays,
         Tables(PrunedHandles, PrunedPlaying, promise, used, clock, L),
         \A j \in Plays : PrunedPlaying[j] # None => clock < PrunedPlaying[j].expires,
         NEW k \in Plays, NEW m \in Playlists \cup {None}, NEW c, NEW members, NEW left, NEW W,
         EnterEffect(k, m, c, members, left, W)
  PROVE  Tables(handle', playing', promise', used', clock, L)
<1> USE DEF StreamTypes, TablesTypeOK
<1>0. clock \in Nat /\ IdleTTL \in Nat \ {0} /\ CatchupGrace \in Nat
  BY StreamTimes
<1>p. /\ PrunedHandles \in [Handles -> Resource \cup {None}]
      /\ PrunedPlaying \in [Plays -> ResourceSession \cup {None}]
  BY PrunedTypes
<1>1. \A j \in Plays : j # k => playing'[j] = PrunedPlaying[j] /\ used'[j] = used[j]
  BY <1>p DEF EnterEffect
<1>2. /\ playing'[k] # None /\ playing'[k].expires = clock + IdleTTL /\ playing'[k].windows = W
      /\ used'[k] = clock
  <2>1. playing'[k] = [expires |-> clock + IdleTTL, windows |-> W] /\ used'[k] = clock
    BY <1>p DEF EnterEffect
  <2>2. playing'[k] \in ResourceSession
    BY <2>1, <1>0 DEF EnterEffect, ResourceSession
  <2>3. QED
    BY <2>1, <2>2, NoneIsNowhere
<1>3. ASSUME NEW h \in members
      PROVE  /\ h \in Handles
             /\ handle'[h] # None /\ handle'[h].play = k /\ handle'[h].retire = None
             /\ promise'[h] # None /\ promise'[h].play = k
  <2>1. promise'[h] \in Given
    BY DEF EnterEffect
  <2>2. promise'[h] # None
    BY <2>1, NoneIsNowhere DEF Given
  <2>3. QED
    BY <2>2, NoneIsNowhere DEF EnterEffect
<1>4. ASSUME NEW h \in Handles \ members
      PROVE  /\ promise'[h] = promise[h]
             /\ (handle'[h] = None) = (PrunedHandles[h] = None)
             /\ handle'[h] # None => handle'[h].play = PrunedHandles[h].play
             /\ \/ handle'[h] = PrunedHandles[h]
                \/ /\ h \in left /\ PrunedHandles[h] # None /\ ~PrunedHandles[h].pinned
                   /\ handle'[h].retire = clock + CatchupGrace
  BY NoneIsNowhere DEF EnterEffect
<1>5. Timed(playing', used', clock)
  <2>1. SUFFICES ASSUME NEW j \in Plays
                 PROVE  /\ used'[j] <= clock
                        /\ playing'[j] # None => playing'[j].expires = used'[j] + IdleTTL
    BY DEF Timed
  <2>2. CASE j = k
    BY <1>0, <1>2, <2>2
  <2>3. CASE j # k
    BY <1>1, <2>3 DEF Tables, Timed
  <2>4. QED
    BY <2>2, <2>3
<1>6. EntriesGiven(handle', playing', promise', clock)
  <2>1. SUFFICES ASSUME NEW h \in Handles, handle'[h] # None
                 PROVE  /\ playing'[handle'[h].play] # None
                        /\ promise'[h] # None /\ promise'[h].play = handle'[h].play
    BY DEF EntriesGiven
  <2>2. CASE h \in members
    BY <1>2, <1>3, <2>2
  <2>3. CASE h \notin members
    <3>1. /\ PrunedHandles[h] # None /\ handle'[h].play = PrunedHandles[h].play
          /\ promise'[h] = promise[h]
      BY <1>4, <2>1, <2>3
    <3>2. PrunedHandles[h].play \in Plays
      BY <3>1, <1>p DEF Resource
    <3>3. PrunedPlaying[PrunedHandles[h].play] # None
      BY <3>1 DEF Tables, EntriesGiven
    <3>4. clock < PrunedPlaying[PrunedHandles[h].play].expires
      BY <3>2, <3>3
    <3>5. promise[h] # None /\ promise[h].play = PrunedHandles[h].play
      BY <3>1, <3>4 DEF Tables, EntriesGiven
    <3>6. QED
      BY <1>1, <1>2, <3>1, <3>2, <3>3, <3>5
  <2>4. QED
    BY <2>2, <2>3
<1>7. WindowsHeld(handle', playing')
  <2>1. SUFFICES ASSUME NEW j \in Plays, NEW n \in Playlists, playing'[j] # None,
                        playing'[j].windows[n] # None, NEW h \in playing'[j].windows[n]
                 PROVE  handle'[h] # None /\ handle'[h].play = j /\ handle'[h].retire = None
    BY DEF WindowsHeld
  <2>2. ASSUME PrunedPlaying[j] # None, PrunedPlaying[j].windows[n] # None,
               h \in PrunedPlaying[j].windows[n], h \notin left \/ j # k
        PROVE  handle'[h] # None /\ handle'[h].play = j /\ handle'[h].retire = None
    <3>1. PrunedHandles[h] # None /\ PrunedHandles[h].play = j /\ PrunedHandles[h].retire = None
      BY <2>2 DEF Tables, WindowsHeld
    <3>2. h \in Handles
      <4>1. PrunedPlaying[j].windows \in Windowing
        BY <2>2, <1>p DEF ResourceSession
      <4>2. PrunedPlaying[j].windows[n] \in SUBSET Handles
        BY <2>2, <4>1 DEF Windowing
      <4>3. QED
        BY <4>2, <2>2
    <3>3. CASE h \in members
      <4>1. j = k
        BY <3>1, <3>3 DEF EnterEffect
      <4>2. QED
        BY <1>3, <3>3, <4>1
    <3>4. CASE h \notin members
      <4>1. h \notin left
        <5>1. ASSUME h \in left
              PROVE  FALSE
          <6>1. m \in Playlists /\ Windows(k)[m] # None /\ h \in Windows(k)[m]
            BY <5>1 DEF EnterEffect
          <6>2. PrunedPlaying[k] # None /\ Windows(k) = PrunedPlaying[k].windows
            BY <6>1 DEF Windows, NoWindows
          <6>3. PrunedHandles[h].play = k
            BY <6>1, <6>2 DEF Tables, WindowsHeld
          <6>4. QED
            BY <2>2, <3>1, <5>1, <6>3
        <5>2. QED
          BY <5>1
      <4>2. handle'[h] = PrunedHandles[h]
        BY <1>4, <3>2, <3>4, <4>1
      <4>3. QED
        BY <3>1, <4>2
    <3>5. QED
      BY <3>3, <3>4
  <2>3. CASE j # k
    BY <1>1, <2>1, <2>2, <2>3
  <2>4. CASE j = k
    <3>1. W[n] # None /\ h \in W[n]
      BY <1>2, <2>1, <2>4
    <3>2. CASE m = n
      <4>1. Windows(k) \in Windowing
        BY WindowsTyped
      <4>2. W = [Windows(k) EXCEPT ![m] = members]
        BY <3>2, NoneIsNowhere DEF EnterEffect
      <4>3. W[n] = members
        BY <3>2, <4>1, <4>2 DEF Windowing
      <4>4. QED
        BY <1>3, <2>4, <3>1, <4>3
    <3>3. CASE m # n
      <4>1. Windows(k) \in Windowing
        BY WindowsTyped
      <4>2. W[n] = Windows(k)[n]
        BY <3>3, <4>1 DEF EnterEffect, Windowing
      <4>3. PrunedPlaying[k] # None /\ Windows(k) = PrunedPlaying[k].windows
        BY <3>1, <4>2 DEF Windows, NoWindows
      <4>4. h \notin left
        BY <3>1 DEF EnterEffect
      <4>5. QED
        BY <2>2, <2>4, <3>1, <4>2, <4>3, <4>4
    <3>4. QED
      BY <3>2, <3>3
  <2>5. QED
    BY <2>3, <2>4
<1>8. PromisesKept(handle', playing', promise', used', clock, L)
  <2>1. SUFFICES ASSUME NEW h \in Handles, promise'[h] # None
                 PROVE  PromiseKept(handle'[h], playing', promise'[h], used', clock, L)
    BY DEF PromisesKept
  <2>2. CASE h \in members
    <3>1. PICK p \in Given : p = promise'[h]
      BY <2>2 DEF EnterEffect
    <3>2. p.play = k /\ p.at = clock
      BY <2>2, <3>1 DEF EnterEffect
    <3>3. handle'[h] # None /\ handle'[h].play = k /\ handle'[h].retire = None
      BY <1>3, <2>2
    <3>4. ASSUME k \in L, p.vod
          PROVE  handle'[h].pinned
      <4>1. handle'[h].pinned = ((PrunedHandles[h] # None /\ PrunedHandles[h].pinned) \/ m = None)
        BY <2>2 DEF EnterEffect
      <4>2. m = None \/ (PrunedHandles[h] # None /\ promise[h].vod)
        BY <2>2, <3>1, <3>4 DEF EnterEffect
      <4>3. CASE m = None
        BY <4>1, <4>3
      <4>4. CASE PrunedHandles[h] # None /\ promise[h].vod
        <5>1. PrunedHandles[h].play = k
          BY <2>2, <4>4 DEF EnterEffect
        <5>2. PrunedPlaying[k] # None
          BY <4>4, <5>1 DEF Tables, EntriesGiven
        <5>3. promise[h] # None /\ promise[h].play = k
          BY <4>4, <5>1, <5>2 DEF Tables, EntriesGiven
        <5>4. PromiseKept(PrunedHandles[h], PrunedPlaying, promise[h], used, clock, L)
          BY <5>3 DEF Tables, PromisesKept
        <5>5. Lasting(PrunedHandles[h], promise[h])
          BY <3>4, <4>4, <5>3, <5>4 DEF PromiseKept
        <5>6. QED
          BY <4>1, <4>4, <5>5 DEF Lasting
      <4>5. QED
        BY <4>2, <4>3, <4>4
    <3>5. k \in L => Lasting(handle'[h], p)
      BY <3>2, <3>3, <3>4 DEF Lasting
    <3>6. clock < used'[k] + IdleTTL
      BY <1>0, <1>2
    <3>7. QED
      BY <1>0, <1>2, <3>1, <3>2, <3>5, <3>6 DEF PromiseKept
  <2>3. CASE h \notin members
    <3>1. PICK p \in Given : p = promise[h] /\ p = promise'[h]
      BY <1>4, <2>1, <2>3
    <3>2. p.play \in Plays /\ p.at \in Nat
      BY DEF Given
    <3>3. PromiseKept(PrunedHandles[h], PrunedPlaying, p, used, clock, L)
      BY <2>1, <3>1 DEF Tables, PromisesKept
    <3>4. p.at <= clock
      BY <3>3 DEF PromiseKept
    <3>5. clock < used'[p.play] + IdleTTL
      BY <1>0, <1>1, <1>2, <3>2, <3>3 DEF PromiseKept
    <3>6. p.play \in L => playing'[p.play] # None
      BY <1>1, <1>2, <3>2, <3>3 DEF PromiseKept
    <3>7. ASSUME Lasting(PrunedHandles[h], p)
          PROVE  Lasting(handle'[h], p)
      <4>1. handle'[h] # None /\ handle'[h].play = p.play
        BY <1>4, <2>3, <3>7 DEF Lasting
      <4>2. CASE handle'[h] = PrunedHandles[h]
        BY <3>7, <4>2
      <4>3. CASE ~PrunedHandles[h].pinned /\ handle'[h].retire = clock + CatchupGrace
        BY <1>0, <3>2, <3>4, <3>7, <4>1, <4>3 DEF Lasting
      <4>4. QED
        BY <1>4, <2>3, <4>2, <4>3
    <3>8. QED
      BY <3>1, <3>3, <3>4, <3>5, <3>6, <3>7 DEF PromiseKept
  <2>4. QED
    BY <2>2, <2>3
<1>9. QED
  BY <1>5, <1>6, <1>7, <1>8 DEF Tables

\* A request for a resource renews its session.
LEMMA FetchingKeeps ==
  ASSUME StreamTypes, NEW L \in SUBSET Plays, Tables(handle, playing, promise, used, clock, L),
         NEW k \in Plays, playing[k] # None, ~IsGone(k),
         playing' = [playing EXCEPT ![k].expires = clock + IdleTTL],
         used' = [used EXCEPT ![k] = clock]
  PROVE  /\ Tables(handle, playing', promise, used', clock, L)
         /\ playing' \in [Plays -> ResourceSession \cup {None}]
         /\ used' \in [Plays -> Nat]
         /\ \A j \in Plays : /\ (playing'[j] = None) = (playing[j] = None)
                             /\ playing[j] # None => playing'[j].windows = playing[j].windows
<1> USE DEF StreamTypes, TablesTypeOK
<1>0. clock \in Nat /\ IdleTTL \in Nat \ {0}
  BY StreamTimes
<1>1. PICK s \in ResourceSession : s = playing[k]
  OBVIOUS
<1>2. PICK w \in Nat : w = clock + IdleTTL
  BY <1>0
<1>3. playing' = [playing EXCEPT ![k] = [s EXCEPT !.expires = w]]
  BY <1>1, <1>2
<1>4. PICK e \in ResourceSession : e = [s EXCEPT !.expires = w]
  BY DEF ResourceSession
<1>5. e.expires = w /\ e.windows = s.windows /\ e # None
  BY <1>4, NoneIsNowhere DEF ResourceSession
<1>6. \A j \in Plays : playing'[j] = IF j = k THEN e ELSE playing[j]
  BY <1>3, <1>4
<1>7. \A j \in Plays : used'[j] = IF j = k THEN clock ELSE used[j]
  OBVIOUS
<1>8. \A j \in Plays : /\ (playing'[j] = None) = (playing[j] = None)
                       /\ playing[j] # None => playing'[j].windows = playing[j].windows
  BY <1>1, <1>5, <1>6
<1>9. Timed(playing', used', clock)
  BY <1>0, <1>2, <1>5, <1>6, <1>7 DEF Tables, Timed
<1>10. clock < playing[k].expires
  BY <1>0, <1>1 DEF IsGone, ResourceSession
<1>11. EntriesGiven(handle, playing', promise, clock)
  <2>1. SUFFICES ASSUME NEW h \in Handles, handle[h] # None
                 PROVE  /\ playing'[handle[h].play] # None
                        /\ clock < playing'[handle[h].play].expires =>
                             promise[h] # None /\ promise[h].play = handle[h].play
    BY DEF EntriesGiven
  <2>2. handle[h].play \in Plays
    BY <2>1 DEF Resource
  <2>3. QED
    BY <1>6, <1>8, <1>10, <2>1, <2>2 DEF Tables, EntriesGiven
<1>12. WindowsHeld(handle, playing')
  BY <1>8 DEF Tables, WindowsHeld
<1>13. PromisesKept(handle, playing', promise, used', clock, L)
  <2>1. SUFFICES ASSUME NEW h \in Handles, promise[h] # None
                 PROVE  PromiseKept(handle[h], playing', promise[h], used', clock, L)
    BY DEF PromisesKept
  <2>2. PICK p \in Given : p = promise[h]
    BY <2>1
  <2>3. p.play \in Plays
    BY DEF Given
  <2>4. PromiseKept(handle[h], playing, p, used, clock, L)
    BY <2>1, <2>2 DEF Tables, PromisesKept
  <2>5. clock < used'[p.play] + IdleTTL
    BY <1>0, <1>7, <2>3, <2>4 DEF PromiseKept
  <2>6. p.play \in L => playing'[p.play] # None
    BY <1>8, <2>3, <2>4 DEF PromiseKept
  <2>7. QED
    BY <2>2, <2>4, <2>5, <2>6 DEF PromiseKept
<1>14. playing' \in [Plays -> ResourceSession \cup {None}] /\ used' \in [Plays -> Nat]
  BY <1>0, <1>3, <1>4
<1>15. QED
  BY <1>8, <1>9, <1>11, <1>12, <1>13, <1>14 DEF Tables

\* When time passes, what ends with its session is no longer promised.
LEMMA TickingKeeps ==
  ASSUME StreamTypes, NEW L \in SUBSET Plays, Tables(handle, playing, promise, used, clock, L),
         TickClock
  PROVE  Tables(handle, playing, promise', used, clock', L) /\ promise' \in [Handles -> Given \cup {None}]
<1> USE DEF StreamTypes, TablesTypeOK
<1>0. clock \in Nat /\ clock' = clock + 1 /\ IdleTTL \in Nat /\ CatchupGrace \in Nat
  BY StreamTimes DEF TickClock
<1>1. \A h \in Handles :
        promise'[h] = IF promise[h] # None /\ clock' >= used[promise[h].play] + IdleTTL
                      THEN None ELSE promise[h]
  BY DEF TickClock
<1>2. promise' \in [Handles -> Given \cup {None}]
  BY <1>1 DEF TickClock
<1>3. Timed(playing, used, clock')
  BY <1>0 DEF Tables, Timed
<1>4. EntriesGiven(handle, playing, promise', clock')
  <2>1. SUFFICES ASSUME NEW h \in Handles, handle[h] # None
                 PROVE  /\ playing[handle[h].play] # None
                        /\ clock' < playing[handle[h].play].expires =>
                             promise'[h] # None /\ promise'[h].play = handle[h].play
    BY DEF EntriesGiven
  <2>2. handle[h].play \in Plays
    BY <2>1 DEF Resource
  <2>3. playing[handle[h].play] # None
    BY <2>1 DEF Tables, EntriesGiven
  <2>4. ASSUME clock' < playing[handle[h].play].expires
        PROVE  promise'[h] # None /\ promise'[h].play = handle[h].play
    <3>1. playing[handle[h].play].expires \in Nat
      BY <2>2, <2>3 DEF ResourceSession
    <3>2. clock < playing[handle[h].play].expires
      BY <1>0, <2>4, <3>1
    <3>3. promise[h] # None /\ promise[h].play = handle[h].play
      BY <2>1, <3>2 DEF Tables, EntriesGiven
    <3>4. playing[handle[h].play].expires = used[handle[h].play] + IdleTTL
      BY <2>2, <2>3 DEF Tables, Timed
    <3>5. ~(clock' >= used[handle[h].play] + IdleTTL)
      BY <1>0, <2>2, <2>4, <3>4
    <3>6. QED
      BY <1>1, <3>3, <3>5
  <2>5. QED
    BY <2>3, <2>4
<1>5. PromisesKept(handle, playing, promise', used, clock', L)
  <2>1. SUFFICES ASSUME NEW h \in Handles, promise'[h] # None
                 PROVE  PromiseKept(handle[h], playing, promise'[h], used, clock', L)
    BY DEF PromisesKept
  <2>2. promise'[h] = promise[h] /\ ~(clock' >= used[promise[h].play] + IdleTTL)
    BY <1>1, <2>1
  <2>3. PICK p \in Given : p = promise[h]
    BY <2>1, <2>2
  <2>4. p.play \in Plays /\ p.at \in Nat
    BY DEF Given
  <2>5. PromiseKept(handle[h], playing, p, used, clock, L)
    BY <2>1, <2>2, <2>3 DEF Tables, PromisesKept
  <2>6. p.at <= clock' /\ clock' < used[p.play] + IdleTTL
    BY <1>0, <2>2, <2>3, <2>4, <2>5 DEF PromiseKept
  <2>7. clock' < p.at + CatchupGrace => clock < p.at + CatchupGrace
    BY <1>0, <2>4
  <2>8. QED
    BY <2>2, <2>3, <2>5, <2>6, <2>7 DEF PromiseKept
<1>6. WindowsHeld(handle, playing)
  BY DEF Tables
<1>7. QED
  BY <1>2, <1>3, <1>4, <1>5, <1>6 DEF Tables

\* The windows of some plays, among the sessions P.
WindowsIn(P, plays) ==
    {w \in plays \X Playlists : P[w[1]] # None /\ P[w[1]].windows[w[2]] # None}

LEMMA CountIsOfWindows ==
  ASSUME NEW plays
  PROVE  CountOf(plays) = Cardinality(WindowsIn(playing, plays))
<1>1. {w \in plays \X Playlists : w[2] \in WindowsOf(w[1])} = WindowsIn(playing, plays)
  BY DEF WindowsOf, WindowsIn
<1>2. QED
  BY <1>1 DEF CountOf

LEMMA CountIsOfWindowsNext ==
  CountOf(Plays)' = Cardinality(WindowsIn(playing', Plays))
<1>1. {w \in Plays \X Playlists : w[2] \in WindowsOf(w[1])}' = WindowsIn(playing', Plays)
  BY DEF WindowsOf, WindowsIn
<1>2. QED
  BY <1>1 DEF CountOf

LEMMA WindowsFinite ==
  ASSUME NEW P
  PROVE  IsFiniteSet(WindowsIn(P, Plays))
<1>1. IsFiniteSet(Plays \X Playlists)
  BY StreamTables, FS_Product
<1>2. QED
  BY <1>1, FS_Subset DEF WindowsIn

\* What goes with some plays is what was counted for them.
LEMMA CountWithout ==
  ASSUME NEW gone \in SUBSET Plays, CountHolds
  PROVE  /\ windowCount - CountOf(gone) = Cardinality(WindowsIn(PlayingWithout(gone), Plays))
         /\ windowCount - CountOf(gone) \in Nat
         /\ windowCount - CountOf(gone) <= windowCount
<1> DEFINE S == WindowsIn(playing, Plays)
           T == WindowsIn(playing, gone)
<1>1. IsFiniteSet(S)
  BY WindowsFinite
<1>2. T \subseteq S
  BY DEF WindowsIn
<1>3. WindowsIn(PlayingWithout(gone), Plays) = S \ T
  <2>1. \A k \in Plays : PlayingWithout(gone)[k] = IF k \in gone THEN None ELSE playing[k]
    BY DEF PlayingWithout
  <2>2. QED
    BY <2>1 DEF WindowsIn
<1>4. S \cap T = T
  BY <1>2
<1>5. IsFiniteSet(T) /\ Cardinality(T) <= Cardinality(S) /\ Cardinality(T) \in Nat
  BY <1>1, <1>2, FS_Subset, FS_CardinalityType
<1>6. IsFiniteSet(S \ T) /\ Cardinality(S \ T) = Cardinality(S) - Cardinality(T)
  <2> HIDE DEF S, T
  <2>1. QED
    BY <1>1, <1>4, FS_Difference
<1>7. Cardinality(S) \in Nat /\ Cardinality(S \ T) \in Nat
  BY <1>1, <1>6, FS_CardinalityType
<1>8. windowCount = Cardinality(S) /\ CountOf(gone) = Cardinality(T)
  BY CountIsOfWindows DEF CountHolds
<1> HIDE DEF S, T
<1>9. QED
  BY <1>3, <1>5, <1>6, <1>7, <1>8

\* The same plays are counted as before.
LEMMA CountStays ==
  ASSUME CountHolds, windowCount' = windowCount,
         \A k \in Plays : /\ (playing'[k] = None) = (playing[k] = None)
                          /\ playing[k] # None => playing'[k].windows = playing[k].windows
  PROVE  CountHolds'
<1>1. WindowsIn(playing', Plays) = WindowsIn(playing, Plays)
  BY DEF WindowsIn
<1>2. QED
  BY <1>1, CountIsOfWindows, CountIsOfWindowsNext DEF CountHolds

LEMMA CountAfterRemoval ==
  ASSUME CountHolds, NEW gone \in SUBSET Plays, playing' = PlayingWithout(gone),
         windowCount' = windowCount - CountOf(gone)
  PROVE  CountHolds'
<1>1. Cardinality(Handles) \in Nat /\ windowCount <= Cardinality(Handles)
  BY StreamTables, FS_CardinalityType DEF CountHolds
<1>2. windowCount \in Nat
  BY CountIsOfWindows, WindowsFinite, FS_CardinalityType DEF CountHolds
<1>3. windowCount' <= Cardinality(Handles)
  BY <1>1, <1>2, CountWithout
<1>4. QED
  BY <1>3, CountWithout, CountIsOfWindowsNext DEF CountHolds

\* A playlist that had no window has one.
LEMMA CountAfterEntering ==
  ASSUME StreamTypes, CountHolds, NEW k \in Plays, NEW urls, NEW m \in Playlists \cup {None}, NEW c,
         NEW members, NEW left, NEW W, EnterEffect(k, m, c, members, left, W), FitsIn(k, urls, m)
  PROVE  CountHolds'
<1> DEFINE S == WindowsIn(PrunedPlaying, Plays)
<1>1. PrunedCount = Cardinality(S) /\ IsFiniteSet(S)
  <2>1. GonePlays \in SUBSET Plays
    BY DEF GonePlays
  <2>2. QED
    BY <2>1, CountWithout, WindowsFinite DEF PrunedCount, PrunedPlaying
<1>2. PrunedPlaying \in [Plays -> ResourceSession \cup {None}]
  BY PrunedTypes
<1>3. \A j \in Plays : j # k => playing'[j] = PrunedPlaying[j]
  BY <1>2 DEF EnterEffect
<1>4. playing'[k] # None /\ playing'[k].windows = W
  <2>1. clock + IdleTTL \in Nat
    BY StreamTimes DEF StreamTypes, TablesTypeOK
  <2>2. playing'[k] = [expires |-> clock + IdleTTL, windows |-> W] /\ W \in Windowing
    BY <1>2 DEF EnterEffect
  <2>3. playing'[k] \in ResourceSession
    BY <2>1, <2>2 DEF ResourceSession
  <2>4. QED
    BY <2>2, <2>3, NoneIsNowhere
<1>5. \A n \in Playlists : Windows(k)[n] # None <=> <<k, n>> \in S
  BY <1>2 DEF Windows, NoWindows, WindowsIn
<1>6. Windows(k) \in Windowing
  BY WindowsTyped
<1>7. windowCount' = PrunedCount + NewWindows(k, m) /\ windowCount' <= Cardinality(Handles)
  BY DEF EnterEffect, FitsIn
<1>8. CASE m = None
  <2>1. W = Windows(k)
    BY <1>8 DEF EnterEffect
  <2>2. \A j \in Plays, n \in Playlists :
          <<j, n>> \in WindowsIn(playing', Plays) <=> <<j, n>> \in S
    BY <1>3, <1>4, <1>5, <2>1 DEF WindowsIn
  <2>3. WindowsIn(playing', Plays) = S
    BY <2>2 DEF WindowsIn
  <2>4. NewWindows(k, m) = 0
    BY <1>8 DEF NewWindows
  <2>5. Cardinality(S) \in Nat
    BY <1>1, FS_CardinalityType
  <2>6. QED
    BY <1>1, <1>7, <2>3, <2>4, <2>5, CountIsOfWindowsNext DEF CountHolds
<1>9. CASE m \in Playlists
  <2>1. W = [Windows(k) EXCEPT ![m] = members] /\ members \in SUBSET Handles
    BY <1>9, NoneIsNowhere DEF EnterEffect
  <2>2. \A n \in Playlists : W[n] # None <=> n = m \/ <<k, n>> \in S
    BY <1>5, <1>6, <2>1, NoneIsNowhere DEF Windowing
  <2>3. \A j \in Plays, n \in Playlists :
          <<j, n>> \in WindowsIn(playing', Plays) <=> <<j, n>> \in S \cup {<<k, m>>}
    BY <1>3, <1>4, <2>2 DEF WindowsIn
  <2>4. WindowsIn(playing', Plays) = S \cup {<<k, m>>}
    <3>1. S \cup {<<k, m>>} \subseteq Plays \X Playlists
      BY <1>9 DEF WindowsIn
    <3>2. QED
      BY <2>3, <3>1 DEF WindowsIn
  <2>5. NewWindows(k, m) = IF <<k, m>> \in S THEN 0 ELSE 1
    BY <1>5, <1>9, NoneIsNowhere DEF NewWindows
  <2>6. Cardinality(S) \in Nat
    BY <1>1, FS_CardinalityType
  <2>7. Cardinality(S \cup {<<k, m>>}) = Cardinality(S) + NewWindows(k, m)
    <3> HIDE DEF S
    <3>1. Cardinality(S \cup {<<k, m>>}) = IF <<k, m>> \in S THEN Cardinality(S) ELSE Cardinality(S) + 1
      BY <1>1, FS_AddElement
    <3>2. QED
      BY <2>5, <2>6, <3>1
  <2>8. QED
    BY <1>1, <1>7, <2>4, <2>7, CountIsOfWindowsNext DEF CountHolds
<1>10. QED
  BY <1>8, <1>9

\* What a step may do to attempts: none becomes new again, none comes back to life.
BindingsMove ==
    /\ binding' \in [Attempts -> {"unused", "pending", "active", "over", "forgotten"}]
    /\ \A a \in Attempts : /\ binding[a] # "unused" => binding'[a] # "unused"
                           /\ binding'[a] \in {"pending", "active"} => Live(a) \/ binding[a] = "unused"
\* What a step may do to credentials: one in its idle time is taken from no live attempt.
CredentialsStay ==
    /\ capability' \in [Capabilities -> Credential \cup {None}]
    /\ \A c \in Capabilities : capability'[c] # None => capability'[c].used <= clock'
    /\ \A c \in Capabilities :
         capability[c] # None /\ clock' < capability[c].used + CapabilityTTL
         /\ binding'[capability[c].attempt] \in {"pending", "active"} =>
              /\ capability'[c] # None /\ capability'[c].attempt = capability[c].attempt
              /\ capability[c].used <= capability'[c].used

\* What a player holds of its credential stays good.
LEMMA CreditStays ==
  ASSUME StreamTypes, BindingsMove, CredentialsStay, clock <= clock', clock' \in Nat,
         NEW k \in Plays, NEW c \in Capabilities, NEW s \in Nat,
         Credited(k, c, s), binding[Tries[k]] # "unused"
  PROVE  Credited(k, c, s)'
<1> USE DEF StreamTypes, TablesTypeOK
<1>1. Tries[k] \in Attempts
  BY StreamTables DEF Credited, Strict
<1>2. ASSUME Live(Tries[k])', clock' < s + CapabilityTTL
      PROVE  (capability[c] # None /\ capability[c].attempt = Tries[k] /\ s <= capability[c].used)'
  <2>1. clock \in Nat /\ CapabilityTTL \in Nat
    BY StreamTimes
  <2>2. Live(Tries[k])
    BY <1>1, <1>2 DEF BindingsMove, Live
  <2>3. clock < s + CapabilityTTL
    BY <1>2, <2>1
  <2>4. capability[c] # None /\ capability[c].attempt = Tries[k] /\ s <= capability[c].used
    BY <2>2, <2>3 DEF Credited
  <2>5. capability[c].used \in Nat
    BY <2>4 DEF Credential
  <2>6. clock' < capability[c].used + CapabilityTTL
    BY <1>2, <2>1, <2>4, <2>5
  <2>7. binding'[capability[c].attempt] \in {"pending", "active"}
    BY <1>2, <2>4 DEF Live
  <2>8. /\ capability'[c] # None /\ capability'[c].attempt = capability[c].attempt
        /\ capability[c].used <= capability'[c].used
    BY <2>4, <2>6, <2>7 DEF CredentialsStay
  <2>9. capability'[c].used \in Nat
    BY <2>8 DEF CredentialsStay, Credential
  <2>10. QED
    BY <2>4, <2>5, <2>8, <2>9
<1>3. QED
  BY <1>2 DEF Credited, Strict

\* What holds of requests and promises still does, if it holds of the new ones.
LEMMA HoldersKept ==
  ASSUME StreamTypes, UnusedIsNew, CredentialsKept, BindingsMove, CredentialsStay,
         clock <= clock', clock' \in Nat,
         \A a \in negotiating' : a \in negotiating \/ binding'[a] # "unused",
         \A r \in Readers : reader'[r] # None =>
            \/ reader'[r] = reader[r]
            \/ /\ Strict(reader'[r].play) => binding'[Tries[reader'[r].play]] # "unused"
               /\ reader'[r].cap # None => Credited(reader[r].play, reader[r].cap, 0)',
         \A h \in Handles : promise'[h] # None =>
            \/ promise'[h] = promise[h]
            \/ /\ Strict(promise'[h].play) => binding'[Tries[promise'[h].play]] # "unused"
               /\ promise'[h].cap # None => Credited(promise[h].play, promise[h].cap, promise[h].shown)'
  PROVE  /\ UnusedIsNew' /\ CredentialsKept'
<1> USE DEF StreamTypes, TablesTypeOK
<1>0. \A k \in Plays : Strict(k) => Tries[k] \in Attempts
  BY StreamTables DEF Strict
<1>1. \A a \in negotiating' : binding'[a] # "unused"
  BY DEF UnusedIsNew, BindingsMove
<1>2. ASSUME NEW r \in Readers, reader'[r] # None
      PROVE  /\ Strict(reader'[r].play) => binding'[Tries[reader'[r].play]] # "unused"
             /\ reader'[r].cap # None => Credited(reader[r].play, reader[r].cap, 0)'
  <2>1. CASE reader'[r] = reader[r]
    <3>1. PICK e \in Reading : e = reader[r] /\ e = reader'[r]
      BY <1>2, <2>1
    <3>2. e.play \in Plays /\ e.cap \in Capabilities \cup {None}
      BY DEF Reading
    <3>3. Strict(e.play) => binding[Tries[e.play]] # "unused"
      BY <1>2, <2>1, <3>1 DEF UnusedIsNew
    <3>4. Strict(e.play) => binding'[Tries[e.play]] # "unused"
      BY <1>0, <3>2, <3>3 DEF BindingsMove
    <3>5. ASSUME e.cap # None
          PROVE  Credited(e.play, e.cap, 0)'
      <4>1. Credited(e.play, e.cap, 0)
        BY <1>2, <2>1, <3>1, <3>5 DEF CredentialsKept
      <4>2. binding[Tries[e.play]] # "unused"
        BY <3>3, <4>1 DEF Credited
      <4>3. QED
        BY <3>2, <3>5, <4>1, <4>2, CreditStays
    <3>6. reader'[r].cap # None => Credited(reader[r].play, reader[r].cap, 0)'
      BY <3>1, <3>5 DEF Credited, Live, Strict
    <3>7. QED
      BY <3>1, <3>4, <3>6
  <2>2. CASE reader'[r] # reader[r]
    BY <1>2, <2>2
  <2>3. QED
    BY <2>1, <2>2
<1>3. ASSUME NEW h \in Handles, promise'[h] # None
      PROVE  /\ Strict(promise'[h].play) => binding'[Tries[promise'[h].play]] # "unused"
             /\ promise'[h].cap # None => Credited(promise[h].play, promise[h].cap, promise[h].shown)'
  <2>1. CASE promise'[h] = promise[h]
    <3>1. PICK e \in Given : e = promise[h] /\ e = promise'[h]
      BY <1>3, <2>1
    <3>2. e.play \in Plays /\ e.cap \in Capabilities \cup {None} /\ e.shown \in Nat
      BY DEF Given
    <3>3. Strict(e.play) => binding[Tries[e.play]] # "unused"
      BY <1>3, <2>1, <3>1 DEF UnusedIsNew
    <3>4. Strict(e.play) => binding'[Tries[e.play]] # "unused"
      BY <1>0, <3>2, <3>3 DEF BindingsMove
    <3>5. ASSUME e.cap # None
          PROVE  Credited(e.play, e.cap, e.shown)'
      <4>1. Credited(e.play, e.cap, e.shown)
        BY <1>3, <2>1, <3>1, <3>5 DEF CredentialsKept
      <4>2. binding[Tries[e.play]] # "unused"
        BY <3>3, <4>1 DEF Credited
      <4>3. QED
        BY <3>2, <3>5, <4>1, <4>2, CreditStays
    <3>6. promise'[h].cap # None => Credited(promise[h].play, promise[h].cap, promise[h].shown)'
      BY <3>1, <3>5 DEF Credited, Live, Strict
    <3>7. QED
      BY <3>1, <3>4, <3>6
  <2>2. CASE promise'[h] # promise[h]
    BY <1>3, <2>2
  <2>3. QED
    BY <2>1, <2>2
<1>4. UnusedIsNew'
  BY <1>1, <1>2, <1>3 DEF UnusedIsNew, Strict
<1>5. CredentialsKept'
  BY <1>2, <1>3 DEF CredentialsKept, CredentialsStay
<1>6. QED
  BY <1>4, <1>5

\* No play that was given something comes to life.
LEMMA LifeIsNotRegained ==
  ASSUME StreamTypes, UnusedIsNew, BindingsMove, NEW h \in Handles, promise[h] # None,
         promise[h].play \in LivePlays'
  PROVE  promise[h].play \in LivePlays
<1>1. PICK k \in Plays : k = promise[h].play
  BY DEF StreamTypes, Given
<1>2. ~Strict(k) \/ Live(Tries[k])'
  BY <1>1 DEF LivePlays, Strict
<1>3. CASE ~Strict(k)
  BY <1>1, <1>3 DEF LivePlays
<1>4. CASE Strict(k) /\ Live(Tries[k])'
  <2>1. Tries[k] \in Attempts
    BY <1>4, StreamTables DEF Strict
  <2>2. binding[Tries[k]] # "unused"
    BY <1>1, <1>4 DEF UnusedIsNew
  <2>3. Live(Tries[k])
    BY <1>4, <2>1, <2>2 DEF BindingsMove, Live
  <2>4. QED
    BY <1>1, <2>3 DEF LivePlays
<1>5. QED
  BY <1>2, <1>3, <1>4

\* A step that changes no attempt, no credential and no time.
LEMMA IdleCredentials ==
  ASSUME StreamTypes, CredentialsKept, UNCHANGED <<binding, capability>>, clock' >= clock, clock' \in Nat
  PROVE  BindingsMove /\ CredentialsStay
<1> USE DEF StreamTypes, TablesTypeOK
<1>1. BindingsMove
  BY DEF BindingsMove, Live
<1>2. \A c \in Capabilities : capability[c] # None => capability[c].used <= clock'
  <2>1. TAKE c \in Capabilities
  <2>2. HAVE capability[c] # None
  <2>3. capability[c].used \in Nat /\ capability[c].used <= clock /\ clock \in Nat
    BY <2>2, StreamTimes DEF CredentialsKept, Credential
  <2>4. QED
    BY <2>3
<1>3. CredentialsStay
  <2>1. \A c \in Capabilities : capability[c] # None => capability[c].used <= capability[c].used
    BY DEF Credential
  <2>2. QED
    BY <1>2, <2>1 DEF CredentialsStay
<1>4. QED
  BY <1>1, <1>3

\* A strict request passes with a credential of its attempt, which becomes active.
LEMMA EnteringMoves ==
  ASSUME StreamTypes, CredentialsKept, NEW k \in Plays, NEW c \in Capabilities \cup {None},
         Enters(k, c), clock' = clock
  PROVE  /\ BindingsMove /\ CredentialsStay
         /\ Strict(k) => binding'[Tries[k]] # "unused" /\ Live(Tries[k])
         /\ c # None => Credited(k, c, 0)'
<1> USE DEF StreamTypes, TablesTypeOK
<1>0. clock \in Nat /\ CapabilityTTL \in Nat
  BY StreamTimes
<1>1. CASE ~Strict(k)
  <2>1. c = None /\ UNCHANGED <<binding, capability>>
    BY <1>1 DEF Enters
  <2>2. QED
    BY <1>0, <1>1, <2>1, IdleCredentials
<1>2. CASE Strict(k)
  <2>1. /\ c \in Capabilities /\ Resolves(c, Tries[k])
        /\ capability' = [KeptCapabilities EXCEPT ![c].used = clock]
        /\ Live(Tries[k])
        /\ binding' = [binding EXCEPT ![Tries[k]] = "active"]
    BY <1>2 DEF Enters
  <2>2. Tries[k] \in Attempts
    BY <1>2, StreamTables DEF Strict
  <2>3. BindingsMove /\ binding'[Tries[k]] = "active"
    BY <2>1, <2>2 DEF BindingsMove, Live
  <2>4. \A d \in Capabilities : KeptCapabilities[d] = IF Unused(d) THEN None ELSE capability[d]
    BY DEF KeptCapabilities
  <2>5. PICK e \in Credential : e = capability[c] /\ e = KeptCapabilities[c]
    BY <2>1, <2>4 DEF Resolves
  <2>6. PICK f \in Credential : f = [e EXCEPT !.used = clock]
    BY <1>0 DEF Credential
  <2>7. f.used = clock /\ f.attempt = e.attempt /\ f # None /\ e.used \in Nat
    BY <2>6, NoneIsNowhere DEF Credential
  <2>8. \A d \in Capabilities : capability'[d] = IF d = c THEN f ELSE KeptCapabilities[d]
    BY <2>1, <2>5, <2>6 DEF KeptCapabilities
  <2>9. capability' \in [Capabilities -> Credential \cup {None}]
    <3>1. capability' = [d \in Capabilities |-> capability'[d]]
      BY <2>1 DEF KeptCapabilities
    <3>2. QED
      BY <2>4, <2>8, <3>1
  <2>10. ASSUME NEW d \in Capabilities, capability[d] # None
         PROVE  /\ capability[d].used \in Nat /\ capability[d].used <= clock
                /\ clock < capability[d].used + CapabilityTTL => ~Unused(d)
    <3>1. capability[d].used \in Nat /\ capability[d].used <= clock
      BY <2>10 DEF CredentialsKept, Credential
    <3>2. clock < capability[d].used + CapabilityTTL => ~(clock - capability[d].used >= CapabilityTTL)
      BY <1>0, <3>1
    <3>3. QED
      BY <3>1, <3>2 DEF Unused
  <2>11. CredentialsStay
    <3>1. ASSUME NEW d \in Capabilities, capability'[d] # None
          PROVE  capability'[d].used <= clock'
      BY <1>0, <2>4, <2>7, <2>8, <2>10, <3>1
    <3>2. ASSUME NEW d \in Capabilities, capability[d] # None,
                 clock' < capability[d].used + CapabilityTTL
          PROVE  /\ capability'[d] # None /\ capability'[d].attempt = capability[d].attempt
                 /\ capability[d].used <= capability'[d].used
      <4>1. CASE d = c
        BY <2>5, <2>7, <2>8, <2>10, <3>2, <4>1
      <4>2. CASE d # c
        BY <2>4, <2>8, <2>10, <3>2, <4>2
      <4>3. QED
        BY <4>1, <4>2
    <3>3. QED
      BY <2>9, <3>1, <3>2 DEF CredentialsStay
  <2>12. Credited(k, c, 0)'
    <3>1. capability'[c] # None /\ capability'[c].attempt = Tries[k] /\ 0 <= capability'[c].used
      BY <1>0, <2>1, <2>5, <2>7, <2>8 DEF Resolves
    <3>2. QED
      BY <1>2, <3>1 DEF Credited, Strict
  <2>13. QED
    BY <2>1, <2>3, <2>11, <2>12
<1>3. QED
  BY <1>1, <1>2

\* Revoking the credentials of attempts that are not live, or no longer.
LEMMA RevokingKeeps ==
  ASSUME StreamTypes, CredentialsKept, NEW A, RevokeAttempts(A), clock' = clock,
         \A a \in Attempts \cap A : binding'[a] \notin {"pending", "active"}
  PROVE  CredentialsStay
<1> USE DEF StreamTypes, TablesTypeOK
<1>0. clock \in Nat /\ CapabilityTTL \in Nat
  BY StreamTimes
<1>1. \A d \in Capabilities :
        capability'[d] = IF Unused(d) \/ capability[d] = None \/ capability[d].attempt \in A
                         THEN None ELSE capability[d]
  BY DEF RevokeAttempts, KeptCapabilities
<1>2. ASSUME NEW d \in Capabilities, capability[d] # None
      PROVE  /\ capability[d].used \in Nat /\ capability[d].used <= clock
             /\ capability[d].attempt \in Attempts
             /\ clock < capability[d].used + CapabilityTTL => ~Unused(d)
  <2>1. /\ capability[d].used \in Nat /\ capability[d].used <= clock
        /\ capability[d].attempt \in Attempts
    BY <1>2 DEF CredentialsKept, Credential
  <2>2. clock < capability[d].used + CapabilityTTL => ~(clock - capability[d].used >= CapabilityTTL)
    BY <1>0, <2>1
  <2>3. QED
    BY <2>1, <2>2 DEF Unused
<1>3. capability' \in [Capabilities -> Credential \cup {None}]
  <2>1. capability' = [d \in Capabilities |-> capability'[d]]
    BY DEF RevokeAttempts
  <2>2. QED
    BY <1>1, <2>1
<1>4. ASSUME NEW d \in Capabilities, capability[d] # None,
             clock' < capability[d].used + CapabilityTTL,
             binding'[capability[d].attempt] \in {"pending", "active"}
      PROVE  /\ capability'[d] # None /\ capability'[d].attempt = capability[d].attempt
             /\ capability[d].used <= capability'[d].used
  <2>1. capability'[d] = capability[d]
    BY <1>1, <1>2, <1>4
  <2>2. QED
    BY <1>2, <1>4, <2>1
<1>5. QED
  BY <1>1, <1>2, <1>3, <1>4 DEF CredentialsStay

\* What a step has to do for the tables.
TablesSettle(M) ==
    /\ Tables(handle', playing', promise', used', clock', M)
    /\ handle' \in [Handles -> Resource \cup {None}]
    /\ playing' \in [Plays -> ResourceSession \cup {None}]
    /\ promise' \in [Handles -> Given \cup {None}]
    /\ used' \in [Plays -> Nat]
    /\ CountHolds'

\* What is promised anew is promised to the player of k, with credential c.
GivenAnew(k, c) ==
    \A h \in Handles : promise'[h] = promise[h]
      \/ /\ promise'[h].play = k /\ promise'[h].cap = c
         /\ promise'[h].shown = LastUse(c, Tries[k])

LEMMA StillSettles ==
  ASSUME StreamInv, NEW M, Tables(handle, playing, promise, used, clock, M),
         UNCHANGED <<handle, playing, windowCount, promise, used, clock>>
  PROVE  TablesSettle(M)
<1>1. CountHolds'
  BY CountStays DEF StreamInv
<1>2. QED
  BY <1>1 DEF TablesSettle, StreamInv, StreamTypes, TablesTypeOK

LEMMA PruneSettles ==
  ASSUME StreamInv, NEW M \in SUBSET Plays, Tables(handle, playing, promise, used, clock, M),
         Prune, UNCHANGED <<promise, used, clock>>
  PROVE  TablesSettle(M)
<1>1. GonePlays \in SUBSET Plays
  BY DEF GonePlays
<1>2. CountHolds'
  BY <1>1, CountAfterRemoval DEF StreamInv, Prune, PrunedPlaying, PrunedCount
<1>3. Tables(PrunedHandles, PrunedPlaying, promise, used, clock, M)
  BY PruningKeeps DEF StreamInv
<1>4. Tables(handle', playing', promise', used', clock', M)
  BY <1>3 DEF Prune
<1>5. QED
  BY <1>2, <1>4, PrunedTypes DEF TablesSettle, StreamInv, StreamTypes, TablesTypeOK, Prune

LEMMA RemovalSettles ==
  ASSUME StreamInv, NEW M \in SUBSET Plays, Tables(handle, playing, promise, used, clock, M),
         NEW A, RemoveAttempts(A), UNCHANGED <<promise, used, clock>>,
         \A k \in M : Strict(k) => Tries[k] \notin A
  PROVE  TablesSettle(M)
<1>1. PICK gone \in SUBSET Plays : gone = {k \in Plays : Strict(k) /\ Tries[k] \in A}
  OBVIOUS
<1>2. /\ handle' = HandlesWithout(gone, {}) /\ playing' = PlayingWithout(gone)
      /\ windowCount' = windowCount - CountOf(gone)
  BY <1>1 DEF RemoveAttempts
<1>3. gone \cap M = {}
  BY <1>1
<1>4. CountHolds'
  BY <1>2, CountAfterRemoval DEF StreamInv
<1>5. Tables(HandlesWithout(gone, {}), PlayingWithout(gone), promise, used, clock, M)
  BY <1>3, RemovingKeeps DEF StreamInv
<1>6. Tables(handle', playing', promise', used', clock', M)
  BY <1>2, <1>5
<1>7. /\ handle' \in [Handles -> Resource \cup {None}]
      /\ playing' \in [Plays -> ResourceSession \cup {None}]
  BY <1>2 DEF StreamInv, StreamTypes, TablesTypeOK, HandlesWithout, PlayingWithout
<1>8. QED
  BY <1>4, <1>6, <1>7 DEF TablesSettle, StreamInv, StreamTypes

LEMMA RegistrationSettles ==
  ASSUME StreamInv, NEW M \in SUBSET Plays, Tables(handle, playing, promise, used, clock, M),
         NEW k \in Plays, NEW urls \in SUBSET URLs, NEW m \in Playlists \cup {None},
         NEW c \in Capabilities \cup {None}, Register(k, urls, m, c), clock' = clock
  PROVE  /\ TablesSettle(M)
         /\ GivenAnew(k, c)
<1>1. CASE FitsIn(k, urls, m) /\ Enter(k, urls, m, c)
  <2>1. PICK members, left, W : EnterEffect(k, m, c, members, left, W)
    BY <1>1, EnterHas DEF StreamInv
  <2>2. CountHolds'
    BY <1>1, <2>1, CountAfterEntering DEF StreamInv
  <2>3. /\ Tables(PrunedHandles, PrunedPlaying, promise, used, clock, M)
        /\ \A j \in Plays : PrunedPlaying[j] # None => clock < PrunedPlaying[j].expires
    BY PruningKeeps DEF StreamInv
  <2>4. Tables(handle', playing', promise', used', clock, M)
    BY <2>1, <2>3, EnteringKeeps DEF StreamInv
  <2>5. playing' \in [Plays -> ResourceSession \cup {None}]
    <3>1. clock + IdleTTL \in Nat
      BY StreamTimes DEF StreamInv, StreamTypes, TablesTypeOK
    <3>2. PICK e \in ResourceSession : e = [expires |-> clock + IdleTTL, windows |-> W]
      BY <2>1, <3>1 DEF EnterEffect, ResourceSession
    <3>3. playing' = [PrunedPlaying EXCEPT ![k] = e]
      BY <2>1, <3>2 DEF EnterEffect
    <3>4. QED
      BY <3>3, PrunedTypes DEF StreamInv
  <2>6. used' \in [Plays -> Nat]
    BY <2>1, StreamTimes DEF EnterEffect, StreamInv, StreamTypes, TablesTypeOK
  <2>7. /\ handle' \in [Handles -> Resource \cup {None}]
        /\ promise' \in [Handles -> Given \cup {None}]
    BY <2>1 DEF EnterEffect
  <2>8. GivenAnew(k, c)
    BY <2>1 DEF EnterEffect, GivenAnew
  <2>9. QED
    BY <2>2, <2>4, <2>5, <2>6, <2>7, <2>8 DEF TablesSettle
<1>2. CASE Prune /\ UNCHANGED history
  BY <1>2, PruneSettles DEF history, GivenAnew
<1>3. QED
  BY <1>1, <1>2 DEF Register

\* A step whose attempts, credentials, holders and tables are in order keeps the invariant.
LEMMA InvariantKept ==
  ASSUME StreamInv, BindingsMove, CredentialsStay, clock <= clock', clock' \in 0 .. Horizon,
         TablesSettle(LivePlays'),
         negotiating' \subseteq Attempts, reader' \in [Readers -> Reading \cup {None}],
         \A a \in negotiating' : a \in negotiating \/ binding'[a] # "unused",
         \A r \in Readers : reader'[r] # None =>
            \/ reader'[r] = reader[r]
            \/ /\ Strict(reader'[r].play) => binding'[Tries[reader'[r].play]] # "unused"
               /\ reader'[r].cap # None => Credited(reader[r].play, reader[r].cap, 0)',
         \A h \in Handles : promise'[h] # None =>
            \/ promise'[h] = promise[h]
            \/ /\ Strict(promise'[h].play) => binding'[Tries[promise'[h].play]] # "unused"
               /\ promise'[h].cap # None => Credited(promise[h].play, promise[h].cap, promise[h].shown)'
  PROVE  StreamInv'
<1>1. UnusedIsNew' /\ CredentialsKept'
  BY StreamTimes, HoldersKept DEF StreamInv
<1>2. StreamTypes'
  BY DEF StreamTypes, TablesTypeOK, TablesSettle, BindingsMove, CredentialsStay
<1>3. QED
  BY <1>1, <1>2 DEF StreamInv, TablesSettle

\* The tables as they are settle for whoever lives on.
LEMMA LivingOn ==
  ASSUME StreamInv, BindingsMove
  PROVE  Tables(handle, playing, promise, used, clock, LivePlays') /\ LivePlays' \in SUBSET Plays
<1>1. \A h \in Handles : promise[h] # None /\ promise[h].play \in LivePlays' =>
        promise[h].play \in LivePlays
  BY LifeIsNotRegained DEF StreamInv
<1>2. PICK M : M = LivePlays'
  OBVIOUS
<1>3. Tables(handle, playing, promise, used, clock, M)
  BY <1>1, <1>2, OthersMayLive DEF StreamInv
<1>4. QED
  BY <1>2, <1>3 DEF LivePlays

LEMMA StreamInitial == StreamInit => StreamInv
<1>1. SUFFICES ASSUME StreamInit PROVE StreamInv
  OBVIOUS
<1>2. StreamTypes
  BY <1>1, StreamTimes DEF StreamInit, StreamTypes, TablesTypeOK
<1>3. Tables(handle, playing, promise, used, clock, LivePlays)
  BY <1>1 DEF StreamInit, Tables, Timed, EntriesGiven, WindowsHeld, PromisesKept
<1>4. UnusedIsNew /\ CredentialsKept
  BY <1>1 DEF StreamInit, UnusedIsNew, CredentialsKept
<1>5. CountHolds
  <2>1. WindowsIn(playing, Plays) = {}
    BY <1>1 DEF StreamInit, WindowsIn
  <2>2. Cardinality(Handles) \in Nat
    BY StreamTables, FS_CardinalityType
  <2>3. QED
    BY <1>1, <2>1, <2>2, CountIsOfWindows, FS_EmptySet DEF StreamInit, CountHolds
<1>6. QED
  BY <1>2, <1>3, <1>4, <1>5 DEF StreamInv

\* Requests.
LEMMA AskPlaylistKeeps ==
  ASSUME StreamInv, NEW r \in Readers, NEW k \in Plays, NEW m \in Playlists,
         NEW c \in Capabilities \cup {None}, AskPlaylist(r, k, m, c)
  PROVE  StreamInv'
<1>1. /\ Enters(k, c) /\ reader' = [reader EXCEPT ![r] = [play |-> k, list |-> m, cap |-> c]]
      /\ UNCHANGED <<negotiating, handle, playing, windowCount, promise, used, clock>>
  BY DEF AskPlaylist, storeVars, history
<1>2. /\ BindingsMove /\ CredentialsStay
      /\ Strict(k) => binding'[Tries[k]] # "unused"
      /\ c # None => Credited(k, c, 0)'
  BY <1>1, EnteringMoves DEF StreamInv
<1>3. TablesSettle(LivePlays')
  BY <1>1, <1>2, LivingOn, StillSettles
<1>4. PICK e \in Reading : e = [play |-> k, list |-> m, cap |-> c]
  BY DEF Reading
<1>5. e.play = k /\ e.cap = c
  BY <1>4
<1>6. reader' = [reader EXCEPT ![r] = e]
  BY <1>1, <1>4
<1>7. \A q \in Readers : reader'[q] = IF q = r THEN e ELSE reader[q]
  BY <1>6 DEF StreamInv, StreamTypes, TablesTypeOK
<1>8. reader' \in [Readers -> Reading \cup {None}]
  BY <1>6 DEF StreamInv, StreamTypes, TablesTypeOK
<1>9. ASSUME NEW q \in Readers, reader'[q] # None
      PROVE  \/ reader'[q] = reader[q]
             \/ /\ Strict(reader'[q].play) => binding'[Tries[reader'[q].play]] # "unused"
                /\ reader'[q].cap # None => Credited(reader[q].play, reader[q].cap, 0)'
  <2>1. CASE q # r
    BY <1>7, <2>1
  <2>2. CASE q = r
    <3>1. reader'[q].play = k /\ reader'[q].cap = c
      BY <1>5, <1>7, <2>2
    <3>2. c # None => Credited(reader[q].play, reader[q].cap, 0)'
      BY <1>2, <3>1 DEF Credited, Strict, Live
    <3>3. QED
      BY <1>2, <3>1, <3>2
  <2>3. QED
    BY <2>1, <2>2
<1>10. clock <= clock' /\ clock' \in 0 .. Horizon /\ negotiating' \subseteq Attempts
  BY <1>1, StreamTimes DEF StreamInv, StreamTypes, TablesTypeOK
<1>11. QED
  BY <1>1, <1>2, <1>3, <1>8, <1>9, <1>10, InvariantKept

LEMMA FetchResourceKeeps ==
  ASSUME StreamInv, NEW r \in Readers, NEW h \in Handles,
         NEW c \in Capabilities \cup {None}, FetchResource(r, h, c)
  PROVE  StreamInv'
<1>1. PICK k \in Plays : k = handle[h].play
  BY DEF FetchResource, Fetchable, StreamInv, StreamTypes, TablesTypeOK, Resource
<1>2. /\ handle[h] # None /\ ~Lapsed(h) /\ Enters(k, c)
      /\ playing' = [playing EXCEPT ![k].expires = clock + IdleTTL]
      /\ used' = [used EXCEPT ![k] = clock]
      /\ UNCHANGED <<negotiating, handle, windowCount, promise, clock>>
  BY <1>1 DEF FetchResource, Fetchable
<1>3. /\ BindingsMove /\ CredentialsStay
      /\ Strict(k) => binding'[Tries[k]] # "unused"
      /\ c # None => Credited(k, c, 0)'
  BY <1>2, EnteringMoves DEF StreamInv
<1>4. playing[k] # None /\ ~IsGone(k)
  BY <1>1, <1>2 DEF Lapsed, StreamInv, Tables, EntriesGiven
<1>5. /\ Tables(handle, playing', promise, used', clock, LivePlays')
      /\ playing' \in [Plays -> ResourceSession \cup {None}]
      /\ used' \in [Plays -> Nat]
      /\ \A j \in Plays : /\ (playing'[j] = None) = (playing[j] = None)
                          /\ playing[j] # None => playing'[j].windows = playing[j].windows
  <2>1. PICK M \in SUBSET Plays : M = LivePlays'
    BY <1>3, LivingOn
  <2>2. Tables(handle, playing, promise, used, clock, M)
    BY <1>3, <2>1, LivingOn
  <2>3. QED
    BY <1>2, <1>4, <2>1, <2>2, FetchingKeeps DEF StreamInv
<1>6. CountHolds'
  BY <1>2, <1>5, CountStays DEF StreamInv
<1>7. TablesSettle(LivePlays')
  BY <1>2, <1>5, <1>6 DEF TablesSettle, StreamInv, StreamTypes, TablesTypeOK
<1>8. clock <= clock' /\ clock' \in 0 .. Horizon /\ negotiating' \subseteq Attempts
  BY <1>2, StreamTimes DEF StreamInv, StreamTypes, TablesTypeOK
<1>9. CASE reader' = reader
  <2>1. reader' \in [Readers -> Reading \cup {None}]
    BY <1>9 DEF StreamInv, StreamTypes, TablesTypeOK
  <2>2. QED
    BY <1>2, <1>3, <1>7, <1>8, <1>9, <2>1, InvariantKept
<1>10. ASSUME NEW m \in Playlists, reader' = [reader EXCEPT ![r] = [play |-> k, list |-> m, cap |-> c]]
       PROVE  StreamInv'
  <2>1. PICK e \in Reading : e = [play |-> k, list |-> m, cap |-> c]
    BY DEF Reading
  <2>2. e.play = k /\ e.cap = c
    BY <2>1
  <2>3. reader' = [reader EXCEPT ![r] = e]
    BY <1>10, <2>1
  <2>4. \A q \in Readers : reader'[q] = IF q = r THEN e ELSE reader[q]
    BY <2>3 DEF StreamInv, StreamTypes, TablesTypeOK
  <2>5. reader' \in [Readers -> Reading \cup {None}]
    BY <2>3 DEF StreamInv, StreamTypes, TablesTypeOK
  <2>6. ASSUME NEW q \in Readers, reader'[q] # None
        PROVE  \/ reader'[q] = reader[q]
               \/ /\ Strict(reader'[q].play) => binding'[Tries[reader'[q].play]] # "unused"
                  /\ reader'[q].cap # None => Credited(reader[q].play, reader[q].cap, 0)'
    <3>1. CASE q # r
      BY <2>4, <3>1
    <3>2. CASE q = r
      <4>1. reader'[q].play = k /\ reader'[q].cap = c
        BY <2>2, <2>4, <3>2
      <4>2. c # None => Credited(reader[q].play, reader[q].cap, 0)'
        BY <1>3, <4>1 DEF Credited, Strict, Live
      <4>3. QED
        BY <1>3, <4>1, <4>2
    <3>3. QED
      BY <3>1, <3>2
  <2>7. QED
    BY <1>2, <1>3, <1>7, <1>8, <2>5, <2>6, InvariantKept
<1>11. QED
  BY <1>1, <1>9, <1>10 DEF FetchResource

LEMMA FetchTooLateKeeps ==
  ASSUME StreamInv, NEW h \in Handles, NEW c \in Capabilities \cup {None}, FetchTooLate(h, c)
  PROVE  StreamInv'
<1>1. PICK k \in Plays : k = handle[h].play
  BY DEF FetchTooLate, Lapsed, StreamInv, StreamTypes, TablesTypeOK, Resource
<1>2. /\ Enters(k, c) /\ Prune /\ UNCHANGED <<negotiating, reader, clock, promise, used>>
  BY <1>1 DEF FetchTooLate, history
<1>3. BindingsMove /\ CredentialsStay
  BY <1>2, EnteringMoves DEF StreamInv
<1>4. TablesSettle(LivePlays')
  <2>1. PICK M \in SUBSET Plays : M = LivePlays'
    BY <1>3, LivingOn
  <2>2. TablesSettle(M)
    BY <1>2, <1>3, <2>1, LivingOn, PruneSettles
  <2>3. QED
    BY <2>1, <2>2
<1>5. /\ clock <= clock' /\ clock' \in 0 .. Horizon /\ negotiating' \subseteq Attempts
      /\ reader' \in [Readers -> Reading \cup {None}]
  BY <1>2, StreamTimes DEF StreamInv, StreamTypes, TablesTypeOK
<1>6. QED
  BY <1>2, <1>3, <1>4, <1>5, InvariantKept

\* The playlist names what it gives with the credential of its request.
LEMMA AnswerPlaylistKeeps ==
  ASSUME StreamInv, NEW r \in Readers, NEW urls \in SUBSET URLs, NEW rolling \in BOOLEAN,
         AnswerPlaylist(r, urls, rolling)
  PROVE  StreamInv'
<1>1. PICK e \in Reading : e = reader[r] /\ reader[r] # None
  BY DEF AnswerPlaylist, StreamInv, StreamTypes, TablesTypeOK
<1>2. PICK k \in Plays, m \in Playlists \cup {None}, c \in Capabilities \cup {None} :
        /\ k = e.play /\ m = (IF rolling THEN e.list ELSE None) /\ c = e.cap
  BY DEF Reading
<1>3. /\ Register(k, urls, m, c)
      /\ reader' = [reader EXCEPT ![r] = None]
      /\ UNCHANGED <<binding, negotiating, capability, clock>>
  BY <1>1, <1>2 DEF AnswerPlaylist, bindingVars
<1>4. clock \in Nat /\ clock <= clock' /\ clock' \in Nat /\ clock' \in 0 .. Horizon
  BY <1>3, StreamTimes DEF StreamInv, StreamTypes, TablesTypeOK
<1>5. BindingsMove /\ CredentialsStay
  BY <1>3, <1>4, IdleCredentials DEF StreamInv
<1>6. /\ TablesSettle(LivePlays')
      /\ GivenAnew(k, c)
  <2>1. PICK M \in SUBSET Plays : M = LivePlays'
    BY <1>5, LivingOn
  <2>2. Tables(handle, playing, promise, used, clock, M)
    BY <1>5, <2>1, LivingOn
  <2>3. clock' = clock
    BY <1>3
  <2>4. /\ TablesSettle(M)
        /\ GivenAnew(k, c)
    BY <1>3, <2>2, <2>3, RegistrationSettles
  <2>5. QED
    BY <2>1, <2>4
<1>7. Strict(k) => binding'[Tries[k]] # "unused"
  BY <1>1, <1>2, <1>3 DEF StreamInv, UnusedIsNew
<1>8. ASSUME c # None
      PROVE  Credited(k, c, LastUse(c, Tries[k]))
  <2>1. Credited(k, c, 0)
    BY <1>1, <1>2, <1>8 DEF StreamInv, CredentialsKept
  <2>2. CASE capability[c] # None /\ capability[c].attempt = Tries[k]
    <3>1. capability[c].used \in Nat /\ LastUse(c, Tries[k]) = capability[c].used
      BY <1>8, <2>2 DEF LastUse, StreamInv, StreamTypes, TablesTypeOK, Credential
    <3>2. QED
      BY <2>1, <2>2, <3>1 DEF Credited
  <2>3. CASE ~(capability[c] # None /\ capability[c].attempt = Tries[k])
    <3>1. LastUse(c, Tries[k]) = 0
      BY <2>3 DEF LastUse
    <3>2. QED
      BY <2>1, <3>1
  <2>4. QED
    BY <2>2, <2>3
<1>9. ASSUME NEW h \in Handles, promise'[h] # None
      PROVE  \/ promise'[h] = promise[h]
             \/ /\ Strict(promise'[h].play) => binding'[Tries[promise'[h].play]] # "unused"
                /\ promise'[h].cap # None => Credited(promise[h].play, promise[h].cap, promise[h].shown)'
  <2>1. CASE /\ promise'[h].play = k /\ promise'[h].cap = c
             /\ promise'[h].shown = LastUse(c, Tries[k])
    <3>1. c # None => Credited(promise[h].play, promise[h].cap, promise[h].shown)'
      BY <1>3, <1>8, <2>1 DEF Credited, Strict, Live
    <3>2. QED
      BY <1>7, <2>1, <3>1
  <2>2. QED
    BY <1>6, <2>1 DEF GivenAnew
<1>10. /\ negotiating' \subseteq Attempts /\ reader' \in [Readers -> Reading \cup {None}]
       /\ \A q \in Readers : reader'[q] # None => reader'[q] = reader[q]
  BY <1>3 DEF StreamInv, StreamTypes, TablesTypeOK
<1>11. QED
  BY <1>3, <1>4, <1>5, <1>6, <1>9, <1>10, InvariantKept

LEMMA PlaylistFailsKeeps ==
  ASSUME StreamInv, NEW r \in Readers, PlaylistFails(r)
  PROVE  StreamInv'
<1>1. /\ reader' = [reader EXCEPT ![r] = None]
      /\ UNCHANGED <<binding, negotiating, handle, playing, windowCount, capability, clock, promise, used>>
  BY DEF PlaylistFails, bindingVars, storeVars, history
<1>2. clock <= clock' /\ clock' \in Nat /\ clock' \in 0 .. Horizon
  BY <1>1, StreamTimes DEF StreamInv, StreamTypes, TablesTypeOK
<1>3. BindingsMove /\ CredentialsStay
  BY <1>1, <1>2, IdleCredentials DEF StreamInv
<1>4. TablesSettle(LivePlays')
  BY <1>1, <1>3, LivingOn, StillSettles
<1>5. /\ negotiating' \subseteq Attempts /\ reader' \in [Readers -> Reading \cup {None}]
      /\ \A q \in Readers : reader'[q] # None => reader'[q] = reader[q]
  BY <1>1 DEF StreamInv, StreamTypes, TablesTypeOK
<1>6. QED
  BY <1>1, <1>2, <1>3, <1>4, <1>5, InvariantKept

\* Negotiations.
LEMMA LegacyInfoKeeps ==
  ASSUME StreamInv, NEW k \in Plays, NEW urls \in SUBSET URLs, LegacyInfo(k, urls)
  PROVE  StreamInv'
<1>1. /\ ~Strict(k) /\ Register(k, urls, None, None)
      /\ UNCHANGED <<binding, negotiating, capability, reader>> /\ clock' = clock
  BY DEF LegacyInfo, bindingVars
<1>2. clock <= clock' /\ clock' \in Nat /\ clock' \in 0 .. Horizon
  BY <1>1, StreamTimes DEF StreamInv, StreamTypes, TablesTypeOK
<1>3. BindingsMove /\ CredentialsStay
  BY <1>1, <1>2, IdleCredentials DEF StreamInv
<1>4. /\ TablesSettle(LivePlays')
      /\ \A h \in Handles : promise'[h] = promise[h]
           \/ /\ promise'[h].play = k /\ promise'[h].cap = None
  <2>1. PICK M \in SUBSET Plays : M = LivePlays'
    BY <1>3, LivingOn
  <2>2. Tables(handle, playing, promise, used, clock, M)
    BY <1>3, <2>1, LivingOn
  <2>3. /\ TablesSettle(M)
        /\ GivenAnew(k, None)
    BY <1>1, <2>2, RegistrationSettles
  <2>4. QED
    BY <2>1, <2>3 DEF GivenAnew
<1>5. /\ negotiating' \subseteq Attempts /\ reader' \in [Readers -> Reading \cup {None}]
  BY <1>1 DEF StreamInv, StreamTypes, TablesTypeOK
<1>6. QED
  BY <1>1, <1>2, <1>3, <1>4, <1>5, InvariantKept

LEMMA CommitKeeps ==
  ASSUME StreamInv, NEW k \in Plays, NEW urls \in SUBSET URLs, NEW c \in Capabilities,
         CommitNegotiation(k, urls, c)
  PROVE  StreamInv'
<1>1. /\ Strict(k) /\ Tries[k] \in negotiating
      /\ capability[c] # None /\ capability[c].attempt = Tries[k]
      /\ negotiating' \subseteq negotiating
      /\ UNCHANGED <<binding, capability, reader>> /\ clock' = clock
      /\ \/ UNCHANGED <<handle, playing, windowCount, promise, used>>
         \/ Register(k, urls, None, c)
  BY DEF CommitNegotiation, storeVars, history
<1>2. clock <= clock' /\ clock' \in Nat /\ clock' \in 0 .. Horizon
  BY <1>1, StreamTimes DEF StreamInv, StreamTypes, TablesTypeOK
<1>3. BindingsMove /\ CredentialsStay
  BY <1>1, <1>2, IdleCredentials DEF StreamInv
<1>4. /\ TablesSettle(LivePlays')
      /\ GivenAnew(k, c)
  <2>1. PICK M \in SUBSET Plays : M = LivePlays'
    BY <1>3, LivingOn
  <2>2. Tables(handle, playing, promise, used, clock, M)
    BY <1>3, <2>1, LivingOn
  <2>3. CASE UNCHANGED <<handle, playing, windowCount, promise, used>>
    <3>1. TablesSettle(M)
      BY <1>1, <2>2, <2>3, StillSettles
    <3>2. QED
      BY <2>1, <2>3, <3>1 DEF GivenAnew
  <2>4. CASE Register(k, urls, None, c)
    <3>1. /\ TablesSettle(M)
          /\ GivenAnew(k, c)
      BY <1>1, <2>2, <2>4, RegistrationSettles
    <3>2. QED
      BY <2>1, <3>1
  <2>5. QED
    BY <1>1, <2>3, <2>4
<1>5. binding'[Tries[k]] # "unused"
  BY <1>1 DEF StreamInv, UnusedIsNew
<1>6. Credited(k, c, LastUse(c, Tries[k]))
  <2>1. capability[c].used \in Nat /\ LastUse(c, Tries[k]) = capability[c].used
    BY <1>1, NoneIsNowhere DEF LastUse, StreamInv, StreamTypes, TablesTypeOK, Credential
  <2>2. QED
    BY <1>1, <2>1 DEF Credited
<1>7. ASSUME NEW h \in Handles, promise'[h] # None
      PROVE  \/ promise'[h] = promise[h]
             \/ /\ Strict(promise'[h].play) => binding'[Tries[promise'[h].play]] # "unused"
                /\ promise'[h].cap # None => Credited(promise[h].play, promise[h].cap, promise[h].shown)'
  <2>1. CASE /\ promise'[h].play = k /\ promise'[h].cap = c
             /\ promise'[h].shown = LastUse(c, Tries[k])
    <3>1. Credited(promise[h].play, promise[h].cap, promise[h].shown)'
      BY <1>1, <1>6, <2>1 DEF Credited, Strict, Live
    <3>2. QED
      BY <1>5, <2>1, <3>1
  <2>2. QED
    BY <1>4, <2>1 DEF GivenAnew
<1>8. /\ negotiating' \subseteq Attempts /\ reader' \in [Readers -> Reading \cup {None}]
  BY <1>1 DEF StreamInv, StreamTypes, TablesTypeOK
<1>9. QED
  BY <1>1, <1>2, <1>3, <1>4, <1>7, <1>8, InvariantKept

LEMMA ReclaimKeeps ==
  ASSUME StreamInv, ReclaimAttempts
  PROVE  StreamInv'
<1>1. /\ RemoveAttempts(StaleAttempts)
      /\ RevokeAttempts({a \in Attempts : binding[a] \in {"unused", "forgotten"}})
      /\ UNCHANGED <<binding, negotiating, reader, promise, used>> /\ clock' = clock
  BY DEF ReclaimAttempts, bindingVars, history
<1>2. clock <= clock' /\ clock' \in 0 .. Horizon
  BY <1>1, StreamTimes DEF StreamInv, StreamTypes, TablesTypeOK
<1>3. BindingsMove
  BY <1>1 DEF BindingsMove, Live, StreamInv, StreamTypes, TablesTypeOK
<1>4. CredentialsStay
  <2>1. \A a \in Attempts \cap {b \in Attempts : binding[b] \in {"unused", "forgotten"}} :
          binding'[a] \notin {"pending", "active"}
    BY <1>1
  <2>2. QED
    BY <1>1, <2>1, RevokingKeeps DEF StreamInv
<1>5. TablesSettle(LivePlays')
  <2>1. PICK M \in SUBSET Plays : M = LivePlays'
    BY <1>3, LivingOn
  <2>2. \A k \in M : Strict(k) => Tries[k] \notin StaleAttempts
    BY <1>1, <2>1 DEF LivePlays, StaleAttempts, Live, Strict
  <2>3. TablesSettle(M)
    BY <1>1, <1>3, <2>1, <2>2, LivingOn, RemovalSettles
  <2>4. QED
    BY <2>1, <2>3
<1>6. /\ negotiating' \subseteq Attempts /\ reader' \in [Readers -> Reading \cup {None}]
  BY <1>1 DEF StreamInv, StreamTypes, TablesTypeOK
<1>7. QED
  BY <1>1, <1>2, <1>3, <1>4, <1>5, <1>6, InvariantKept

LEMMA ReserveKeeps ==
  ASSUME StreamInv, NEW a \in Attempts, ReserveAttempt(a)
  PROVE  StreamInv'
<1> USE DEF StreamTypes, TablesTypeOK
<1>1. /\ binding[a] = "unused" /\ binding' = [binding EXCEPT ![a] = "pending"]
      /\ negotiating' = negotiating \cup {a}
      /\ UNCHANGED <<handle, playing, windowCount, capability, reader, promise, used>>
      /\ clock' = clock
  BY DEF ReserveAttempt, storeVars, history
<1>2. clock <= clock' /\ clock' \in Nat /\ clock' \in 0 .. Horizon
  BY <1>1, StreamTimes DEF StreamInv
<1>3. BindingsMove
  BY <1>1 DEF BindingsMove, Live, StreamInv
<1>4. CredentialsStay
  <2>1. \A c \in Capabilities : capability[c] # None => capability[c].used <= capability[c].used
    BY DEF Credential, StreamInv
  <2>2. QED
    BY <1>1, <2>1 DEF CredentialsStay, StreamInv, CredentialsKept
<1>5. TablesSettle(LivePlays')
  BY <1>1, <1>3, LivingOn, StillSettles
<1>6. /\ negotiating' \subseteq Attempts /\ reader' \in [Readers -> Reading \cup {None}]
      /\ \A b \in negotiating' : b \in negotiating \/ binding'[b] # "unused"
  BY <1>1 DEF StreamInv
<1>7. QED
  BY <1>1, <1>2, <1>3, <1>4, <1>5, <1>6, InvariantKept

LEMMA IssueKeeps ==
  ASSUME StreamInv, NEW a \in Attempts, NEW c \in Capabilities, IssueCapability(a, c)
  PROVE  StreamInv'
<1> USE DEF StreamTypes, TablesTypeOK
<1>1. /\ KeptCapabilities[c] = None
      /\ capability' = [KeptCapabilities EXCEPT ![c] = [attempt |-> a, used |-> clock]]
      /\ UNCHANGED <<binding, negotiating, handle, playing, windowCount, reader, promise, used>>
      /\ clock' = clock
  BY DEF IssueCapability, bindingVars, storeVars, history
<1>2. clock <= clock' /\ clock' \in Nat /\ clock' \in 0 .. Horizon /\ clock \in Nat
  BY <1>1, StreamTimes DEF StreamInv
<1>3. BindingsMove
  BY <1>1 DEF BindingsMove, Live, StreamInv
<1>4. CredentialsStay
  <2>1. \A d \in Capabilities : KeptCapabilities[d] = IF Unused(d) THEN None ELSE capability[d]
    BY DEF KeptCapabilities
  <2>2. PICK f \in Credential : f = [attempt |-> a, used |-> clock]
    BY <1>2 DEF Credential
  <2>3. f.used = clock
    BY <2>2
  <2>4. \A d \in Capabilities : capability'[d] = IF d = c THEN f ELSE KeptCapabilities[d]
    BY <1>1, <2>2 DEF KeptCapabilities
  <2>5. capability' \in [Capabilities -> Credential \cup {None}]
    <3>1. capability' = [d \in Capabilities |-> capability'[d]]
      BY <1>1 DEF KeptCapabilities
    <3>2. QED
      BY <2>1, <2>4, <3>1 DEF StreamInv
  <2>6. ASSUME NEW d \in Capabilities, capability[d] # None
        PROVE  /\ capability[d].used \in Nat /\ capability[d].used <= clock
               /\ clock < capability[d].used + CapabilityTTL => ~Unused(d)
    <3>1. capability[d].used \in Nat /\ capability[d].used <= clock
      BY <2>6 DEF CredentialsKept, Credential, StreamInv
    <3>2. clock < capability[d].used + CapabilityTTL => ~(clock - capability[d].used >= CapabilityTTL)
      BY <1>2, <3>1, StreamTimes
    <3>3. QED
      BY <3>1, <3>2 DEF Unused
  <2>7. ASSUME NEW d \in Capabilities, capability'[d] # None
        PROVE  capability'[d].used <= clock'
    BY <1>2, <2>1, <2>3, <2>4, <2>6, <2>7
  <2>8. ASSUME NEW d \in Capabilities, capability[d] # None,
               clock' < capability[d].used + CapabilityTTL
        PROVE  /\ capability'[d] # None /\ capability'[d].attempt = capability[d].attempt
               /\ capability[d].used <= capability'[d].used
    <3>1. KeptCapabilities[d] = capability[d]
      BY <1>1, <2>1, <2>6, <2>8
    <3>2. d # c
      BY <1>1, <2>8, <3>1
    <3>3. QED
      BY <2>4, <2>6, <2>8, <3>1, <3>2
  <2>9. QED
    BY <2>5, <2>7, <2>8 DEF CredentialsStay
<1>5. TablesSettle(LivePlays')
  BY <1>1, <1>3, LivingOn, StillSettles
<1>6. /\ negotiating' \subseteq Attempts /\ reader' \in [Readers -> Reading \cup {None}]
  BY <1>1 DEF StreamInv
<1>7. QED
  BY <1>1, <1>2, <1>3, <1>4, <1>5, <1>6, InvariantKept

LEMMA RollBackKeeps ==
  ASSUME StreamInv, NEW a \in Attempts, RollBack(a)
  PROVE  StreamInv'
<1> USE DEF StreamTypes, TablesTypeOK
<1>1. /\ negotiating' = negotiating \ {a}
      /\ binding' = [binding EXCEPT ![a] = IF Live(a) THEN "over" ELSE @]
      /\ RemoveAttempts({a}) /\ RevokeAttempts({a})
      /\ UNCHANGED <<reader, promise, used>> /\ clock' = clock
  BY DEF RollBack, history
<1>2. clock <= clock' /\ clock' \in 0 .. Horizon
  BY <1>1, StreamTimes DEF StreamInv
<1>3. BindingsMove
  BY <1>1 DEF BindingsMove, Live, StreamInv
<1>4. binding'[a] \notin {"pending", "active"}
  BY <1>1 DEF Live, StreamInv
<1>5. CredentialsStay
  BY <1>1, <1>4, RevokingKeeps DEF StreamInv
<1>6. TablesSettle(LivePlays')
  <2>1. PICK M \in SUBSET Plays : M = LivePlays'
    BY <1>3, LivingOn
  <2>2. \A k \in M : Strict(k) => Tries[k] \notin {a}
    BY <1>4, <2>1 DEF LivePlays, Live, Strict
  <2>3. TablesSettle(M)
    BY <1>1, <1>3, <2>1, <2>2, LivingOn, RemovalSettles
  <2>4. QED
    BY <2>1, <2>3
<1>7. /\ negotiating' \subseteq Attempts /\ reader' \in [Readers -> Reading \cup {None}]
  BY <1>1 DEF StreamInv
<1>8. QED
  BY <1>1, <1>2, <1>3, <1>5, <1>6, <1>7, InvariantKept

LEMMA EndKeeps ==
  ASSUME StreamInv, NEW a \in Attempts, EndAttempt(a) \/ ForgetAttempt(a)
  PROVE  StreamInv'
<1> USE DEF StreamTypes, TablesTypeOK
<1>1. /\ \E b \in {"over", "forgotten"} : binding' = [binding EXCEPT ![a] = b]
      /\ UNCHANGED <<negotiating, capability, reader, promise, used>> /\ clock' = clock
      /\ RemoveAttempts({a}) \/ UNCHANGED <<handle, playing, windowCount>>
  BY DEF EndAttempt, ForgetAttempt, storeVars, history
<1>2. clock <= clock' /\ clock' \in 0 .. Horizon
  BY <1>1, StreamTimes DEF StreamInv
<1>3. BindingsMove /\ binding'[a] \notin {"pending", "active"}
  BY <1>1 DEF BindingsMove, Live, StreamInv
<1>4. CredentialsStay
  <2>1. \A c \in Capabilities : capability[c] # None => capability[c].used <= capability[c].used
    BY DEF Credential, StreamInv
  <2>2. QED
    BY <1>1, <2>1 DEF CredentialsStay, StreamInv, CredentialsKept
<1>5. TablesSettle(LivePlays')
  <2>1. PICK M \in SUBSET Plays : M = LivePlays'
    BY <1>3, LivingOn
  <2>2. \A k \in M : Strict(k) => Tries[k] \notin {a}
    BY <1>3, <2>1 DEF LivePlays, Live, Strict
  <2>3. Tables(handle, playing, promise, used, clock, M)
    BY <1>3, <2>1, LivingOn
  <2>4. TablesSettle(M)
    BY <1>1, <2>2, <2>3, RemovalSettles, StillSettles
  <2>5. QED
    BY <2>1, <2>4
<1>6. /\ negotiating' \subseteq Attempts /\ reader' \in [Readers -> Reading \cup {None}]
  BY <1>1 DEF StreamInv
<1>7. QED
  BY <1>1, <1>2, <1>3, <1>4, <1>5, <1>6, InvariantKept

LEMMA TickClockKeeps ==
  ASSUME StreamInv, TickClock
  PROVE  StreamInv'
<1> USE DEF StreamTypes, TablesTypeOK
<1>1. /\ clock < Horizon /\ clock' = clock + 1
      /\ UNCHANGED <<binding, negotiating, handle, playing, windowCount, capability, reader, used>>
  BY DEF TickClock, bindingVars, storeVars
<1>2. clock <= clock' /\ clock' \in Nat /\ clock' \in 0 .. Horizon /\ clock' >= clock
  BY <1>1, StreamTimes DEF StreamInv
<1>3. BindingsMove /\ CredentialsStay
  BY <1>1, <1>2, IdleCredentials DEF StreamInv
<1>4. TablesSettle(LivePlays')
  <2>1. PICK M \in SUBSET Plays : M = LivePlays'
    BY <1>3, LivingOn
  <2>2. Tables(handle, playing, promise, used, clock, M)
    BY <1>3, <2>1, LivingOn
  <2>3. Tables(handle, playing, promise', used, clock', M) /\ promise' \in [Handles -> Given \cup {None}]
    BY <2>2, TickingKeeps DEF StreamInv
  <2>4. CountHolds'
    BY <1>1, CountStays DEF StreamInv
  <2>5. QED
    BY <1>1, <2>1, <2>3, <2>4 DEF TablesSettle, StreamInv
<1>5. /\ negotiating' \subseteq Attempts /\ reader' \in [Readers -> Reading \cup {None}]
  BY <1>1 DEF StreamInv
<1>6. \A h \in Handles : promise'[h] # None => promise'[h] = promise[h]
  BY DEF TickClock, StreamInv
<1>7. QED
  BY <1>1, <1>2, <1>3, <1>4, <1>5, <1>6, InvariantKept

\* The invariant is inductive.
LEMMA StreamInvKept == StreamInv /\ [StreamNext]_streamVars => StreamInv'
<1>1. SUFFICES ASSUME StreamInv, [StreamNext]_streamVars PROVE StreamInv'
  OBVIOUS
<1>2. ASSUME NEW r \in Readers, NEW k \in Plays, NEW m \in Playlists, NEW c \in Capabilities \cup {None},
             AskPlaylist(r, k, m, c)
      PROVE  StreamInv'
  BY <1>1, <1>2, AskPlaylistKeeps
<1>3. ASSUME NEW r \in Readers, NEW h \in Handles, NEW c \in Capabilities \cup {None}, FetchResource(r, h, c)
      PROVE  StreamInv'
  BY <1>1, <1>3, FetchResourceKeeps
<1>4. ASSUME NEW h \in Handles, NEW c \in Capabilities \cup {None}, FetchTooLate(h, c)
      PROVE  StreamInv'
  BY <1>1, <1>4, FetchTooLateKeeps
<1>5. ASSUME NEW r \in Readers, NEW urls \in SUBSET URLs, NEW rolling \in BOOLEAN,
             AnswerPlaylist(r, urls, rolling)
      PROVE  StreamInv'
  BY <1>1, <1>5, AnswerPlaylistKeeps
<1>6. ASSUME NEW r \in Readers, PlaylistFails(r)
      PROVE  StreamInv'
  BY <1>1, <1>6, PlaylistFailsKeeps
<1>7. ASSUME NEW k \in Plays, NEW urls \in SUBSET URLs, LegacyInfo(k, urls)
      PROVE  StreamInv'
  BY <1>1, <1>7, LegacyInfoKeeps
<1>8. CASE ReclaimAttempts
  BY <1>1, <1>8, ReclaimKeeps
<1>9. ASSUME NEW a \in Attempts, NEW c \in Capabilities, IssueCapability(a, c)
      PROVE  StreamInv'
  BY <1>1, <1>9, IssueKeeps
<1>10. ASSUME NEW k \in Plays, NEW urls \in SUBSET URLs, NEW c \in Capabilities,
              CommitNegotiation(k, urls, c)
       PROVE  StreamInv'
  BY <1>1, <1>10, CommitKeeps
<1>11. ASSUME NEW a \in Attempts,
              ReserveAttempt(a) \/ RollBack(a) \/ EndAttempt(a) \/ ForgetAttempt(a)
       PROVE  StreamInv'
  BY <1>1, <1>11, ReserveKeeps, RollBackKeeps, EndKeeps
<1>12. CASE TickClock
  BY <1>1, <1>12, TickClockKeeps
<1>13. CASE UNCHANGED streamVars
  <2>1. UNCHANGED <<binding, negotiating, handle, playing, windowCount, capability, reader, clock,
                    promise, used>>
    BY <1>13 DEF streamVars, bindingVars, storeVars, history
  <2>2. clock <= clock' /\ clock' \in Nat /\ clock' \in 0 .. Horizon /\ clock' >= clock
    BY <1>1, <2>1, StreamTimes DEF StreamInv, StreamTypes, TablesTypeOK
  <2>3. BindingsMove /\ CredentialsStay
    BY <1>1, <2>1, <2>2, IdleCredentials DEF StreamInv
  <2>4. TablesSettle(LivePlays')
    BY <1>1, <2>1, <2>3, LivingOn, StillSettles
  <2>5. negotiating' \subseteq Attempts /\ reader' \in [Readers -> Reading \cup {None}]
    BY <1>1, <2>1 DEF StreamInv, StreamTypes, TablesTypeOK
  <2>6. QED
    BY <1>1, <2>1, <2>2, <2>3, <2>4, <2>5, InvariantKept
<1>14. QED
  BY <1>1, <1>2, <1>3, <1>4, <1>5, <1>6, <1>7, <1>8, <1>9, <1>10, <1>11, <1>12, <1>13 DEF StreamNext

\* What the property says follows.
LEMMA GivenIsUsable == StreamInv => GivenStaysUsable
<1>1. SUFFICES ASSUME StreamInv, NEW h \in Handles, promise[h] # None,
                      ~Strict(promise[h].play) \/ Live(Tries[promise[h].play])
               PROVE  /\ promise[h].vod
                         \/ (\E m \in Playlists : playing[promise[h].play] # None
                               /\ m \in WindowsOf(promise[h].play)
                               /\ h \in playing[promise[h].play].windows[m])
                         \/ clock < promise[h].at + CatchupGrace
                           => Fetchable(h) /\ handle[h].play = promise[h].play
                      /\ promise[h].cap # None /\ clock < promise[h].shown + CapabilityTTL
                           => /\ capability[promise[h].cap] # None
                              /\ capability[promise[h].cap].attempt = Tries[promise[h].play]
  BY DEF GivenStaysUsable
<1> USE DEF StreamTypes, TablesTypeOK
<1>2. PICK p \in Given : p = promise[h]
  BY <1>1 DEF StreamInv
<1>3. p.play \in Plays /\ p.cap \in Capabilities \cup {None} /\ p.at \in Nat
  BY DEF Given
<1>4. p.play \in LivePlays
  BY <1>1, <1>2, <1>3 DEF LivePlays
<1>5. PromiseKept(handle[h], playing, p, used, clock, LivePlays)
  BY <1>1, <1>2 DEF StreamInv, Tables, PromisesKept
<1>6. ~IsGone(p.play) /\ playing[p.play] # None
  <2>1. playing[p.play] # None /\ clock < used[p.play] + IdleTTL
    BY <1>4, <1>5 DEF PromiseKept
  <2>2. playing[p.play].expires = used[p.play] + IdleTTL
    BY <1>1, <1>3, <2>1 DEF StreamInv, Tables, Timed
  <2>3. used[p.play] \in Nat /\ clock \in Nat /\ IdleTTL \in Nat
    BY <1>1, <1>3, StreamTimes DEF StreamInv
  <2>4. QED
    BY <2>1, <2>2, <2>3 DEF IsGone
<1>7. ASSUME p.vod \/ clock < p.at + CatchupGrace
      PROVE  Fetchable(h) /\ handle[h].play = p.play
  <2>1. Lasting(handle[h], p)
    BY <1>4, <1>5, <1>7 DEF PromiseKept
  <2>2. handle[h] # None /\ handle[h].play = p.play /\ handle[h].retire \in Nat \cup {None}
    BY <1>1, <2>1 DEF Lasting, StreamInv, Resource
  <2>3. ~IsRetired(h)
    <3>1. clock \in Nat /\ CatchupGrace \in Nat
      BY <1>1, StreamTimes DEF StreamInv
    <3>2. QED
      BY <1>3, <1>7, <2>1, <2>2, <3>1 DEF IsRetired, Lasting
  <2>4. QED
    BY <1>6, <2>2, <2>3 DEF Fetchable, Lapsed
<1>8. ASSUME NEW m \in Playlists, m \in WindowsOf(p.play), h \in playing[p.play].windows[m]
      PROVE  Fetchable(h) /\ handle[h].play = p.play
  <2>1. playing[p.play].windows[m] # None
    BY <1>6, <1>8 DEF WindowsOf
  <2>2. handle[h] # None /\ handle[h].play = p.play /\ handle[h].retire = None
    BY <1>1, <1>3, <1>6, <1>8, <2>1 DEF StreamInv, Tables, WindowsHeld
  <2>3. QED
    BY <1>6, <2>2 DEF Fetchable, Lapsed, IsRetired
<1>9. ASSUME p.cap # None, clock < p.shown + CapabilityTTL
      PROVE  capability[p.cap] # None /\ capability[p.cap].attempt = Tries[p.play]
  <2>1. Credited(p.play, p.cap, p.shown)
    BY <1>1, <1>2, <1>9 DEF StreamInv, CredentialsKept
  <2>2. QED
    BY <1>1, <1>2, <1>9, <2>1 DEF Credited
<1>10. QED
  BY <1>2, <1>7, <1>8, <1>9

\* What a player was given stays usable for as long as it was given, whatever else
\* registers, reclaims, retires or looks up, for any number of plays, playlists and
\* handles and for every idle time and grace.
THEOREM GivenIsKept == StreamSpec => []GivenStaysUsable
<1>1. StreamInit => StreamInv
  BY StreamInitial
<1>2. StreamInv /\ [StreamNext]_streamVars => StreamInv'
  BY StreamInvKept
<1>3. StreamInv => GivenStaysUsable
  BY GivenIsUsable
<1>4. QED
  BY <1>1, <1>2, <1>3, PTL DEF StreamSpec

\* The types; the count of windows (manifestCount) is theirs and bounds the table
\* whatever expires, is removed or is replaced.
THEOREM WindowsAreCounted == StreamSpec => [](StreamTypeOK /\ windowCount = CountOf(Plays))
<1>1. StreamInit => StreamInv
  BY StreamInitial
<1>2. StreamInv /\ [StreamNext]_streamVars => StreamInv'
  BY StreamInvKept
<1>3. StreamInv => StreamTypeOK /\ windowCount = CountOf(Plays)
  <2>1. Cardinality(Handles) \in Nat
    BY StreamTables, FS_CardinalityType
  <2>2. StreamInv => windowCount = CountOf(Plays) /\ windowCount \in Nat
    BY CountIsOfWindows, WindowsFinite, FS_CardinalityType DEF StreamInv, CountHolds
  <2>3. QED
    BY <2>1, <2>2 DEF StreamInv, StreamTypes, StreamTypeOK, CountHolds
<1>4. QED
  BY <1>1, <1>2, <1>3, PTL DEF StreamSpec

(***************************************************************************)
(* The catalog scan: types of its tables, what holds between the tasks,    *)
(* the fills and the entries of the store.                                 *)
(***************************************************************************)

EntryRecord == [key : Keys, rows : Seq(Nat), window : Nat, complete : BOOLEAN,
                expires : Nat, seen : SUBSET Seq(Nat), fill : Nat]
FillRecord == [entry : Nat, done : BOOLEAN, end : Nat, complete : BOOLEAN]
Work == [pc : {"idle", "called", "leading", "fetching", "finishing", "waiting", "reusing", "done"},
         entry : Nat, fill : Nat, offset : Nat, limit : Nat, added : Nat,
         fellBack : BOOLEAN, rows : Seq(Nat), complete : BOOLEAN, failed : BOOLEAN]

ScanTypes ==
    /\ lists \in [Keys -> Lists]
    /\ now \in Nat
    /\ objs \in Seq(EntryRecord)
    /\ fills \in Seq(FillRecord)
    /\ task \in [Tasks -> Work]
    /\ store.at \in [Keys -> Nat]

\* The entry the store holds for a key is an entry of that key.
KeysKept ==
    \A k \in Keys : store.at[k] # 0 => /\ store.at[k] \in DOMAIN objs
                                       /\ objs[store.at[k]].key = k

\* Whoever leads a fill that has not ended leads that of its key's entry.
Leads(t) ==
    /\ task[t].fill \in DOMAIN fills
    /\ EntryOf(t) \in DOMAIN objs
    /\ Entry(t).fill = task[t].fill
    /\ Entry(t).key = KeyOf(t)
    /\ store.at[KeyOf(t)] = EntryOf(t)

\* An entry under a fill has a leader; a fill has one leader at most.
FillsLed ==
    /\ \A n \in DOMAIN objs : objs[n].fill # 0 =>
          \E t \in Leaders : task[t].fill = objs[n].fill /\ EntryOf(t) = n
    /\ \A s, t \in Leaders : task[s].fill = task[t].fill => s = t

\* Whoever waits for a fill, or is about to look at an entry, does so for its own key.
Awaits(t) ==
    /\ task[t].fill \in DOMAIN fills
    /\ fills[task[t].fill].entry \in DOMAIN objs
    /\ objs[fills[task[t].fill].entry].key = KeyOf(t)
    /\ fills[task[t].fill].done \/ \E s \in Leaders : task[s].fill = task[t].fill
Reuses(t) == task[t].entry \in DOMAIN objs /\ objs[task[t].entry].key = KeyOf(t)

\* What a fill that has ended saw of its entry is still there.
FillsEnded ==
    \A f \in DOMAIN fills : fills[f].done =>
        fills[f].entry \in DOMAIN objs /\ fills[f].end <= Len(objs[fills[f].entry].rows)

Owned ==
    /\ ScanTypes
    /\ KeysKept
    /\ \A t \in Leaders : Leads(t)
    /\ FillsLed
    /\ FillsEnded
    /\ \A t \in Tasks : task[t].pc = "waiting" => Awaits(t)
    /\ \A t \in Tasks : task[t].pc = "reusing" => Reuses(t)
    /\ Cardinality(Stored) <= MaxEntries

-------------------------------------------------------------------------------
(* Eviction: the victims are among the entries that may go.                *)

\* Sooner orders the entries totally.
LEMMA SoonerIsTotal ==
  ASSUME ScanTypes, NEW m \in DOMAIN objs, NEW n \in DOMAIN objs, NEW o \in DOMAIN objs
  PROVE  /\ m # n => Sooner(m, n) \/ Sooner(n, m)
         /\ Sooner(m, n) /\ Sooner(n, o) => Sooner(m, o)
<1>1. \A x \in DOMAIN objs : x \in Nat /\ objs[x].expires \in Nat /\ Class(x) \in 1 .. 3
  <2>1. SUFFICES ASSUME NEW x \in DOMAIN objs
                 PROVE  x \in Nat /\ objs[x].expires \in Nat /\ Class(x) \in 1 .. 3
    OBVIOUS
  <2>2. DOMAIN objs = 1 .. Len(objs) /\ Len(objs) \in Nat /\ objs[x] \in EntryRecord
    BY DEF ScanTypes
  <2>3. objs[x].expires \in Nat
    BY <2>2 DEF EntryRecord
  <2>4. Class(x) \in 1 .. 3
    BY DEF Class
  <2>5. QED
    BY <2>2, <2>3, <2>4
<1>2. QED
  BY <1>1 DEF Sooner

\* What evicting one entry after the other may take: of two cuts, one holds the other.
LEMMA CutsAreNested ==
  ASSUME ScanTypes, NEW able \in SUBSET DOMAIN objs, NEW c \in Cuts(able), NEW d \in Cuts(able)
  PROVE  c \subseteq able /\ (c \subseteq d \/ d \subseteq c)
<1>1. c \subseteq able /\ d \subseteq able
  BY DEF Cuts
<1>2. CASE c = able \/ d = able
  BY <1>1, <1>2
<1>3. CASE c # able /\ d # able
  <2>1. PICK m \in able : c = {x \in able : Sooner(x, m)}
    BY <1>3 DEF Cuts
  <2>2. PICK n \in able : d = {x \in able : Sooner(x, n)}
    BY <1>3 DEF Cuts
  <2>3. /\ m # n => Sooner(m, n) \/ Sooner(n, m)
        /\ \A x \in able : /\ Sooner(x, m) /\ Sooner(m, n) => Sooner(x, n)
                           /\ Sooner(x, n) /\ Sooner(n, m) => Sooner(x, m)
    BY SoonerIsTotal
  <2>4. QED
    BY <1>1, <2>1, <2>2, <2>3
<1>4. QED
  BY <1>2, <1>3

\* The cuts of finitely many entries that leave enough room have a smallest one, so
\* what is evicted is among the entries that may be.
LEMMA VictimsAreAble ==
  ASSUME ScanTypes, NEW able \in SUBSET DOMAIN objs, NEW enough \in SUBSET Cuts(able)
  PROVE  /\ Victims(able, enough) \subseteq able
         /\ enough # {} => Victims(able, enough) \in enough
<1>1. CASE enough = {}
  BY <1>1 DEF Victims
<1>2. CASE enough # {}
  <2>1. IsFiniteSet(able)
    <3>1. Len(objs) \in Nat /\ DOMAIN objs = 1 .. Len(objs)
      BY DEF ScanTypes
    <3>2. IsFiniteSet(DOMAIN objs)
      BY <3>1, FS_Interval, SMT
    <3>3. QED
      BY <3>2, FS_Subset
  <2>2. enough \subseteq SUBSET able
    BY DEF Cuts
  <2>3. FiniteSubsetsOf(able) = SUBSET able
    BY <2>1, FS_FiniteSubsetsOfFinite
  <2>4. PICK c \in enough : \A d \in enough : <<d, c>> \notin StrictSubsetOrdering(able)
    <3>1. IsWellFoundedOn(StrictSubsetOrdering(able), SUBSET able)
      BY <2>3, FS_StrictSubsetOrderingWellFounded
    <3>2. \E x \in enough : \A y \in enough : ~(<<y, x>> \in StrictSubsetOrdering(able))
      BY <1>2, <2>2, <3>1, WFMin
    <3>3. QED
      BY <3>2
  <2>5. \A d \in enough : c \subseteq d
    <3>1. SUFFICES ASSUME NEW d \in enough
                   PROVE  c \subseteq d
      OBVIOUS
    <3>2. c \subseteq d \/ d \subseteq c
      BY CutsAreNested
    <3>3. ~(d \subseteq c /\ d # c)
      BY <2>2, <2>4 DEF StrictSubsetOrdering
    <3>4. QED
      BY <3>2, <3>3
  <2>6. Victims(able, enough) \in enough
    BY <1>2, <2>5 DEF Victims
  <2>7. QED
    BY <2>2, <2>6
<1>3. QED
  BY <1>1, <1>2

-------------------------------------------------------------------------------
(* Who owns what: the steps that start or end no fill.                     *)

\* Entries keep their key, their fill and their rows; the store lets go of idle entries only.
SameEntries ==
    /\ Len(objs') = Len(objs)
    /\ \A n \in DOMAIN objs : /\ objs'[n].key = objs[n].key /\ objs'[n].fill = objs[n].fill
                              /\ Len(objs[n].rows) <= Len(objs'[n].rows)
StoreShrinks ==
    \A k \in Keys : \/ store'.at[k] = store.at[k]
                    \/ store'.at[k] = 0 /\ store.at[k] # 0 /\ objs[store.at[k]].fill = 0

\* No task becomes a leader or stops being one; who waits now waited, or joined.
TasksMove ==
    \A t \in Tasks :
        /\ t \in Leaders' <=> t \in Leaders
        /\ t \in Leaders => task'[t].fill = task[t].fill
        /\ task'[t].pc = "waiting" =>
              \/ task[t].pc = "waiting" /\ task'[t].fill = task[t].fill
              \/ /\ task'[t].fill \in DOMAIN fills
                 /\ fills[task'[t].fill].entry \in DOMAIN objs
                 /\ objs[fills[task'[t].fill].entry].key = KeyOf(t)
                 /\ \E s \in Leaders : task[s].fill = task'[t].fill
        /\ task'[t].pc = "reusing" =>
              \/ task[t].pc = "reusing" /\ task'[t].entry = task[t].entry
              \/ task'[t].entry \in DOMAIN objs /\ objs[task'[t].entry].key = KeyOf(t)

\* The tables of a reachable state are sequences.
LEMMA ScanShapes ==
  ASSUME ScanTypes
  PROVE  /\ Len(objs) \in Nat /\ DOMAIN objs = 1 .. Len(objs)
         /\ Len(fills) \in Nat /\ DOMAIN fills = 1 .. Len(fills)
         /\ \A n \in DOMAIN objs : objs[n] \in EntryRecord
         /\ \A f \in DOMAIN fills : fills[f] \in FillRecord
         /\ \A t \in Tasks : task[t] \in Work
         /\ \A k \in Keys : store.at[k] \in Nat /\ lists[k] \in Lists
         /\ DOMAIN task = Tasks
BY DEF ScanTypes

LEMMA StoredIsFinite ==
  ASSUME ScanTypes, NEW S \in SUBSET Stored
  PROVE  /\ Stored \subseteq DOMAIN objs
         /\ IsFiniteSet(S) /\ Cardinality(S) \in Nat /\ Cardinality(S) <= Cardinality(Stored)
<1>1. IsFiniteSet(DOMAIN objs)
  BY ScanShapes, FS_Interval, SMT
<1>2. Stored \subseteq DOMAIN objs
  BY DEF Stored
<1>3. IsFiniteSet(Stored)
  BY <1>1, <1>2, FS_Subset
<1>4. QED
  BY <1>2, <1>3, FS_Subset, FS_CardinalityType

LEMMA FewerFit ==
  ASSUME NEW S, NEW M, Cardinality(S) \in Nat, Cardinality(M) \in Nat,
         Cardinality(S) <= Cardinality(M), Cardinality(M) <= MaxEntries
  PROVE  Cardinality(S) <= MaxEntries
<1>1. PICK c \in Nat : c = Cardinality(S)
  OBVIOUS
<1>2. PICK d \in Nat : d = Cardinality(M)
  OBVIOUS
<1>3. c <= d /\ d <= MaxEntries /\ MaxEntries \in Nat
  BY <1>1, <1>2, ScanLimits
<1>4. c <= MaxEntries
  BY <1>3
<1>5. QED
  BY <1>1, <1>4

LEMMA SteadyLeaders ==
  ASSUME Owned, ScanTypes', fills' = fills, SameEntries, StoreShrinks, TasksMove
  PROVE  /\ \A t \in Leaders' : Leads(t)'
         /\ FillsLed'
<1> USE ScanShapes DEF Owned
<1>1. DOMAIN objs' = DOMAIN objs
  BY DEF ScanTypes, SameEntries
<1>2. Leaders' = Leaders /\ \A t \in Leaders : t \in Tasks /\ task'[t].fill = task[t].fill
  BY DEF TasksMove, Leaders
<1>3. \A t \in Leaders : Leads(t)'
  <2>1. SUFFICES ASSUME NEW t \in Leaders
                 PROVE  Leads(t)'
    OBVIOUS
  <2>2. Leads(t) /\ t \in Tasks /\ task'[t].fill = task[t].fill
    BY <1>2
  <2>3. KeyOf(t) \in Keys
    BY <2>2 DEF KeyOf, Tasks
  <2>4. EntryOf(t)' = EntryOf(t) /\ EntryOf(t) \in DOMAIN objs /\ task[t].fill # 0
    BY <2>2 DEF EntryOf, Leads
  <2>5. store'.at[KeyOf(t)] = EntryOf(t)
    BY <2>2, <2>3, <2>4 DEF StoreShrinks, Leads, Entry
  <2>6. Entry(t)'.fill = task[t].fill /\ Entry(t)'.key = KeyOf(t)
    BY <2>2, <2>4 DEF SameEntries, Entry, Leads
  <2>7. QED
    BY <1>1, <2>2, <2>4, <2>5, <2>6 DEF Leads
<1>4. \A n \in DOMAIN objs' : objs'[n].fill # 0 =>
          \E t \in Leaders' : task'[t].fill = objs'[n].fill /\ EntryOf(t)' = n
  <2>1. SUFFICES ASSUME NEW n \in DOMAIN objs, objs[n].fill # 0
                 PROVE  \E t \in Leaders : task'[t].fill = objs[n].fill /\ EntryOf(t)' = n
    BY <1>1, <1>2 DEF SameEntries
  <2>2. PICK t \in Leaders : task[t].fill = objs[n].fill /\ EntryOf(t) = n
    BY <2>1 DEF FillsLed
  <2>3. task'[t].fill = objs[n].fill /\ EntryOf(t)' = n
    BY <1>2, <2>2 DEF EntryOf
  <2>4. QED
    BY <2>3
<1>5. \A s, t \in Leaders' : task'[s].fill = task'[t].fill => s = t
  BY <1>2 DEF FillsLed
<1>6. QED
  BY <1>2, <1>3, <1>4, <1>5 DEF FillsLed

LEMMA SteadyStore ==
  ASSUME Owned, ScanTypes', SameEntries, StoreShrinks
  PROVE  KeysKept' /\ (Cardinality(Stored) <= MaxEntries)'
<1> USE ScanShapes DEF Owned
<1>1. DOMAIN objs' = DOMAIN objs
  BY DEF ScanTypes, SameEntries
<1>2. KeysKept'
  BY <1>1 DEF KeysKept, SameEntries, StoreShrinks
<1>3. Stored' \subseteq Stored
  <2>1. SUFFICES ASSUME NEW n \in DOMAIN objs', store'.at[objs'[n].key] = n
                 PROVE  n \in Stored
    BY DEF Stored
  <2>2. objs[n].key \in Keys /\ objs'[n].key = objs[n].key /\ n # 0
    BY <1>1 DEF EntryRecord, SameEntries
  <2>3. QED
    BY <1>1, <2>1, <2>2 DEF Stored, StoreShrinks
<1>4. PICK S \in SUBSET Stored : S = Stored'
  BY <1>3
<1>5. Cardinality(S) \in Nat /\ Cardinality(Stored) \in Nat /\ Cardinality(S) <= Cardinality(Stored)
  BY StoredIsFinite
<1>6. Cardinality(Stored) <= MaxEntries
  OBVIOUS
<1>7. Cardinality(S) <= MaxEntries
  BY <1>5, <1>6, FewerFit
<1>8. QED
  BY <1>2, <1>4, <1>7

\* A step that starts and ends no fill leaves everyone what he owns.
LEMMA SteadyKeeps ==
  ASSUME Owned, ScanTypes', fills' = fills, SameEntries, StoreShrinks, TasksMove
  PROVE  Owned'
<1> USE ScanShapes DEF Owned
<1>1. DOMAIN objs' = DOMAIN objs
  BY DEF ScanTypes, SameEntries
<1>2. Leaders' = Leaders /\ \A t \in Leaders : t \in Tasks /\ task'[t].fill = task[t].fill
  BY DEF TasksMove, Leaders
<1>3. ASSUME NEW t \in Tasks, task'[t].pc = "waiting"
      PROVE  Awaits(t)'
  <2>1. CASE task[t].pc = "waiting" /\ task'[t].fill = task[t].fill
    BY <1>1, <1>2, <2>1 DEF Awaits, SameEntries
  <2>2. CASE /\ task'[t].fill \in DOMAIN fills
             /\ fills[task'[t].fill].entry \in DOMAIN objs
             /\ objs[fills[task'[t].fill].entry].key = KeyOf(t)
             /\ \E s \in Leaders : task[s].fill = task'[t].fill
    BY <1>1, <1>2, <2>2 DEF Awaits, SameEntries
  <2>3. QED
    BY <1>3, <2>1, <2>2 DEF TasksMove
<1>4. ASSUME NEW t \in Tasks, task'[t].pc = "reusing"
      PROVE  Reuses(t)'
  BY <1>1, <1>4 DEF Reuses, SameEntries, TasksMove
<1>5. FillsEnded'
  <2>1. SUFFICES ASSUME NEW f \in DOMAIN fills, fills[f].done
                 PROVE  /\ fills[f].entry \in DOMAIN objs
                        /\ fills[f].end <= Len(objs'[fills[f].entry].rows)
    BY <1>1 DEF FillsEnded
  <2>2. PICK n \in DOMAIN objs : n = fills[f].entry /\ fills[f].end <= Len(objs[n].rows)
    BY <2>1 DEF FillsEnded
  <2>3. /\ objs[n] \in EntryRecord /\ objs'[n] \in EntryRecord /\ fills[f].end \in Nat
        /\ Len(objs[n].rows) <= Len(objs'[n].rows)
    BY <1>1 DEF SameEntries, ScanTypes, FillRecord
  <2>4. Len(objs[n].rows) \in Nat /\ Len(objs'[n].rows) \in Nat
    BY <2>3 DEF EntryRecord
  <2>5. QED
    BY <2>2, <2>3, <2>4
<1>6. QED
  BY <1>3, <1>4, <1>5, SteadyLeaders, SteadyStore

-------------------------------------------------------------------------------
(* Who owns what: a fill ends.                                             *)

LEMMA FinishingKeeps ==
  ASSUME Owned, ScanTypes', NEW t \in Tasks, FinishFill(t)
  PROVE  Owned'
<1> USE ScanShapes DEF Owned
<1>1. PICK f \in DOMAIN fills, n \in DOMAIN objs :
        /\ f = task[t].fill /\ n = EntryOf(t) /\ fills[f].entry = n
        /\ objs[n].fill = f /\ objs[n].key = KeyOf(t) /\ store.at[KeyOf(t)] = n
  BY DEF FinishFill, Leaders, Leads, EntryOf, Entry
<1>2. t \in Leaders
  BY DEF FinishFill, Leaders
<1>3. /\ DOMAIN objs' = DOMAIN objs
      /\ \A m \in DOMAIN objs : m # n => objs'[m] = objs[m]
      /\ objs'[n].key = objs[n].key /\ objs'[n].fill = 0 /\ objs'[n].rows = objs[n].rows
  <2>1. PICK c : objs' = [objs EXCEPT ![n] = [objs[n] EXCEPT !.fill = 0, !.complete = c]]
    BY <1>1 DEF FinishFill
  <2>2. objs[n] \in EntryRecord
    OBVIOUS
  <2>3. QED
    BY <2>1, <2>2 DEF EntryRecord
<1>4. /\ DOMAIN fills' = DOMAIN fills
      /\ \A g \in DOMAIN fills : fills'[g].entry = fills[g].entry
      /\ \A g \in DOMAIN fills : g # f => fills'[g] = fills[g]
      /\ fills'[f].done /\ fills'[f].end = Len(objs[n].rows)
  <2>1. PICK c : c = (Entry(t).complete /\ ~Expired(Entry(t)))
    OBVIOUS
  <2>2. PICK end : end = Len(Entry(t).rows)
    OBVIOUS
  <2>3. fills' = [fills EXCEPT ![f].done = TRUE, ![f].end = end, ![f].complete = c]
    BY <1>1, <2>1, <2>2 DEF FinishFill
  <2>4. fills[f] \in FillRecord
    OBVIOUS
  <2>5. QED
    BY <1>1, <2>2, <2>3, <2>4 DEF FillRecord, Entry
<1>5. \A k \in Keys : store'.at[k] = store.at[k] \/ (store'.at[k] = 0 /\ store.at[k] = n)
  BY <1>1 DEF FinishFill, Without
<1>6. /\ task'[t].pc = "waiting" /\ task'[t].fill = f
      /\ \A s \in Tasks : s # t => task'[s] = task[s]
  <2>1. task' = [task EXCEPT ![t] = [task[t] EXCEPT !.pc = "waiting"]] /\ task[t] \in Work
    BY DEF FinishFill
  <2>2. QED
    BY <1>1, <2>1 DEF Work
<1>7. Leaders' = Leaders \ {t} /\ Leaders \subseteq Tasks
  BY <1>6 DEF Leaders
<1>8. ASSUME NEW s \in Leaders, s # t
      PROVE  /\ task'[s] = task[s] /\ task[s].fill # f
             /\ EntryOf(s)' = EntryOf(s) /\ EntryOf(s) # n /\ Leads(s)
  <2>1. task'[s] = task[s] /\ task[s].fill # f /\ Leads(s)
    BY <1>1, <1>2, <1>6, <1>7, <1>8 DEF FillsLed
  <2>2. EntryOf(s)' = EntryOf(s)
    BY <1>4, <2>1 DEF EntryOf, Leads
  <2>3. EntryOf(s) # n
    BY <1>1, <2>1 DEF Leads, Entry
  <2>4. QED
    BY <2>1, <2>2, <2>3
<1>9. ASSUME NEW s \in Leaders'
      PROVE  Leads(s)'
  <2>1. s \in Leaders /\ s # t /\ s \in Tasks /\ KeyOf(s) \in Keys
    BY <1>7 DEF Tasks, KeyOf
  <2>2. /\ task'[s] = task[s] /\ EntryOf(s)' = EntryOf(s) /\ EntryOf(s) # n /\ Leads(s)
    BY <1>8, <2>1
  <2>3. store'.at[KeyOf(s)] = EntryOf(s)
    BY <1>5, <2>1, <2>2 DEF Leads
  <2>4. Entry(s)' = Entry(s)
    BY <1>3, <2>2 DEF Entry, Leads
  <2>5. QED
    BY <1>3, <1>4, <2>2, <2>3, <2>4 DEF Leads
<1>10. FillsLed'
  <2>1. ASSUME NEW m \in DOMAIN objs', objs'[m].fill # 0
        PROVE  \E s \in Leaders' : task'[s].fill = objs'[m].fill /\ EntryOf(s)' = m
    <3>1. m # n /\ m \in DOMAIN objs /\ objs'[m] = objs[m]
      BY <1>3, <2>1
    <3>2. PICK s \in Leaders : task[s].fill = objs[m].fill /\ EntryOf(s) = m
      BY <2>1, <3>1 DEF FillsLed
    <3>3. s # t
      BY <1>1, <3>1, <3>2
    <3>4. s \in Leaders' /\ task'[s].fill = objs'[m].fill /\ EntryOf(s)' = m
      BY <1>7, <1>8, <3>1, <3>2, <3>3
    <3>5. QED
      BY <3>4
  <2>2. \A r, s \in Leaders' : task'[r].fill = task'[s].fill => r = s
    BY <1>7, <1>8 DEF FillsLed
  <2>3. QED
    BY <2>1, <2>2 DEF FillsLed
<1>11. ASSUME NEW s \in Tasks, task'[s].pc = "waiting"
       PROVE  Awaits(s)'
  <2>1. CASE s = t
    BY <1>1, <1>3, <1>4, <1>6, <2>1 DEF Awaits
  <2>2. CASE s # t
    <3>1. task'[s] = task[s] /\ Awaits(s)
      BY <1>6, <1>11, <2>2
    <3>2. PICK g \in DOMAIN fills : g = task[s].fill /\ fills'[g].entry = fills[g].entry
      BY <1>4, <3>1 DEF Awaits
    <3>3. objs'[fills[g].entry].key = KeyOf(s) /\ fills[g].entry \in DOMAIN objs
      BY <1>3, <3>1, <3>2 DEF Awaits
    <3>4. fills'[g].done \/ \E r \in Leaders' : task'[r].fill = g
      <4>1. CASE g = f
        BY <1>4, <4>1
      <4>2. CASE g # f /\ fills[g].done
        BY <1>4, <4>2
      <4>3. CASE g # f /\ ~fills[g].done
        <5>1. PICK r \in Leaders : task[r].fill = g
          BY <3>1, <3>2, <4>3 DEF Awaits
        <5>2. r # t
          BY <1>1, <4>3, <5>1
        <5>3. r \in Leaders' /\ task'[r].fill = g
          BY <1>7, <1>8, <5>1, <5>2
        <5>4. QED
          BY <5>3
      <4>4. QED
        BY <4>1, <4>2, <4>3
    <3>5. QED
      BY <1>3, <1>4, <3>1, <3>2, <3>3, <3>4 DEF Awaits
  <2>3. QED
    BY <2>1, <2>2
<1>12. ASSUME NEW s \in Tasks, task'[s].pc = "reusing"
       PROVE  Reuses(s)'
  <2>1. task'[s] = task[s] /\ Reuses(s)
    BY <1>6, <1>12
  <2>2. QED
    BY <1>3, <2>1 DEF Reuses
<1>13. KeysKept'
  BY <1>3, <1>5 DEF KeysKept
<1>14. (Cardinality(Stored) <= MaxEntries)'
  <2>1. Stored' \subseteq Stored
    <3>1. SUFFICES ASSUME NEW m \in DOMAIN objs', store'.at[objs'[m].key] = m
                   PROVE  m \in Stored
      BY DEF Stored
    <3>2. m \in DOMAIN objs /\ objs[m] \in EntryRecord /\ objs'[m].key = objs[m].key
      BY <1>3
    <3>3. objs[m].key \in Keys /\ m # 0
      BY <3>2 DEF EntryRecord
    <3>4. QED
      BY <1>5, <3>1, <3>2, <3>3 DEF Stored
  <2>2. PICK S \in SUBSET Stored : S = Stored'
    BY <2>1
  <2>3. Cardinality(S) <= Cardinality(Stored) /\ Cardinality(S) \in Nat /\ Cardinality(Stored) \in Nat
    BY StoredIsFinite
  <2>4. Cardinality(S) <= MaxEntries
    <3>1. Cardinality(Stored) <= MaxEntries
      OBVIOUS
    <3>2. QED
      BY <2>3, <3>1, FewerFit
  <2>5. QED
    BY <2>2, <2>4
<1>15. FillsEnded'
  <2>1. SUFFICES ASSUME NEW g \in DOMAIN fills', fills'[g].done
                 PROVE  /\ fills'[g].entry \in DOMAIN objs'
                        /\ fills'[g].end <= Len(objs'[fills'[g].entry].rows)
    BY DEF FillsEnded
  <2>2. CASE g = f
    <3>1. Len(objs[n].rows) \in Nat
      BY DEF EntryRecord
    <3>2. QED
      BY <1>1, <1>3, <1>4, <2>2, <3>1
  <2>3. CASE g # f
    <3>1. fills'[g] = fills[g] /\ g \in DOMAIN fills
      BY <1>4, <2>1, <2>3
    <3>2. PICK m \in DOMAIN objs : m = fills[g].entry /\ fills[g].end <= Len(objs[m].rows)
      BY <2>1, <3>1 DEF FillsEnded
    <3>3. objs'[m].rows = objs[m].rows
      BY <1>3
    <3>4. QED
      BY <1>3, <3>1, <3>2, <3>3
  <2>4. QED
    BY <2>2, <2>3
<1>16. QED
  BY <1>9, <1>10, <1>11, <1>12, <1>13, <1>14, <1>15

-------------------------------------------------------------------------------
(* Who owns what: a task starts a fill of entry n, an idle or a new one.   *)

Starts(t, n) ==
    /\ task[t].pc = "called"
    /\ fills' = Append(fills, NewFill(n))
    /\ task'[t].pc = "leading" /\ task'[t].fill = Len(fills) + 1
    /\ \A s \in Tasks : s # t => task'[s] = task[s]
    /\ DOMAIN objs' = DOMAIN objs \cup {n}
    /\ objs'[n].fill = Len(fills) + 1 /\ objs'[n].key = KeyOf(t)
    /\ n \in DOMAIN objs => objs[n].fill = 0 /\ objs[n].key = KeyOf(t) /\ objs'[n].rows = objs[n].rows
    /\ \A m \in DOMAIN objs : m # n => objs'[m] = objs[m]
    /\ store'.at[KeyOf(t)] = n
    /\ store.at[KeyOf(t)] = 0 \/ objs[store.at[KeyOf(t)]].fill = 0
    /\ \A k \in Keys : k # KeyOf(t) =>
          \/ store'.at[k] = store.at[k]
          \/ store'.at[k] = 0 /\ store.at[k] # 0 /\ objs[store.at[k]].fill = 0

LEMMA StartingKeeps ==
  ASSUME Owned, ScanTypes', NEW t \in Tasks, NEW n, Starts(t, n),
         (Cardinality(Stored) <= MaxEntries)'
  PROVE  Owned'
<1> USE ScanShapes DEF Owned
<1>1. PICK f \in Nat : f = Len(fills) + 1
  BY SMT
<1>2. /\ DOMAIN fills' = DOMAIN fills \cup {f} /\ f \notin DOMAIN fills
      /\ \A g \in DOMAIN fills : fills'[g] = fills[g]
      /\ fills'[f].entry = n /\ f # 0 /\ ~fills'[f].done
  <2>1. NewFill(n).entry = n /\ ~NewFill(n).done
    BY DEF NewFill
  <2>2. fills \in Seq(FillRecord) /\ fills' = Append(fills, NewFill(n))
    BY DEF Starts, ScanTypes
  <2>3. QED
    BY <1>1, <2>1, <2>2
<1>3. /\ t \notin Leaders /\ Leaders' = Leaders \cup {t} /\ Leaders \subseteq Tasks
      /\ task'[t].fill = f /\ EntryOf(t)' = n
  BY <1>1, <1>2 DEF Starts, Leaders, EntryOf
<1>4. ASSUME NEW s \in Leaders
      PROVE  /\ task'[s] = task[s] /\ Leads(s) /\ EntryOf(s)' = EntryOf(s)
             /\ EntryOf(s) # n /\ KeyOf(s) # KeyOf(t) /\ task[s].fill # f
  <2>1. s # t /\ s \in Tasks /\ task'[s] = task[s] /\ Leads(s)
    BY <1>3 DEF Starts
  <2>2. task[s].fill \in DOMAIN fills /\ task[s].fill # 0 /\ task[s].fill # f
    BY <1>2, <2>1 DEF Leads
  <2>3. EntryOf(s)' = EntryOf(s)
    BY <1>2, <2>1, <2>2 DEF EntryOf
  <2>4. EntryOf(s) \in DOMAIN objs /\ objs[EntryOf(s)].fill # 0 /\ store.at[KeyOf(s)] = EntryOf(s)
    BY <2>1, <2>2 DEF Leads, Entry
  <2>5. EntryOf(s) # n
    BY <2>4 DEF Starts
  <2>6. KeyOf(s) # KeyOf(t)
    BY <2>4 DEF Starts
  <2>7. QED
    BY <2>1, <2>2, <2>3, <2>5, <2>6
<1>5. ASSUME NEW s \in Leaders'
      PROVE  Leads(s)'
  <2>1. CASE s = t
    BY <1>1, <1>2, <1>3, <2>1 DEF Starts, Leads, Entry
  <2>2. CASE s # t
    <3>1. s \in Leaders /\ KeyOf(s) \in Keys
      BY <1>3, <2>2 DEF Tasks, KeyOf
    <3>2. /\ task'[s] = task[s] /\ Leads(s) /\ EntryOf(s)' = EntryOf(s)
          /\ EntryOf(s) # n /\ KeyOf(s) # KeyOf(t) /\ task[s].fill # f
      BY <1>4, <3>1
    <3>3. Entry(s)' = Entry(s) /\ task[s].fill # 0
      BY <3>2 DEF Entry, Leads, Starts
    <3>4. store'.at[KeyOf(s)] = EntryOf(s)
      BY <3>1, <3>2, <3>3 DEF Leads, Entry, Starts
    <3>5. QED
      BY <1>2, <3>2, <3>3, <3>4 DEF Leads, Starts
  <2>3. QED
    BY <2>1, <2>2
<1>6. FillsLed'
  <2>1. ASSUME NEW m \in DOMAIN objs', objs'[m].fill # 0
        PROVE  \E s \in Leaders' : task'[s].fill = objs'[m].fill /\ EntryOf(s)' = m
    <3>1. CASE m = n
      <4>1. t \in Leaders' /\ task'[t].fill = objs'[m].fill /\ EntryOf(t)' = m
        BY <1>1, <1>3, <3>1 DEF Starts
      <4>2. QED
        BY <4>1
    <3>2. CASE m # n
      <4>1. m \in DOMAIN objs /\ objs'[m] = objs[m]
        BY <2>1, <3>2 DEF Starts
      <4>2. PICK s \in Leaders : task[s].fill = objs[m].fill /\ EntryOf(s) = m
        BY <2>1, <4>1 DEF FillsLed
      <4>3. s \in Leaders' /\ task'[s].fill = objs'[m].fill /\ EntryOf(s)' = m
        BY <1>3, <1>4, <4>1, <4>2
      <4>4. QED
        BY <4>3
    <3>3. QED
      BY <3>1, <3>2
  <2>2. \A r, s \in Leaders' : task'[r].fill = task'[s].fill => r = s
    BY <1>3, <1>4 DEF FillsLed
  <2>3. QED
    BY <2>1, <2>2 DEF FillsLed
<1>7. ASSUME NEW s \in Tasks, task'[s].pc = "waiting"
      PROVE  Awaits(s)'
  <2>1. task'[s] = task[s] /\ Awaits(s)
    BY <1>7 DEF Starts
  <2>2. PICK g \in DOMAIN fills : g = task[s].fill /\ fills'[g] = fills[g]
    BY <1>2, <2>1 DEF Awaits
  <2>3. objs'[fills[g].entry].key = KeyOf(s) /\ fills[g].entry \in DOMAIN objs
    BY <2>1, <2>2 DEF Awaits, Starts
  <2>4. fills[g].done \/ \E r \in Leaders' : task'[r].fill = g
    <3>1. CASE fills[g].done
      BY <3>1
    <3>2. CASE ~fills[g].done
      <4>1. PICK r \in Leaders : task[r].fill = g
        BY <2>1, <2>2, <3>2 DEF Awaits
      <4>2. r \in Leaders' /\ task'[r].fill = g
        BY <1>3, <1>4, <4>1
      <4>3. QED
        BY <4>2
    <3>3. QED
      BY <3>1, <3>2
  <2>5. QED
    BY <1>2, <2>1, <2>2, <2>3, <2>4 DEF Awaits, Starts
<1>8. ASSUME NEW s \in Tasks, task'[s].pc = "reusing"
      PROVE  Reuses(s)'
  BY <1>8 DEF Reuses, Starts
<1>9. KeysKept'
  <2>1. SUFFICES ASSUME NEW k \in Keys, store'.at[k] # 0
                 PROVE  store'.at[k] \in DOMAIN objs' /\ objs'[store'.at[k]].key = k
    BY DEF KeysKept
  <2>2. CASE k = KeyOf(t)
    BY <2>2 DEF Starts
  <2>3. CASE k # KeyOf(t)
    <3>1. /\ store'.at[k] = store.at[k] /\ store.at[k] \in DOMAIN objs
          /\ objs[store.at[k]].key = k
      BY <2>1, <2>3 DEF Starts, KeysKept
    <3>2. QED
      BY <2>3, <3>1 DEF Starts
  <2>4. QED
    BY <2>2, <2>3
<1>10. FillsEnded'
  <2>1. SUFFICES ASSUME NEW g \in DOMAIN fills', fills'[g].done
                 PROVE  /\ fills'[g].entry \in DOMAIN objs'
                        /\ fills'[g].end <= Len(objs'[fills'[g].entry].rows)
    BY DEF FillsEnded
  <2>2. g \in DOMAIN fills /\ fills'[g] = fills[g]
    BY <1>2, <2>1
  <2>3. PICK m \in DOMAIN objs : m = fills[g].entry /\ fills[g].end <= Len(objs[m].rows)
    BY <2>1, <2>2 DEF FillsEnded
  <2>4. m \in DOMAIN objs' /\ objs'[m].rows = objs[m].rows
    BY DEF Starts
  <2>5. QED
    BY <2>2, <2>3, <2>4
<1>11. QED
  BY <1>5, <1>6, <1>7, <1>8, <1>9, <1>10

-------------------------------------------------------------------------------
(* Types: pages, and the tables after each step.                           *)

RowsFrom(l, offset) == IF l.offsets THEN offset ELSE 0
RowsLeft(l, offset) == IF RowsFrom(l, offset) <= l.rows THEN l.rows - RowsFrom(l, offset) ELSE 0
PageSize(l, offset, limit) ==
    IF l.limits THEN Min2(RowsLeft(l, offset), Min2(limit, l.cap)) ELSE RowsLeft(l, offset)

\* A page holds consecutive rows, from the offset on or, when it is ignored, from the first.
LEMMA PageIs ==
  ASSUME NEW l \in Lists, NEW offset \in Nat, NEW limit \in Nat
  PROVE  /\ PageSize(l, offset, limit) \in Nat
         /\ Answered(l, offset, limit) \in Seq(Nat)
         /\ Len(Answered(l, offset, limit)) = PageSize(l, offset, limit)
         /\ \A i \in 1 .. PageSize(l, offset, limit) :
               Answered(l, offset, limit)[i] = RowsFrom(l, offset) + i
<1>1. /\ l.rows \in Nat /\ l.cap \in Nat /\ l.offsets \in BOOLEAN /\ l.limits \in BOOLEAN
  BY ScanLimits
<1>2. PICK from \in Nat : from = RowsFrom(l, offset)
  BY <1>1 DEF RowsFrom
<1>3. PICK r \in Nat : r = l.rows
  BY <1>1
<1>4. PICK left \in Nat : left = RowsLeft(l, offset) /\ left = IF from <= r THEN r - from ELSE 0
  BY <1>2, <1>3 DEF RowsLeft
<1>5. PICK size \in Nat : size = PageSize(l, offset, limit) /\ size <= left
                          /\ (l.limits => size = Min2(left, Min2(limit, l.cap)))
                          /\ (~l.limits => size = left)
  BY <1>1, <1>4 DEF PageSize, Min2
<1>6. PICK rest : rest = SubSeq(Whole(l), from + 1, r)
  OBVIOUS
<1>7. /\ rest \in Seq(Nat) /\ Len(rest) = left
      /\ \A i \in 1 .. left : rest[i] = from + i
  <2>1. \A i \in from + 1 .. r : Whole(l)[i] \in Nat /\ Whole(l)[i] = i
    BY <1>2, <1>3 DEF Whole
  <2>2. /\ rest \in Seq(Nat) /\ Len(rest) = IF from + 1 <= r THEN r - (from + 1) + 1 ELSE 0
        /\ \A i \in 1 .. r - (from + 1) + 1 : rest[i] = Whole(l)[from + 1 + i - 1]
    BY <1>6, <2>1, SubSeqProperties, SMT
  <2>3. Len(rest) = left
    BY <1>4, <2>2
  <2>4. \A i \in 1 .. left : /\ i \in 1 .. r - (from + 1) + 1
                             /\ from + 1 + i - 1 = from + i /\ from + i \in from + 1 .. r
    BY <1>4
  <2>5. QED
    BY <2>1, <2>2, <2>3, <2>4
<1>8. Answered(l, offset, limit) =
        IF l.limits THEN SubSeq(rest, 1, Min2(Len(rest), Min2(limit, l.cap))) ELSE rest
  BY <1>2, <1>3, <1>6 DEF Answered, RowsFrom
<1>9. CASE ~l.limits
  BY <1>2, <1>5, <1>7, <1>8, <1>9
<1>10. CASE l.limits
  <2>1. Answered(l, offset, limit) = SubSeq(rest, 1, size)
    BY <1>5, <1>7, <1>8, <1>10
  <2>2. \A i \in 1 .. size : rest[i] \in Nat /\ i \in 1 .. left
    BY <1>5, <1>7
  <2>3. /\ SubSeq(rest, 1, size) \in Seq(Nat)
        /\ Len(SubSeq(rest, 1, size)) = IF 1 <= size THEN size - 1 + 1 ELSE 0
        /\ \A i \in 1 .. size - 1 + 1 : SubSeq(rest, 1, size)[i] = rest[1 + i - 1]
    BY <2>2, SubSeqProperties, SMT
  <2>4. \A i \in 1 .. size : i \in 1 .. size - 1 + 1 /\ 1 + i - 1 = i
    OBVIOUS
  <2>5. QED
    BY <1>2, <1>5, <1>7, <2>1, <2>2, <2>3, <2>4
<1>11. QED
  BY <1>1, <1>9, <1>10

\* What is taken of a page, its first rows.
LEMMA TakenIs ==
  ASSUME NEW page \in Seq(Nat), NEW n \in Nat, n <= Len(page)
  PROVE  /\ SubSeq(page, 1, n) \in Seq(Nat) /\ Len(SubSeq(page, 1, n)) = n
         /\ \A i \in 1 .. n : SubSeq(page, 1, n)[i] = page[i]
<1>1. PICK m \in Nat : m = Len(page)
  OBVIOUS
<1>2. \A i \in 1 .. n : page[i] \in Nat /\ 1 + i - 1 = i /\ i \in 1 .. n - 1 + 1
  BY <1>1
<1>3. /\ SubSeq(page, 1, n) \in Seq(Nat)
      /\ Len(SubSeq(page, 1, n)) = IF 1 <= n THEN n - 1 + 1 ELSE 0
      /\ \A i \in 1 .. n - 1 + 1 : SubSeq(page, 1, n)[i] = page[1 + i - 1]
  BY <1>2, SubSeqProperties, SMT
<1>4. QED
  BY <1>2, <1>3

\* Dropping idle entries.
LEMMA DroppingShrinks ==
  ASSUME Owned, NEW gone \in SUBSET DOMAIN objs, \A m \in gone : objs[m].fill = 0,
         store'.at = Without(gone).at
  PROVE  store'.at \in [Keys -> Nat] /\ StoreShrinks /\ \A k \in Keys : store'.at[k] \notin gone
<1>1. /\ \A k \in Keys : store.at[k] \in Nat
      /\ 0 \notin DOMAIN objs
  BY ScanShapes DEF Owned
<1>2. store'.at = [k \in Keys |-> IF store.at[k] \in gone THEN 0 ELSE store.at[k]]
  BY DEF Without
<1>3. QED
  BY <1>1, <1>2 DEF StoreShrinks

-------------------------------------------------------------------------------
(* Who owns what: claims.                                                  *)

\* The expired and the able entries are idle, and so is what is evicted.
LEMMA OutIsIdle ==
  ASSUME Owned, NEW left \in SUBSET Stored, NEW spared, NEW enough \in SUBSET Cuts(Able(left, spared))
  PROVE  /\ Stale \subseteq Stored /\ Stored \subseteq DOMAIN objs
         /\ Victims(Able(left, spared), enough) \subseteq left
         /\ \A m \in Stale \cup Victims(Able(left, spared), enough) : objs[m].fill = 0
         /\ spared \cap Victims(Able(left, spared), enough) = {}
<1>1. Stale \subseteq Stored /\ Stored \subseteq DOMAIN objs
  BY DEF Stale, Stored
<1>2. Able(left, spared) \in SUBSET DOMAIN objs
  BY <1>1 DEF Able
<1>3. Victims(Able(left, spared), enough) \subseteq Able(left, spared)
  BY <1>2, VictimsAreAble DEF Owned
<1>4. QED
  BY <1>1, <1>3 DEF Able, Evictable, Stale, Filling

\* The entry of the task's key, unless it expired, is idle or led by another task.
LEMMA EntryFound ==
  ASSUME Owned, NEW t \in Tasks, NEW n,
         n = IF store.at[KeyOf(t)] \in Stale THEN 0 ELSE store.at[KeyOf(t)]
  PROVE  /\ KeyOf(t) \in Keys
         /\ n # 0 => /\ n = store.at[KeyOf(t)] /\ n \in Stored /\ n \in DOMAIN objs
                     /\ objs[n].key = KeyOf(t) /\ n \notin Stale
         /\ n = 0 => store.at[KeyOf(t)] = 0 \/ objs[store.at[KeyOf(t)]].fill = 0
<1>1. KeyOf(t) \in Keys
  BY DEF Tasks, KeyOf
<1>2. QED
  BY <1>1 DEF Owned, KeysKept, Stored, Stale, Filling

\* One task moves on, in its own fill, or to the fill or the entry of its key.
LEMMA OneMoves ==
  ASSUME Owned, NEW t \in Tasks, NEW w \in Work, task' = [task EXCEPT ![t] = w],
         t \in Leaders <=> w.pc \in {"leading", "fetching", "finishing"},
         t \in Leaders => w.fill = task[t].fill,
         w.pc = "waiting" => \/ task[t].pc = "waiting" /\ w.fill = task[t].fill
                             \/ \E s \in Leaders : task[s].fill = w.fill /\ Entry(s).key = KeyOf(t),
         w.pc = "reusing" => w.entry \in DOMAIN objs /\ objs[w.entry].key = KeyOf(t)
  PROVE  task' \in [Tasks -> Work] /\ TasksMove
<1> USE ScanShapes DEF Owned
<1>1. task' \in [Tasks -> Work] /\ task'[t] = w /\ \A s \in Tasks : s # t => task'[s] = task[s]
  BY DEF ScanTypes
<1>2. t \in Leaders' <=> t \in Leaders
  BY <1>1 DEF Leaders
<1>3. ASSUME NEW s \in Tasks, s # t
      PROVE  task'[s] = task[s] /\ (s \in Leaders' <=> s \in Leaders)
  BY <1>1, <1>3 DEF Leaders
<1>4. ASSUME task'[t].pc = "waiting"
      PROVE  \/ task[t].pc = "waiting" /\ task'[t].fill = task[t].fill
             \/ /\ task'[t].fill \in DOMAIN fills
                /\ fills[task'[t].fill].entry \in DOMAIN objs
                /\ objs[fills[task'[t].fill].entry].key = KeyOf(t)
                /\ \E s \in Leaders : task[s].fill = task'[t].fill
  <2>1. CASE task[t].pc = "waiting" /\ w.fill = task[t].fill
    BY <1>1, <2>1
  <2>2. CASE \E s \in Leaders : task[s].fill = w.fill /\ Entry(s).key = KeyOf(t)
    <3>1. PICK s \in Leaders : task[s].fill = w.fill /\ Entry(s).key = KeyOf(t)
      BY <2>2
    <3>2. Leads(s)
      OBVIOUS
    <3>3. QED
      BY <1>1, <3>1, <3>2 DEF Leads, EntryOf, Entry
  <2>3. QED
    BY <1>1, <1>4, <2>1, <2>2
<1>5. QED
  BY <1>1, <1>2, <1>3, <1>4 DEF TasksMove

\* A claim that starts no fill.
LEMMA ClaimShares ==
  ASSUME Owned, NEW t \in Tasks, task[t].pc = "called",
         UNCHANGED <<lists, now, objs, fills>>,
         NEW gone \in SUBSET DOMAIN objs, \A m \in gone : objs[m].fill = 0,
         store'.at = Without(gone).at,
         \/ \E n \in DOMAIN objs : /\ objs[n].key = KeyOf(t) /\ objs[n].fill # 0
                                   /\ task' = [task EXCEPT ![t].pc = "waiting", ![t].fill = objs[n].fill]
         \/ \E n \in DOMAIN objs : /\ objs[n].key = KeyOf(t)
                                   /\ task' = [task EXCEPT ![t].pc = "reusing", ![t].entry = n]
         \/ task' = [task EXCEPT ![t].pc = "done", ![t].failed = TRUE]
  PROVE  Owned'
<1> USE ScanShapes DEF Owned
<1>1. store'.at \in [Keys -> Nat] /\ StoreShrinks
  BY DroppingShrinks
<1>2. task[t] \in Work /\ t \notin Leaders
  BY DEF Leaders
<1>3. task' \in [Tasks -> Work] /\ TasksMove
  <2>1. CASE \E n \in DOMAIN objs : /\ objs[n].key = KeyOf(t) /\ objs[n].fill # 0
                                    /\ task' = [task EXCEPT ![t].pc = "waiting", ![t].fill = objs[n].fill]
    <3>1. PICK n \in DOMAIN objs : /\ objs[n].key = KeyOf(t) /\ objs[n].fill # 0
                                   /\ task' = [task EXCEPT ![t].pc = "waiting", ![t].fill = objs[n].fill]
      BY <2>1
    <3>2. PICK f \in Nat : f = objs[n].fill
      BY DEF EntryRecord
    <3>3. \E s \in Leaders : task[s].fill = f /\ Entry(s).key = KeyOf(t)
      BY <3>1, <3>2 DEF FillsLed, Entry
    <3>4. PICK w : w = [task[t] EXCEPT !.pc = "waiting", !.fill = f]
      OBVIOUS
    <3>5. w \in Work
      BY <1>2, <3>4 DEF Work
    <3>6. w.pc = "waiting" /\ w.fill = f
      BY <1>2, <3>4 DEF Work
    <3>7. task' = [task EXCEPT ![t] = w]
      BY <3>1, <3>2, <3>4
    <3>8. QED
      BY <1>2, <3>3, <3>5, <3>6, <3>7, OneMoves
  <2>2. CASE \E n \in DOMAIN objs : /\ objs[n].key = KeyOf(t)
                                    /\ task' = [task EXCEPT ![t].pc = "reusing", ![t].entry = n]
    <3>1. PICK n \in DOMAIN objs : /\ objs[n].key = KeyOf(t)
                                   /\ task' = [task EXCEPT ![t].pc = "reusing", ![t].entry = n]
      BY <2>2
    <3>2. n \in Nat
      OBVIOUS
    <3>3. PICK w : w = [task[t] EXCEPT !.pc = "reusing", !.entry = n]
      OBVIOUS
    <3>4. w \in Work
      BY <1>2, <3>2, <3>3 DEF Work
    <3>5. w.pc = "reusing" /\ w.entry = n
      BY <1>2, <3>3 DEF Work
    <3>6. task' = [task EXCEPT ![t] = w]
      BY <3>1, <3>3
    <3>7. QED
      BY <1>2, <3>1, <3>4, <3>5, <3>6, OneMoves
  <2>3. CASE task' = [task EXCEPT ![t].pc = "done", ![t].failed = TRUE]
    <3>1. PICK w : w = [task[t] EXCEPT !.pc = "done", !.failed = TRUE]
      OBVIOUS
    <3>2. w \in Work
      BY <1>2, <3>1 DEF Work
    <3>3. w.pc = "done"
      BY <1>2, <3>1 DEF Work
    <3>4. task' = [task EXCEPT ![t] = w]
      BY <2>3, <3>1
    <3>5. QED
      BY <1>2, <3>2, <3>3, <3>4, OneMoves
  <2>4. QED
    BY <2>1, <2>2, <2>3
<1>4. ScanTypes'
  BY <1>1, <1>3 DEF ScanTypes
<1>5. SameEntries
  BY DEF SameEntries, EntryRecord
<1>6. QED
  BY <1>1, <1>3, <1>4, <1>5, SteadyKeeps

\* A claim that leads a new fill of the entry of its key.
LEMMA ClaimLeads ==
  ASSUME Owned, NEW t \in Tasks, task[t].pc = "called", UNCHANGED <<lists, now>>,
         NEW n \in DOMAIN objs, objs[n].key = KeyOf(t), objs[n].fill = 0,
         store.at[KeyOf(t)] = n, n \notin Stale,
         fills' = Append(fills, NewFill(n)),
         objs' = [objs EXCEPT ![n] = [objs[n] EXCEPT !.fill = Len(fills) + 1]],
         task' = [task EXCEPT ![t].pc = "leading", ![t].fill = Len(fills) + 1],
         store' = Without(Stale)
  PROVE  Owned'
<1> USE ScanShapes DEF Owned
<1>1. PICK f \in Nat : f = Len(fills) + 1
  BY SMT
<1>2. PICK e : e = [objs[n] EXCEPT !.fill = f]
  OBVIOUS
<1>3. e \in EntryRecord
  BY <1>1, <1>2 DEF EntryRecord
<1>4. e.fill = f /\ e.key = objs[n].key /\ e.rows = objs[n].rows
  BY <1>1, <1>2 DEF EntryRecord
<1>5. objs' = [objs EXCEPT ![n] = e]
  BY <1>1, <1>2
<1>6. objs' \in Seq(EntryRecord) /\ DOMAIN objs' = DOMAIN objs
  <2>1. objs \in Seq(EntryRecord) /\ n \in 1 .. Len(objs)
    BY DEF ScanTypes
  <2>2. [objs EXCEPT ![n] = e] \in Seq(EntryRecord)
    BY <1>3, <2>1, ExceptSeq
  <2>3. QED
    BY <1>5, <2>2
<1>7. objs'[n] = e /\ \A m \in DOMAIN objs : m # n => objs'[m] = objs[m]
  BY <1>5
<1>8. PICK w : w = [task[t] EXCEPT !.pc = "leading", !.fill = f]
  OBVIOUS
<1>9. w \in Work
  BY <1>1, <1>8 DEF Work
<1>10. w.pc = "leading" /\ w.fill = f
  BY <1>1, <1>8 DEF Work
<1>11. task' = [task EXCEPT ![t] = w]
  BY <1>1, <1>8
<1>12. /\ task' \in [Tasks -> Work] /\ task'[t] = w
       /\ \A s \in Tasks : s # t => task'[s] = task[s]
  BY <1>9, <1>11 DEF ScanTypes
<1>13. fills' \in Seq(FillRecord)
  BY DEF ScanTypes, FillRecord, NewFill
<1>14. /\ Stale \in SUBSET DOMAIN objs /\ \A m \in Stale : objs[m].fill = 0
       /\ KeyOf(t) \in Keys
  BY DEF Stale, Stored, Filling, Tasks, KeyOf
<1>15. store'.at \in [Keys -> Nat] /\ StoreShrinks
  BY <1>14, DroppingShrinks
<1>16. store'.at[KeyOf(t)] = n
  BY <1>14 DEF Without
<1>17. ScanTypes'
  BY <1>6, <1>12, <1>13, <1>15 DEF ScanTypes
<1>18. Starts(t, n)
  <2>1. task'[t].pc = "leading" /\ task'[t].fill = Len(fills) + 1
    BY <1>1, <1>10, <1>12
  <2>2. objs'[n].fill = Len(fills) + 1 /\ objs'[n].key = KeyOf(t) /\ objs'[n].rows = objs[n].rows
    BY <1>1, <1>4, <1>7
  <2>3. DOMAIN objs' = DOMAIN objs \cup {n}
    BY <1>6
  <2>4. store.at[KeyOf(t)] = 0 \/ objs[store.at[KeyOf(t)]].fill = 0
    OBVIOUS
  <2>5. \A k \in Keys : k # KeyOf(t) =>
          \/ store'.at[k] = store.at[k]
          \/ store'.at[k] = 0 /\ store.at[k] # 0 /\ objs[store.at[k]].fill = 0
    BY <1>15 DEF StoreShrinks
  <2>6. QED
    BY <1>7, <1>12, <1>16, <2>1, <2>2, <2>3, <2>4, <2>5 DEF Starts
<1>19. (Cardinality(Stored) <= MaxEntries)'
  <2>1. Stored' \subseteq Stored
    <3>1. SUFFICES ASSUME NEW m \in DOMAIN objs', store'.at[objs'[m].key] = m
                   PROVE  m \in Stored
      BY DEF Stored
    <3>2. m \in DOMAIN objs /\ objs[m] \in EntryRecord /\ objs'[m].key = objs[m].key
      BY <1>4, <1>6, <1>7
    <3>3. objs[m].key \in Keys /\ m # 0
      BY <3>2 DEF EntryRecord
    <3>4. QED
      BY <1>15, <3>1, <3>2, <3>3 DEF Stored, StoreShrinks
  <2>2. PICK S \in SUBSET Stored : S = Stored'
    BY <2>1
  <2>3. Cardinality(S) <= Cardinality(Stored) /\ Cardinality(S) \in Nat /\ Cardinality(Stored) \in Nat
    BY StoredIsFinite
  <2>4. Cardinality(S) <= MaxEntries
    <3>1. Cardinality(Stored) <= MaxEntries
      OBVIOUS
    <3>2. QED
      BY <2>3, <3>1, FewerFit
  <2>5. QED
    BY <2>2, <2>4
<1>20. QED
  BY <1>17, <1>18, <1>19, StartingKeeps

\* A claim that makes an entry and leads its first fill.
LEMMA ClaimEnters ==
  ASSUME Owned, NEW t \in Tasks, task[t].pc = "called", UNCHANGED <<lists, now>>,
         NEW gone \in SUBSET DOMAIN objs, \A m \in gone : objs[m].fill = 0,
         store.at[KeyOf(t)] = 0 \/ store.at[KeyOf(t)] \in gone,
         Cardinality(Stored \ gone) < MaxEntries,
         NEW e \in EntryRecord, e.key = KeyOf(t), e.fill = Len(fills) + 1,
         fills' = Append(fills, NewFill(Len(objs) + 1)),
         objs' = Append(objs, e),
         task' = [task EXCEPT ![t].pc = "leading", ![t].fill = Len(fills) + 1],
         store'.at = [Without(gone).at EXCEPT ![KeyOf(t)] = Len(objs) + 1]
  PROVE  Owned'
<1> USE ScanShapes DEF Owned
<1>1. PICK f \in Nat : f = Len(fills) + 1
  BY SMT
<1>2. PICK n \in Nat : n = Len(objs) + 1 /\ n \notin DOMAIN objs /\ n # 0
  BY SMT
<1>3. /\ objs' \in Seq(EntryRecord) /\ DOMAIN objs' = DOMAIN objs \cup {n}
      /\ objs'[n] = e /\ \A m \in DOMAIN objs : m # n => objs'[m] = objs[m]
  BY <1>2 DEF ScanTypes
<1>4. PICK w : w = [task[t] EXCEPT !.pc = "leading", !.fill = f]
  OBVIOUS
<1>5. w \in Work
  BY <1>1, <1>4 DEF Work
<1>6. w.pc = "leading" /\ w.fill = f
  BY <1>1, <1>4 DEF Work
<1>7. task' = [task EXCEPT ![t] = w]
  BY <1>1, <1>4
<1>8. /\ task' \in [Tasks -> Work] /\ task'[t] = w
      /\ \A s \in Tasks : s # t => task'[s] = task[s]
  BY <1>5, <1>7 DEF ScanTypes
<1>9. NewFill(n) \in FillRecord
  BY DEF FillRecord, NewFill
<1>10. fills' \in Seq(FillRecord)
  BY <1>2, <1>9 DEF ScanTypes
<1>11. KeyOf(t) \in Keys
  BY DEF Tasks, KeyOf
<1>12. /\ store'.at \in [Keys -> Nat] /\ store'.at[KeyOf(t)] = n
       /\ \A k \in Keys : k # KeyOf(t) =>
            store'.at[k] = IF store.at[k] \in gone THEN 0 ELSE store.at[k]
  <2>1. PICK A : A = Without(gone).at
    OBVIOUS
  <2>2. A = [k \in Keys |-> IF store.at[k] \in gone THEN 0 ELSE store.at[k]]
    BY <2>1 DEF Without
  <2>3. store'.at = [A EXCEPT ![KeyOf(t)] = n]
    BY <1>2, <2>1
  <2>4. A \in [Keys -> Nat]
    BY <2>2
  <2>5. store'.at \in [Keys -> Nat]
    BY <1>2, <2>3, <2>4
  <2>6. store'.at[KeyOf(t)] = n /\ \A k \in Keys : k # KeyOf(t) => store'.at[k] = A[k]
    BY <1>11, <2>3, <2>4
  <2>7. QED
    BY <2>2, <2>5, <2>6
<1>13. \A k \in Keys : k # KeyOf(t) =>
          \/ store'.at[k] = store.at[k]
          \/ store'.at[k] = 0 /\ store.at[k] # 0 /\ objs[store.at[k]].fill = 0
  BY <1>12
<1>14. ScanTypes'
  BY <1>3, <1>8, <1>10, <1>12 DEF ScanTypes
<1>15. fills' = Append(fills, NewFill(n))
  BY <1>2
<1>16. Starts(t, n)
  BY <1>1, <1>2, <1>3, <1>6, <1>8, <1>12, <1>13, <1>15 DEF Starts
<1>17. (Cardinality(Stored) <= MaxEntries)'
  <2>1. PICK L \in SUBSET Stored : L = Stored \ gone
    OBVIOUS
  <2>2. IsFiniteSet(L) /\ Cardinality(L) \in Nat
    BY StoredIsFinite
  <2>3. PICK M : M = L \cup {n}
    OBVIOUS
  <2>4. IsFiniteSet(M) /\ Cardinality(M) = IF n \in L THEN Cardinality(L) ELSE Cardinality(L) + 1
    BY <2>2, <2>3, FS_AddElement
  <2>5. Cardinality(M) \in Nat /\ Cardinality(M) <= MaxEntries
    <3>1. Cardinality(L) < MaxEntries
      BY <2>1
    <3>2. PICK c \in Nat : c = Cardinality(L)
      BY <2>2
    <3>3. MaxEntries \in Nat
      BY ScanLimits
    <3>4. Cardinality(M) = IF n \in L THEN c ELSE c + 1
      BY <2>4, <3>2
    <3>5. QED
      BY <3>1, <3>2, <3>3, <3>4
  <2>6. Stored' \subseteq M
    <3>1. SUFFICES ASSUME NEW m \in DOMAIN objs', store'.at[objs'[m].key] = m, m # n
                   PROVE  m \in L
      BY <2>3 DEF Stored
    <3>2. m \in DOMAIN objs /\ objs[m] \in EntryRecord /\ objs'[m] = objs[m]
      BY <1>3, <3>1
    <3>3. objs[m].key \in Keys /\ m # 0
      BY <3>2 DEF EntryRecord
    <3>4. objs[m].key # KeyOf(t)
      BY <1>12, <3>1, <3>2
    <3>5. QED
      BY <1>12, <2>1, <3>1, <3>2, <3>3, <3>4 DEF Stored
  <2>7. PICK S \in SUBSET M : S = Stored'
    BY <2>6
  <2>8. Cardinality(S) <= Cardinality(M) /\ Cardinality(S) \in Nat
    BY <2>4, FS_Subset, FS_CardinalityType
  <2>9. Cardinality(S) <= MaxEntries
    <3>1. Cardinality(M) \in Nat
      BY <2>4, FS_CardinalityType
    <3>2. QED
      BY <2>5, <2>8, <3>1, FewerFit
  <2>10. QED
    BY <2>7, <2>9
<1>18. QED
  BY <1>14, <1>16, <1>17, StartingKeeps

LEMMA ClaimKeeps ==
  ASSUME Owned, NEW t \in Tasks, Claim(t)
  PROVE  Owned'
<1> USE ScanShapes
<1>1. PICK k : k = KeyOf(t)
  OBVIOUS
<1>2. PICK n : n = IF store.at[KeyOf(t)] \in Stale THEN 0 ELSE store.at[KeyOf(t)]
  OBVIOUS
<1>3. PICK left \in SUBSET Stored : left = Stored \ Stale
  OBVIOUS
<1>4. PICK enough \in SUBSET Cuts(Able(left, {})) :
        enough = {c \in Cuts(Able(left, {})) : Cardinality(left \ c) < MaxEntries}
  OBVIOUS
<1>5. PICK out : out = Victims(Able(left, {}), enough)
  OBVIOUS
<1>6. /\ out \subseteq left /\ Stale \subseteq DOMAIN objs /\ left \subseteq DOMAIN objs
      /\ \A m \in Stale \cup out : objs[m].fill = 0
  BY <1>5, OutIsIdle
<1>7. /\ KeyOf(t) \in Keys
      /\ n # 0 => /\ n = store.at[KeyOf(t)] /\ n \in DOMAIN objs
                  /\ objs[n].key = KeyOf(t) /\ n \notin Stale
      /\ n = 0 => store.at[KeyOf(t)] = 0 \/ store.at[KeyOf(t)] \in Stale
  BY <1>2, EntryFound
<1>8. UNCHANGED <<lists, now>> /\ task[t].pc = "called"
  BY DEF Claim
<1>9. CASE /\ n # 0 /\ Filling(objs[n])
           /\ task' = [task EXCEPT ![t].pc = "waiting", ![t].fill = objs[n].fill]
           /\ store' = Without(Stale) /\ UNCHANGED <<objs, fills>>
  BY <1>6, <1>7, <1>8, <1>9, ClaimShares DEF Filling
<1>10. CASE /\ n # 0
            /\ task' = [task EXCEPT ![t].pc = "reusing", ![t].entry = n]
            /\ store' = Without(Stale) /\ UNCHANGED <<objs, fills>>
  BY <1>6, <1>7, <1>8, <1>10, ClaimShares
<1>11. CASE /\ n # 0 /\ ~Filling(objs[n]) /\ fills' = Append(fills, NewFill(n))
            /\ objs' = [objs EXCEPT ![n] = [objs[n] EXCEPT !.fill = Len(fills) + 1]]
            /\ task' = [task EXCEPT ![t].pc = "leading", ![t].fill = Len(fills) + 1]
            /\ store' = Without(Stale)
  BY <1>6, <1>7, <1>8, <1>11, ClaimLeads DEF Filling
<1>12. CASE /\ n = 0 /\ ~(Cardinality(left \ out) >= MaxEntries)
            /\ fills' = Append(fills, NewFill(Len(objs) + 1))
            /\ objs' = Append(objs, [key |-> k, rows |-> <<>>, window |-> Window, complete |-> FALSE,
                                     expires |-> now + TTL, seen |-> {}, fill |-> Len(fills) + 1])
            /\ task' = [task EXCEPT ![t].pc = "leading", ![t].fill = Len(fills) + 1]
            /\ store' = [Without(Stale \cup out) EXCEPT !.at[k] = Len(objs) + 1]
  <2>1. PICK e : e = [key |-> k, rows |-> <<>>, window |-> Window, complete |-> FALSE,
                      expires |-> now + TTL, seen |-> {}, fill |-> Len(fills) + 1]
    OBVIOUS
  <2>2. /\ now \in Nat /\ TTL \in Nat /\ now + TTL \in Nat /\ Window \in Nat
        /\ Len(fills) + 1 \in Nat /\ <<>> \in Seq(Nat) /\ {} \in SUBSET Seq(Nat)
    BY ScanLimits DEF Owned, ScanTypes
  <2>3. e \in EntryRecord
    BY <1>1, <1>7, <2>1, <2>2 DEF EntryRecord
  <2>4. e.key = KeyOf(t) /\ e.fill = Len(fills) + 1
    BY <1>1, <2>1
  <2>5. store'.at = [Without(Stale \cup out).at EXCEPT ![KeyOf(t)] = Len(objs) + 1]
    BY <1>1, <1>12 DEF Without
  <2>6. PICK gone \in SUBSET DOMAIN objs : gone = Stale \cup out
    BY <1>6
  <2>7. Stored \ gone = left \ out
    BY <1>3, <2>6
  <2>8. Cardinality(Stored \ gone) < MaxEntries
    <3>1. PICK L \in SUBSET Stored : L = Stored \ gone
      OBVIOUS
    <3>2. Cardinality(L) \in Nat
      BY StoredIsFinite DEF Owned
    <3>3. ~(Cardinality(L) >= MaxEntries)
      BY <1>12, <2>7, <3>1
    <3>4. MaxEntries \in Nat
      BY ScanLimits
    <3>5. Cardinality(L) < MaxEntries
      BY <3>2, <3>3, <3>4
    <3>6. QED
      BY <3>1, <3>5
  <2>9. QED
    BY <1>6, <1>7, <1>8, <1>12, <2>1, <2>3, <2>4, <2>5, <2>6, <2>8, ClaimEnters
<1>13. CASE /\ task' = [task EXCEPT ![t].pc = "done", ![t].failed = TRUE]
            /\ store' = Without(Stale \cup out) /\ UNCHANGED <<objs, fills>>
  BY <1>6, <1>8, <1>13, ClaimShares
<1>14. \/ /\ n # 0 /\ Filling(objs[n])
          /\ task' = [task EXCEPT ![t].pc = "waiting", ![t].fill = objs[n].fill]
          /\ store' = Without(Stale) /\ UNCHANGED <<objs, fills>>
       \/ /\ n # 0
          /\ task' = [task EXCEPT ![t].pc = "reusing", ![t].entry = n]
          /\ store' = Without(Stale) /\ UNCHANGED <<objs, fills>>
       \/ /\ n # 0 /\ ~Filling(objs[n]) /\ fills' = Append(fills, NewFill(n))
          /\ objs' = [objs EXCEPT ![n] = [objs[n] EXCEPT !.fill = Len(fills) + 1]]
          /\ task' = [task EXCEPT ![t].pc = "leading", ![t].fill = Len(fills) + 1]
          /\ store' = Without(Stale)
       \/ /\ n = 0 /\ ~(Cardinality(left \ out) >= MaxEntries)
          /\ fills' = Append(fills, NewFill(Len(objs) + 1))
          /\ objs' = Append(objs, [key |-> k, rows |-> <<>>, window |-> Window, complete |-> FALSE,
                                   expires |-> now + TTL, seen |-> {}, fill |-> Len(fills) + 1])
          /\ task' = [task EXCEPT ![t].pc = "leading", ![t].fill = Len(fills) + 1]
          /\ store' = [Without(Stale \cup out) EXCEPT !.at[k] = Len(objs) + 1]
       \/ /\ task' = [task EXCEPT ![t].pc = "done", ![t].failed = TRUE]
          /\ store' = Without(Stale \cup out) /\ UNCHANGED <<objs, fills>>
  <2>1. Len(objs) + 1 \notin DOMAIN objs
    BY SMT DEF Owned
  <2>2. QED
    BY <1>1, <1>2, <1>3, <1>4, <1>5, <1>7, <2>1, Zenon DEF Claim
<1>15. QED
  BY <1>9, <1>10, <1>11, <1>12, <1>13, <1>14

-------------------------------------------------------------------------------
(* Who owns what: the steps of a leader.                                   *)

\* A leader writes its entry and goes on, or is about to end its fill.
LEMMA WritingKeeps ==
  ASSUME Owned, NEW t \in Leaders, UNCHANGED <<lists, now, fills>>,
         NEW x \in EntryRecord, x.key = Entry(t).key, x.fill = Entry(t).fill,
         Len(Entry(t).rows) <= Len(x.rows),
         objs' = [objs EXCEPT ![EntryOf(t)] = x],
         NEW w \in Work, w.pc \in {"leading", "fetching", "finishing"}, w.fill = task[t].fill,
         task' = [task EXCEPT ![t] = w],
         store'.at \in [Keys -> Nat], StoreShrinks
  PROVE  Owned'
<1> USE ScanShapes DEF Owned
<1>1. t \in Tasks /\ Leads(t)
  BY DEF Leaders
<1>2. PICK n \in DOMAIN objs : n = EntryOf(t)
  BY <1>1 DEF Leads
<1>3. objs \in Seq(EntryRecord) /\ n \in 1 .. Len(objs) /\ objs' = [objs EXCEPT ![n] = x]
  BY <1>2 DEF ScanTypes
<1>4. objs' \in Seq(EntryRecord) /\ Len(objs') = Len(objs)
  <2>1. [objs EXCEPT ![n] = x] \in Seq(EntryRecord)
    BY <1>3, ExceptSeq
  <2>2. Len([objs EXCEPT ![n] = x]) = Len(objs)
    BY <1>3, ExceptSeq
  <2>3. QED
    BY <1>3, <2>1, <2>2
<1>5. SameEntries
  <2>1. \A m \in DOMAIN objs : Len(objs[m].rows) \in Nat
    BY DEF EntryRecord
  <2>2. QED
    BY <1>2, <1>3, <1>4, <2>1 DEF SameEntries, Entry
<1>6. task' \in [Tasks -> Work] /\ TasksMove
  BY <1>1, OneMoves
<1>7. ScanTypes'
  BY <1>4, <1>6 DEF ScanTypes
<1>8. QED
  BY <1>5, <1>6, <1>7, SteadyKeeps

LEMMA LeavingIs ==
  ASSUME ScanTypes, NEW t \in Tasks, NEW failed \in BOOLEAN
  PROVE  \E w \in Work : /\ w.pc = "finishing" /\ w.fill = task[t].fill /\ w.failed = failed
                         /\ w.added = task[t].added
                         /\ Leave(t, failed) = [task EXCEPT ![t] = w]
<1>1. PICK w : w = [task[t] EXCEPT !.pc = "finishing", !.failed = failed]
  OBVIOUS
<1>2. task[t] \in Work
  BY ScanShapes
<1>3. w \in Work
  BY <1>1, <1>2 DEF Work
<1>4. /\ w.pc = "finishing" /\ w.fill = task[t].fill /\ w.failed = failed
      /\ w.added = task[t].added
  BY <1>1, <1>2 DEF Work
<1>5. Leave(t, failed) = [task EXCEPT ![t] = w]
  BY <1>1 DEF Leave
<1>6. QED
  BY <1>3, <1>4, <1>5

\* A leader that writes nothing.
LEMMA LeavingKeeps ==
  ASSUME Owned, NEW t \in Leaders, UNCHANGED <<lists, now, fills, objs>>,
         store'.at \in [Keys -> Nat], StoreShrinks,
         NEW w \in Work, w.pc \in {"leading", "fetching", "finishing"}, w.fill = task[t].fill,
         task' = [task EXCEPT ![t] = w]
  PROVE  Owned'
<1>1. SameEntries
  <2>1. \A m \in DOMAIN objs : Len(objs[m].rows) \in Nat
    BY ScanShapes DEF Owned, EntryRecord
  <2>2. QED
    BY <2>1 DEF SameEntries
<1>2. t \in Tasks
  BY DEF Leaders
<1>3. task' \in [Tasks -> Work] /\ TasksMove
  BY <1>2, OneMoves
<1>4. ScanTypes'
  BY <1>3 DEF ScanTypes, Owned
<1>5. QED
  BY <1>1, <1>3, <1>4, SteadyKeeps

LEMMA StoreStays ==
  ASSUME Owned, store' = store
  PROVE  store'.at \in [Keys -> Nat] /\ StoreShrinks
BY DEF Owned, ScanTypes, StoreShrinks

LEMMA NextPageKeeps ==
  ASSUME Owned, NEW t \in Tasks, NextPage(t)
  PROVE  Owned'
<1> USE ScanShapes DEF Owned
<1>1. t \in Leaders /\ UNCHANGED <<lists, now, fills, objs, store>> /\ Leads(t)
  BY DEF NextPage, Leaders
<1>2. store'.at \in [Keys -> Nat] /\ StoreShrinks
  BY <1>1, StoreStays
<1>3. ASSUME NEW failed \in BOOLEAN, task' = Leave(t, failed)
      PROVE  Owned'
  BY <1>1, <1>2, <1>3, LeavingIs, LeavingKeeps
<1>4. PICK limit : limit = Min2(IF Paged(t) THEN Entry(t).window ELSE WideWindow,
                                Min2(Round - task[t].added, MaxCandidates - Len(Entry(t).rows)))
  OBVIOUS
<1>5. CASE ~(limit <= 0) /\ task' = [task EXCEPT ![t].pc = "fetching", ![t].limit = limit,
                                                 ![t].offset = Len(Entry(t).rows)]
  <2>1. Entry(t) \in EntryRecord
    BY <1>1 DEF Leads, Entry
  <2>2. PICK offset \in Nat : offset = Len(Entry(t).rows)
    BY <2>1 DEF EntryRecord
  <2>3. Entry(t).window \in Nat /\ task[t].added \in Nat
    BY <2>1 DEF EntryRecord, Work
  <2>4. limit \in Nat
    <3>1. PICK window \in Nat : window = IF Paged(t) THEN Entry(t).window ELSE WideWindow
      BY <2>3, ScanLimits
    <3>2. PICK left \in Int : left = Round - task[t].added
      BY <2>3, ScanLimits
    <3>3. PICK room \in Int : room = MaxCandidates - Len(Entry(t).rows)
      <4>1. MaxCandidates \in Nat
        BY ScanLimits
      <4>2. MaxCandidates - offset \in Int
        BY <4>1
      <4>3. QED
        BY <2>2, <4>2
    <3>4. limit = Min2(window, Min2(left, room)) /\ ~(limit <= 0)
      BY <1>4, <1>5, <3>1, <3>2, <3>3
    <3>5. QED
      BY <3>1, <3>2, <3>3, <3>4 DEF Min2
  <2>5. PICK w : w = [task[t] EXCEPT !.pc = "fetching", !.limit = limit, !.offset = offset]
    OBVIOUS
  <2>6. w \in Work
    BY <2>4, <2>5 DEF Work
  <2>7. w.pc = "fetching" /\ w.fill = task[t].fill
    BY <2>5 DEF Work
  <2>8. task' = [task EXCEPT ![t] = w]
    BY <1>5, <2>2, <2>5
  <2>9. QED
    BY <1>1, <1>2, <2>6, <2>7, <2>8, LeavingKeeps
<1>6. \/ task' = Leave(t, TRUE) \/ task' = Leave(t, FALSE)
      \/ ~(limit <= 0) /\ task' = [task EXCEPT ![t].pc = "fetching", ![t].limit = limit,
                                               ![t].offset = Len(Entry(t).rows)]
  BY <1>4, Zenon DEF NextPage
<1>7. QED
  BY <1>3, <1>5, <1>6

LEMMA FetchFailsKeeps ==
  ASSUME Owned, NEW t \in Tasks, FetchFails(t)
  PROVE  Owned'
<1>1. t \in Leaders /\ UNCHANGED <<lists, now, fills, objs, store>> /\ task' = Leave(t, TRUE)
  BY DEF FetchFails, Leaders
<1>2. QED
  BY <1>1, StoreStays, LeavingIs, LeavingKeeps DEF Owned

LEMMA RefusedKeeps ==
  ASSUME Owned, NEW t \in Tasks, Refused(t)
  PROVE  Owned'
<1> USE ScanShapes DEF Owned
<1>1. t \in Leaders /\ UNCHANGED <<lists, now, fills, store>> /\ Leads(t)
  BY DEF Refused, Leaders
<1>2. store'.at \in [Keys -> Nat] /\ StoreShrinks
  BY <1>1, StoreStays
<1>3. CASE task' = Leave(t, ~Paged(t)) /\ UNCHANGED objs
  BY <1>1, <1>2, <1>3, LeavingIs, LeavingKeeps
<1>4. CASE /\ objs' = [objs EXCEPT ![EntryOf(t)].window = Fallback]
           /\ task' = [task EXCEPT ![t].pc = "leading", ![t].fellBack = TRUE]
  <2>1. PICK x : x = [Entry(t) EXCEPT !.window = Fallback]
    OBVIOUS
  <2>2. Entry(t) \in EntryRecord /\ Fallback \in Nat
    BY <1>1, ScanLimits DEF Leads, Entry
  <2>3. x \in EntryRecord
    BY <2>1, <2>2 DEF EntryRecord
  <2>4. x.key = Entry(t).key /\ x.fill = Entry(t).fill /\ Len(Entry(t).rows) <= Len(x.rows)
    BY <2>1, <2>2 DEF EntryRecord
  <2>5. objs' = [objs EXCEPT ![EntryOf(t)] = x]
    BY <1>4, <2>1 DEF Entry
  <2>6. PICK w : w = [task[t] EXCEPT !.pc = "leading", !.fellBack = TRUE]
    OBVIOUS
  <2>7. w \in Work
    BY <2>6 DEF Work
  <2>8. w.pc = "leading" /\ w.fill = task[t].fill
    BY <2>6 DEF Work
  <2>9. task' = [task EXCEPT ![t] = w]
    BY <1>4, <2>6
  <2>10. QED
    BY <1>1, <1>2, <2>3, <2>4, <2>5, <2>7, <2>8, <2>9, WritingKeeps
<1>5. QED
  BY <1>3, <1>4 DEF Refused

\* What a leader takes of the page it receives.
Page(t) == Answered(lists[KeyOf(t)], task[t].offset, task[t].limit)
Taken(t) == SubSeq(Page(t), 1, Min2(Len(Page(t)), task[t].limit))
TakenSize(t) == Min2(PageSize(lists[KeyOf(t)], task[t].offset, task[t].limit), task[t].limit)

LEMMA TakenRows ==
  ASSUME ScanTypes, NEW t \in Tasks
  PROVE  /\ TakenSize(t) \in Nat /\ Taken(t) \in Seq(Nat) /\ Len(Taken(t)) = TakenSize(t)
         /\ \A i \in 1 .. TakenSize(t) :
               Taken(t)[i] = RowsFrom(lists[KeyOf(t)], task[t].offset) + i
<1>1. KeyOf(t) \in Keys /\ task[t] \in Work
  BY ScanShapes DEF Tasks, KeyOf
<1>2. PICK l \in Lists, offset \in Nat, limit \in Nat :
        l = lists[KeyOf(t)] /\ offset = task[t].offset /\ limit = task[t].limit
  BY <1>1, ScanShapes DEF Work
<1>3. PICK page \in Seq(Nat) : page = Page(t) /\ page = Answered(l, offset, limit)
  BY <1>2, PageIs DEF Page
<1>4. /\ PageSize(l, offset, limit) \in Nat /\ Len(page) = PageSize(l, offset, limit)
      /\ \A i \in 1 .. PageSize(l, offset, limit) : page[i] = RowsFrom(l, offset) + i
  BY <1>3, PageIs
<1>5. PICK n \in Nat : /\ n = Min2(Len(page), limit) /\ n <= Len(page)
                       /\ n = TakenSize(t)
  BY <1>2, <1>4 DEF Min2, TakenSize
<1>6. Taken(t) = SubSeq(page, 1, n)
  BY <1>2, <1>3, <1>5 DEF Taken
<1>7. /\ SubSeq(page, 1, n) \in Seq(Nat) /\ Len(SubSeq(page, 1, n)) = n
      /\ \A i \in 1 .. n : SubSeq(page, 1, n)[i] = page[i]
  BY <1>5, TakenIs
<1>8. \A i \in 1 .. n : i \in 1 .. PageSize(l, offset, limit)
  BY <1>4, <1>5
<1>9. QED
  BY <1>2, <1>4, <1>5, <1>6, <1>7, <1>8

\* The entry of a leader with one more page.
Grown(t) == [Entry(t) EXCEPT !.rows = @ \o Taken(t), !.seen = @ \cup {Taken(t)}]
Verdict(t) ==
    After(lists[KeyOf(t)], Taken(t), task[t].limit, Len(Entry(t).rows) + Len(Taken(t)),
          Len(Page(t)) > Len(Taken(t)))
Completed(x) == [x EXCEPT !.complete = TRUE]

\* A page is received: nothing is written, or the entry is found complete, or it grows.
LEMMA ReceivingIs ==
  ASSUME Owned, NEW t \in Tasks, Receive(t)
  PROVE  /\ t \in Leaders /\ Leads(t) /\ UNCHANGED <<lists, now, fills, req>>
         /\ task[t].pc = "fetching"
         /\ store'.at \in [Keys -> Nat] /\ StoreShrinks
         /\ \/ objs' = objs /\ task' = Leave(t, FALSE)
            \/ /\ Taken(t) = <<>>
               /\ ~(lists[KeyOf(t)].total /\ task[t].offset < lists[KeyOf(t)].rows)
               /\ objs' = [objs EXCEPT ![EntryOf(t)] = Completed(Entry(t))]
               /\ task' = Leave(t, FALSE)
            \/ /\ Taken(t) # <<>> /\ Taken(t) \notin Entry(t).seen
               /\ objs' = [objs EXCEPT ![EntryOf(t)] = IF Verdict(t) = "complete" THEN Completed(Grown(t))
                                                       ELSE Grown(t)]
               /\ \/ task' = [task EXCEPT ![t].pc = "leading", ![t].added = @ + Len(Taken(t))]
                  \/ task' = Leave(t, FALSE)
<1>1. t \in Leaders /\ Leads(t) /\ UNCHANGED <<lists, now, fills, req>> /\ task[t].pc = "fetching"
  BY DEF Receive, Leaders, Owned
<1>2. PICK able : able = Able(Stored, {EntryOf(t)})
  OBVIOUS
<1>3. PICK enough \in SUBSET Cuts(able) :
        enough = {c \in Cuts(able) : Without(c).bytes + Len(Taken(t)) <= MaxBytes}
  OBVIOUS
<1>4. PICK out : out = Victims(able, enough)
  OBVIOUS
<1>5. out \in SUBSET DOMAIN objs /\ \A m \in out : objs[m].fill = 0
  BY <1>2, <1>3, <1>4, OutIsIdle
<1>6. store' = store \/ store'.at = Without(out).at
  <2>1. \/ store' = store
        \/ store' = Without(out)
        \/ store' = [Without(out) EXCEPT !.bytes = @ + Len(Taken(t))]
    BY <1>2, <1>3, <1>4, Zenon DEF Receive, Page, Taken
  <2>2. [Without(out) EXCEPT !.bytes = @ + Len(Taken(t))].at = Without(out).at
    BY DEF Without
  <2>3. QED
    BY <2>1, <2>2
<1>7. store'.at \in [Keys -> Nat] /\ StoreShrinks
  BY <1>5, <1>6, DroppingShrinks, StoreStays
<1>8. \/ objs' = objs /\ task' = Leave(t, FALSE)
      \/ /\ Taken(t) = <<>>
         /\ ~(lists[KeyOf(t)].total /\ task[t].offset < lists[KeyOf(t)].rows)
         /\ objs' = [objs EXCEPT ![EntryOf(t)] = Completed(Entry(t))]
         /\ task' = Leave(t, FALSE)
      \/ /\ Taken(t) # <<>> /\ Taken(t) \notin Entry(t).seen
         /\ objs' = [objs EXCEPT ![EntryOf(t)] = IF Verdict(t) = "complete" THEN Completed(Grown(t))
                                                 ELSE Grown(t)]
         /\ \/ task' = [task EXCEPT ![t].pc = "leading", ![t].added = @ + Len(Taken(t))]
            \/ task' = Leave(t, FALSE)
  BY SMT, Zenon DEF Receive, Repeats, Page, Taken, Verdict, Grown, Completed
<1>9. QED
  BY <1>1, <1>7, <1>8

\* An entry that grows remains an entry of its key and its fill.
LEMMA GrownIs ==
  ASSUME Owned, NEW t \in Leaders
  PROVE  /\ Entry(t) \in EntryRecord
         /\ Grown(t) \in EntryRecord
         /\ Grown(t).key = Entry(t).key /\ Grown(t).fill = Entry(t).fill
         /\ Grown(t).rows = Entry(t).rows \o Taken(t) /\ Len(Entry(t).rows) <= Len(Grown(t).rows)
         /\ Grown(t).complete = Entry(t).complete
         /\ Grown(t).window = Entry(t).window /\ Grown(t).seen = Entry(t).seen \cup {Taken(t)}
         /\ Len(Entry(t).rows) \in Nat
         /\ \A x \in EntryRecord : /\ Completed(x) \in EntryRecord
                                   /\ Completed(x).key = x.key /\ Completed(x).fill = x.fill
                                   /\ Completed(x).rows = x.rows /\ Completed(x).window = x.window
                                   /\ Completed(x).seen = x.seen
<1>1. t \in Tasks /\ Leads(t) /\ ScanTypes
  BY DEF Leaders, Owned
<1>2. PICK e \in EntryRecord : e = Entry(t)
  BY <1>1, ScanShapes DEF Leads, Entry
<1>3. PICK items \in Seq(Nat) : items = Taken(t)
  BY <1>1, TakenRows
<1>4. PICK rows \in Seq(Nat) : /\ rows = e.rows \o items /\ Len(e.rows) <= Len(rows)
                              /\ Len(e.rows) \in Nat
  <2>1. PICK before \in Seq(Nat) : before = e.rows
    BY DEF EntryRecord
  <2>2. /\ before \o items \in Seq(Nat) /\ Len(before) <= Len(before \o items)
        /\ Len(before) \in Nat
    OBVIOUS
  <2>3. QED
    BY <2>1, <2>2
<1>5. PICK seen \in SUBSET Seq(Nat) : seen = e.seen \cup {items}
  BY DEF EntryRecord
<1>6. PICK x : x = [e EXCEPT !.rows = rows, !.seen = seen]
  OBVIOUS
<1>7. x = Grown(t)
  BY <1>2, <1>3, <1>4, <1>5, <1>6 DEF Grown
<1>8. x \in EntryRecord
  BY <1>6 DEF EntryRecord
<1>9. /\ x.key = e.key /\ x.fill = e.fill /\ x.rows = rows /\ x.complete = e.complete
      /\ x.window = e.window /\ x.seen = seen
  BY <1>6 DEF EntryRecord
<1>10. ASSUME NEW y \in EntryRecord
       PROVE  /\ Completed(y) \in EntryRecord
              /\ Completed(y).key = y.key /\ Completed(y).fill = y.fill
              /\ Completed(y).rows = y.rows /\ Completed(y).window = y.window
              /\ Completed(y).seen = y.seen
  <2>1. PICK z : z = [y EXCEPT !.complete = TRUE]
    OBVIOUS
  <2>2. z \in EntryRecord
    BY <2>1 DEF EntryRecord
  <2>3. /\ z.key = y.key /\ z.fill = y.fill /\ z.rows = y.rows /\ z.window = y.window
        /\ z.seen = y.seen
    BY <2>1 DEF EntryRecord
  <2>4. QED
    BY <2>1, <2>2, <2>3 DEF Completed
<1>11. QED
  BY <1>2, <1>3, <1>4, <1>5, <1>7, <1>8, <1>9, <1>10

LEMMA ReceiveKeeps ==
  ASSUME Owned, NEW t \in Tasks, Receive(t)
  PROVE  Owned'
<1>1. /\ t \in Leaders /\ Leads(t) /\ UNCHANGED <<lists, now, fills, req>>
      /\ store'.at \in [Keys -> Nat] /\ StoreShrinks
  BY ReceivingIs
<1>2. PICK next \in Work : /\ next.pc \in {"leading", "fetching", "finishing"}
                           /\ next.fill = task[t].fill /\ task' = [task EXCEPT ![t] = next]
  <2>1. CASE task' = Leave(t, FALSE)
    BY <2>1, LeavingIs DEF Owned
  <2>2. CASE task' = [task EXCEPT ![t].pc = "leading", ![t].added = @ + Len(Taken(t))]
    <3>1. PICK more \in Nat : more = task[t].added + Len(Taken(t))
      BY TakenRows, ScanShapes DEF Owned, Work
    <3>2. PICK w : w = [task[t] EXCEPT !.pc = "leading", !.added = more]
      OBVIOUS
    <3>3. task[t] \in Work
      BY ScanShapes DEF Owned
    <3>4. w \in Work
      BY <3>2, <3>3 DEF Work
    <3>5. w.pc = "leading" /\ w.fill = task[t].fill
      BY <3>2, <3>3 DEF Work
    <3>6. task' = [task EXCEPT ![t] = w]
      BY <2>2, <3>1, <3>2
    <3>7. QED
      BY <3>4, <3>5, <3>6
  <2>3. QED
    BY <2>1, <2>2, ReceivingIs
<1>3. CASE objs' = objs
  BY <1>1, <1>2, <1>3, LeavingKeeps
<1>4. ASSUME NEW x \in EntryRecord, x.key = Entry(t).key, x.fill = Entry(t).fill,
             Len(Entry(t).rows) <= Len(x.rows), objs' = [objs EXCEPT ![EntryOf(t)] = x]
      PROVE  Owned'
  BY <1>1, <1>2, <1>4, WritingKeeps
<1>5. CASE objs' = [objs EXCEPT ![EntryOf(t)] = Completed(Entry(t))]
  <2>1. PICK x \in EntryRecord : /\ x = Completed(Entry(t)) /\ x.key = Entry(t).key
                                 /\ x.fill = Entry(t).fill /\ Len(Entry(t).rows) <= Len(x.rows)
    <3>1. /\ Entry(t) \in EntryRecord /\ Len(Entry(t).rows) \in Nat
          /\ \A y \in EntryRecord : /\ Completed(y) \in EntryRecord /\ Completed(y).key = y.key
                                    /\ Completed(y).fill = y.fill /\ Completed(y).rows = y.rows
      BY <1>1, GrownIs
    <3>2. QED
      BY <3>1
  <2>2. QED
    BY <1>4, <1>5, <2>1
<1>6. CASE objs' = [objs EXCEPT ![EntryOf(t)] = IF Verdict(t) = "complete" THEN Completed(Grown(t))
                                                ELSE Grown(t)]
  <2>1. PICK x \in EntryRecord : /\ x = IF Verdict(t) = "complete" THEN Completed(Grown(t)) ELSE Grown(t)
                                 /\ x.key = Entry(t).key /\ x.fill = Entry(t).fill
                                 /\ Len(Entry(t).rows) <= Len(x.rows)
    <3>1. /\ Grown(t) \in EntryRecord /\ Grown(t).key = Entry(t).key /\ Grown(t).fill = Entry(t).fill
          /\ Len(Entry(t).rows) <= Len(Grown(t).rows)
          /\ \A y \in EntryRecord : /\ Completed(y) \in EntryRecord /\ Completed(y).key = y.key
                                    /\ Completed(y).fill = y.fill /\ Completed(y).rows = y.rows
      BY <1>1, GrownIs
    <3>2. QED
      BY <3>1
  <2>2. QED
    BY <1>4, <1>6, <2>1
<1>7. QED
  BY <1>3, <1>5, <1>6, ReceivingIs

LEMMA FinishFillKeeps ==
  ASSUME Owned, NEW t \in Tasks, FinishFill(t)
  PROVE  Owned'
<1> USE ScanShapes
<1>1. /\ ScanTypes /\ t \in Leaders /\ Leads(t) /\ task[t] \in Work
      /\ UNCHANGED <<lists, now>>
  BY DEF FinishFill, Leaders, Owned
<1>2. PICK n \in DOMAIN objs, f \in DOMAIN fills : n = EntryOf(t) /\ f = task[t].fill
  BY <1>1 DEF Leads
<1>3. objs[n] \in EntryRecord /\ fills[f] \in FillRecord
  BY <1>1
<1>4. PICK c \in BOOLEAN : c = (Entry(t).complete /\ ~Expired(Entry(t)))
  OBVIOUS
<1>5. PICK end \in Nat : end = Len(Entry(t).rows)
  BY <1>2, <1>3 DEF EntryRecord, Entry
<1>6. objs' \in Seq(EntryRecord)
  <2>1. PICK x : x = [objs[n] EXCEPT !.fill = 0, !.complete = c]
    OBVIOUS
  <2>2. x \in EntryRecord
    BY <1>3, <2>1 DEF EntryRecord
  <2>3. objs' = [objs EXCEPT ![n] = x]
    BY <1>2, <1>4, <2>1 DEF FinishFill
  <2>4. objs \in Seq(EntryRecord) /\ n \in 1 .. Len(objs)
    BY <1>1 DEF ScanTypes
  <2>5. [objs EXCEPT ![n] = x] \in Seq(EntryRecord)
    BY <2>2, <2>4, ExceptSeq
  <2>6. QED
    BY <2>3, <2>5
<1>7. fills' \in Seq(FillRecord)
  <2>1. PICK x : x = [fills[f] EXCEPT !.done = TRUE, !.end = end, !.complete = c]
    OBVIOUS
  <2>2. x \in FillRecord
    BY <1>3, <2>1 DEF FillRecord
  <2>3. fills' = [fills EXCEPT ![f] = x]
    BY <1>2, <1>4, <1>5, <2>1 DEF FinishFill
  <2>4. fills \in Seq(FillRecord) /\ f \in 1 .. Len(fills)
    BY <1>1 DEF ScanTypes
  <2>5. [fills EXCEPT ![f] = x] \in Seq(FillRecord)
    BY <2>2, <2>4, ExceptSeq
  <2>6. QED
    BY <2>3, <2>5
<1>8. task' \in [Tasks -> Work]
  <2>1. PICK w : w = [task[t] EXCEPT !.pc = "waiting"]
    OBVIOUS
  <2>2. w \in Work
    BY <1>1, <2>1 DEF Work
  <2>3. task' = [task EXCEPT ![t] = w]
    BY <2>1 DEF FinishFill
  <2>4. QED
    BY <1>1, <2>2, <2>3 DEF ScanTypes
<1>9. store'.at \in [Keys -> Nat]
  BY <1>1 DEF FinishFill, Without, ScanTypes
<1>10. ScanTypes'
  BY <1>1, <1>6, <1>7, <1>8, <1>9 DEF ScanTypes
<1>11. QED
  BY <1>10, FinishingKeeps

-------------------------------------------------------------------------------
(* Who owns what: views, requests, and the clock.                          *)

\* A task ends without touching the store.
LEMMA EndingKeeps ==
  ASSUME Owned, NEW t \in Tasks, t \notin Leaders, UNCHANGED <<lists, now, fills, objs, store>>,
         NEW w \in Work, w.pc = "done", task' = [task EXCEPT ![t] = w]
  PROVE  Owned'
<1>1. \A m \in DOMAIN objs : Len(objs[m].rows) \in Nat
  BY ScanShapes DEF Owned, EntryRecord
<1>2. SameEntries
  BY <1>1 DEF SameEntries
<1>3. store'.at \in [Keys -> Nat] /\ StoreShrinks
  BY StoreStays
<1>4. task' \in [Tasks -> Work] /\ TasksMove
  BY OneMoves
<1>5. ScanTypes'
  BY <1>3, <1>4 DEF ScanTypes, Owned
<1>6. QED
  BY <1>2, <1>3, <1>4, <1>5, SteadyKeeps

\* What a task that waited sees is a prefix of its entry.
LEMMA ViewIs ==
  ASSUME Owned, NEW f \in DOMAIN fills, fills[f].done
  PROVE  \E n \in DOMAIN objs, rows \in Seq(Nat), end \in Nat :
            /\ n = fills[f].entry /\ rows = objs[n].rows /\ end = fills[f].end /\ end <= Len(rows)
            /\ SubSeq(rows, 1, end) \in Seq(Nat) /\ Len(SubSeq(rows, 1, end)) = end
            /\ \A i \in 1 .. end : SubSeq(rows, 1, end)[i] = rows[i]
<1>1. PICK n \in DOMAIN objs : n = fills[f].entry /\ fills[f].end <= Len(objs[n].rows)
  BY DEF Owned, FillsEnded
<1>2. PICK rows \in Seq(Nat) : rows = objs[n].rows
  BY ScanShapes DEF Owned, EntryRecord
<1>3. PICK end \in Nat : end = fills[f].end /\ end <= Len(rows)
  BY <1>1, <1>2, ScanShapes DEF Owned, FillRecord
<1>4. /\ SubSeq(rows, 1, end) \in Seq(Nat) /\ Len(SubSeq(rows, 1, end)) = end
      /\ \A i \in 1 .. end : SubSeq(rows, 1, end)[i] = rows[i]
  BY <1>3, TakenIs
<1>5. QED
  BY <1>1, <1>2, <1>3, <1>4

LEMMA ViewForFillKeeps ==
  ASSUME Owned, NEW t \in Tasks, ViewForFill(t)
  PROVE  Owned'
<1>1. /\ task[t].pc = "waiting" /\ UNCHANGED <<lists, now, fills, objs, store>>
      /\ fills[task[t].fill].done
  BY DEF ViewForFill
<1>2. PICK f \in DOMAIN fills : f = task[t].fill /\ fills[f].done
  BY <1>1 DEF Owned, Awaits
<1>3. PICK complete \in BOOLEAN : complete = fills[f].complete
  BY ScanShapes DEF Owned, FillRecord
<1>4. PICK rows \in Seq(Nat) : rows = SubSeq(objs[fills[f].entry].rows, 1, fills[f].end)
  BY <1>2, ViewIs
<1>5. PICK w : w = [task[t] EXCEPT !.pc = "done", !.complete = complete, !.rows = rows]
  OBVIOUS
<1>6. task[t] \in Work /\ t \notin Leaders
  BY <1>1, ScanShapes DEF Owned, Leaders
<1>7. w \in Work
  BY <1>5, <1>6 DEF Work
<1>8. w.pc = "done"
  BY <1>5, <1>6 DEF Work
<1>9. task' = [task EXCEPT ![t] = w]
  BY <1>2, <1>3, <1>4, <1>5 DEF ViewForFill
<1>10. QED
  BY <1>1, <1>6, <1>7, <1>8, <1>9, EndingKeeps

LEMMA ViewForEntryKeeps ==
  ASSUME Owned, NEW t \in Tasks, ViewForEntry(t)
  PROVE  Owned'
<1>1. task[t].pc = "reusing" /\ UNCHANGED <<lists, now, fills, objs, store>>
  BY DEF ViewForEntry
<1>2. PICK n \in DOMAIN objs : n = task[t].entry
  BY <1>1 DEF Owned, Reuses
<1>3. PICK complete \in BOOLEAN, rows \in Seq(Nat) : complete = objs[n].complete /\ rows = objs[n].rows
  BY ScanShapes DEF Owned, EntryRecord
<1>4. PICK w : w = [task[t] EXCEPT !.pc = "done", !.complete = complete, !.rows = rows]
  OBVIOUS
<1>5. task[t] \in Work /\ t \notin Leaders
  BY <1>1, ScanShapes DEF Owned, Leaders
<1>6. w \in Work
  BY <1>4, <1>5 DEF Work
<1>7. w.pc = "done"
  BY <1>4, <1>5 DEF Work
<1>8. task' = [task EXCEPT ![t] = w]
  BY <1>2, <1>3, <1>4 DEF ViewForEntry
<1>9. QED
  BY <1>1, <1>5, <1>6, <1>7, <1>8, EndingKeeps

LEMMA StopWaitingKeeps ==
  ASSUME Owned, NEW t \in Tasks, StopWaiting(t)
  PROVE  Owned'
<1>1. task[t].pc = "waiting" /\ UNCHANGED <<lists, now, fills, objs, store>>
  BY DEF StopWaiting
<1>2. PICK w : w = [task[t] EXCEPT !.pc = "done", !.failed = TRUE]
  OBVIOUS
<1>3. task[t] \in Work /\ t \notin Leaders
  BY <1>1, ScanShapes DEF Owned, Leaders
<1>4. w \in Work
  BY <1>2, <1>3 DEF Work
<1>5. w.pc = "done"
  BY <1>2, <1>3 DEF Work
<1>6. task' = [task EXCEPT ![t] = w]
  BY <1>2 DEF StopWaiting
<1>7. QED
  BY <1>1, <1>3, <1>4, <1>5, <1>6, EndingKeeps

LEMMA IdleIs ==
  /\ Idle \in Work /\ Idle.pc = "idle"
  /\ [Idle EXCEPT !.pc = "called"] \in Work /\ [Idle EXCEPT !.pc = "called"].pc = "called"
<1>1. <<>> \in Seq(Nat)
  OBVIOUS
<1>2. PICK none : none = <<>> /\ none \in Seq(Nat)
  BY <1>1
<1>3. Idle = [pc |-> "idle", entry |-> 0, fill |-> 0, offset |-> 0, limit |-> 0, added |-> 0,
              fellBack |-> FALSE, rows |-> none, complete |-> FALSE, failed |-> FALSE]
  BY <1>2 DEF Idle
<1>4. Idle \in Work
  BY <1>2, <1>3 DEF Work
<1>5. Idle.pc = "idle"
  BY <1>3
<1>6. PICK e : e = [Idle EXCEPT !.pc = "called"]
  OBVIOUS
<1>7. e \in Work
  BY <1>4, <1>6 DEF Work
<1>8. e.pc = "called"
  BY <1>4, <1>6 DEF Work
<1>9. QED
  BY <1>4, <1>5, <1>6, <1>7, <1>8

\* The tasks of a request that is made anew had ended.
LEMMA BeginKeepsOwners ==
  ASSUME Owned, NEW q \in Requests, Begin(q)
  PROVE  Owned'
<1>1. /\ UNCHANGED <<lists, now, fills, objs, store>>
      /\ task' = [t \in Tasks |-> IF t[1] = q THEN [Idle EXCEPT !.pc = "called"] ELSE task[t]]
      /\ \A t \in Tasks : t[1] = q => task[t].pc \in {"idle", "done"}
  BY DEF Begin, Tasks
<1>2. PICK called \in Work : called = [Idle EXCEPT !.pc = "called"] /\ called.pc = "called"
  BY IdleIs
<1>3. task' \in [Tasks -> Work]
  BY <1>1, <1>2 DEF Owned, ScanTypes
<1>4. \A t \in Tasks : task'[t] = task[t] \/ (task'[t].pc = "called" /\ task[t].pc \in {"idle", "done"})
  BY <1>1, <1>2
<1>5. TasksMove
  BY <1>4 DEF TasksMove, Leaders
<1>6. store'.at \in [Keys -> Nat] /\ StoreShrinks
  BY <1>1, StoreStays
<1>7. ScanTypes'
  BY <1>1, <1>3, <1>6 DEF ScanTypes, Owned
<1>8. \A m \in DOMAIN objs : Len(objs[m].rows) \in Nat
  BY ScanShapes DEF Owned, EntryRecord
<1>9. SameEntries
  BY <1>1, <1>8 DEF SameEntries
<1>10. QED
  BY <1>1, <1>5, <1>6, <1>7, <1>9, SteadyKeeps

\* Steps that touch neither the store nor a task.
LEMMA OwnersUntouched ==
  ASSUME Owned, UNCHANGED <<lists, fills, objs, store, task>>, now' \in Nat
  PROVE  Owned'
<1>1. ScanTypes'
  BY DEF Owned, ScanTypes
<1>2. \A m \in DOMAIN objs : Len(objs[m].rows) \in Nat
  BY ScanShapes DEF Owned, EntryRecord
<1>3. SameEntries
  BY <1>2 DEF SameEntries
<1>4. TasksMove
  BY DEF TasksMove, Leaders
<1>5. StoreShrinks
  BY DEF StoreShrinks
<1>6. QED
  BY <1>1, <1>3, <1>4, <1>5, SteadyKeeps

LEMMA OwnedInitially == Init => Owned
<1>1. SUFFICES ASSUME Init
               PROVE  Owned
  OBVIOUS
<1>2. Idle \in Work /\ Idle.pc = "idle"
  BY IdleIs
<1>3. /\ \A t \in Tasks : task[t] = Idle
      /\ objs = <<>> /\ fills = <<>> /\ DOMAIN objs = {} /\ DOMAIN fills = {}
      /\ \A k \in Keys : store.at[k] = 0
  BY <1>1 DEF Init
<1>4. ScanTypes
  <2>1. <<>> \in Seq(EntryRecord) /\ <<>> \in Seq(FillRecord)
    OBVIOUS
  <2>2. QED
    BY <1>1, <1>2, <2>1 DEF Init, ScanTypes
<1>5. Leaders = {} /\ Stored = {}
  BY <1>2, <1>3 DEF Leaders, Stored
<1>6. Cardinality(Stored) <= MaxEntries
  BY <1>5, FS_EmptySet, ScanLimits
<1>7. QED
  BY <1>2, <1>3, <1>4, <1>5, <1>6 DEF Owned, KeysKept, FillsLed, FillsEnded

LEMMA OwnedKept == Owned /\ [Next]_vars => Owned'
<1>1. SUFFICES ASSUME Owned, [Next]_vars
               PROVE  Owned'
  OBVIOUS
<1>2. now \in Nat
  BY <1>1 DEF Owned, ScanTypes
<1>3. CASE UNCHANGED vars
  BY <1>1, <1>2, <1>3, OwnersUntouched DEF vars
<1>4. CASE \E t \in Tasks : Claim(t) \/ Lead(t) \/ ViewForFill(t) \/ StopWaiting(t) \/ ViewForEntry(t)
  BY <1>1, <1>4, ClaimKeeps, NextPageKeeps, ReceiveKeeps, RefusedKeeps, FetchFailsKeeps,
     FinishFillKeeps, ViewForFillKeeps, StopWaitingKeeps, ViewForEntryKeeps DEF Lead
<1>5. CASE \E q \in Requests : Begin(q)
  BY <1>1, <1>5, BeginKeepsOwners
<1>6. CASE \E q \in Requests : AnswerEarly(q) \/ ClientGone(q) \/ DrainEnds(q)
  BY <1>1, <1>2, <1>6, OwnersUntouched DEF AnswerEarly, ClientGone, AnswersPartly, DrainEnds
<1>7. CASE \E q \in Requests, k \in Keys : Collect(q, k) \/ Drain(q, k)
  BY <1>1, <1>2, <1>7, OwnersUntouched DEF Collect, Drain
<1>8. CASE Tick
  BY <1>1, <1>2, <1>8, OwnersUntouched DEF Tick
<1>9. QED
  BY <1>1, <1>3, <1>4, <1>5, <1>6, <1>7, <1>8 DEF Next

LEMMA OwnedIsOwned == Owned => EntriesOwned
<1>1. SUFFICES ASSUME Owned
               PROVE  EntriesOwned
  OBVIOUS
<1>2. ASSUME NEW s \in Leaders, NEW t \in Leaders, KeyOf(s) = KeyOf(t)
      PROVE  s = t
  <2>1. EntryOf(s) = EntryOf(t) /\ Entry(s).fill = task[s].fill /\ Entry(t).fill = task[t].fill
    BY <1>1, <1>2 DEF Owned, Leads
  <2>2. task[s].fill = task[t].fill
    BY <2>1 DEF Entry
  <2>3. QED
    BY <1>1, <2>2 DEF Owned, FillsLed
<1>3. QED
  BY <1>1, <1>2 DEF Owned, EntriesOwned, Leads, Awaits

-------------------------------------------------------------------------------
(* The bytes of the store are those of its entries, within the limit.      *)

BytesCounted(entries, bytes) ==
    /\ IsFiniteSet(RowsOf(entries))
    /\ bytes = BytesOf(entries) /\ bytes \in Nat /\ bytes <= MaxBytes
Counted == BytesCounted(Stored, store.bytes)

\* The rows of the entries that stay are those of all but the ones that go.
LEMMA RowsOfRest ==
  ASSUME NEW S, NEW T
  PROVE  /\ RowsOf(S \ T) = RowsOf(S) \ RowsOf(T \cap S)
         /\ RowsOf(T \cap S) \subseteq RowsOf(S)
<1>1. ASSUME NEW p, NEW n, p \in {n} \X (1 .. Len(objs[n].rows))
      PROVE  \A m : p \in {m} \X (1 .. Len(objs[m].rows)) => m = n
  BY <1>1
<1>2. QED
  BY <1>1 DEF RowsOf

\* Dropping entries takes off what their rows were counted for.
LEMMA DroppingCounts ==
  ASSUME Counted, NEW gone
  PROVE  BytesCounted(Stored \ gone, Without(gone).bytes)
<1>1. PICK R : R = RowsOf(Stored) /\ IsFiniteSet(R)
  BY DEF Counted, BytesCounted
<1>2. PICK G \in SUBSET R : G = RowsOf(gone \cap Stored)
  BY <1>1, RowsOfRest
<1>3. RowsOf(Stored \ gone) = R \ G
  BY <1>1, <1>2, RowsOfRest
<1>4. IsFiniteSet(R \ G) /\ Cardinality(R \ G) = Cardinality(R) - Cardinality(R \cap G)
  BY <1>1, FS_Difference
<1>5. PICK r \in Nat : r = Cardinality(R)
  BY <1>1, FS_CardinalityType
<1>6. PICK g \in Nat : g = Cardinality(G) /\ g <= r
  BY <1>1, <1>5, FS_Subset, FS_CardinalityType
<1>7. R \cap G = G
  OBVIOUS
<1>8. Cardinality(R \ G) = r - g
  BY <1>4, <1>5, <1>6, <1>7
<1>9. store.bytes = r /\ r <= MaxBytes
  BY <1>1, <1>5 DEF Counted, BytesCounted, BytesOf
<1>10. Without(gone).bytes = r - g
  <2>1. BytesOf(gone \cap Stored) = g
    BY <1>2, <1>6 DEF BytesOf
  <2>2. Without(gone).bytes = IF BytesOf(gone \cap Stored) > store.bytes THEN 0
                              ELSE store.bytes - BytesOf(gone \cap Stored)
    BY DEF Without
  <2>3. Without(gone).bytes = IF g > r THEN 0 ELSE r - g
    BY <1>9, <2>1, <2>2
  <2>4. QED
    BY <1>5, <1>6, <2>3
<1>11. r - g \in Nat /\ r - g <= MaxBytes
  BY <1>5, <1>6, <1>9, ScanLimits
<1>12. QED
  BY <1>3, <1>4, <1>8, <1>10, <1>11 DEF BytesCounted, BytesOf

\* The entries that stay keep their rows, and others have none.
LEMMA CountingStays ==
  ASSUME NEW S, NEW E, NEW bytes, BytesCounted(S, bytes), store'.bytes = bytes,
         \A n \in S : objs'[n].rows = objs[n].rows,
         \A n \in E : objs'[n].rows = <<>>,
         Stored' = S \cup E
  PROVE  Counted'
<1>1. \A n \in E : {n} \X (1 .. Len(objs'[n].rows)) = {}
  <2>1. Len(<<>>) = 0 /\ 1 .. 0 = {}
    OBVIOUS
  <2>2. QED
    BY <2>1
<1>2. RowsOf(Stored)' = RowsOf(S)
  BY <1>1 DEF RowsOf
<1>3. QED
  BY <1>2 DEF Counted, BytesCounted, BytesOf

LEMMA CountingKept ==
  ASSUME NEW S, NEW bytes, BytesCounted(S, bytes), store'.bytes = bytes,
         \A n \in S : objs'[n].rows = objs[n].rows, Stored' = S
  PROVE  Counted'
<1>1. PICK E : E = {}
  OBVIOUS
<1>2. \A n \in E : objs'[n].rows = <<>>
  BY <1>1
<1>3. Stored' = S \cup E
  BY <1>1
<1>4. QED
  BY <1>2, <1>3, CountingStays

\* One of the entries grows.
LEMMA CountingGrows ==
  ASSUME NEW S, NEW bytes, BytesCounted(S, bytes), NEW n \in S,
         NEW size \in Nat, NEW more \in Nat,
         size = Len(objs[n].rows), Len(objs'[n].rows) = size + more,
         \A m \in S : m # n => objs'[m].rows = objs[m].rows,
         store'.bytes = bytes + more, bytes + more <= MaxBytes,
         Stored' = S
  PROVE  Counted'
<1>1. PICK R : R = RowsOf(S) /\ IsFiniteSet(R)
  BY DEF BytesCounted
<1>2. PICK I : I = (size + 1) .. (size + more)
  OBVIOUS
<1>3. IsFiniteSet(I) /\ Cardinality(I) = more
  <2>1. PICK a \in Int, b \in Int : a = size + 1 /\ b = size + more
    OBVIOUS
  <2>2. /\ IsFiniteSet(a .. b)
        /\ Cardinality(a .. b) = IF a > b THEN 0 ELSE b - a + 1
    BY FS_Interval
  <2>3. I = a .. b
    BY <1>2, <2>1
  <2>4. (IF a > b THEN 0 ELSE b - a + 1) = more
    BY <2>1
  <2>5. QED
    BY <2>2, <2>3, <2>4
<1>4. PICK N : N = {n} \X I
  OBVIOUS
<1>5. IsFiniteSet(N) /\ Cardinality(N) = more
  <2>1. IsFiniteSet({n}) /\ Cardinality({n}) = 1
    BY FS_Singleton
  <2>2. IsFiniteSet({n} \X I) /\ Cardinality({n} \X I) = Cardinality({n}) * Cardinality(I)
    BY <1>3, <2>1, FS_Product
  <2>3. QED
    BY <1>3, <1>4, <2>1, <2>2
<1>6. RowsOf(Stored)' = R \cup N
  <2>1. 1 .. (size + more) = (1 .. size) \cup I
    BY <1>2
  <2>2. {n} \X (1 .. Len(objs'[n].rows)) = ({n} \X (1 .. Len(objs[n].rows))) \cup N
    BY <1>4, <2>1
  <2>3. \A m \in S : m # n => {m} \X (1 .. Len(objs'[m].rows)) = {m} \X (1 .. Len(objs[m].rows))
    OBVIOUS
  <2>4. PICK A : \A m \in S : A[m] = {m} \X (1 .. Len(objs[m].rows))
    <3>1. PICK A : A = [m \in S |-> {m} \X (1 .. Len(objs[m].rows))]
      OBVIOUS
    <3>2. QED
      BY <3>1
  <2>5. PICK B : \A m \in S : B[m] = {m} \X (1 .. Len(objs'[m].rows))
    <3>1. PICK B : B = [m \in S |-> {m} \X (1 .. Len(objs'[m].rows))]
      OBVIOUS
    <3>2. QED
      BY <3>1
  <2>6. B[n] = A[n] \cup N /\ \A m \in S : m # n => B[m] = A[m]
    <3>1. B[n] = {n} \X (1 .. Len(objs'[n].rows)) /\ A[n] = {n} \X (1 .. Len(objs[n].rows))
      BY <2>4, <2>5, Zenon
    <3>2. B[n] = A[n] \cup N
      BY <2>2, <3>1, Zenon
    <3>3. ASSUME NEW m \in S, m # n
          PROVE  B[m] = A[m]
      BY <2>3, <2>4, <2>5, <3>3, Zenon
    <3>4. QED
      BY <3>2, <3>3
  <2>7. UNION {B[m] : m \in S} = (UNION {A[m] : m \in S}) \cup N
    BY <2>6
  <2>8. RowsOf(S) = UNION {A[m] : m \in S} /\ RowsOf(Stored)' = UNION {B[m] : m \in S}
    BY <2>4, <2>5 DEF RowsOf
  <2>9. QED
    BY <1>1, <2>7, <2>8
<1>7. R \cap N = {}
  <2>1. SUFFICES ASSUME NEW p \in R, p \in N
                 PROVE  FALSE
    OBVIOUS
  <2>2. p[1] = n /\ p[2] \in I
    BY <1>4, <2>1
  <2>3. PICK m \in S : p \in {m} \X (1 .. Len(objs[m].rows))
    BY <1>1, <2>1 DEF RowsOf
  <2>4. p[2] \in 1 .. size
    BY <2>2, <2>3
  <2>5. QED
    BY <1>2, <2>2, <2>4
<1>8. IsFiniteSet(R \cup N) /\ Cardinality(R \cup N) = bytes + more
  <2>1. bytes = Cardinality(R) /\ bytes \in Nat
    BY <1>1 DEF BytesCounted, BytesOf
  <2>2. /\ IsFiniteSet(R \cup N)
        /\ Cardinality(R \cup N) = Cardinality(R) + Cardinality(N) - Cardinality(R \cap N)
    BY <1>1, <1>5, FS_Union
  <2>3. Cardinality(R \cap N) = 0
    BY <1>7, FS_EmptySet
  <2>4. QED
    BY <1>5, <2>1, <2>2, <2>3
<1>9. bytes + more \in Nat
  BY DEF BytesCounted
<1>10. QED
  BY <1>6, <1>8, <1>9 DEF Counted, BytesCounted, BytesOf

\* What the store holds once entries are dropped.
LEMMA StoredAfterDrop ==
  ASSUME ScanTypes, NEW gone, DOMAIN objs' = DOMAIN objs,
         \A m \in DOMAIN objs : objs'[m].key = objs[m].key,
         store'.at = Without(gone).at
  PROVE  Stored' = Stored \ gone
<1>1. store'.at = [k \in Keys |-> IF store.at[k] \in gone THEN 0 ELSE store.at[k]]
  BY DEF Without
<1>2. \A m \in DOMAIN objs : objs[m].key \in Keys /\ m # 0
  BY ScanShapes DEF EntryRecord
<1>3. QED
  BY <1>1, <1>2 DEF Stored

LEMMA StoredAsBefore ==
  ASSUME DOMAIN objs' = DOMAIN objs, \A m \in DOMAIN objs : objs'[m].key = objs[m].key,
         store'.at = store.at
  PROVE  Stored' = Stored
BY DEF Stored

\* Steps that write no row.
LEMMA RowsUntouched ==
  ASSUME Owned, Counted, DOMAIN objs' = DOMAIN objs,
         \A m \in DOMAIN objs : objs'[m].key = objs[m].key /\ objs'[m].rows = objs[m].rows,
         store' = store \/ \E gone \in SUBSET DOMAIN objs : store' = Without(gone)
  PROVE  Counted'
<1>1. Stored \subseteq DOMAIN objs
  BY DEF Stored
<1>2. CASE store' = store
  <2>1. PICK S : S = Stored /\ S = Stored'
    BY <1>2, StoredAsBefore
  <2>2. PICK bytes : bytes = store.bytes /\ store'.bytes = bytes /\ BytesCounted(S, bytes)
    BY <1>2, <2>1 DEF Counted
  <2>3. \A m \in S : objs'[m].rows = objs[m].rows
    BY <1>1, <2>1
  <2>4. QED
    BY <2>1, <2>2, <2>3, CountingKept
<1>3. ASSUME NEW gone \in SUBSET DOMAIN objs, store' = Without(gone)
      PROVE  Counted'
  <2>1. PICK S : S = Stored \ gone /\ S = Stored'
    BY <1>3, StoredAfterDrop DEF Owned
  <2>2. PICK bytes : bytes = Without(gone).bytes /\ store'.bytes = bytes /\ BytesCounted(S, bytes)
    BY <1>3, <2>1, DroppingCounts
  <2>3. \A m \in S : objs'[m].rows = objs[m].rows
    BY <1>1, <2>1
  <2>4. QED
    BY <2>1, <2>2, <2>3, CountingKept
<1>4. QED
  BY <1>2, <1>3

\* A new entry has no rows yet; what its key had is gone.
LEMMA EnteringCounts ==
  ASSUME Owned, Counted, NEW gone \in SUBSET DOMAIN objs, NEW k \in Keys,
         store.at[k] = 0 \/ store.at[k] \in gone,
         NEW e, e.key = k, e.rows = <<>>,
         objs' = Append(objs, e),
         store' = [Without(gone) EXCEPT !.at[k] = Len(objs) + 1]
  PROVE  Counted'
<1> USE ScanShapes DEF Owned
<1>1. PICK n \in Nat : n = Len(objs) + 1 /\ n \notin DOMAIN objs /\ n # 0
  BY SMT
<1>2. /\ DOMAIN objs' = DOMAIN objs \cup {n} /\ objs'[n] = e
      /\ \A m \in DOMAIN objs : objs'[m] = objs[m]
  BY <1>1 DEF ScanTypes
<1>3. store'.bytes = Without(gone).bytes
  BY DEF Without
<1>4. store'.at[k] = n /\ \A j \in Keys : j # k =>
        store'.at[j] = IF store.at[j] \in gone THEN 0 ELSE store.at[j]
  <2>1. PICK A : A = [j \in Keys |-> IF store.at[j] \in gone THEN 0 ELSE store.at[j]]
    OBVIOUS
  <2>2. store'.at = [A EXCEPT ![k] = n]
    BY <1>1, <2>1 DEF Without
  <2>3. QED
    BY <2>1, <2>2
<1>5. \A m \in DOMAIN objs : objs[m].key \in Keys /\ m # 0
  BY DEF EntryRecord
<1>6. PICK S : S = Stored \ gone
  OBVIOUS
<1>7. PICK E : E = {n}
  OBVIOUS
<1>8. Stored' = S \cup E
  <2>1. ASSUME NEW m \in DOMAIN objs
        PROVE  m \in Stored' <=> m \in Stored \ gone
    <3>1. objs'[m] = objs[m] /\ m # n /\ m \in DOMAIN objs' /\ objs[m].key \in Keys /\ m # 0
      BY <1>1, <1>2, <1>5, <2>1
    <3>2. CASE objs[m].key = k
      <4>1. m \notin Stored'
        BY <1>4, <3>1, <3>2 DEF Stored
      <4>2. m \in Stored => m \in gone
        BY <3>1, <3>2 DEF Stored
      <4>3. QED
        BY <4>1, <4>2
    <3>3. CASE objs[m].key # k
      BY <1>4, <3>1, <3>3 DEF Stored
    <3>4. QED
      BY <3>2, <3>3
  <2>2. n \in Stored'
    BY <1>2, <1>4 DEF Stored
  <2>3. Stored' \subseteq DOMAIN objs \cup {n} /\ Stored \subseteq DOMAIN objs
    BY <1>2 DEF Stored
  <2>4. QED
    BY <1>6, <1>7, <2>1, <2>2, <2>3
<1>9. PICK bytes : bytes = Without(gone).bytes /\ BytesCounted(S, bytes) /\ store'.bytes = bytes
  BY <1>3, <1>6, DroppingCounts
<1>10. \A m \in S : objs'[m].rows = objs[m].rows
  BY <1>2, <1>6 DEF Stored
<1>11. \A m \in E : objs'[m].rows = <<>>
  BY <1>2, <1>7
<1>12. QED
  BY <1>8, <1>9, <1>10, <1>11, CountingStays

LEMMA ClaimCounts ==
  ASSUME Owned, Counted, NEW t \in Tasks, Claim(t)
  PROVE  Counted'
<1> USE ScanShapes
<1>1. PICK k : k = KeyOf(t)
  OBVIOUS
<1>2. PICK n : n = IF store.at[KeyOf(t)] \in Stale THEN 0 ELSE store.at[KeyOf(t)]
  OBVIOUS
<1>3. PICK left \in SUBSET Stored : left = Stored \ Stale
  OBVIOUS
<1>4. PICK enough \in SUBSET Cuts(Able(left, {})) :
        enough = {c \in Cuts(Able(left, {})) : Cardinality(left \ c) < MaxEntries}
  OBVIOUS
<1>5. PICK out : out = Victims(Able(left, {}), enough)
  OBVIOUS
<1>6. out \subseteq left /\ Stale \subseteq DOMAIN objs /\ left \subseteq DOMAIN objs
  BY <1>5, OutIsIdle
<1>7. /\ KeyOf(t) \in Keys
      /\ n # 0 => n \in DOMAIN objs
      /\ n = 0 => store.at[KeyOf(t)] = 0 \/ store.at[KeyOf(t)] \in Stale
  BY <1>2, EntryFound
<1>8. PICK gone \in SUBSET DOMAIN objs : gone = Stale \cup out
  BY <1>6
<1>9. CASE UNCHANGED objs /\ (store' = Without(Stale) \/ store' = Without(Stale \cup out))
  BY <1>6, <1>8, <1>9, RowsUntouched
<1>10. CASE /\ n # 0
            /\ objs' = [objs EXCEPT ![n] = [objs[n] EXCEPT !.fill = Len(fills) + 1]]
            /\ store' = Without(Stale)
  <2>1. PICK x : x = [objs[n] EXCEPT !.fill = Len(fills) + 1]
    OBVIOUS
  <2>2. objs[n] \in EntryRecord
    BY <1>7, <1>10 DEF Owned
  <2>3. x.key = objs[n].key /\ x.rows = objs[n].rows
    BY <2>1, <2>2 DEF EntryRecord
  <2>4. DOMAIN objs' = DOMAIN objs /\ \A m \in DOMAIN objs : objs'[m] = IF m = n THEN x ELSE objs[m]
    BY <1>7, <1>10, <2>1
  <2>5. QED
    BY <1>6, <1>10, <2>3, <2>4, RowsUntouched
<1>11. CASE /\ n = 0
            /\ objs' = Append(objs, [key |-> k, rows |-> <<>>, window |-> Window, complete |-> FALSE,
                                     expires |-> now + TTL, seen |-> {}, fill |-> Len(fills) + 1])
            /\ store' = [Without(Stale \cup out) EXCEPT !.at[k] = Len(objs) + 1]
  <2>1. PICK e : e = [key |-> k, rows |-> <<>>, window |-> Window, complete |-> FALSE,
                      expires |-> now + TTL, seen |-> {}, fill |-> Len(fills) + 1]
    OBVIOUS
  <2>2. e.key = k /\ e.rows = <<>>
    BY <2>1
  <2>3. store.at[k] = 0 \/ store.at[k] \in gone
    BY <1>1, <1>7, <1>8, <1>11
  <2>4. k \in Keys /\ objs' = Append(objs, e)
    BY <1>1, <1>7, <1>11, <2>1
  <2>5. store' = [Without(gone) EXCEPT !.at[k] = Len(objs) + 1]
    BY <1>8, <1>11
  <2>6. QED
    BY <2>2, <2>3, <2>4, <2>5, EnteringCounts
<1>12. \/ UNCHANGED objs /\ (store' = Without(Stale) \/ store' = Without(Stale \cup out))
       \/ /\ n # 0
          /\ objs' = [objs EXCEPT ![n] = [objs[n] EXCEPT !.fill = Len(fills) + 1]]
          /\ store' = Without(Stale)
       \/ /\ n = 0
          /\ objs' = Append(objs, [key |-> k, rows |-> <<>>, window |-> Window, complete |-> FALSE,
                                   expires |-> now + TTL, seen |-> {}, fill |-> Len(fills) + 1])
          /\ store' = [Without(Stale \cup out) EXCEPT !.at[k] = Len(objs) + 1]
  <2>1. n # 0 => (IF n \in DOMAIN objs THEN [objs EXCEPT ![n] = [objs[n] EXCEPT !.fill = Len(fills) + 1]]
                  ELSE Append(objs, [objs[n] EXCEPT !.fill = Len(fills) + 1]))
                 = [objs EXCEPT ![n] = [objs[n] EXCEPT !.fill = Len(fills) + 1]]
    BY <1>7
  <2>2. Len(objs) + 1 \notin DOMAIN objs
    BY SMT DEF Owned
  <2>3. QED
    BY <1>1, <1>2, <1>3, <1>4, <1>5, <2>1, <2>2, Zenon DEF Claim
<1>13. QED
  BY <1>9, <1>10, <1>11, <1>12

\* A page is counted when it fits, on top of what is left after eviction.
LEMMA ReceiveCounts ==
  ASSUME Owned, Counted, NEW t \in Tasks, Receive(t)
  PROVE  Counted'
<1> USE ScanShapes
<1>1. t \in Leaders /\ Leads(t) /\ ScanTypes
  BY DEF Receive, Leaders, Owned
<1>2. PICK n \in DOMAIN objs : n = EntryOf(t) /\ n \in Stored /\ objs[n] \in EntryRecord
  BY <1>1 DEF Leads, Stored, Entry
<1>3. PICK able : able = Able(Stored, {EntryOf(t)})
  OBVIOUS
<1>4. PICK enough \in SUBSET Cuts(able) :
        enough = {c \in Cuts(able) : Without(c).bytes + Len(Taken(t)) <= MaxBytes}
  OBVIOUS
<1>5. PICK out \in SUBSET DOMAIN objs : out = Victims(able, enough) /\ n \notin out
  <2>1. PICK spared : spared = {EntryOf(t)} /\ able = Able(Stored, spared)
    BY <1>3
  <2>2. PICK out : out = Victims(able, enough)
    OBVIOUS
  <2>3. Stored \subseteq DOMAIN objs /\ out \subseteq Stored /\ spared \cap out = {}
    BY <2>1, <2>2, OutIsIdle
  <2>4. QED
    BY <1>2, <2>1, <2>2, <2>3
<1>6. PICK x \in EntryRecord : /\ x = IF Verdict(t) = "complete" THEN Completed(Grown(t)) ELSE Grown(t)
                               /\ x.key = objs[n].key /\ x.rows = objs[n].rows \o Taken(t)
  <2>1. /\ Grown(t) \in EntryRecord /\ Grown(t).key = Entry(t).key
        /\ Grown(t).rows = Entry(t).rows \o Taken(t)
        /\ \A y \in EntryRecord : /\ Completed(y) \in EntryRecord /\ Completed(y).key = y.key
                                  /\ Completed(y).rows = y.rows
    BY <1>1, GrownIs
  <2>2. Entry(t) = objs[n]
    BY <1>2 DEF Entry
  <2>3. QED
    BY <2>1, <2>2
<1>7. CASE objs' = objs /\ (store' = store \/ store' = Without(out))
  BY <1>7, RowsUntouched
<1>8. CASE objs' = [objs EXCEPT ![n] = Completed(Entry(t))] /\ store' = store
  <2>1. PICK y : y = Completed(Entry(t))
    OBVIOUS
  <2>2. y.key = objs[n].key /\ y.rows = objs[n].rows
    BY <1>2, <2>1 DEF Completed, Entry, EntryRecord
  <2>3. DOMAIN objs' = DOMAIN objs /\ \A m \in DOMAIN objs : objs'[m] = IF m = n THEN y ELSE objs[m]
    BY <1>8, <2>1
  <2>4. QED
    BY <1>8, <2>2, <2>3, RowsUntouched
<1>9. CASE /\ objs' = [objs EXCEPT ![n] = x]
           /\ Without(out).bytes + Len(Taken(t)) <= MaxBytes
           /\ store' = [Without(out) EXCEPT !.bytes = @ + Len(Taken(t))]
  <2>1. PICK more \in Nat : more = Len(Taken(t))
    BY <1>1, TakenRows
  <2>2. PICK size \in Nat : size = Len(objs[n].rows) /\ Len(objs[n].rows \o Taken(t)) = size + more
    <3>1. PICK before \in Seq(Nat), items \in Seq(Nat) : before = objs[n].rows /\ items = Taken(t)
      BY <1>1, <1>2, TakenRows DEF EntryRecord
    <3>2. Len(before \o items) = Len(before) + Len(items) /\ Len(before) \in Nat
      OBVIOUS
    <3>3. QED
      BY <2>1, <3>1, <3>2
  <2>3. DOMAIN objs' = DOMAIN objs /\ objs'[n] = x /\ \A m \in DOMAIN objs : m # n => objs'[m] = objs[m]
    BY <1>2, <1>9
  <2>4. store'.at = Without(out).at /\ store'.bytes = Without(out).bytes + more
    BY <1>9, <2>1 DEF Without
  <2>5. Stored' = Stored \ out
    <3>1. \A m \in DOMAIN objs : objs'[m].key = objs[m].key
      BY <1>6, <2>3
    <3>2. QED
      BY <1>1, <2>3, <2>4, <3>1, StoredAfterDrop
  <2>6. PICK S : S = Stored \ out /\ n \in S
    BY <1>2, <1>5
  <2>7. PICK bytes : bytes = Without(out).bytes /\ BytesCounted(S, bytes)
    BY <2>6, DroppingCounts
  <2>8. \A m \in S : m # n => objs'[m].rows = objs[m].rows
    BY <2>3, <2>6 DEF Stored
  <2>9. Len(objs'[n].rows) = size + more
    BY <1>6, <2>2, <2>3
  <2>10. store'.bytes = bytes + more /\ bytes + more <= MaxBytes
    BY <1>9, <2>1, <2>4, <2>7
  <2>11. Stored' = S
    BY <2>5, <2>6
  <2>12. QED
    BY <2>2, <2>6, <2>7, <2>8, <2>9, <2>10, <2>11, CountingGrows
<1>10. \/ objs' = objs /\ (store' = store \/ store' = Without(out))
       \/ objs' = [objs EXCEPT ![n] = Completed(Entry(t))] /\ store' = store
       \/ /\ objs' = [objs EXCEPT ![n] = x]
          /\ Without(out).bytes + Len(Taken(t)) <= MaxBytes
          /\ store' = [Without(out) EXCEPT !.bytes = @ + Len(Taken(t))]
  BY <1>2, <1>3, <1>4, <1>5, <1>6, Zenon DEF Receive, Page, Taken, Verdict, Grown, Completed
<1>11. QED
  BY <1>7, <1>8, <1>9, <1>10

LEMMA RefusedCounts ==
  ASSUME Owned, Counted, NEW t \in Tasks, Refused(t)
  PROVE  Counted'
<1> USE ScanShapes
<1>1. /\ UNCHANGED store /\ EntryOf(t) \in DOMAIN objs
      /\ objs' = objs \/ objs' = [objs EXCEPT ![EntryOf(t)].window = Fallback]
  BY DEF Refused, Owned, Leaders, Leads
<1>2. PICK n \in DOMAIN objs : n = EntryOf(t) /\ objs[n] \in EntryRecord
  BY <1>1 DEF Owned
<1>3. PICK x : x = [objs[n] EXCEPT !.window = Fallback]
  OBVIOUS
<1>4. x.key = objs[n].key /\ x.rows = objs[n].rows
  BY <1>2, <1>3 DEF EntryRecord
<1>5. objs' = objs \/ objs' = [objs EXCEPT ![n] = x]
  BY <1>1, <1>2, <1>3
<1>6. DOMAIN objs' = DOMAIN objs /\ \A m \in DOMAIN objs : objs'[m] \in {objs[m], IF m = n THEN x ELSE objs[m]}
  BY <1>5
<1>7. QED
  BY <1>1, <1>4, <1>6, RowsUntouched

LEMMA FinishFillCounts ==
  ASSUME Owned, Counted, NEW t \in Tasks, FinishFill(t)
  PROVE  Counted'
<1> USE ScanShapes
<1>1. EntryOf(t) \in DOMAIN objs
  BY DEF FinishFill, Owned, Leaders, Leads
<1>2. PICK n \in DOMAIN objs : n = EntryOf(t) /\ objs[n] \in EntryRecord
  BY <1>1 DEF Owned
<1>3. PICK c : c = (Entry(t).complete /\ ~Expired(Entry(t)))
  OBVIOUS
<1>4. PICK x : x = [objs[n] EXCEPT !.fill = 0, !.complete = c]
  OBVIOUS
<1>5. x.key = objs[n].key /\ x.rows = objs[n].rows
  BY <1>2, <1>4 DEF EntryRecord
<1>6. objs' = [objs EXCEPT ![n] = x] /\ (store' = store \/ store' = Without({n}))
  BY <1>2, <1>3, <1>4 DEF FinishFill
<1>7. DOMAIN objs' = DOMAIN objs /\ \A m \in DOMAIN objs : objs'[m] = IF m = n THEN x ELSE objs[m]
  BY <1>6
<1>8. {n} \in SUBSET DOMAIN objs
  OBVIOUS
<1>9. QED
  BY <1>5, <1>6, <1>7, <1>8, RowsUntouched

LEMMA CountedInitially == Init => Counted
<1>1. SUFFICES ASSUME Init
               PROVE  Counted
  OBVIOUS
<1>2. Stored = {}
  <2>1. DOMAIN objs = {}
    BY <1>1 DEF Init
  <2>2. QED
    BY <2>1 DEF Stored
<1>3. RowsOf(Stored) = {}
  BY <1>2 DEF RowsOf
<1>4. store.bytes = 0
  BY <1>1 DEF Init
<1>5. QED
  BY <1>3, <1>4, FS_EmptySet, ScanLimits DEF Counted, BytesCounted, BytesOf

LEMMA CountedKept == Owned /\ Counted /\ [Next]_vars => Counted'
<1>1. SUFFICES ASSUME Owned, Counted, [Next]_vars
               PROVE  Counted'
  OBVIOUS
<1>2. CASE UNCHANGED <<objs, store>>
  BY <1>1, <1>2, RowsUntouched
<1>3. CASE \E t \in Tasks : Claim(t) \/ Lead(t) \/ ViewForFill(t) \/ StopWaiting(t) \/ ViewForEntry(t)
  <2>1. PICK t \in Tasks : Claim(t) \/ Lead(t) \/ ViewForFill(t) \/ StopWaiting(t) \/ ViewForEntry(t)
    BY <1>3
  <2>2. CASE ViewForFill(t) \/ StopWaiting(t) \/ ViewForEntry(t) \/ NextPage(t) \/ FetchFails(t)
    BY <1>2, <2>2 DEF ViewForFill, StopWaiting, ViewForEntry, NextPage, FetchFails
  <2>3. QED
    BY <1>1, <2>1, <2>2, ClaimCounts, ReceiveCounts, RefusedCounts, FinishFillCounts DEF Lead
<1>4. CASE UNCHANGED vars
  BY <1>2, <1>4 DEF vars
<1>5. CASE \E q \in Requests : Begin(q) \/ AnswerEarly(q) \/ ClientGone(q) \/ DrainEnds(q)
  BY <1>2, <1>5 DEF Begin, AnswerEarly, ClientGone, AnswersPartly, DrainEnds
<1>6. CASE \E q \in Requests, k \in Keys : Collect(q, k) \/ Drain(q, k)
  BY <1>2, <1>6 DEF Collect, Drain
<1>7. CASE Tick
  BY <1>2, <1>7 DEF Tick
<1>8. QED
  BY <1>1, <1>3, <1>4, <1>5, <1>6, <1>7 DEF Next

\* No list is fetched twice at a time, no entry is evicted while it is filled, nobody
\* waits for a fill that no task leads, and the store keeps its size, in entries and in
\* bytes, and counts the bytes it holds: Fill, claim, appendPage, finishFill and
\* removeEntryLocked in catalog_snapshot.go.
THEOREM FillsAlwaysOwnTheirEntries == Spec => []FillsOwnTheirEntries
<1>1. Init => Owned /\ Counted
  BY OwnedInitially, CountedInitially
<1>2. (Owned /\ Counted) /\ [Next]_vars => (Owned /\ Counted)'
  BY OwnedKept, CountedKept
<1>3. Owned /\ Counted => FillsOwnTheirEntries
  BY OwnedIsOwned DEF Counted, BytesCounted, FillsOwnTheirEntries
<1>4. QED
  BY <1>1, <1>2, <1>3, PTL DEF Spec

-------------------------------------------------------------------------------
(* Answers are whole as far as the upstreams are orderly: an entry holds   *)
(* the first rows of an orderly list, whoever fetched them.                *)

Request == [pc : {"idle", "collecting", "draining", "ended"}, deadline : Nat, grace : Nat,
            got : SUBSET Keys, incomplete : BOOLEAN, budget : Int]

\* An entry holds the first rows of an orderly list in order, all of them if it is
\* complete.
RowsInOrder ==
    \A n \in DOMAIN objs :
        /\ Orderly(lists[objs[n].key]) =>
              /\ Len(objs[n].rows) <= lists[objs[n].key].rows
              /\ \A i \in 1 .. Len(objs[n].rows) : objs[n].rows[i] = i
              /\ objs[n].complete => Len(objs[n].rows) = lists[objs[n].key].rows
        /\ objs[n].window \in {Window, Fallback}

\* How many rows of a list l are asked for at most.
Within(l, limit) ==
    IF l.paged THEN limit <= Window \/ limit <= Fallback ELSE limit <= WideWindow

\* A page is fetched from where the entry ends.
FetchesInOrder ==
    \A t \in Tasks : task[t].pc = "fetching" =>
        /\ task[t].offset = Len(Entry(t).rows)
        /\ task[t].limit > 0
        /\ Within(lists[KeyOf(t)], task[t].limit)

FillsInOrder ==
    \A f \in DOMAIN fills :
        fills[f].done /\ fills[f].complete /\ Orderly(lists[objs[fills[f].entry].key]) =>
            fills[f].end = lists[objs[fills[f].entry].key].rows

\* A task that lacks nothing has the whole of an orderly list.
ViewsInOrder ==
    \A t \in Tasks : task[t].pc = "done" /\ ~Lacks(t) /\ Orderly(lists[KeyOf(t)]) =>
        task[t].rows = Whole(lists[KeyOf(t)])

\* A request that is not marked incomplete has seen no task that lacks anything.
RequestsInOrder ==
    \A q \in Requests :
        /\ req[q].pc = "collecting" =>
              \A k \in req[q].got : /\ task[<<q, k>>].pc = "done"
                                    /\ ~req[q].incomplete => ~Lacks(<<q, k>>)
        /\ req[q].pc = "draining" => req[q].incomplete
        /\ req[q].pc = "ended" /\ ~req[q].incomplete =>
              \A k \in Keys : task[<<q, k>>].pc = "done" /\ ~Lacks(<<q, k>>)

InOrder ==
    /\ req \in [Requests -> Request]
    /\ RowsInOrder
    /\ FetchesInOrder
    /\ FillsInOrder
    /\ ViewsInOrder
    /\ RequestsInOrder

\* A page of an orderly upstream, unless it comes again: rows that follow those before,
\* all that are left if it is empty or, no number being reported, shorter than asked for.
LEMMA PageOfOrderly ==
  ASSUME NEW l \in Lists, Orderly(l), NEW r \in Nat, l.offsets \/ r = 0, r <= l.rows,
         NEW limit \in Nat, limit > 0,
         Within(l, limit),
         NEW size \in Nat, size = Min2(PageSize(l, r, limit), limit)
  PROVE  /\ RowsFrom(l, r) = r
         /\ r + size <= l.rows /\ size <= limit
         /\ size = 0 /\ ~(l.total /\ r < l.rows) => r = l.rows
         /\ ~l.total /\ size < limit => r + size = l.rows
<1>1. /\ l.rows \in Nat /\ l.cap \in Nat /\ l.offsets \in BOOLEAN /\ l.limits \in BOOLEAN
      /\ l.total \in BOOLEAN /\ l.paged \in BOOLEAN
      /\ Window \in Nat /\ Fallback \in Nat /\ WideWindow \in Nat
  BY ScanLimits
<1>2. PICK left \in Nat : left = l.rows - r
  BY <1>1
<1>3. RowsFrom(l, r) = r /\ RowsLeft(l, r) = left
  BY <1>1, <1>2 DEF RowsFrom, RowsLeft
<1>4. CASE ~l.limits
  <2>1. PageSize(l, r, limit) = left
    BY <1>3, <1>4 DEF PageSize
  <2>2. QED
    BY <1>1, <1>2, <1>3, <2>1 DEF Min2
<1>5. CASE l.limits
  <2>1. PageSize(l, r, limit) = Min2(left, Min2(limit, l.cap))
    BY <1>3, <1>5 DEF PageSize
  <2>2. PICK cap \in Nat : cap = l.cap /\ cap > 0 /\ (l.total \/ limit <= cap)
    BY <1>1, <1>5 DEF Orderly, Candid, Within
  <2>3. size = Min2(Min2(left, Min2(limit, cap)), limit)
    BY <2>1, <2>2
  <2>4. size <= left /\ size <= limit
    BY <2>2, <2>3 DEF Min2
  <2>5. size = 0 => left = 0
    BY <2>2, <2>3 DEF Min2
  <2>6. ~l.total /\ size < limit => size = left
    BY <2>2, <2>3 DEF Min2
  <2>7. QED
    BY <1>1, <1>2, <1>3, <2>4, <2>5, <2>6
<1>6. QED
  BY <1>1, <1>4, <1>5

\* The rows of a list in order, as many as it has, are the list.
LEMMA AllRowsAreWhole ==
  ASSUME NEW l \in Lists, NEW rows \in Seq(Nat), Len(rows) = l.rows,
         \A i \in 1 .. Len(rows) : rows[i] = i
  PROVE  rows = Whole(l)
<1>1. l.rows \in Nat
  BY ScanLimits
<1>2. rows = [i \in 1 .. Len(rows) |-> rows[i]]
  OBVIOUS
<1>3. QED
  BY <1>1, <1>2 DEF Whole

-------------------------------------------------------------------------------
(* Answers are whole: what steps leave as it is.                           *)

\* No rows are written, and no fill ends.
NothingWritten ==
    /\ DOMAIN objs \subseteq DOMAIN objs'
    /\ \A n \in DOMAIN objs : /\ objs'[n].key = objs[n].key
                              /\ objs'[n].rows = objs[n].rows
                              /\ objs'[n].complete = objs[n].complete
                              /\ objs'[n].window \in {objs[n].window, Fallback}
    /\ \A n \in DOMAIN objs' : n \notin DOMAIN objs =>
          objs'[n].rows = <<>> /\ ~objs'[n].complete /\ objs'[n].window = Window
    /\ DOMAIN fills \subseteq DOMAIN fills'
    /\ \A f \in DOMAIN fills : fills'[f] = fills[f]
    /\ \A f \in DOMAIN fills' : f \notin DOMAIN fills => ~fills'[f].done
NoFetchBegins == \A t \in Tasks : task'[t].pc = "fetching" => task'[t] = task[t]

LEMMA EntriesStayInOrder ==
  ASSUME Owned, Owned', InOrder, lists' = lists, NothingWritten
  PROVE  RowsInOrder' /\ FillsInOrder'
<1>1. ASSUME NEW n \in DOMAIN objs'
      PROVE  /\ Orderly(lists[objs'[n].key]) =>
                   /\ Len(objs'[n].rows) <= lists[objs'[n].key].rows
                   /\ \A i \in 1 .. Len(objs'[n].rows) : objs'[n].rows[i] = i
                   /\ objs'[n].complete => Len(objs'[n].rows) = lists[objs'[n].key].rows
             /\ objs'[n].window \in {Window, Fallback}
  <2>1. CASE n \in DOMAIN objs
    BY <2>1 DEF NothingWritten, InOrder, RowsInOrder
  <2>2. CASE n \notin DOMAIN objs
    <3>1. objs'[n].rows = <<>> /\ ~objs'[n].complete /\ objs'[n].window = Window
      BY <1>1, <2>2 DEF NothingWritten
    <3>2. objs'[n].key \in Keys
      <4>1. objs' \in Seq(EntryRecord)
        BY DEF Owned, ScanTypes
      <4>2. objs'[n] \in EntryRecord
        BY <1>1, <4>1
      <4>3. QED
        BY <4>2 DEF EntryRecord
    <3>3. lists[objs'[n].key].rows \in Nat
      BY <3>2, ScanLimits DEF Owned, ScanTypes
    <3>4. Len(objs'[n].rows) = 0
      BY <3>1
    <3>5. QED
      BY <3>1, <3>3, <3>4
  <2>3. QED
    BY <2>1, <2>2
<1>2. ASSUME NEW f \in DOMAIN fills', fills'[f].done, fills'[f].complete,
             Orderly(lists[objs'[fills'[f].entry].key])
      PROVE  fills'[f].end = lists[objs'[fills'[f].entry].key].rows
  <2>1. f \in DOMAIN fills /\ fills'[f] = fills[f]
    BY <1>2 DEF NothingWritten
  <2>2. fills[f].entry \in DOMAIN objs
    BY <1>2, <2>1 DEF Owned, FillsEnded
  <2>3. QED
    BY <1>2, <2>1, <2>2 DEF NothingWritten, InOrder, FillsInOrder
<1>3. QED
  BY <1>1, <1>2 DEF RowsInOrder, FillsInOrder

LEMMA FetchesStayInOrder ==
  ASSUME Owned, InOrder, lists' = lists, NothingWritten, NoFetchBegins
  PROVE  FetchesInOrder'
<1>1. SUFFICES ASSUME NEW t \in Tasks, task'[t].pc = "fetching"
               PROVE  /\ task'[t].offset = Len(Entry(t)'.rows)
                      /\ task'[t].limit > 0
                      /\ Within(lists[KeyOf(t)], task'[t].limit)
  BY DEF FetchesInOrder
<1>2. task'[t] = task[t] /\ t \in Leaders /\ Leads(t)
  BY <1>1 DEF NoFetchBegins, Owned, Leaders
<1>3. EntryOf(t)' = EntryOf(t) /\ EntryOf(t) \in DOMAIN objs
  BY <1>2 DEF Leads, EntryOf, NothingWritten
<1>4. Entry(t)'.rows = Entry(t).rows
  BY <1>3 DEF NothingWritten, Entry
<1>5. QED
  BY <1>1, <1>2, <1>4 DEF InOrder, FetchesInOrder

\* Tasks that have ended stay as they are; what a task that ends has is whole, unless
\* it lacks something or its upstream is not orderly.
ViewsAreWhole ==
    \A t \in Tasks :
        /\ task[t].pc = "done" => task'[t] = task[t]
        /\ task'[t].pc = "done" => \/ task'[t] = task[t] \/ Lacks(t)'
                                   \/ ~Orderly(lists[KeyOf(t)])
                                   \/ task'[t].rows = Whole(lists[KeyOf(t)])

LEMMA ViewsStayInOrder ==
  ASSUME InOrder, lists' = lists, ViewsAreWhole
  PROVE  ViewsInOrder'
BY DEF InOrder, ViewsInOrder, ViewsAreWhole, Lacks

RequestsGoOn ==
    /\ req' \in [Requests -> Request]
    /\ \A q \in Requests : /\ req'[q].pc = req[q].pc /\ req'[q].got = req[q].got
                           /\ req'[q].incomplete = req[q].incomplete

LEMMA RequestsStayInOrder ==
  ASSUME InOrder, RequestsGoOn, ViewsAreWhole
  PROVE  RequestsInOrder'
<1>1. \A q \in Requests, k \in Keys : <<q, k>> \in Tasks
  BY DEF Tasks
<1>2. \A q \in Requests, k \in Keys : task[<<q, k>>].pc = "done" =>
         task'[<<q, k>>].pc = "done" /\ (~Lacks(<<q, k>>) => ~Lacks(<<q, k>>)')
  BY <1>1 DEF ViewsAreWhole, Lacks
<1>3. \A q \in Requests : req[q].got \subseteq Keys
  BY DEF InOrder, Request
<1>4. QED
  BY <1>2, <1>3 DEF InOrder, RequestsInOrder, RequestsGoOn

\* Together, for the steps that write nothing and start no fetch.
LEMMA InOrderStays ==
  ASSUME Owned, Owned', InOrder, lists' = lists, NothingWritten, NoFetchBegins, ViewsAreWhole,
         RequestsGoOn
  PROVE  InOrder'
BY EntriesStayInOrder, FetchesStayInOrder, ViewsStayInOrder, RequestsStayInOrder
DEF InOrder, RequestsGoOn

-------------------------------------------------------------------------------
(* Answers are whole: the steps that write nothing.                        *)

\* One task moves on.
LEMMA OneViews ==
  ASSUME ScanTypes, NEW t \in Tasks, task[t].pc # "done",
         NEW w \in Work, task' = [task EXCEPT ![t] = w],
         w.pc = "done" => \/ w.failed \/ ~w.complete \/ ~Orderly(lists[KeyOf(t)])
                          \/ w.rows = Whole(lists[KeyOf(t)])
  PROVE  /\ ViewsAreWhole
         /\ w.pc # "fetching" => NoFetchBegins
<1>1. task'[t] = w /\ \A s \in Tasks : s # t => task'[s] = task[s]
  BY DEF ScanTypes
<1>2. QED
  BY <1>1 DEF ViewsAreWhole, NoFetchBegins, Lacks

LEMMA NothingTouched ==
  ASSUME Owned, UNCHANGED <<objs, fills>>
  PROVE  NothingWritten
BY DEF NothingWritten

LEMMA RequestsUntouched ==
  ASSUME InOrder, UNCHANGED req
  PROVE  RequestsGoOn
BY DEF RequestsGoOn, InOrder

LEMMA ClaimInOrder ==
  ASSUME Owned, Owned', InOrder, NEW t \in Tasks, Claim(t)
  PROVE  InOrder'
<1> USE ScanShapes
<1>1. ScanTypes /\ task[t] \in Work /\ task[t].pc = "called" /\ UNCHANGED <<lists, now, req>>
  BY DEF Claim, Owned
<1>2. RequestsGoOn
  BY <1>1, RequestsUntouched
<1>3. PICK n : n = IF store.at[KeyOf(t)] \in Stale THEN 0 ELSE store.at[KeyOf(t)]
  OBVIOUS
<1>4. n # 0 => n \in DOMAIN objs /\ objs[n].key = KeyOf(t)
  BY <1>3, EntryFound
<1>5. NothingWritten
  <2>1. CASE UNCHANGED <<objs, fills>>
    BY <2>1, NothingTouched
  <2>2. CASE /\ n # 0 /\ fills' = Append(fills, NewFill(n))
             /\ objs' = [objs EXCEPT ![n] = [objs[n] EXCEPT !.fill = Len(fills) + 1]]
    <3>1. PICK f : f = Len(fills) + 1
      OBVIOUS
    <3>2. PICK x : x = [objs[n] EXCEPT !.fill = f]
      OBVIOUS
    <3>3. /\ x.key = objs[n].key /\ x.rows = objs[n].rows
          /\ x.complete = objs[n].complete /\ x.window = objs[n].window
      BY <1>1, <1>4, <2>2, <3>2 DEF EntryRecord
    <3>4. objs' = [objs EXCEPT ![n] = x]
      BY <2>2, <3>1, <3>2
    <3>5. /\ DOMAIN objs' = DOMAIN objs /\ objs'[n] = x
          /\ \A m \in DOMAIN objs : m # n => objs'[m] = objs[m]
      BY <1>4, <2>2, <3>4
    <3>6. /\ DOMAIN fills \subseteq DOMAIN fills'
          /\ \A g \in DOMAIN fills : fills'[g] = fills[g]
          /\ \A g \in DOMAIN fills' : g \notin DOMAIN fills => fills'[g] = NewFill(n)
      <4>1. fills \in Seq(FillRecord) /\ fills' = Append(fills, NewFill(n))
        BY <1>1, <2>2 DEF ScanTypes
      <4>2. QED
        BY <4>1
    <3>7. ~NewFill(n).done
      BY DEF NewFill
    <3>8. QED
      BY <3>3, <3>5, <3>6, <3>7 DEF NothingWritten
  <2>3. CASE /\ fills' = Append(fills, NewFill(Len(objs) + 1))
             /\ objs' = Append(objs, [key |-> KeyOf(t), rows |-> <<>>, window |-> Window,
                                      complete |-> FALSE, expires |-> now + TTL, seen |-> {},
                                      fill |-> Len(fills) + 1])
    <3>1. PICK x : x = [key |-> KeyOf(t), rows |-> <<>>, window |-> Window, complete |-> FALSE,
                        expires |-> now + TTL, seen |-> {}, fill |-> Len(fills) + 1]
      OBVIOUS
    <3>2. x.rows = <<>> /\ ~x.complete /\ x.window = Window
      BY <3>1
    <3>3. PICK new : new = NewFill(Len(objs) + 1) /\ ~new.done
      <4>1. ~NewFill(Len(objs) + 1).done
        BY DEF NewFill
      <4>2. QED
        BY <4>1
    <3>4. /\ DOMAIN fills \subseteq DOMAIN fills'
          /\ \A g \in DOMAIN fills : fills'[g] = fills[g]
          /\ \A g \in DOMAIN fills' : g \notin DOMAIN fills => fills'[g] = new
      <4>1. fills \in Seq(FillRecord) /\ fills' = Append(fills, new)
        BY <1>1, <2>3, <3>3 DEF ScanTypes
      <4>2. QED
        BY <4>1
    <3>5. /\ DOMAIN objs \subseteq DOMAIN objs'
          /\ \A m \in DOMAIN objs : objs'[m] = objs[m]
          /\ \A m \in DOMAIN objs' : m \notin DOMAIN objs => objs'[m] = x
      <4>1. objs \in Seq(EntryRecord) /\ objs' = Append(objs, x)
        BY <1>1, <2>3, <3>1 DEF ScanTypes
      <4>2. QED
        BY <4>1
    <3>6. QED
      BY <3>2, <3>3, <3>4, <3>5 DEF NothingWritten
  <2>4. Len(objs) + 1 \notin DOMAIN objs
    BY <1>1, SMT
  <2>5. QED
    BY <1>3, <1>4, <2>1, <2>2, <2>3, <2>4, Zenon DEF Claim
<1>6. ViewsAreWhole /\ NoFetchBegins
  <2>1. ASSUME NEW f, task' = [task EXCEPT ![t].pc = "waiting", ![t].fill = f], f \in Nat
        PROVE  ViewsAreWhole /\ NoFetchBegins
    <3>1. PICK w : w = [task[t] EXCEPT !.pc = "waiting", !.fill = f]
      OBVIOUS
    <3>2. w \in Work
      BY <1>1, <2>1, <3>1 DEF Work
    <3>3. w.pc = "waiting"
      BY <1>1, <3>1 DEF Work
    <3>4. task' = [task EXCEPT ![t] = w]
      BY <2>1, <3>1
    <3>5. QED
      BY <1>1, <3>2, <3>3, <3>4, OneViews
  <2>2. ASSUME NEW f, task' = [task EXCEPT ![t].pc = "leading", ![t].fill = f], f \in Nat
        PROVE  ViewsAreWhole /\ NoFetchBegins
    <3>1. PICK w : w = [task[t] EXCEPT !.pc = "leading", !.fill = f]
      OBVIOUS
    <3>2. w \in Work
      BY <1>1, <2>2, <3>1 DEF Work
    <3>3. w.pc = "leading"
      BY <1>1, <3>1 DEF Work
    <3>4. task' = [task EXCEPT ![t] = w]
      BY <2>2, <3>1
    <3>5. QED
      BY <1>1, <3>2, <3>3, <3>4, OneViews
  <2>3. ASSUME n # 0, task' = [task EXCEPT ![t].pc = "reusing", ![t].entry = n]
        PROVE  ViewsAreWhole /\ NoFetchBegins
    <3>1. n \in Nat
      BY <1>1, <1>4, <2>3
    <3>2. PICK w : w = [task[t] EXCEPT !.pc = "reusing", !.entry = n]
      OBVIOUS
    <3>3. w \in Work
      BY <1>1, <3>1, <3>2 DEF Work
    <3>4. w.pc = "reusing"
      BY <1>1, <3>2 DEF Work
    <3>5. task' = [task EXCEPT ![t] = w]
      BY <2>3, <3>2
    <3>6. QED
      BY <1>1, <3>3, <3>4, <3>5, OneViews
  <2>4. ASSUME task' = [task EXCEPT ![t].pc = "done", ![t].failed = TRUE]
        PROVE  ViewsAreWhole /\ NoFetchBegins
    <3>1. PICK w : w = [task[t] EXCEPT !.pc = "done", !.failed = TRUE]
      OBVIOUS
    <3>2. w \in Work
      BY <1>1, <3>1 DEF Work
    <3>3. w.pc = "done" /\ w.failed
      BY <1>1, <3>1 DEF Work
    <3>4. task' = [task EXCEPT ![t] = w]
      BY <2>4, <3>1
    <3>5. QED
      BY <1>1, <3>2, <3>3, <3>4, OneViews
  <2>5. \/ n # 0 /\ task' = [task EXCEPT ![t].pc = "waiting", ![t].fill = objs[n].fill]
        \/ n # 0 /\ task' = [task EXCEPT ![t].pc = "reusing", ![t].entry = n]
        \/ task' = [task EXCEPT ![t].pc = "leading", ![t].fill = Len(fills) + 1]
        \/ task' = [task EXCEPT ![t].pc = "done", ![t].failed = TRUE]
    BY <1>3, Zenon DEF Claim
  <2>6. Len(fills) + 1 \in Nat /\ (n # 0 => objs[n].fill \in Nat)
    BY <1>1, <1>4 DEF EntryRecord
  <2>7. QED
    BY <2>1, <2>2, <2>3, <2>4, <2>5, <2>6
<1>7. QED
  BY <1>1, <1>2, <1>5, <1>6, InOrderStays

\* A leader gives up, or has enough.
LEMMA LeavesInOrder ==
  ASSUME Owned, Owned', InOrder, NEW t \in Leaders, UNCHANGED <<lists, objs, fills>>,
         NEW failed \in BOOLEAN, task' = Leave(t, failed), RequestsGoOn
  PROVE  InOrder'
<1>1. ScanTypes /\ t \in Tasks /\ task[t].pc # "done"
  BY DEF Owned, Leaders
<1>2. PICK w \in Work : w.pc = "finishing" /\ task' = [task EXCEPT ![t] = w]
  BY <1>1, LeavingIs
<1>3. ViewsAreWhole /\ NoFetchBegins
  BY <1>1, <1>2, OneViews
<1>4. QED
  BY <1>3, NothingTouched, InOrderStays

LEMMA NextPageInOrder ==
  ASSUME Owned, Owned', InOrder, NEW t \in Tasks, NextPage(t)
  PROVE  InOrder'
<1> USE ScanShapes
<1>1. /\ t \in Leaders /\ UNCHANGED <<lists, now, fills, objs, store>> /\ Leads(t) /\ ScanTypes
      /\ task[t] \in Work /\ task[t].pc = "leading"
  BY DEF NextPage, Leaders, Owned
<1>2. ASSUME NEW failed \in BOOLEAN, task' = Leave(t, failed), req' = req
      PROVE  InOrder'
  BY <1>1, <1>2, LeavesInOrder, RequestsUntouched
<1>3. PICK limit : limit = Min2(IF Paged(t) THEN Entry(t).window ELSE WideWindow,
                                Min2(Round - task[t].added, MaxCandidates - Len(Entry(t).rows)))
  OBVIOUS
<1>4. PICK q \in Requests : q = t[1]
  BY DEF Tasks
<1>5. CASE /\ ~(limit <= 0)
           /\ req' = [req EXCEPT ![q].budget = @ - 1]
           /\ task' = [task EXCEPT ![t].pc = "fetching", ![t].limit = limit,
                                   ![t].offset = Len(Entry(t).rows)]
  <2>1. Entry(t) \in EntryRecord /\ EntryOf(t) \in DOMAIN objs
    BY <1>1 DEF Leads, Entry
  <2>2. PICK offset \in Nat : offset = Len(Entry(t).rows)
    BY <2>1 DEF EntryRecord
  <2>3. Entry(t).window \in {Window, Fallback} /\ task[t].added \in Nat
    BY <1>1, <2>1 DEF InOrder, RowsInOrder, Entry, Work
  <2>4. /\ limit \in Nat /\ limit > 0
        /\ Within(lists[KeyOf(t)], limit)
    <3>1. PICK window \in Nat : /\ window = IF Paged(t) THEN Entry(t).window ELSE WideWindow
                                /\ IF Paged(t) THEN window = Window \/ window = Fallback
                                   ELSE window = WideWindow
      BY <2>3, ScanLimits
    <3>2. PICK left \in Int : left = Round - task[t].added
      BY <2>3, ScanLimits
    <3>3. PICK room \in Int : room = MaxCandidates - Len(Entry(t).rows)
      <4>1. MaxCandidates \in Nat
        BY ScanLimits
      <4>2. MaxCandidates - offset \in Int
        BY <4>1
      <4>3. QED
        BY <2>2, <4>2
    <3>4. limit = Min2(window, Min2(left, room)) /\ ~(limit <= 0)
      BY <1>3, <1>5, <3>1, <3>2, <3>3
    <3>5. limit \in Nat /\ limit > 0 /\ limit <= window
      BY <3>1, <3>2, <3>3, <3>4 DEF Min2
    <3>6. QED
      BY <3>1, <3>5 DEF Within, Paged
  <2>5. PICK w : w = [task[t] EXCEPT !.pc = "fetching", !.limit = limit, !.offset = offset]
    OBVIOUS
  <2>6. w \in Work
    BY <1>1, <2>4, <2>5 DEF Work
  <2>7. w.pc = "fetching" /\ w.fill = task[t].fill /\ w.limit = limit /\ w.offset = offset
    BY <1>1, <2>5 DEF Work
  <2>8. task' = [task EXCEPT ![t] = w]
    BY <1>5, <2>2, <2>5
  <2>9. ViewsAreWhole
    BY <1>1, <2>6, <2>7, <2>8, OneViews
  <2>10. RequestsGoOn
    <3>1. PICK more \in Int : more = req[q].budget - 1
      BY DEF InOrder, Request
    <3>2. PICK x : x = [req[q] EXCEPT !.budget = more]
      OBVIOUS
    <3>3. req[q] \in Request
      BY DEF InOrder
    <3>4. x \in Request
      BY <3>2, <3>3 DEF Request
    <3>5. x.pc = req[q].pc /\ x.got = req[q].got /\ x.incomplete = req[q].incomplete
      BY <3>2, <3>3 DEF Request
    <3>6. req' = [req EXCEPT ![q] = x]
      BY <1>5, <3>1, <3>2
    <3>7. QED
      BY <3>4, <3>5, <3>6 DEF RequestsGoOn, InOrder
  <2>11. FetchesInOrder'
    <3>1. SUFFICES ASSUME NEW s \in Tasks, task'[s].pc = "fetching"
                   PROVE  /\ task'[s].offset = Len(Entry(s)'.rows)
                          /\ task'[s].limit > 0
                          /\ Within(lists[KeyOf(s)], task'[s].limit)
      BY <1>1 DEF FetchesInOrder
    <3>2. task'[t] = w /\ \A r \in Tasks : r # t => task'[r] = task[r]
      BY <1>1, <2>8
    <3>3. Entry(s)' = Entry(s)
      BY <1>1, <2>7, <3>2 DEF Entry, EntryOf
    <3>4. CASE s = t
      BY <2>2, <2>4, <2>7, <3>2, <3>3, <3>4
    <3>5. CASE s # t
      BY <3>1, <3>2, <3>3, <3>5 DEF InOrder, FetchesInOrder
    <3>6. QED
      BY <3>4, <3>5
  <2>12. NothingWritten
    BY <1>1, NothingTouched
  <2>13. QED
    BY <1>1, <2>9, <2>10, <2>11, <2>12, EntriesStayInOrder, ViewsStayInOrder, RequestsStayInOrder
    DEF InOrder, RequestsGoOn
<1>6. \/ task' = Leave(t, TRUE) /\ req' = req
      \/ task' = Leave(t, FALSE) /\ req' = req
      \/ /\ ~(limit <= 0)
         /\ req' = [req EXCEPT ![q].budget = @ - 1]
         /\ task' = [task EXCEPT ![t].pc = "fetching", ![t].limit = limit,
                                 ![t].offset = Len(Entry(t).rows)]
  BY <1>3, <1>4, Zenon DEF NextPage
<1>7. QED
  BY <1>2, <1>5, <1>6

LEMMA FetchFailsInOrder ==
  ASSUME Owned, Owned', InOrder, NEW t \in Tasks, FetchFails(t)
  PROVE  InOrder'
<1>1. t \in Leaders /\ UNCHANGED <<lists, fills, objs, req>> /\ task' = Leave(t, TRUE)
  BY DEF FetchFails, Leaders
<1>2. QED
  BY <1>1, LeavesInOrder, RequestsUntouched

LEMMA RefusedInOrder ==
  ASSUME Owned, Owned', InOrder, NEW t \in Tasks, Refused(t)
  PROVE  InOrder'
<1> USE ScanShapes
<1>1. /\ t \in Leaders /\ UNCHANGED <<lists, now, fills, store, req>> /\ Leads(t) /\ ScanTypes
      /\ task[t] \in Work /\ task[t].pc = "fetching"
  BY DEF Refused, Leaders, Owned
<1>2. RequestsGoOn
  BY <1>1, RequestsUntouched
<1>3. CASE task' = Leave(t, ~Paged(t)) /\ UNCHANGED objs
  BY <1>1, <1>2, <1>3, LeavesInOrder
<1>4. CASE /\ objs' = [objs EXCEPT ![EntryOf(t)].window = Fallback]
           /\ task' = [task EXCEPT ![t].pc = "leading", ![t].fellBack = TRUE]
  <2>1. PICK n \in DOMAIN objs : n = EntryOf(t)
    BY <1>1 DEF Leads
  <2>2. PICK x : x = [objs[n] EXCEPT !.window = Fallback]
    OBVIOUS
  <2>3. objs[n] \in EntryRecord
    BY <1>1
  <2>4. /\ x.key = objs[n].key /\ x.rows = objs[n].rows /\ x.complete = objs[n].complete
        /\ x.window = Fallback
    BY <2>2, <2>3 DEF EntryRecord
  <2>5. objs' = [objs EXCEPT ![n] = x]
    BY <1>4, <2>1, <2>2
  <2>6. /\ DOMAIN objs' = DOMAIN objs /\ objs'[n] = x
        /\ \A m \in DOMAIN objs : m # n => objs'[m] = objs[m]
    BY <2>5
  <2>7. NothingWritten
    BY <1>1, <2>4, <2>6 DEF NothingWritten
  <2>8. PICK w : w = [task[t] EXCEPT !.pc = "leading", !.fellBack = TRUE]
    OBVIOUS
  <2>9. w \in Work
    BY <1>1, <2>8 DEF Work
  <2>10. w.pc = "leading"
    BY <1>1, <2>8 DEF Work
  <2>11. task' = [task EXCEPT ![t] = w]
    BY <1>4, <2>8
  <2>12. ViewsAreWhole /\ NoFetchBegins
    BY <1>1, <2>9, <2>10, <2>11, OneViews
  <2>13. QED
    BY <1>1, <1>2, <2>7, <2>12, InOrderStays
<1>5. QED
  BY <1>3, <1>4 DEF Refused

-------------------------------------------------------------------------------
(* Answers are whole: a page is stored, a fill ends.                       *)

\* The entry of a leader is rewritten, in order.
LEMMA RewritingInOrder ==
  ASSUME Owned, Owned', InOrder, NEW t \in Leaders, UNCHANGED <<lists, fills, req>>,
         NEW x \in EntryRecord, x.key = Entry(t).key, x.window = Entry(t).window,
         objs' = [objs EXCEPT ![EntryOf(t)] = x],
         Orderly(lists[KeyOf(t)]) =>
            /\ Len(x.rows) <= lists[KeyOf(t)].rows /\ \A i \in 1 .. Len(x.rows) : x.rows[i] = i
            /\ x.complete => Len(x.rows) = lists[KeyOf(t)].rows,
         NEW w \in Work, w.pc \in {"leading", "finishing"}, task' = [task EXCEPT ![t] = w]
  PROVE  InOrder'
<1> USE ScanShapes
<1>1. ScanTypes /\ t \in Tasks /\ Leads(t) /\ task[t].pc # "done"
  BY DEF Owned, Leaders
<1>2. PICK n \in DOMAIN objs : n = EntryOf(t) /\ objs[n].key = KeyOf(t)
  BY <1>1 DEF Leads, Entry
<1>3. objs' = [objs EXCEPT ![n] = x] /\ x.key = objs[n].key /\ x.window = objs[n].window
  BY <1>2 DEF Entry
<1>4. /\ DOMAIN objs' = DOMAIN objs /\ objs'[n] = x
      /\ \A m \in DOMAIN objs : m # n => objs'[m] = objs[m]
  BY <1>3
<1>5. RowsInOrder'
  <2>1. SUFFICES ASSUME NEW m \in DOMAIN objs
                 PROVE  /\ Orderly(lists[objs'[m].key]) =>
                              /\ Len(objs'[m].rows) <= lists[objs'[m].key].rows
                              /\ \A i \in 1 .. Len(objs'[m].rows) : objs'[m].rows[i] = i
                              /\ objs'[m].complete =>
                                    Len(objs'[m].rows) = lists[objs'[m].key].rows
                        /\ objs'[m].window \in {Window, Fallback}
    BY <1>4 DEF RowsInOrder
  <2>2. CASE m = n
    BY <1>2, <1>3, <1>4, <2>2 DEF InOrder, RowsInOrder
  <2>3. CASE m # n
    BY <1>4, <2>3 DEF InOrder, RowsInOrder
  <2>4. QED
    BY <2>2, <2>3
<1>6. FillsInOrder'
  <2>1. \A m \in DOMAIN objs : objs'[m].key = objs[m].key
    BY <1>3, <1>4
  <2>2. \A f \in DOMAIN fills : fills[f].done => fills[f].entry \in DOMAIN objs
    BY DEF Owned, FillsEnded
  <2>3. QED
    BY <2>1, <2>2 DEF InOrder, FillsInOrder
<1>7. /\ task'[t] = w /\ \A s \in Tasks : s # t => task'[s] = task[s]
  BY <1>1
<1>8. FetchesInOrder'
  <2>1. SUFFICES ASSUME NEW s \in Tasks, task'[s].pc = "fetching"
                 PROVE  /\ task'[s].offset = Len(Entry(s)'.rows)
                        /\ task'[s].limit > 0
                        /\ Within(lists[KeyOf(s)], task'[s].limit)
    BY DEF FetchesInOrder
  <2>2. s # t /\ task'[s] = task[s]
    BY <1>7, <2>1
  <2>3. s \in Leaders
    BY <2>1, <2>2 DEF Leaders
  <2>4. Leads(s) /\ task[s].fill # task[t].fill
    BY <2>2, <2>3 DEF Owned, FillsLed
  <2>5. EntryOf(s) \in DOMAIN objs /\ EntryOf(s) # n
    BY <1>1, <1>2, <2>4 DEF Leads, Entry
  <2>6. Entry(s)' = Entry(s)
    BY <1>4, <2>2, <2>5 DEF Entry, EntryOf
  <2>7. QED
    BY <2>1, <2>2, <2>6 DEF InOrder, FetchesInOrder
<1>9. ViewsAreWhole
  BY <1>1, OneViews
<1>10. RequestsGoOn
  BY RequestsUntouched
<1>11. QED
  BY <1>5, <1>6, <1>8, <1>9, <1>10, ViewsStayInOrder, RequestsStayInOrder DEF InOrder

LEMMA GrowingInOrder ==
  ASSUME NEW rows \in Seq(Nat), NEW items \in Seq(Nat), NEW r \in Nat, r = Len(rows),
         NEW size \in Nat, size = Len(items),
         \A i \in 1 .. r : rows[i] = i, \A i \in 1 .. size : items[i] = r + i
  PROVE  /\ rows \o items \in Seq(Nat) /\ Len(rows \o items) = r + size
         /\ \A i \in 1 .. r + size : (rows \o items)[i] = i
<1>1. /\ rows \o items \in Seq(Nat) /\ Len(rows \o items) = r + size
  OBVIOUS
<1>2. ASSUME NEW i \in 1 .. r + size
      PROVE  (rows \o items)[i] = i
  <2>1. CASE i \in 1 .. r
    BY <2>1
  <2>2. CASE i \notin 1 .. r
    <3>1. PICK j \in 1 .. size : j = i - r
      BY <1>2, <2>2
    <3>2. (rows \o items)[i] = items[j]
      BY <2>2, <3>1
    <3>3. QED
      BY <3>1, <3>2
  <2>3. QED
    BY <2>1, <2>2
<1>3. QED
  BY <1>1, <1>2

\* Rows and a page that follows them are in order; they are the whole list l if the page
\* says so, or is empty while nothing tells of more.
PageFits(l, rows, items, more, whole) ==
    /\ Len(rows) <= l.rows /\ \A i \in 1 .. Len(rows) : rows[i] = i
    /\ items = <<>> /\ ~more => Len(rows) = l.rows
    /\ Len(rows \o items) <= l.rows
    /\ \A i \in 1 .. Len(rows \o items) : (rows \o items)[i] = i
    /\ whole => Len(rows \o items) = l.rows
More(t, l) == l.total /\ task[t].offset < l.rows
SaidWhole(t) == Entry(t).complete \/ Verdict(t) = "complete"

\* What a page of an orderly upstream adds to the entry of its list, unless it comes
\* again.
LEMMA PageInOrder ==
  ASSUME Owned, InOrder, NEW t \in Leaders, task[t].pc = "fetching",
         NEW l \in Lists, l = lists[KeyOf(t)], Orderly(l),
         NEW rows \in Seq(Nat), rows = Entry(t).rows, l.offsets \/ rows = <<>>,
         NEW items \in Seq(Nat), items = Taken(t)
  PROVE  PageFits(l, rows, items, More(t, l), SaidWhole(t))
<1>1. /\ t \in Tasks /\ Leads(t) /\ ScanTypes /\ task[t] \in Work
  BY ScanShapes DEF Owned, Leaders
<1>2. PICK n \in DOMAIN objs : n = EntryOf(t) /\ objs[n] = Entry(t) /\ objs[n].key = KeyOf(t)
  BY <1>1 DEF Leads, Entry
<1>3. PICK r \in Nat : /\ r = Len(rows) /\ r <= l.rows /\ \A i \in 1 .. r : rows[i] = i
                       /\ Entry(t).complete => r = l.rows
  <2>1. Len(rows) \in Nat
    OBVIOUS
  <2>2. /\ Len(rows) <= l.rows /\ \A i \in 1 .. Len(rows) : rows[i] = i
        /\ Entry(t).complete => Len(rows) = l.rows
    BY <1>2 DEF InOrder, RowsInOrder
  <2>3. QED
    BY <2>1, <2>2
<1>4. PICK limit \in Nat : /\ limit = task[t].limit /\ limit > 0
                           /\ Within(l, limit)
  BY <1>1 DEF InOrder, FetchesInOrder, Work
<1>5. task[t].offset = r
  BY <1>1, <1>3 DEF InOrder, FetchesInOrder
<1>6. PICK size \in Nat : size = Len(items) /\ size = Min2(PageSize(l, r, limit), limit)
                          /\ \A i \in 1 .. size : items[i] = RowsFrom(l, r) + i
  BY <1>1, <1>4, <1>5, TakenRows DEF TakenSize
<1>7. /\ RowsFrom(l, r) = r /\ r + size <= l.rows /\ size <= limit
      /\ size = 0 /\ ~(l.total /\ r < l.rows) => r = l.rows
      /\ ~l.total /\ size < limit => r + size = l.rows
  <2>1. l.offsets \/ r = 0
    BY <1>3
  <2>2. QED
    BY <1>3, <1>4, <1>6, <2>1, PageOfOrderly
<1>8. items = <<>> /\ ~(l.total /\ task[t].offset < l.rows) => r = l.rows
  BY <1>5, <1>6, <1>7
<1>9. /\ Len(rows \o items) = r + size
      /\ \A i \in 1 .. r + size : (rows \o items)[i] = i
  <2>0. rows \in Seq(Nat) /\ items \in Seq(Nat)
    OBVIOUS
  <2>1. \A i \in 1 .. size : items[i] = r + i
    BY <1>6, <1>7
  <2>2. r = Len(rows) /\ size = Len(items) /\ \A i \in 1 .. r : rows[i] = i
    BY <1>3, <1>6
  <2>3. /\ rows \o items \in Seq(Nat) /\ Len(rows \o items) = r + size
        /\ \A i \in 1 .. r + size : (rows \o items)[i] = i
    BY <1>3, <1>6, <2>0, <2>1, <2>2, GrowingInOrder
  <2>4. QED
    BY <2>3
<1>10. Verdict(t) = "complete" => r + size = l.rows
  <2>1. Verdict(t) = After(l, items, limit, r + size, Len(Page(t)) > size)
    BY <1>3, <1>4, <1>6 DEF Verdict
  <2>2. SUFFICES ASSUME After(l, items, limit, r + size, Len(Page(t)) > size) = "complete"
                 PROVE  r + size = l.rows
    BY <2>1
  <2>3. l.total \in BOOLEAN /\ l.paged \in BOOLEAN /\ l.rows \in Nat
    BY ScanLimits
  <2>4. \/ l.total /\ r + size >= l.rows
        \/ ~l.total /\ size < limit
    <3>1. CASE l.total /\ r + size >= l.rows
      BY <3>1
    <3>2. CASE ~(l.total /\ r + size >= l.rows)
      <4>1. ~(Len(Page(t)) > size)
        BY <2>2, <3>2 DEF After
      <4>2. CASE ~l.paged
        BY <1>6, <2>2, <3>2, <4>1, <4>2 DEF After
      <4>3. CASE l.paged
        <5>1. ~(size = limit \/ (l.total /\ r + size < l.rows))
          BY <1>6, <2>2, <3>2, <4>1, <4>3 DEF After
        <5>2. QED
          BY <1>7, <2>3, <3>2, <5>1
      <4>4. QED
        BY <4>2, <4>3
    <3>3. QED
      BY <3>1, <3>2
  <2>5. CASE l.total /\ r + size >= l.rows
    <3>1. PICK m \in Nat : m = l.rows
      BY <2>3
    <3>2. r + size <= m /\ r + size >= m
      BY <1>7, <2>5, <3>1
    <3>3. r + size = m
      BY <3>2
    <3>4. QED
      BY <3>1, <3>3
  <2>6. QED
    BY <1>7, <2>4, <2>5
<1>11. Entry(t).complete => r + size = l.rows
  <2>1. SUFFICES ASSUME r = l.rows
                 PROVE  r + size = r
    BY <1>3
  <2>2. r + size <= r
    BY <1>7, <2>1
  <2>3. QED
    BY <2>2
<1>12. QED
  BY <1>3, <1>7, <1>8, <1>9, <1>10, <1>11 DEF PageFits, More, SaidWhole

-------------------------------------------------------------------------------
(* Answers are whole: upstreams that ignore the offset.                    *)

\* The page such an upstream gives for a list does not depend on what is asked for but
\* for the limit, and the limit is the same at every page.
Repeating(l) == Orderly(l) /\ ~l.offsets
Span(l, e) == IF l.paged THEN e.window ELSE Min2(WideWindow, Round)
EntryAgain(l, e) ==
    Repeating(l) /\ e.rows # <<>> =>
        /\ Len(e.rows) = Min2(PageSize(l, 0, Span(l, e)), Span(l, e))
        /\ e.rows \in e.seen
        /\ l.paged => e.window <= l.ceiling
LeaderAgain(l, w, e) ==
    Repeating(l) =>
        /\ w.added <= Len(e.rows)
        /\ ~l.paged => w.added = 0
        /\ w.pc = "fetching" => w.limit = Span(l, e)
Again ==
    /\ \A n \in DOMAIN objs : EntryAgain(lists[objs[n].key], objs[n])
    /\ \A t \in Leaders : LeaderAgain(lists[KeyOf(t)], task[t], Entry(t))
    /\ \A t \in Tasks : task[t].pc = "called" => task[t].added = 0

\* Two lists of rows in order are the same if they are as long.
LEMMA SameRows ==
  ASSUME NEW rows \in Seq(Nat), NEW items \in Seq(Nat), Len(rows) = Len(items),
         \A i \in 1 .. Len(rows) : rows[i] = i, \A i \in 1 .. Len(items) : items[i] = i
  PROVE  rows = items
<1>1. PICK n \in Nat : n = Len(rows) /\ n = Len(items)
  OBVIOUS
<1>2. rows = [i \in 1 .. n |-> rows[i]] /\ items = [i \in 1 .. n |-> items[i]]
  BY <1>1
<1>3. \A i \in 1 .. n : rows[i] = items[i]
  BY <1>1
<1>4. QED
  BY <1>2, <1>3

\* What a leader takes of a page that comes again is what its entry has.
LEMMA TakenAgain ==
  ASSUME Owned, InOrder, Again, NEW t \in Leaders, task[t].pc = "fetching",
         Repeating(lists[KeyOf(t)]), Entry(t).rows # <<>>
  PROVE  Taken(t) = Entry(t).rows /\ Taken(t) \in Entry(t).seen
<1>1. /\ t \in Tasks /\ Leads(t) /\ ScanTypes /\ task[t] \in Work /\ KeyOf(t) \in Keys
  BY ScanShapes DEF Owned, Leaders, Tasks, KeyOf
<1>2. PICK l \in Lists : l = lists[KeyOf(t)]
  BY <1>1, ScanShapes
<1>3. PICK n \in DOMAIN objs : n = EntryOf(t) /\ objs[n] = Entry(t) /\ objs[n].key = KeyOf(t)
                               /\ objs[n] \in EntryRecord
  BY <1>1, ScanShapes DEF Leads, Entry
<1>4. PICK rows \in Seq(Nat) : rows = Entry(t).rows
  BY <1>3 DEF EntryRecord
<1>5. PICK items \in Seq(Nat) : /\ items = Taken(t) /\ Len(items) = TakenSize(t)
                                /\ \A i \in 1 .. TakenSize(t) :
                                      items[i] = RowsFrom(l, task[t].offset) + i
  BY <1>1, <1>2, TakenRows
<1>6. PICK limit \in Nat : limit = task[t].limit /\ limit = Span(l, Entry(t))
  BY <1>1, <1>2 DEF Again, LeaderAgain, Work
<1>7. /\ Len(rows) = Min2(PageSize(l, 0, limit), limit) /\ rows \in Entry(t).seen
  BY <1>2, <1>3, <1>4, <1>6 DEF Again, EntryAgain
<1>8. \A i \in 1 .. Len(rows) : rows[i] = i
  BY <1>2, <1>3, <1>4 DEF InOrder, RowsInOrder, Repeating
<1>9. /\ RowsFrom(l, task[t].offset) = 0
      /\ TakenSize(t) = Min2(PageSize(l, 0, limit), limit)
  BY <1>2, <1>6 DEF Repeating, RowsFrom, RowsLeft, PageSize, TakenSize
<1>10. Len(items) = Len(rows)
  BY <1>5, <1>7, <1>9
<1>11. \A i \in 1 .. Len(items) : items[i] = i
  BY <1>5, <1>9
<1>12. items = rows
  BY <1>8, <1>10, <1>11, SameRows
<1>13. QED
  BY <1>4, <1>5, <1>7, <1>12

\* So a page that is not known yet is the first one.
LEMMA FirstPage ==
  ASSUME Owned, InOrder, Again, NEW t \in Leaders, task[t].pc = "fetching",
         Taken(t) = <<>> \/ Taken(t) \notin Entry(t).seen,
         NEW l \in Lists, l = lists[KeyOf(t)], Orderly(l)
  PROVE  l.offsets \/ Entry(t).rows = <<>>
BY TakenAgain DEF Repeating

LEMMA ReceiveInOrder ==
  ASSUME Owned, Owned', InOrder, Again, NEW t \in Tasks, Receive(t)
  PROVE  InOrder'
<1>1. /\ t \in Leaders /\ Leads(t) /\ UNCHANGED <<lists, now, fills, req>>
      /\ task[t].pc = "fetching" /\ ScanTypes /\ task[t] \in Work
  BY ReceivingIs, ScanShapes DEF Owned
<1>2. PICK l \in Lists : l = lists[KeyOf(t)]
  BY <1>1, ScanShapes DEF Tasks, KeyOf
<1>3. PICK rows \in Seq(Nat) : rows = Entry(t).rows
  BY <1>1, ScanShapes DEF EntryRecord, Leads, Entry
<1>4. PICK items \in Seq(Nat) : items = Taken(t)
  BY <1>1, TakenRows
<1>5. Taken(t) = <<>> \/ Taken(t) \notin Entry(t).seen =>
         (Orderly(l) => PageFits(l, rows, items, More(t, l), SaidWhole(t)))
  <2>1. SUFFICES ASSUME Taken(t) = <<>> \/ Taken(t) \notin Entry(t).seen, Orderly(l)
                 PROVE  PageFits(l, rows, items, More(t, l), SaidWhole(t))
    OBVIOUS
  <2>2. l.offsets \/ rows = <<>>
    BY <1>1, <1>2, <1>3, <2>1, FirstPage
  <2>3. QED
    BY <1>1, <1>2, <1>3, <1>4, <2>1, <2>2, PageInOrder
<1>6. CASE objs' = objs /\ task' = Leave(t, FALSE)
  BY <1>1, <1>6, LeavesInOrder, RequestsUntouched
<1>7. CASE /\ Taken(t) = <<>>
           /\ ~(lists[KeyOf(t)].total /\ task[t].offset < lists[KeyOf(t)].rows)
           /\ objs' = [objs EXCEPT ![EntryOf(t)] = Completed(Entry(t))]
           /\ task' = Leave(t, FALSE)
  <2>1. Orderly(l) => Len(rows) = l.rows
    BY <1>2, <1>4, <1>5, <1>7 DEF PageFits, More
  <2>2. PICK x \in EntryRecord : /\ x = Completed(Entry(t)) /\ x.key = Entry(t).key
                                 /\ x.rows = rows /\ x.window = Entry(t).window
    <3>1. /\ Entry(t) \in EntryRecord
          /\ \A y \in EntryRecord : /\ Completed(y) \in EntryRecord /\ Completed(y).key = y.key
                                    /\ Completed(y).rows = y.rows /\ Completed(y).window = y.window
      BY <1>1, GrownIs
    <3>2. QED
      BY <1>3, <3>1
  <2>3. PICK w \in Work : w.pc = "finishing" /\ task' = [task EXCEPT ![t] = w]
    BY <1>1, <1>7, LeavingIs
  <2>4. objs' = [objs EXCEPT ![EntryOf(t)] = x]
    BY <1>7, <2>2
  <2>5. Orderly(lists[KeyOf(t)]) =>
           /\ Len(x.rows) <= lists[KeyOf(t)].rows /\ \A i \in 1 .. Len(x.rows) : x.rows[i] = i
           /\ x.complete => Len(x.rows) = lists[KeyOf(t)].rows
    BY <1>2, <1>5, <1>7, <2>1, <2>2 DEF PageFits, SaidWhole
  <2>6. QED
    BY <1>1, <2>2, <2>3, <2>4, <2>5, RewritingInOrder
<1>8. CASE /\ Taken(t) # <<>> /\ Taken(t) \notin Entry(t).seen
           /\ objs' = [objs EXCEPT ![EntryOf(t)] = IF Verdict(t) = "complete" THEN Completed(Grown(t))
                                                   ELSE Grown(t)]
           /\ \/ task' = [task EXCEPT ![t].pc = "leading", ![t].added = @ + Len(Taken(t))]
              \/ task' = Leave(t, FALSE)
  <2>1. PICK longer \in Seq(Nat) : longer = rows \o items
    <3>1. rows \o items \in Seq(Nat)
      OBVIOUS
    <3>2. QED
      BY <3>1
  <2>2. PICK x \in EntryRecord :
          /\ objs' = [objs EXCEPT ![EntryOf(t)] = x] /\ x.key = Entry(t).key
          /\ x.rows = longer /\ x.window = Entry(t).window
          /\ x.complete => Entry(t).complete \/ Verdict(t) = "complete"
    <3>1. /\ Grown(t) \in EntryRecord /\ Grown(t).key = Entry(t).key
          /\ Grown(t).rows = longer /\ Grown(t).window = Entry(t).window
          /\ Grown(t).complete = Entry(t).complete
          /\ \A y \in EntryRecord : /\ Completed(y) \in EntryRecord /\ Completed(y).key = y.key
                                    /\ Completed(y).rows = y.rows /\ Completed(y).window = y.window
      BY <1>1, <1>3, <1>4, <2>1, GrownIs
    <3>2. CASE Verdict(t) = "complete"
      <4>1. objs' = [objs EXCEPT ![EntryOf(t)] = Completed(Grown(t))]
        BY <1>8, <3>2
      <4>2. QED
        BY <3>1, <3>2, <4>1
    <3>3. CASE Verdict(t) # "complete"
      <4>1. objs' = [objs EXCEPT ![EntryOf(t)] = Grown(t)]
        BY <1>8, <3>3
      <4>2. QED
        BY <3>1, <4>1
    <3>4. QED
      BY <3>2, <3>3
  <2>3. PICK w \in Work : w.pc \in {"leading", "finishing"} /\ task' = [task EXCEPT ![t] = w]
    <3>1. CASE task' = Leave(t, FALSE)
      BY <1>1, <3>1, LeavingIs
    <3>2. CASE task' = [task EXCEPT ![t].pc = "leading", ![t].added = @ + Len(Taken(t))]
      <4>1. PICK more \in Nat : more = task[t].added + Len(Taken(t))
        BY <1>1, <1>4 DEF Work
      <4>2. PICK w : w = [task[t] EXCEPT !.pc = "leading", !.added = more]
        OBVIOUS
      <4>3. w \in Work
        BY <1>1, <4>2 DEF Work
      <4>4. w.pc = "leading"
        BY <1>1, <4>2 DEF Work
      <4>5. task' = [task EXCEPT ![t] = w]
        BY <3>2, <4>1, <4>2
      <4>6. QED
        BY <4>3, <4>4, <4>5
    <3>3. QED
      BY <1>8, <3>1, <3>2
  <2>4. Orderly(lists[KeyOf(t)]) =>
           /\ Len(x.rows) <= lists[KeyOf(t)].rows /\ \A i \in 1 .. Len(x.rows) : x.rows[i] = i
           /\ x.complete => Len(x.rows) = lists[KeyOf(t)].rows
    BY <1>2, <1>5, <1>8, <2>1, <2>2 DEF PageFits, SaidWhole
  <2>5. QED
    BY <1>1, <2>2, <2>3, <2>4, RewritingInOrder
<1>9. QED
  BY <1>6, <1>7, <1>8, ReceivingIs

LEMMA FinishFillInOrder ==
  ASSUME Owned, Owned', InOrder, NEW t \in Tasks, FinishFill(t)
  PROVE  InOrder'
<1>1. /\ t \in Leaders /\ Leads(t) /\ UNCHANGED <<lists, now, req>> /\ ScanTypes
      /\ task[t] \in Work /\ task[t].pc = "finishing"
  BY ScanShapes DEF FinishFill, Leaders, Owned
<1>2. PICK n \in DOMAIN objs, f \in DOMAIN fills :
        /\ n = EntryOf(t) /\ f = task[t].fill /\ fills[f].entry = n /\ objs[n] = Entry(t)
  BY <1>1 DEF Leads, EntryOf, Entry
<1>3. objs[n] \in EntryRecord /\ fills[f] \in FillRecord
  BY <1>1, ScanShapes
<1>4. PICK c : c = (Entry(t).complete /\ ~Expired(Entry(t)))
  OBVIOUS
<1>5. PICK end : end = Len(Entry(t).rows)
  OBVIOUS
<1>6. /\ DOMAIN objs' = DOMAIN objs
      /\ \A m \in DOMAIN objs : m # n => objs'[m] = objs[m]
      /\ objs'[n].key = objs[n].key /\ objs'[n].rows = objs[n].rows
      /\ objs'[n].window = objs[n].window /\ objs'[n].complete = c
  <2>1. PICK x : x = [objs[n] EXCEPT !.fill = 0, !.complete = c]
    OBVIOUS
  <2>2. /\ x.key = objs[n].key /\ x.rows = objs[n].rows /\ x.window = objs[n].window
        /\ x.complete = c
    BY <1>3, <2>1 DEF EntryRecord
  <2>3. objs' = [objs EXCEPT ![n] = x]
    BY <1>2, <1>4, <2>1 DEF FinishFill
  <2>4. QED
    BY <2>2, <2>3
<1>7. /\ DOMAIN fills' = DOMAIN fills
      /\ \A g \in DOMAIN fills : g # f => fills'[g] = fills[g]
      /\ fills'[f].entry = n /\ fills'[f].end = end /\ fills'[f].complete = c
  <2>1. PICK x : x = [fills[f] EXCEPT !.done = TRUE, !.end = end, !.complete = c]
    OBVIOUS
  <2>2. x.entry = fills[f].entry /\ x.end = end /\ x.complete = c
    BY <1>3, <2>1 DEF FillRecord
  <2>3. fills' = [fills EXCEPT ![f] = x]
    BY <1>2, <1>4, <1>5, <2>1 DEF FinishFill
  <2>4. QED
    BY <1>2, <2>2, <2>3
<1>8. c /\ Orderly(lists[objs[n].key]) => end = lists[objs[n].key].rows
  BY <1>2, <1>4, <1>5 DEF InOrder, RowsInOrder
<1>9. RowsInOrder'
  <2>1. SUFFICES ASSUME NEW m \in DOMAIN objs
                 PROVE  /\ Orderly(lists[objs'[m].key]) =>
                              /\ Len(objs'[m].rows) <= lists[objs'[m].key].rows
                              /\ \A i \in 1 .. Len(objs'[m].rows) : objs'[m].rows[i] = i
                              /\ objs'[m].complete =>
                                    Len(objs'[m].rows) = lists[objs'[m].key].rows
                        /\ objs'[m].window \in {Window, Fallback}
    BY <1>1, <1>6 DEF RowsInOrder
  <2>2. CASE m = n
    BY <1>2, <1>5, <1>6, <1>8, <2>2 DEF InOrder, RowsInOrder
  <2>3. CASE m # n
    BY <1>6, <2>3 DEF InOrder, RowsInOrder
  <2>4. QED
    BY <2>2, <2>3
<1>10. FillsInOrder'
  <2>1. SUFFICES ASSUME NEW g \in DOMAIN fills, fills'[g].done, fills'[g].complete,
                        Orderly(lists[objs'[fills'[g].entry].key])
                 PROVE  fills'[g].end = lists[objs'[fills'[g].entry].key].rows
    BY <1>1, <1>7 DEF FillsInOrder
  <2>2. CASE g = f
    BY <1>6, <1>7, <1>8, <2>1, <2>2
  <2>3. CASE g # f
    <3>1. fills'[g] = fills[g] /\ fills[g].entry \in DOMAIN objs
      BY <1>7, <2>1, <2>3 DEF Owned, FillsEnded
    <3>2. objs'[fills[g].entry].key = objs[fills[g].entry].key
      BY <1>6, <3>1
    <3>3. QED
      BY <2>1, <3>1, <3>2 DEF InOrder, FillsInOrder
  <2>4. QED
    BY <2>2, <2>3
<1>11. PICK w \in Work : w.pc = "waiting" /\ task' = [task EXCEPT ![t] = w]
  <2>1. PICK w : w = [task[t] EXCEPT !.pc = "waiting"]
    OBVIOUS
  <2>2. w \in Work
    BY <1>1, <2>1 DEF Work
  <2>3. w.pc = "waiting"
    BY <1>1, <2>1 DEF Work
  <2>4. task' = [task EXCEPT ![t] = w]
    BY <2>1 DEF FinishFill
  <2>5. QED
    BY <2>2, <2>3, <2>4
<1>12. ViewsAreWhole /\ NoFetchBegins
  BY <1>1, <1>11, OneViews
<1>13. FetchesInOrder'
  <2>1. SUFFICES ASSUME NEW s \in Tasks, task'[s].pc = "fetching"
                 PROVE  /\ task'[s].offset = Len(Entry(s)'.rows)
                        /\ task'[s].limit > 0
                        /\ Within(lists[KeyOf(s)], task'[s].limit)
    BY <1>1 DEF FetchesInOrder
  <2>2. task'[s] = task[s] /\ s # t
    BY <1>1, <1>12, <2>1 DEF NoFetchBegins
  <2>3. s \in Leaders
    BY <2>1, <2>2 DEF Leaders
  <2>4. Leads(s) /\ task[s].fill # f
    BY <1>1, <1>2, <2>2, <2>3 DEF Owned, FillsLed
  <2>5. EntryOf(s)' = EntryOf(s) /\ EntryOf(s) \in DOMAIN objs
    BY <1>7, <2>2, <2>4 DEF Leads, EntryOf
  <2>6. Entry(s)'.rows = Entry(s).rows
    BY <1>6, <2>5 DEF Entry
  <2>7. QED
    BY <2>1, <2>2, <2>6 DEF InOrder, FetchesInOrder
<1>14. RequestsGoOn
  BY <1>1, RequestsUntouched
<1>15. QED
  BY <1>1, <1>9, <1>10, <1>12, <1>13, <1>14, ViewsStayInOrder, RequestsStayInOrder DEF InOrder

-------------------------------------------------------------------------------
(* Answers are whole: what tasks and requests see.                         *)

\* A task that does not lead ends, with a view of an entry or without one.
LEMMA EndsInOrder ==
  ASSUME Owned, Owned', InOrder, NEW t \in Tasks, task[t].pc # "done",
         UNCHANGED <<lists, now, fills, objs, store, req>>,
         NEW w \in Work, w.pc = "done", task' = [task EXCEPT ![t] = w],
         \/ w.failed \/ ~w.complete \/ ~Orderly(lists[KeyOf(t)])
         \/ w.rows = Whole(lists[KeyOf(t)])
  PROVE  InOrder'
<1>1. ViewsAreWhole /\ NoFetchBegins
  BY OneViews DEF Owned
<1>2. QED
  BY <1>1, NothingTouched, RequestsUntouched, InOrderStays

LEMMA ViewForFillInOrder ==
  ASSUME Owned, Owned', InOrder, NEW t \in Tasks, ViewForFill(t)
  PROVE  InOrder'
<1>1. /\ task[t].pc = "waiting" /\ UNCHANGED <<lists, now, fills, objs, store, req>>
      /\ fills[task[t].fill].done
  BY DEF ViewForFill
<1>2. PICK f \in DOMAIN fills : f = task[t].fill /\ fills[f].done
  BY <1>1 DEF Owned, Awaits
<1>3. PICK complete \in BOOLEAN : complete = fills[f].complete
  BY ScanShapes DEF Owned, FillRecord
<1>4. PICK n \in DOMAIN objs, all \in Seq(Nat), end \in Nat :
        /\ n = fills[f].entry /\ all = objs[n].rows /\ end = fills[f].end /\ end <= Len(all)
        /\ SubSeq(all, 1, end) \in Seq(Nat) /\ Len(SubSeq(all, 1, end)) = end
        /\ \A i \in 1 .. end : SubSeq(all, 1, end)[i] = all[i]
  BY <1>2, ViewIs
<1>5. PICK rows \in Seq(Nat) : /\ rows = SubSeq(all, 1, end) /\ Len(rows) = end
                               /\ \A i \in 1 .. end : rows[i] = all[i]
  BY <1>4
<1>6. PICK l \in Lists : l = lists[KeyOf(t)]
  BY ScanShapes DEF Owned, Tasks, KeyOf
<1>7. objs[n].key = KeyOf(t)
  BY <1>1, <1>2, <1>4 DEF Owned, Awaits
<1>8. complete /\ Orderly(l) => rows = Whole(l)
  <2>1. SUFFICES ASSUME complete, Orderly(l)
                 PROVE  rows = Whole(l)
    OBVIOUS
  <2>2. Len(rows) = l.rows
    BY <1>2, <1>3, <1>4, <1>5, <1>6, <1>7, <2>1 DEF InOrder, FillsInOrder
  <2>3. \A i \in 1 .. Len(rows) : rows[i] = i
    <3>1. \A i \in 1 .. Len(all) : all[i] = i
      BY <1>4, <1>6, <1>7, <2>1 DEF InOrder, RowsInOrder
    <3>2. \A i \in 1 .. end : i \in 1 .. Len(all)
      BY <1>4
    <3>3. QED
      BY <1>5, <3>1, <3>2
  <2>4. QED
    BY <2>2, <2>3, AllRowsAreWhole
<1>9. PICK w : w = [task[t] EXCEPT !.pc = "done", !.complete = complete, !.rows = rows]
  OBVIOUS
<1>10. task[t] \in Work
  BY ScanShapes DEF Owned
<1>11. w \in Work
  BY <1>9, <1>10 DEF Work
<1>12. w.pc = "done" /\ w.complete = complete /\ w.rows = rows
  BY <1>9, <1>10 DEF Work
<1>13. task' = [task EXCEPT ![t] = w]
  BY <1>2, <1>3, <1>4, <1>5, <1>9 DEF ViewForFill
<1>14. QED
  BY <1>1, <1>6, <1>8, <1>11, <1>12, <1>13, EndsInOrder

LEMMA ViewForEntryInOrder ==
  ASSUME Owned, Owned', InOrder, NEW t \in Tasks, ViewForEntry(t)
  PROVE  InOrder'
<1>1. task[t].pc = "reusing" /\ UNCHANGED <<lists, now, fills, objs, store, req>>
  BY DEF ViewForEntry
<1>2. PICK n \in DOMAIN objs : n = task[t].entry /\ objs[n].key = KeyOf(t)
  BY <1>1 DEF Owned, Reuses
<1>3. PICK complete \in BOOLEAN, rows \in Seq(Nat) : complete = objs[n].complete /\ rows = objs[n].rows
  BY ScanShapes DEF Owned, EntryRecord
<1>4. PICK l \in Lists : l = lists[KeyOf(t)]
  BY ScanShapes DEF Owned, Tasks, KeyOf
<1>5. complete /\ Orderly(l) => rows = Whole(l)
  <2>1. SUFFICES ASSUME complete, Orderly(l)
                 PROVE  rows = Whole(l)
    OBVIOUS
  <2>2. Len(rows) = l.rows /\ \A i \in 1 .. Len(rows) : rows[i] = i
    BY <1>2, <1>3, <1>4, <2>1 DEF InOrder, RowsInOrder
  <2>3. QED
    BY <2>2, AllRowsAreWhole
<1>6. PICK w : w = [task[t] EXCEPT !.pc = "done", !.complete = complete, !.rows = rows]
  OBVIOUS
<1>7. task[t] \in Work
  BY ScanShapes DEF Owned
<1>8. w \in Work
  BY <1>6, <1>7 DEF Work
<1>9. w.pc = "done" /\ w.complete = complete /\ w.rows = rows
  BY <1>6, <1>7 DEF Work
<1>10. task' = [task EXCEPT ![t] = w]
  BY <1>2, <1>3, <1>6 DEF ViewForEntry
<1>11. QED
  BY <1>1, <1>4, <1>5, <1>8, <1>9, <1>10, EndsInOrder

LEMMA StopWaitingInOrder ==
  ASSUME Owned, Owned', InOrder, NEW t \in Tasks, StopWaiting(t)
  PROVE  InOrder'
<1>1. task[t].pc = "waiting" /\ UNCHANGED <<lists, now, fills, objs, store, req>>
  BY DEF StopWaiting
<1>2. PICK w : w = [task[t] EXCEPT !.pc = "done", !.failed = TRUE]
  OBVIOUS
<1>3. task[t] \in Work
  BY ScanShapes DEF Owned
<1>4. w \in Work
  BY <1>2, <1>3 DEF Work
<1>5. w.pc = "done" /\ w.failed
  BY <1>2, <1>3 DEF Work
<1>6. task' = [task EXCEPT ![t] = w]
  BY <1>2 DEF StopWaiting
<1>7. QED
  BY <1>1, <1>4, <1>5, <1>6, EndsInOrder

\* Requests: a request begins.
LEMMA BeginInOrder ==
  ASSUME Owned, Owned', InOrder, NEW q \in Requests, Begin(q)
  PROVE  InOrder'
<1>1. /\ UNCHANGED <<lists, now, fills, objs, store>>
      /\ task' = [t \in Tasks |-> IF t[1] = q THEN [Idle EXCEPT !.pc = "called"] ELSE task[t]]
  BY DEF Begin
<1>2. PICK called \in Work : called = [Idle EXCEPT !.pc = "called"] /\ called.pc = "called"
  BY IdleIs
<1>3. \A t \in Tasks : task'[t] = IF t[1] = q THEN called ELSE task[t]
  BY <1>1, <1>2
<1>4. NothingWritten /\ NoFetchBegins
  <2>1. NoFetchBegins
    BY <1>2, <1>3 DEF NoFetchBegins
  <2>2. QED
    BY <1>1, <2>1, NothingTouched
<1>5. ViewsInOrder'
  BY <1>1, <1>2, <1>3 DEF InOrder, ViewsInOrder, Lacks
<1>6. PICK x \in Request : /\ req' = [req EXCEPT ![q] = x]
                           /\ x.pc = "collecting" /\ x.got = {} /\ x.incomplete = FALSE
  <2>1. PICK deadline \in Nat : deadline = now + Global
    BY ScanLimits DEF Owned, ScanTypes
  <2>2. PICK x : x = [pc |-> "collecting", deadline |-> deadline, grace |-> 0, got |-> {},
                      incomplete |-> FALSE, budget |-> Budget]
    OBVIOUS
  <2>3. x \in Request
    BY <2>1, <2>2, ScanLimits DEF Request
  <2>4. x.pc = "collecting" /\ x.got = {} /\ x.incomplete = FALSE
    BY <2>2
  <2>5. req' = [req EXCEPT ![q] = x]
    BY <2>1, <2>2 DEF Begin
  <2>6. QED
    BY <2>3, <2>4, <2>5
<1>7. /\ req' \in [Requests -> Request] /\ req'[q] = x
      /\ \A p \in Requests : p # q => req'[p] = req[p]
  BY <1>6 DEF InOrder
<1>8. RequestsInOrder'
  <2>1. ASSUME NEW p \in Requests, p # q
        PROVE  /\ req'[p] = req[p] /\ req[p].got \subseteq Keys
               /\ \A k \in Keys : /\ task'[<<p, k>>] = task[<<p, k>>]
                                  /\ Lacks(<<p, k>>)' <=> Lacks(<<p, k>>)
    <3>1. \A k \in Keys : <<p, k>> \in Tasks /\ <<p, k>>[1] # q
      BY <2>1 DEF Tasks
    <3>2. \A k \in Keys : task'[<<p, k>>] = task[<<p, k>>]
      BY <1>3, <3>1
    <3>3. QED
      BY <1>7, <2>1, <3>2 DEF InOrder, Request, Lacks
  <2>2. SUFFICES ASSUME NEW p \in Requests
                 PROVE  /\ req'[p].pc = "collecting" =>
                              \A k \in req'[p].got : /\ task'[<<p, k>>].pc = "done"
                                                     /\ ~req'[p].incomplete => ~Lacks(<<p, k>>)'
                        /\ req'[p].pc = "draining" => req'[p].incomplete
                        /\ req'[p].pc = "ended" /\ ~req'[p].incomplete =>
                              \A k \in Keys : task'[<<p, k>>].pc = "done" /\ ~Lacks(<<p, k>>)'
    BY DEF RequestsInOrder, Lacks
  <2>3. CASE p = q
    BY <1>6, <1>7, <2>3
  <2>4. CASE p # q
    BY <2>1, <2>4 DEF InOrder, RequestsInOrder
  <2>5. QED
    BY <2>3, <2>4
<1>9. QED
  BY <1>1, <1>4, <1>5, <1>7, <1>8, EntriesStayInOrder, FetchesStayInOrder DEF InOrder

\* Requests: what has arrived is counted, or no longer waited for.
LEMMA CountingInOrder ==
  ASSUME Owned, Owned', InOrder, UNCHANGED <<lists, fills, objs, store, task>>,
         NEW q \in Requests, NEW x \in Request, req' = [req EXCEPT ![q] = x],
         x.pc = "collecting" =>
            \A k \in x.got : task[<<q, k>>].pc = "done" /\ (~x.incomplete => ~Lacks(<<q, k>>)),
         x.pc = "draining" => x.incomplete,
         x.pc = "ended" /\ ~x.incomplete =>
            \A k \in Keys : task[<<q, k>>].pc = "done" /\ ~Lacks(<<q, k>>)
  PROVE  InOrder'
<1>1. NothingWritten
  BY NothingTouched
<1>2. NoFetchBegins /\ ViewsAreWhole
  BY DEF NoFetchBegins, ViewsAreWhole
<1>3. /\ req' \in [Requests -> Request] /\ req'[q] = x
      /\ \A p \in Requests : p # q => req'[p] = req[p]
  BY DEF InOrder
<1>4. RequestsInOrder'
  <2>1. SUFFICES ASSUME NEW p \in Requests
                 PROVE  /\ req'[p].pc = "collecting" =>
                              \A k \in req'[p].got : /\ task'[<<p, k>>].pc = "done"
                                                     /\ ~req'[p].incomplete => ~Lacks(<<p, k>>)'
                        /\ req'[p].pc = "draining" => req'[p].incomplete
                        /\ req'[p].pc = "ended" /\ ~req'[p].incomplete =>
                              \A k \in Keys : task'[<<p, k>>].pc = "done" /\ ~Lacks(<<p, k>>)'
    BY DEF RequestsInOrder, Lacks
  <2>2. \A k : Lacks(<<p, k>>)' <=> Lacks(<<p, k>>)
    BY DEF Lacks
  <2>3. CASE p = q
    BY <1>3, <2>2, <2>3
  <2>4. CASE p # q
    BY <1>3, <2>2, <2>4 DEF InOrder, RequestsInOrder
  <2>5. QED
    BY <2>3, <2>4
<1>5. QED
  BY <1>1, <1>2, <1>3, <1>4, EntriesStayInOrder, FetchesStayInOrder, ViewsStayInOrder DEF InOrder

LEMMA CollectInOrder ==
  ASSUME Owned, Owned', InOrder, NEW q \in Requests, NEW k \in Keys, Collect(q, k)
  PROVE  InOrder'
<1>1. /\ req[q].pc = "collecting" /\ task[<<q, k>>].pc = "done"
      /\ UNCHANGED <<lists, fills, objs, store, task>>
      /\ req[q] \in Request
  BY DEF Collect, Arrived, InOrder
<1>2. PICK got \in SUBSET Keys : got = req[q].got \cup {k}
  BY <1>1 DEF Request
<1>3. PICK lacking \in BOOLEAN : lacking = (req[q].incomplete \/ Lacks(<<q, k>>))
  OBVIOUS
<1>4. PICK grace \in Nat : grace = IF req[q].grace = 0 /\ ~task[<<q, k>>].failed /\ Grace > 0
                                   THEN now + Grace ELSE req[q].grace
  <2>1. now \in Nat
    BY DEF Owned, ScanTypes
  <2>2. Grace \in Nat
    BY ScanLimits
  <2>3. req[q].grace \in Nat
    BY <1>1 DEF Request
  <2>4. now + Grace \in Nat
    BY <2>1, <2>2
  <2>5. QED
    BY <2>3, <2>4
<1>5. PICK pc \in {"collecting", "ended"} : pc = IF got = Keys THEN "ended" ELSE req[q].pc
  BY <1>1
<1>6. PICK x : x = [req[q] EXCEPT !.got = got, !.incomplete = lacking, !.grace = grace, !.pc = pc]
  OBVIOUS
<1>7. x \in Request
  BY <1>1, <1>6 DEF Request
<1>8. x.got = got /\ x.incomplete = lacking /\ x.pc = pc
  BY <1>1, <1>6 DEF Request
<1>9. req' = [req EXCEPT ![q] = x]
  BY <1>2, <1>3, <1>4, <1>5, <1>6 DEF Collect
<1>10. \A j \in got : task[<<q, j>>].pc = "done" /\ (~lacking => ~Lacks(<<q, j>>))
  <2>1. \A j \in req[q].got : /\ task[<<q, j>>].pc = "done"
                              /\ ~req[q].incomplete => ~Lacks(<<q, j>>)
    BY <1>1 DEF InOrder, RequestsInOrder
  <2>2. QED
    BY <1>1, <1>2, <1>3, <2>1
<1>11. pc = "ended" => got = Keys
  BY <1>1, <1>5
<1>12. QED
  BY <1>1, <1>7, <1>8, <1>9, <1>10, <1>11, CountingInOrder

LEMMA AnswersPartlyInOrder ==
  ASSUME Owned, Owned', InOrder, NEW q \in Requests, AnswersPartly(q)
  PROVE  InOrder'
<1>1. UNCHANGED <<lists, fills, objs, store, task>> /\ req[q] \in Request
  BY DEF AnswersPartly, InOrder
<1>2. PICK x : x = [req[q] EXCEPT !.pc = "draining", !.incomplete = TRUE]
  OBVIOUS
<1>3. x \in Request
  BY <1>1, <1>2 DEF Request
<1>4. x.pc = "draining" /\ x.incomplete
  BY <1>1, <1>2 DEF Request
<1>5. req' = [req EXCEPT ![q] = x]
  BY <1>2 DEF AnswersPartly
<1>6. QED
  BY <1>1, <1>3, <1>4, <1>5, CountingInOrder

LEMMA DrainInOrder ==
  ASSUME Owned, Owned', InOrder, NEW q \in Requests,
         DrainEnds(q) \/ \E k \in Keys : Drain(q, k)
  PROVE  InOrder'
<1>1. /\ req[q].pc = "draining" /\ UNCHANGED <<lists, fills, objs, store, task>>
      /\ req[q] \in Request
  BY DEF Drain, DrainEnds, InOrder
<1>2. req[q].incomplete
  BY <1>1 DEF InOrder, RequestsInOrder
<1>3. CASE DrainEnds(q)
  <2>1. PICK x : x = [req[q] EXCEPT !.pc = "ended"]
    OBVIOUS
  <2>2. x \in Request
    BY <1>1, <2>1 DEF Request
  <2>3. x.pc = "ended" /\ x.incomplete
    BY <1>1, <1>2, <2>1 DEF Request
  <2>4. req' = [req EXCEPT ![q] = x]
    BY <1>3, <2>1 DEF DrainEnds
  <2>5. QED
    BY <1>1, <2>2, <2>3, <2>4, CountingInOrder
<1>4. ASSUME NEW k \in Keys, Drain(q, k)
      PROVE  InOrder'
  <2>1. PICK got \in SUBSET Keys : got = req[q].got \cup {k}
    BY <1>1 DEF Request
  <2>2. PICK pc \in {"draining", "ended"} : pc = IF got = Keys THEN "ended" ELSE req[q].pc
    BY <1>1
  <2>3. PICK x : x = [req[q] EXCEPT !.got = got, !.pc = pc]
    OBVIOUS
  <2>4. x \in Request
    BY <1>1, <2>3 DEF Request
  <2>5. x.pc = pc /\ x.incomplete
    BY <1>1, <1>2, <2>3 DEF Request
  <2>6. req' = [req EXCEPT ![q] = x]
    BY <1>4, <2>1, <2>2, <2>3 DEF Drain
  <2>7. QED
    BY <1>1, <2>4, <2>5, <2>6, CountingInOrder
<1>5. QED
  BY <1>3, <1>4

LEMMA OrderUntouched ==
  ASSUME Owned, Owned', InOrder, UNCHANGED <<lists, fills, objs, store, task, req>>
  PROVE  InOrder'
<1>1. NoFetchBegins /\ ViewsAreWhole
  BY DEF NoFetchBegins, ViewsAreWhole
<1>2. QED
  BY <1>1, NothingTouched, RequestsUntouched, InOrderStays

LEMMA InOrderInitially == Init => InOrder
<1>1. SUFFICES ASSUME Init
               PROVE  InOrder
  OBVIOUS
<1>2. DOMAIN objs = {} /\ DOMAIN fills = {}
  BY <1>1 DEF Init
<1>3. \A t \in Tasks : task[t].pc = "idle"
  BY <1>1, IdleIs DEF Init
<1>4. PICK none : none = [pc |-> "idle", deadline |-> 0, grace |-> 0, got |-> {},
                          incomplete |-> FALSE, budget |-> 0]
  OBVIOUS
<1>5. none \in Request /\ none.pc = "idle"
  BY <1>4 DEF Request
<1>6. req = [q \in Requests |-> none]
  BY <1>1, <1>4 DEF Init
<1>7. QED
  BY <1>2, <1>3, <1>5, <1>6 DEF InOrder, RowsInOrder, FillsInOrder, FetchesInOrder, ViewsInOrder,
     RequestsInOrder

-------------------------------------------------------------------------------
(* Answers are whole: that a page comes again stays true.                  *)

\* What leaders need: the entry that is rewritten is no other leader's.
LEMMA OneAgain ==
  ASSUME Owned, Again, lists' = lists, NEW t \in Tasks,
         NEW w \in Work, w.pc # "called", task' = [task EXCEPT ![t] = w],
         DOMAIN fills \subseteq DOMAIN fills',
         \A f \in DOMAIN fills : fills'[f].entry = fills[f].entry,
         NEW n, DOMAIN objs \subseteq DOMAIN objs',
         \A m \in DOMAIN objs' : m # n => m \in DOMAIN objs /\ objs'[m] = objs[m],
         n \in DOMAIN objs' => EntryAgain(lists[objs'[n].key], objs'[n]),
         \A s \in Leaders : s # t => EntryOf(s) # n,
         w.pc \in {"leading", "fetching", "finishing"} =>
            LeaderAgain(lists[KeyOf(t)], w, objs'[fills'[w.fill].entry])
  PROVE  Again'
<1>1. task'[t] = w /\ \A s \in Tasks : s # t => task'[s] = task[s]
  BY DEF Owned, ScanTypes
<1>2. ASSUME NEW m \in DOMAIN objs'
      PROVE  EntryAgain(lists[objs'[m].key], objs'[m])
  BY <1>2 DEF Again
<1>3. ASSUME NEW s \in Leaders'
      PROVE  LeaderAgain(lists[KeyOf(s)], task'[s], Entry(s)')
  <2>1. s \in Tasks /\ task'[s].pc \in {"leading", "fetching", "finishing"}
    BY <1>3 DEF Leaders
  <2>2. CASE s = t
    <3>1. Entry(s)' = objs'[fills'[w.fill].entry]
      BY <1>1, <2>2 DEF Entry, EntryOf
    <3>2. QED
      BY <1>1, <2>1, <2>2, <3>1
  <2>3. CASE s # t
    <3>1. task'[s] = task[s] /\ s \in Leaders
      BY <1>1, <2>1, <2>3 DEF Leaders
    <3>2. Leads(s)
      BY <3>1 DEF Owned
    <3>3. EntryOf(s)' = EntryOf(s) /\ EntryOf(s) # n /\ EntryOf(s) \in DOMAIN objs
      BY <2>3, <3>1, <3>2 DEF Leads, EntryOf
    <3>4. Entry(s)' = Entry(s)
      BY <3>3 DEF Entry
    <3>5. QED
      BY <3>1, <3>4 DEF Again
  <2>4. QED
    BY <2>2, <2>3
<1>4. ASSUME NEW s \in Tasks, task'[s].pc = "called"
      PROVE  task'[s].added = 0
  BY <1>1, <1>4 DEF Again
<1>5. QED
  BY <1>2, <1>3, <1>4 DEF Again

\* No two leaders have one entry.
LEMMA EntriesApart ==
  ASSUME Owned, NEW t \in Leaders
  PROVE  \A s \in Leaders : s # t => EntryOf(s) # EntryOf(t)
<1>1. SUFFICES ASSUME NEW s \in Leaders, s # t, EntryOf(s) = EntryOf(t)
               PROVE  FALSE
  OBVIOUS
<1>2. Leads(s) /\ Leads(t)
  BY DEF Owned
<1>3. task[s].fill = task[t].fill
  BY <1>1, <1>2 DEF Leads, Entry
<1>4. QED
  BY <1>1, <1>3 DEF Owned, FillsLed

\* A task moves and nothing is written.
LEMMA MovesAgain ==
  ASSUME Owned, Again, UNCHANGED <<lists, objs, fills>>, NEW t \in Tasks,
         NEW w \in Work, w.pc # "called", task' = [task EXCEPT ![t] = w],
         w.pc \in {"leading", "fetching", "finishing"} =>
            LeaderAgain(lists[KeyOf(t)], w, objs[fills[w.fill].entry])
  PROVE  Again'
<1>1. 0 \notin DOMAIN objs /\ \A s \in Leaders : EntryOf(s) # 0
  <2>1. 0 \notin DOMAIN objs
    BY ScanShapes DEF Owned
  <2>2. QED
    BY <2>1 DEF Owned, Leads
<1>2. QED
  BY <1>1, OneAgain

LEMMA LeavesAgain ==
  ASSUME Owned, Again, UNCHANGED <<lists, objs, fills>>, NEW t \in Leaders,
         NEW failed \in BOOLEAN, task' = Leave(t, failed)
  PROVE  Again'
<1>1. ScanTypes /\ t \in Tasks
  BY DEF Owned, Leaders
<1>2. PICK w \in Work : /\ w.pc = "finishing" /\ w.fill = task[t].fill /\ w.added = task[t].added
                        /\ task' = [task EXCEPT ![t] = w]
  BY <1>1, LeavingIs
<1>3. LeaderAgain(lists[KeyOf(t)], w, objs[fills[w.fill].entry])
  BY <1>2 DEF Again, LeaderAgain, Entry, EntryOf
<1>4. QED
  BY <1>1, <1>2, <1>3, MovesAgain

LEMMA ClaimAgain ==
  ASSUME Owned, Again, NEW t \in Tasks, Claim(t)
  PROVE  Again'
<1> USE ScanShapes
<1>1. ScanTypes /\ task[t] \in Work /\ task[t].pc = "called" /\ lists' = lists
  BY DEF Claim, Owned
<1>2. task[t].added = 0
  BY <1>1 DEF Again
<1>3. PICK n : n = IF store.at[KeyOf(t)] \in Stale THEN 0 ELSE store.at[KeyOf(t)]
  OBVIOUS
<1>4. n # 0 => n \in DOMAIN objs
  BY <1>3, EntryFound
<1>5. PICK f \in Nat : f = Len(fills) + 1
  BY <1>1
<1>6. PICK m \in Nat : m = Len(objs) + 1 /\ m \notin DOMAIN objs
  BY <1>1
<1>7. ASSUME NEW k, k \in DOMAIN objs \cup {m}, fills' = Append(fills, NewFill(k))
      PROVE  /\ DOMAIN fills \subseteq DOMAIN fills' /\ \A g \in DOMAIN fills : fills'[g] = fills[g]
             /\ fills'[f].entry = k
  <2>1. PICK new : new = NewFill(k) /\ new.entry = k
    <3>1. NewFill(k).entry = k
      BY DEF NewFill
    <3>2. QED
      BY <3>1
  <2>2. fills \in Seq(FillRecord) /\ fills' = Append(fills, new)
    BY <1>1, <1>7, <2>1 DEF ScanTypes
  <2>3. DOMAIN fills \subseteq DOMAIN fills' /\ \A g \in DOMAIN fills : fills'[g] = fills[g]
    BY <2>2
  <2>4. fills'[f] = new
    BY <1>5, <2>2
  <2>5. QED
    BY <2>1, <2>3, <2>4
<1>8. CASE /\ UNCHANGED <<objs, fills>>
           /\ \/ n # 0 /\ task' = [task EXCEPT ![t].pc = "waiting", ![t].fill = objs[n].fill]
              \/ n # 0 /\ task' = [task EXCEPT ![t].pc = "reusing", ![t].entry = n]
              \/ task' = [task EXCEPT ![t].pc = "done", ![t].failed = TRUE]
  <2>1. ASSUME n # 0, task' = [task EXCEPT ![t].pc = "waiting", ![t].fill = objs[n].fill]
        PROVE  Again'
    <3>1. PICK g \in Nat : g = objs[n].fill
      BY <1>1, <1>4, <2>1 DEF EntryRecord
    <3>2. PICK w : w = [task[t] EXCEPT !.pc = "waiting", !.fill = g]
      OBVIOUS
    <3>3. w \in Work
      BY <1>1, <3>2 DEF Work
    <3>4. w.pc = "waiting"
      BY <1>1, <3>2 DEF Work
    <3>5. task' = [task EXCEPT ![t] = w]
      BY <2>1, <3>1, <3>2
    <3>6. QED
      BY <1>1, <1>8, <3>3, <3>4, <3>5, MovesAgain
  <2>2. ASSUME n # 0, task' = [task EXCEPT ![t].pc = "reusing", ![t].entry = n]
        PROVE  Again'
    <3>1. n \in Nat
      BY <1>1, <1>4, <2>2
    <3>2. PICK w : w = [task[t] EXCEPT !.pc = "reusing", !.entry = n]
      OBVIOUS
    <3>3. w \in Work
      BY <1>1, <3>1, <3>2 DEF Work
    <3>4. w.pc = "reusing"
      BY <1>1, <3>2 DEF Work
    <3>5. task' = [task EXCEPT ![t] = w]
      BY <2>2, <3>2
    <3>6. QED
      BY <1>1, <1>8, <3>3, <3>4, <3>5, MovesAgain
  <2>3. ASSUME task' = [task EXCEPT ![t].pc = "done", ![t].failed = TRUE]
        PROVE  Again'
    <3>1. PICK w : w = [task[t] EXCEPT !.pc = "done", !.failed = TRUE]
      OBVIOUS
    <3>2. w \in Work
      BY <1>1, <3>1 DEF Work
    <3>3. w.pc = "done"
      BY <1>1, <3>1 DEF Work
    <3>4. task' = [task EXCEPT ![t] = w]
      BY <2>3, <3>1
    <3>5. QED
      BY <1>1, <1>8, <3>2, <3>3, <3>4, MovesAgain
  <2>4. QED
    BY <1>8, <2>1, <2>2, <2>3
<1>9. PICK w : w = [task[t] EXCEPT !.pc = "leading", !.fill = f]
  OBVIOUS
<1>10. w \in Work
  BY <1>1, <1>9 DEF Work
<1>11. w.pc = "leading" /\ w.fill = f /\ w.added = 0
  BY <1>1, <1>2, <1>9 DEF Work
<1>12. ASSUME NEW rows \in Seq(Nat), NEW e, e.rows = rows, NEW l
       PROVE  LeaderAgain(l, w, e)
  <2>1. 0 <= Len(rows)
    OBVIOUS
  <2>2. QED
    BY <1>11, <1>12, <2>1 DEF LeaderAgain
<1>13. CASE /\ n # 0 /\ ~Filling(objs[n]) /\ fills' = Append(fills, NewFill(n))
            /\ objs' = [objs EXCEPT ![n] = [objs[n] EXCEPT !.fill = Len(fills) + 1]]
            /\ task' = [task EXCEPT ![t].pc = "leading", ![t].fill = Len(fills) + 1]
  <2>1. n \in DOMAIN objs /\ objs[n] \in EntryRecord
    BY <1>1, <1>4, <1>13
  <2>2. PICK x : x = [objs[n] EXCEPT !.fill = f]
    OBVIOUS
  <2>3. /\ x.key = objs[n].key /\ x.rows = objs[n].rows /\ x.seen = objs[n].seen
        /\ x.window = objs[n].window
    BY <2>1, <2>2 DEF EntryRecord
  <2>4. objs' = [objs EXCEPT ![n] = x]
    BY <1>5, <1>13, <2>2
  <2>5. /\ DOMAIN objs' = DOMAIN objs /\ objs'[n] = x
        /\ \A i \in DOMAIN objs : i # n => objs'[i] = objs[i]
    BY <2>1, <2>4
  <2>6. EntryAgain(lists[objs'[n].key], objs'[n])
    <3>1. EntryAgain(lists[objs[n].key], objs[n])
      BY <2>1 DEF Again
    <3>2. QED
      BY <2>3, <2>5, <3>1 DEF EntryAgain, Span
  <2>7. \A s \in Leaders : EntryOf(s) # n
    <3>1. \A s \in Leaders : Entry(s).fill \in DOMAIN fills
      BY DEF Owned, Leads
    <3>2. 0 \notin DOMAIN fills
      BY <1>1
    <3>3. QED
      BY <1>13, <3>1, <3>2 DEF Filling, Entry
  <2>8. task' = [task EXCEPT ![t] = w]
    BY <1>5, <1>9, <1>13
  <2>9. /\ DOMAIN fills \subseteq DOMAIN fills' /\ \A g \in DOMAIN fills : fills'[g] = fills[g]
        /\ fills'[f].entry = n
    BY <1>7, <1>13, <2>1
  <2>10. LeaderAgain(lists[KeyOf(t)], w, objs'[fills'[w.fill].entry])
    <3>1. objs'[fills'[w.fill].entry] = x /\ objs[n].rows \in Seq(Nat)
      BY <1>11, <2>1, <2>5, <2>9 DEF EntryRecord
    <3>2. QED
      BY <1>12, <2>3, <3>1
  <2>11. /\ DOMAIN objs \subseteq DOMAIN objs'
         /\ \A i \in DOMAIN objs' : i # n => i \in DOMAIN objs /\ objs'[i] = objs[i]
         /\ \A g \in DOMAIN fills : fills'[g].entry = fills[g].entry
         /\ w.pc # "called"
    BY <1>11, <2>5, <2>9
  <2>12. QED
    BY <1>1, <1>10, <2>6, <2>7, <2>8, <2>9, <2>10, <2>11, OneAgain
<1>14. CASE /\ fills' = Append(fills, NewFill(Len(objs) + 1))
            /\ objs' = Append(objs, [key |-> KeyOf(t), rows |-> <<>>, window |-> Window,
                                     complete |-> FALSE, expires |-> now + TTL, seen |-> {},
                                     fill |-> Len(fills) + 1])
            /\ task' = [task EXCEPT ![t].pc = "leading", ![t].fill = Len(fills) + 1]
  <2>1. PICK x : x = [key |-> KeyOf(t), rows |-> <<>>, window |-> Window, complete |-> FALSE,
                      expires |-> now + TTL, seen |-> {}, fill |-> Len(fills) + 1]
    OBVIOUS
  <2>2. x.rows = <<>>
    BY <2>1
  <2>3. objs \in Seq(EntryRecord) /\ objs' = Append(objs, x)
    BY <1>1, <1>14, <2>1 DEF ScanTypes
  <2>4. /\ DOMAIN objs \subseteq DOMAIN objs' /\ objs'[m] = x
        /\ \A i \in DOMAIN objs' : i # m => i \in DOMAIN objs /\ objs'[i] = objs[i]
    BY <1>6, <2>3
  <2>5. EntryAgain(lists[objs'[m].key], objs'[m])
    BY <2>2, <2>4 DEF EntryAgain
  <2>6. \A s \in Leaders : EntryOf(s) # m
    BY <1>6 DEF Owned, Leads
  <2>7. task' = [task EXCEPT ![t] = w]
    BY <1>5, <1>9, <1>14
  <2>8. /\ DOMAIN fills \subseteq DOMAIN fills' /\ \A g \in DOMAIN fills : fills'[g] = fills[g]
        /\ fills'[f].entry = m
    BY <1>6, <1>7, <1>14
  <2>9. LeaderAgain(lists[KeyOf(t)], w, objs'[fills'[w.fill].entry])
    <3>1. objs'[fills'[w.fill].entry] = x
      BY <1>11, <2>4, <2>8
    <3>2. <<>> \in Seq(Nat)
      OBVIOUS
    <3>3. QED
      BY <1>12, <2>2, <3>1, <3>2
  <2>10. QED
    BY <1>1, <1>10, <1>11, <2>4, <2>5, <2>6, <2>7, <2>8, <2>9, OneAgain
<1>15. Len(objs) + 1 \notin DOMAIN objs
  BY <1>6
<1>16. QED
  BY <1>3, <1>4, <1>8, <1>13, <1>14, <1>15, Zenon DEF Claim

\* The page that is asked for is as large as the one before.
LEMMA AsksAgain ==
  ASSUME NEW window \in Nat, NEW added \in Nat, NEW r \in Nat, NEW span \in Nat, NEW l \in Lists,
         Ample(l), added <= r, r <= span, ~l.paged => added = 0,
         l.paged => window \in {Window, Fallback} /\ span = window,
         ~l.paged => window = WideWindow /\ span = Min2(WideWindow, Round)
  PROVE  Min2(window, Min2(Round - added, MaxCandidates - r)) = span
<1>1. Round \in Nat /\ MaxCandidates \in Nat /\ WideWindow \in Nat /\ l.paged \in BOOLEAN
  BY ScanLimits
<1>2. CASE l.paged
  <2>1. 2 * window <= Round /\ 2 * window <= MaxCandidates
    BY <1>2 DEF Ample
  <2>2. Round - added >= window /\ MaxCandidates - r >= window
    BY <1>1, <1>2, <2>1
  <2>3. QED
    BY <1>1, <1>2, <2>2 DEF Min2
<1>3. CASE ~l.paged
  <2>1. 2 * span <= MaxCandidates
    BY <1>3 DEF Ample
  <2>2. Round - added = Round /\ MaxCandidates - r >= span
    BY <1>1, <1>3, <2>1
  <2>3. QED
    BY <1>1, <1>3, <2>2 DEF Min2
<1>4. QED
  BY <1>1, <1>2, <1>3

LEMMA NextPageAgain ==
  ASSUME Owned, InOrder, Again, NEW t \in Tasks, NextPage(t)
  PROVE  Again'
<1> USE ScanShapes
<1>1. /\ t \in Leaders /\ UNCHANGED <<lists, now, fills, objs, store>> /\ Leads(t) /\ ScanTypes
      /\ task[t] \in Work /\ task[t].pc = "leading"
  BY DEF NextPage, Leaders, Owned
<1>2. PICK limit : limit = Min2(IF Paged(t) THEN Entry(t).window ELSE WideWindow,
                                Min2(Round - task[t].added, MaxCandidates - Len(Entry(t).rows)))
  OBVIOUS
<1>3. CASE /\ ~(limit <= 0)
           /\ task' = [task EXCEPT ![t].pc = "fetching", ![t].limit = limit,
                                   ![t].offset = Len(Entry(t).rows)]
  <2>1. PICK n \in DOMAIN objs : n = EntryOf(t) /\ Entry(t) = objs[n] /\ objs[n].key = KeyOf(t)
    BY <1>1 DEF Leads, Entry
  <2>2. PICK l \in Lists : l = lists[KeyOf(t)]
    BY <1>1 DEF Tasks, KeyOf
  <2>3. PICK rows \in Seq(Nat) : rows = Entry(t).rows
    BY <1>1, <2>1 DEF EntryRecord
  <2>4. PICK r \in Nat : r = Len(rows)
    OBVIOUS
  <2>5. PICK added \in Nat : added = task[t].added
    BY <1>1 DEF Work
  <2>6. PICK own \in Nat : own = Entry(t).window /\ own \in {Window, Fallback}
    BY <2>1, ScanLimits DEF InOrder, RowsInOrder
  <2>7. PICK window \in Nat : window = IF l.paged THEN own ELSE WideWindow
    BY ScanLimits
  <2>8. limit = Min2(window, Min2(Round - added, MaxCandidates - r))
    BY <1>2, <2>2, <2>3, <2>4, <2>5, <2>6, <2>7 DEF Paged
  <2>9. PICK span \in Nat : span = Span(l, Entry(t)) /\ span = IF l.paged THEN own ELSE Min2(WideWindow, Round)
    BY <2>6, ScanLimits DEF Span, Min2
  <2>10. EntryAgain(l, Entry(t)) /\ LeaderAgain(l, task[t], Entry(t))
    BY <1>1, <2>1, <2>2 DEF Again
  <2>11. Repeating(l) => limit = span
    <3>1. SUFFICES ASSUME Repeating(l)
                   PROVE  limit = span
      OBVIOUS
    <3>2. added <= r /\ (~l.paged => added = 0)
      BY <2>3, <2>4, <2>5, <2>10, <3>1 DEF LeaderAgain
    <3>3. r <= span
      <4>1. CASE rows = <<>>
        BY <2>4, <4>1
      <4>2. CASE rows # <<>>
        <5>1. r = Min2(PageSize(l, 0, span), span)
          BY <2>3, <2>4, <2>9, <2>10, <3>1, <4>2 DEF EntryAgain
        <5>2. PageSize(l, 0, span) \in Nat
          BY ScanLimits DEF PageSize, RowsLeft, RowsFrom, Min2
        <5>3. QED
          BY <5>1, <5>2 DEF Min2
      <4>3. QED
        BY <4>1, <4>2
    <3>4. Ample(l)
      BY <3>1 DEF Repeating, Orderly
    <3>5. l.paged => window \in {Window, Fallback} /\ span = window
      BY <2>6, <2>7, <2>9
    <3>6. ~l.paged => window = WideWindow /\ span = Min2(WideWindow, Round)
      BY <2>7, <2>9
    <3>7. Min2(window, Min2(Round - added, MaxCandidates - r)) = span
      BY <3>2, <3>3, <3>4, <3>5, <3>6, AsksAgain
    <3>8. QED
      BY <2>8, <3>7
  <2>12. limit \in Nat
    <3>1. Round - added \in Int /\ MaxCandidates - r \in Int
      BY ScanLimits
    <3>2. QED
      BY <1>3, <2>8, <3>1 DEF Min2
  <2>13. PICK w : w = [task[t] EXCEPT !.pc = "fetching", !.limit = limit, !.offset = r]
    OBVIOUS
  <2>14. w \in Work
    BY <1>1, <2>12, <2>13 DEF Work
  <2>15. w.pc = "fetching" /\ w.fill = task[t].fill /\ w.limit = limit /\ w.added = task[t].added
    BY <1>1, <2>13 DEF Work
  <2>16. task' = [task EXCEPT ![t] = w]
    BY <1>3, <2>3, <2>4, <2>13
  <2>17. LeaderAgain(l, w, Entry(t))
    BY <2>9, <2>10, <2>11, <2>15 DEF LeaderAgain
  <2>18. Entry(t) = objs[fills[w.fill].entry]
    BY <2>15 DEF Entry, EntryOf
  <2>19. QED
    BY <1>1, <2>2, <2>14, <2>15, <2>16, <2>17, <2>18, MovesAgain
<1>4. \/ task' = Leave(t, TRUE)
      \/ task' = Leave(t, FALSE)
      \/ /\ ~(limit <= 0)
         /\ task' = [task EXCEPT ![t].pc = "fetching", ![t].limit = limit,
                                 ![t].offset = Len(Entry(t).rows)]
  BY <1>2, Zenon DEF NextPage
<1>5. QED
  BY <1>1, <1>3, <1>4, LeavesAgain

\* The entry of a leader is rewritten.
LEMMA RewritesAgain ==
  ASSUME Owned, Again, lists' = lists, fills' = fills, NEW t \in Leaders,
         NEW x, x.key = Entry(t).key, objs' = [objs EXCEPT ![EntryOf(t)] = x],
         EntryAgain(lists[KeyOf(t)], x),
         NEW w \in Work, w.pc \in {"leading", "finishing"}, w.fill = task[t].fill,
         task' = [task EXCEPT ![t] = w], LeaderAgain(lists[KeyOf(t)], w, x)
  PROVE  Again'
<1>1. t \in Tasks /\ Leads(t)
  BY DEF Owned, Leaders
<1>2. PICK n \in DOMAIN objs : n = EntryOf(t) /\ x.key = KeyOf(t)
  BY <1>1 DEF Leads
<1>3. /\ DOMAIN objs' = DOMAIN objs /\ objs'[n] = x
      /\ \A m \in DOMAIN objs : m # n => objs'[m] = objs[m]
  BY <1>2
<1>4. \A s \in Leaders : s # t => EntryOf(s) # n
  BY <1>2, EntriesApart
<1>5. EntryAgain(lists[objs'[n].key], objs'[n])
  BY <1>2, <1>3
<1>6. objs'[fills'[w.fill].entry] = x
  BY <1>2, <1>3 DEF EntryOf
<1>7. LeaderAgain(lists[KeyOf(t)], w, objs'[fills'[w.fill].entry])
  BY <1>6
<1>8. w.pc # "called"
  OBVIOUS
<1>9. QED
  BY <1>1, <1>3, <1>4, <1>5, <1>7, <1>8, OneAgain

LEMMA RefusedAgain ==
  ASSUME Owned, InOrder, Again, NEW t \in Tasks, Refused(t)
  PROVE  Again'
<1> USE ScanShapes
<1>1. /\ t \in Leaders /\ UNCHANGED <<lists, fills>> /\ Leads(t) /\ ScanTypes
      /\ task[t] \in Work /\ task[t].pc = "fetching" /\ task[t].limit > lists[KeyOf(t)].ceiling
  BY DEF Refused, Leaders, Owned
<1>2. CASE task' = Leave(t, ~Paged(t)) /\ UNCHANGED objs
  BY <1>1, <1>2, LeavesAgain
<1>3. CASE /\ Paged(t)
           /\ objs' = [objs EXCEPT ![EntryOf(t)].window = Fallback]
           /\ task' = [task EXCEPT ![t].pc = "leading", ![t].fellBack = TRUE]
  <2>1. PICK n \in DOMAIN objs : n = EntryOf(t) /\ Entry(t) = objs[n] /\ objs[n].key = KeyOf(t)
    BY <1>1 DEF Leads, Entry
  <2>2. PICK l \in Lists : l = lists[KeyOf(t)]
    BY <1>1 DEF Tasks, KeyOf
  <2>3. PICK x : x = [objs[n] EXCEPT !.window = Fallback]
    OBVIOUS
  <2>4. objs[n] \in EntryRecord
    BY <1>1
  <2>5. x.key = objs[n].key /\ x.rows = objs[n].rows
    BY <2>3, <2>4 DEF EntryRecord
  <2>6. objs' = [objs EXCEPT ![n] = x]
    BY <1>3, <2>1, <2>3
  <2>7. EntryAgain(l, Entry(t)) /\ LeaderAgain(l, task[t], Entry(t))
    BY <1>1, <2>1, <2>2 DEF Again
  <2>8. Repeating(l) => objs[n].rows = <<>>
    <3>1. SUFFICES ASSUME Repeating(l), objs[n].rows # <<>>
                   PROVE  FALSE
      OBVIOUS
    <3>2. l.paged
      BY <1>3, <2>2 DEF Paged
    <3>3. task[t].limit = objs[n].window /\ objs[n].window <= l.ceiling
      BY <1>1, <2>1, <2>7, <3>1, <3>2 DEF EntryAgain, LeaderAgain, Span
    <3>4. objs[n].window \in Nat /\ l.ceiling \in Nat /\ objs[n].window > l.ceiling
      BY <1>1, <2>2, <2>4, <3>3, ScanLimits DEF EntryRecord
    <3>5. QED
      BY <3>3, <3>4
  <2>9. EntryAgain(l, x)
    BY <2>5, <2>8 DEF EntryAgain
  <2>10. PICK w : w = [task[t] EXCEPT !.pc = "leading", !.fellBack = TRUE]
    OBVIOUS
  <2>11. w \in Work
    BY <1>1, <2>10 DEF Work
  <2>12. w.pc = "leading" /\ w.fill = task[t].fill /\ w.added = task[t].added
    BY <1>1, <2>10 DEF Work
  <2>13. task' = [task EXCEPT ![t] = w]
    BY <1>3, <2>10
  <2>14. LeaderAgain(l, w, x)
    BY <2>1, <2>5, <2>7, <2>12 DEF LeaderAgain
  <2>15. x.key = Entry(t).key /\ objs' = [objs EXCEPT ![EntryOf(t)] = x]
    BY <2>1, <2>5, <2>6
  <2>16. QED
    BY <1>1, <2>2, <2>9, <2>11, <2>12, <2>13, <2>14, <2>15, RewritesAgain
<1>4. QED
  BY <1>2, <1>3 DEF Refused

\* A page is received only as wide as the upstream allows; the fill goes on only if
\* there may be more.
LEMMA ReceivedWithin ==
  ASSUME NEW t \in Tasks, Receive(t)
  PROVE  /\ task[t].limit <= lists[KeyOf(t)].ceiling
         /\ task' = Leave(t, FALSE) \/ Verdict(t) = "more"
BY Zenon DEF Receive, Page, Taken, Verdict

LEMMA ReceiveAgain ==
  ASSUME Owned, InOrder, Again, NEW t \in Tasks, Receive(t)
  PROVE  Again'
<1>1. /\ t \in Leaders /\ Leads(t) /\ UNCHANGED <<lists, fills>>
      /\ task[t].pc = "fetching" /\ ScanTypes /\ task[t] \in Work
  BY ReceivingIs, ScanShapes DEF Owned
<1>2. PICK l \in Lists : l = lists[KeyOf(t)]
  BY <1>1, ScanShapes DEF Tasks, KeyOf
<1>3. PICK rows \in Seq(Nat) : rows = Entry(t).rows
  BY <1>1, ScanShapes DEF EntryRecord, Leads, Entry
<1>4. PICK items \in Seq(Nat) : items = Taken(t) /\ Len(items) = TakenSize(t)
  BY <1>1, TakenRows
<1>5. EntryAgain(l, Entry(t)) /\ LeaderAgain(l, task[t], Entry(t))
  BY <1>1, <1>2 DEF Again, Leads, Entry
<1>6. CASE objs' = objs /\ task' = Leave(t, FALSE)
  BY <1>1, <1>6, LeavesAgain
<1>7. CASE /\ objs' = [objs EXCEPT ![EntryOf(t)] = Completed(Entry(t))]
           /\ task' = Leave(t, FALSE)
  <2>1. PICK x : /\ x = Completed(Entry(t)) /\ x.key = Entry(t).key
                 /\ x.rows = rows /\ x.window = Entry(t).window /\ x.seen = Entry(t).seen
    BY <1>1, <1>3, GrownIs
  <2>2. PICK w \in Work : /\ w.pc = "finishing" /\ w.fill = task[t].fill /\ w.added = task[t].added
                          /\ task' = [task EXCEPT ![t] = w]
    BY <1>1, <1>7, LeavingIs
  <2>3. EntryAgain(l, x)
    BY <1>3, <1>5, <2>1 DEF EntryAgain, Span
  <2>4. LeaderAgain(l, w, x)
    BY <1>3, <1>5, <2>1, <2>2 DEF LeaderAgain
  <2>5. objs' = [objs EXCEPT ![EntryOf(t)] = x]
    BY <1>7, <2>1
  <2>6. QED
    BY <1>1, <1>2, <2>1, <2>2, <2>3, <2>4, <2>5, RewritesAgain
<1>8. CASE /\ Taken(t) # <<>> /\ Taken(t) \notin Entry(t).seen
           /\ objs' = [objs EXCEPT ![EntryOf(t)] = IF Verdict(t) = "complete" THEN Completed(Grown(t))
                                                   ELSE Grown(t)]
           /\ \/ task' = [task EXCEPT ![t].pc = "leading", ![t].added = @ + Len(Taken(t))]
              \/ task' = Leave(t, FALSE)
  <2>1. PICK longer \in Seq(Nat) : longer = rows \o items
    <3>1. rows \o items \in Seq(Nat)
      OBVIOUS
    <3>2. QED
      BY <3>1
  <2>2. PICK x : /\ objs' = [objs EXCEPT ![EntryOf(t)] = x] /\ x.key = Entry(t).key
                 /\ x.rows = longer /\ x.window = Entry(t).window
                 /\ x.seen = Entry(t).seen \cup {items}
    <3>1. /\ Grown(t) \in EntryRecord /\ Grown(t).key = Entry(t).key
          /\ Grown(t).rows = longer /\ Grown(t).window = Entry(t).window
          /\ Grown(t).seen = Entry(t).seen \cup {items}
          /\ \A y \in EntryRecord : /\ Completed(y).key = y.key /\ Completed(y).seen = y.seen
                                    /\ Completed(y).rows = y.rows /\ Completed(y).window = y.window
      BY <1>1, <1>3, <1>4, <2>1, GrownIs
    <3>2. CASE Verdict(t) = "complete"
      <4>1. objs' = [objs EXCEPT ![EntryOf(t)] = Completed(Grown(t))]
        BY <1>8, <3>2
      <4>2. QED
        BY <3>1, <4>1
    <3>3. CASE Verdict(t) # "complete"
      <4>1. objs' = [objs EXCEPT ![EntryOf(t)] = Grown(t)]
        BY <1>8, <3>3
      <4>2. QED
        BY <3>1, <4>1
    <3>4. QED
      BY <3>2, <3>3
  <2>3. PICK before \in Nat, size \in Nat : before = task[t].added /\ size = Len(items)
    <3>1. task[t].added \in Nat
      BY <1>1 DEF Work
    <3>2. Len(items) \in Nat
      OBVIOUS
    <3>3. QED
      BY <3>1, <3>2
  <2>4. PICK w \in Work : /\ w.pc \in {"leading", "finishing"} /\ w.fill = task[t].fill
                          /\ w.added = before \/ (l.paged /\ w.added = before + size)
                          /\ task' = [task EXCEPT ![t] = w]
    <3>1. CASE task' = Leave(t, FALSE)
      <4>1. PICK w \in Work : /\ w.pc = "finishing" /\ w.fill = task[t].fill
                              /\ w.added = task[t].added /\ task' = [task EXCEPT ![t] = w]
        BY <1>1, <3>1, LeavingIs
      <4>2. QED
        BY <2>3, <4>1
    <3>2. CASE /\ task' # Leave(t, FALSE)
               /\ task' = [task EXCEPT ![t].pc = "leading", ![t].added = @ + Len(Taken(t))]
      <4>1. PICK more \in Nat : more = before + size
        OBVIOUS
      <4>2. PICK w : w = [task[t] EXCEPT !.pc = "leading", !.added = more]
        OBVIOUS
      <4>3. w \in Work
        BY <1>1, <4>2 DEF Work
      <4>4. w.pc = "leading" /\ w.fill = task[t].fill /\ w.added = more
        BY <1>1, <4>2 DEF Work
      <4>5. task' = [task EXCEPT ![t] = w]
        BY <1>4, <2>3, <3>2, <4>1, <4>2
      <4>6. Verdict(t) = "more"
        BY <3>2, ReceivedWithin
      <4>7. l.paged
        BY <1>2, <4>6 DEF Verdict, After
      <4>8. QED
        BY <4>1, <4>3, <4>4, <4>5, <4>7
    <3>3. QED
      BY <1>8, <3>1, <3>2
  <2>5. ASSUME Repeating(l)
        PROVE  /\ rows = <<>> /\ longer = items /\ before = 0
               /\ size = Min2(PageSize(l, 0, Span(l, Entry(t))), Span(l, Entry(t)))
               /\ l.paged => Entry(t).window <= l.ceiling
               /\ l.paged \/ before = 0
    <3>1. rows = <<>>
      BY <1>1, <1>2, <1>3, <1>8, <2>5, TakenAgain
    <3>2. longer = items
      <4>1. <<>> \o items = items
        OBVIOUS
      <4>2. QED
        BY <2>1, <3>1, <4>1
    <3>3. before = 0
      <4>1. before <= Len(rows)
        BY <1>3, <1>5, <2>3, <2>5 DEF LeaderAgain
      <4>2. QED
        BY <3>1, <4>1
    <3>4. task[t].limit = Span(l, Entry(t))
      BY <1>1, <1>5, <2>5 DEF LeaderAgain
    <3>5. size = Min2(PageSize(l, 0, task[t].limit), task[t].limit)
      BY <1>2, <1>4, <2>3, <2>5 DEF TakenSize, PageSize, RowsLeft, RowsFrom, Repeating
    <3>6. l.paged => Entry(t).window <= l.ceiling
      <4>1. task[t].limit <= l.ceiling
        BY <1>2, ReceivedWithin
      <4>2. QED
        BY <3>4, <4>1 DEF Span
    <3>7. QED
      BY <3>1, <3>2, <3>3, <3>4, <3>5, <3>6
  <2>6. EntryAgain(l, x)
    <3>1. SUFFICES ASSUME Repeating(l)
                   PROVE  /\ Len(x.rows) = Min2(PageSize(l, 0, Span(l, x)), Span(l, x))
                          /\ x.rows \in x.seen
                          /\ l.paged => x.window <= l.ceiling
      BY DEF EntryAgain
    <3>2. Span(l, x) = Span(l, Entry(t))
      BY <2>2 DEF Span
    <3>3. x.rows = items
      BY <2>2, <2>5, <3>1
    <3>4. QED
      BY <2>2, <2>3, <2>5, <3>1, <3>2, <3>3
  <2>7. LeaderAgain(l, w, x)
    <3>1. SUFFICES ASSUME Repeating(l)
                   PROVE  /\ w.added <= Len(x.rows)
                          /\ ~l.paged => w.added = 0
      BY <2>4 DEF LeaderAgain
    <3>2. Len(x.rows) = size /\ before = 0
      BY <2>2, <2>3, <2>5, <3>1
    <3>3. QED
      BY <2>3, <2>4, <3>2
  <2>8. QED
    BY <1>1, <1>2, <2>2, <2>4, <2>6, <2>7, RewritesAgain
<1>9. QED
  BY <1>6, <1>7, <1>8, ReceivingIs

LEMMA FetchFailsAgain ==
  ASSUME Owned, Again, NEW t \in Tasks, FetchFails(t)
  PROVE  Again'
<1>1. t \in Leaders /\ UNCHANGED <<lists, objs, fills>> /\ task' = Leave(t, TRUE)
  BY DEF FetchFails, Leaders
<1>2. QED
  BY <1>1, LeavesAgain

LEMMA FinishFillAgain ==
  ASSUME Owned, Again, NEW t \in Tasks, FinishFill(t)
  PROVE  Again'
<1>1. /\ t \in Leaders /\ Leads(t) /\ lists' = lists /\ ScanTypes /\ task[t] \in Work
  BY ScanShapes DEF FinishFill, Leaders, Owned
<1>2. PICK n \in DOMAIN objs, f \in DOMAIN fills :
        n = EntryOf(t) /\ f = task[t].fill /\ objs[n] = Entry(t)
  BY <1>1 DEF Leads, EntryOf, Entry
<1>3. objs[n] \in EntryRecord /\ fills[f] \in FillRecord
  BY <1>1, ScanShapes
<1>4. PICK c : c = (Entry(t).complete /\ ~Expired(Entry(t)))
  OBVIOUS
<1>5. PICK end : end = Len(Entry(t).rows)
  OBVIOUS
<1>6. PICK x : x = [objs[n] EXCEPT !.fill = 0, !.complete = c]
  OBVIOUS
<1>7. /\ x.key = objs[n].key /\ x.rows = objs[n].rows /\ x.window = objs[n].window
      /\ x.seen = objs[n].seen
  BY <1>3, <1>6 DEF EntryRecord
<1>8. /\ DOMAIN objs' = DOMAIN objs /\ objs'[n] = x
      /\ \A m \in DOMAIN objs : m # n => objs'[m] = objs[m]
  <2>1. objs' = [objs EXCEPT ![n] = x]
    BY <1>2, <1>4, <1>6 DEF FinishFill
  <2>2. QED
    BY <2>1
<1>9. DOMAIN fills' = DOMAIN fills /\ \A g \in DOMAIN fills : fills'[g].entry = fills[g].entry
  <2>1. PICK y : y = [fills[f] EXCEPT !.done = TRUE, !.end = end, !.complete = c]
    OBVIOUS
  <2>2. y.entry = fills[f].entry
    BY <1>3, <2>1 DEF FillRecord
  <2>3. fills' = [fills EXCEPT ![f] = y]
    BY <1>2, <1>4, <1>5, <2>1 DEF FinishFill
  <2>4. QED
    BY <2>2, <2>3
<1>10. EntryAgain(lists[objs'[n].key], objs'[n])
  <2>1. EntryAgain(lists[objs[n].key], objs[n])
    BY DEF Again
  <2>2. QED
    BY <1>7, <1>8, <2>1 DEF EntryAgain, Span
<1>11. \A s \in Leaders : s # t => EntryOf(s) # n
  BY <1>1, <1>2, EntriesApart
<1>12. PICK w : w = [task[t] EXCEPT !.pc = "waiting"]
  OBVIOUS
<1>13. w \in Work
  BY <1>1, <1>12 DEF Work
<1>14. w.pc = "waiting"
  BY <1>1, <1>12 DEF Work
<1>15. task' = [task EXCEPT ![t] = w]
  BY <1>12 DEF FinishFill
<1>16. QED
  BY <1>1, <1>8, <1>9, <1>10, <1>11, <1>13, <1>14, <1>15, OneAgain

LEMMA ViewsAgain ==
  ASSUME Owned, Again, NEW t \in Tasks, ViewForFill(t) \/ StopWaiting(t) \/ ViewForEntry(t)
  PROVE  Again'
<1>1. UNCHANGED <<lists, objs, fills>> /\ task[t] \in Work
  BY ScanShapes DEF ViewForFill, StopWaiting, ViewForEntry, Owned
<1>2. \A s \in Tasks : s # t => task'[s] = task[s]
  BY DEF ViewForFill, StopWaiting, ViewForEntry, Owned, ScanTypes
<1>3. task'[t].pc = "done"
  <2>1. CASE ViewForFill(t)
    BY <1>1, <2>1 DEF ViewForFill, Owned, ScanTypes, Work
  <2>2. CASE StopWaiting(t)
    BY <1>1, <2>2 DEF StopWaiting, Owned, ScanTypes, Work
  <2>3. CASE ViewForEntry(t)
    BY <1>1, <2>3 DEF ViewForEntry, Owned, ScanTypes, Work
  <2>4. QED
    BY <2>1, <2>2, <2>3
<1>4. \A s \in Leaders' : s # t /\ s \in Leaders
  BY <1>2, <1>3 DEF Leaders
<1>5. \A s \in Leaders' : Entry(s)' = Entry(s)
  BY <1>1, <1>2, <1>4 DEF Entry, EntryOf, Leaders
<1>6. QED
  BY <1>1, <1>2, <1>3, <1>4, <1>5 DEF Again, Leaders

LEMMA BeginAgain ==
  ASSUME Owned, Again, NEW q \in Requests, Begin(q)
  PROVE  Again'
<1>1. /\ UNCHANGED <<lists, objs, fills>>
      /\ task' = [t \in Tasks |-> IF t[1] = q THEN [Idle EXCEPT !.pc = "called"] ELSE task[t]]
  BY DEF Begin
<1>2. PICK called \in Work : called = [Idle EXCEPT !.pc = "called"] /\ called.pc = "called"
  BY IdleIs
<1>3. called.added = 0
  BY <1>2 DEF Idle
<1>4. \A t \in Tasks : task'[t] = IF t[1] = q THEN called ELSE task[t]
  BY <1>1, <1>2
<1>5. \A s \in Leaders' : s \in Leaders /\ task'[s] = task[s]
  BY <1>2, <1>4 DEF Leaders
<1>6. \A s \in Leaders' : Entry(s)' = Entry(s)
  BY <1>1, <1>5 DEF Entry, EntryOf
<1>7. QED
  BY <1>1, <1>3, <1>4, <1>5, <1>6 DEF Again

LEMMA AgainUntouched ==
  ASSUME Again, UNCHANGED <<lists, objs, fills, task>>
  PROVE  Again'
<1>1. \A s \in Leaders' : s \in Leaders /\ Entry(s)' = Entry(s)
  BY DEF Leaders, Entry, EntryOf
<1>2. QED
  BY <1>1 DEF Again

LEMMA AgainInitially == Init => Again
<1>1. SUFFICES ASSUME Init
               PROVE  Again
  OBVIOUS
<1>2. DOMAIN objs = {}
  BY <1>1 DEF Init
<1>3. \A t \in Tasks : task[t].pc = "idle"
  BY <1>1, IdleIs DEF Init
<1>4. QED
  BY <1>2, <1>3 DEF Again, Leaders

LEMMA AgainKept == Owned /\ InOrder /\ Again /\ [Next]_vars => Again'
<1>1. SUFFICES ASSUME Owned, InOrder, Again, [Next]_vars
               PROVE  Again'
  OBVIOUS
<1>2. CASE UNCHANGED vars
  BY <1>1, <1>2, AgainUntouched DEF vars
<1>3. CASE \E t \in Tasks : Claim(t) \/ Lead(t) \/ ViewForFill(t) \/ StopWaiting(t) \/ ViewForEntry(t)
  BY <1>1, <1>3, ClaimAgain, NextPageAgain, ReceiveAgain, RefusedAgain, FetchFailsAgain,
     FinishFillAgain, ViewsAgain DEF Lead
<1>4. CASE \E q \in Requests : Begin(q)
  BY <1>1, <1>4, BeginAgain
<1>5. CASE \E q \in Requests : AnswerEarly(q) \/ ClientGone(q) \/ DrainEnds(q)
  BY <1>1, <1>5, AgainUntouched DEF AnswerEarly, ClientGone, AnswersPartly, DrainEnds
<1>6. CASE \E q \in Requests, k \in Keys : Collect(q, k) \/ Drain(q, k)
  BY <1>1, <1>6, AgainUntouched DEF Collect, Drain
<1>7. CASE Tick
  BY <1>1, <1>7, AgainUntouched DEF Tick
<1>8. QED
  BY <1>1, <1>2, <1>3, <1>4, <1>5, <1>6, <1>7 DEF Next

LEMMA InOrderKept == Owned /\ InOrder /\ Again /\ [Next]_vars => InOrder'
<1>1. SUFFICES ASSUME Owned, InOrder, Again, [Next]_vars
               PROVE  InOrder'
  OBVIOUS
<1>2. Owned'
  BY <1>1, OwnedKept
<1>3. CASE UNCHANGED vars
  BY <1>1, <1>2, <1>3, OrderUntouched DEF vars
<1>4. CASE \E t \in Tasks : Claim(t) \/ Lead(t) \/ ViewForFill(t) \/ StopWaiting(t) \/ ViewForEntry(t)
  BY <1>1, <1>2, <1>4, ClaimInOrder, NextPageInOrder, ReceiveInOrder, RefusedInOrder,
     FetchFailsInOrder, FinishFillInOrder, ViewForFillInOrder, StopWaitingInOrder,
     ViewForEntryInOrder DEF Lead
<1>5. CASE \E q \in Requests : Begin(q) \/ AnswerEarly(q) \/ ClientGone(q) \/ DrainEnds(q)
  BY <1>1, <1>2, <1>5, BeginInOrder, AnswersPartlyInOrder, DrainInOrder DEF AnswerEarly, ClientGone
<1>6. CASE \E q \in Requests, k \in Keys : Collect(q, k) \/ Drain(q, k)
  BY <1>1, <1>2, <1>6, CollectInOrder, DrainInOrder
<1>7. CASE Tick
  BY <1>1, <1>2, <1>7, OrderUntouched DEF Tick
<1>8. QED
  BY <1>1, <1>3, <1>4, <1>5, <1>6, <1>7 DEF Next

\* A request that ended unmarked has the whole list of every orderly upstream.
OrderlyListsWhole ==
    \A q \in Requests : req[q].pc \in {"draining", "ended"} /\ ~req[q].incomplete =>
        \A k \in Keys : Orderly(lists[k]) => task[<<q, k>>].rows = Whole(lists[k])

LEMMA InOrderIsWhole == InOrder => OrderlyListsWhole
<1>1. SUFFICES ASSUME InOrder, NEW q \in Requests, req[q].pc \in {"draining", "ended"},
                      ~req[q].incomplete, NEW k \in Keys, Orderly(lists[k])
               PROVE  task[<<q, k>>].rows = Whole(lists[k])
  BY DEF OrderlyListsWhole
<1>2. task[<<q, k>>].pc = "done" /\ ~Lacks(<<q, k>>)
  BY <1>1 DEF InOrder, RequestsInOrder
<1>3. <<q, k>> \in Tasks /\ KeyOf(<<q, k>>) = k
  BY DEF Tasks, KeyOf
<1>4. QED
  BY <1>1, <1>2, <1>3 DEF InOrder, ViewsInOrder

LEMMA InOrderAlways == Spec => [](Owned /\ InOrder /\ Again)
<1>1. Init => Owned /\ InOrder /\ Again
  BY OwnedInitially, InOrderInitially, AgainInitially
<1>2. (Owned /\ InOrder /\ Again) /\ [Next]_vars => (Owned /\ InOrder /\ Again)'
  BY OwnedKept, InOrderKept, AgainKept
<1>3. QED
  BY <1>1, <1>2, PTL DEF Spec

\* An answer that is not marked incomplete has all that each orderly upstream lists,
\* those that ignore the offset or refuse wide windows included, whatever the others
\* do, the page sizes, the limits and the interleaving of fills, joins, evictions and
\* expiry: aggregation.go, media_items_scan.go, catalog_snapshot.go.
THEOREM OrderlyListsAreWhole == Spec => []OrderlyListsWhole
<1>1. Owned /\ InOrder => OrderlyListsWhole
  BY InOrderIsWhole
<1>2. QED
  BY <1>1, InOrderAlways, PTL

\* From upstreams that are all orderly an answer that is not marked incomplete is
\* whole: aggregation.go, media_items_scan.go, catalog_snapshot.go.
THEOREM OrderlyAnswersAreWhole ==
  ASSUME \A l \in Lists : Orderly(l)
  PROVE  Spec => []UnmarkedAnswersAreWhole
<1>1. Owned /\ InOrder => UnmarkedAnswersAreWhole
  <2>1. SUFFICES ASSUME Owned, InOrder
                 PROVE  UnmarkedAnswersAreWhole
    OBVIOUS
  <2>2. \A k \in Keys : Orderly(lists[k])
    BY <2>1 DEF Owned, ScanTypes
  <2>3. QED
    BY <2>1, <2>2, InOrderIsWhole DEF OrderlyListsWhole, UnmarkedAnswersAreWhole
<1>2. QED
  BY <1>1, InOrderAlways, PTL
================================================================================
