--------------------------- MODULE StreamResources ---------------------------
(* The two tables in memory behind the local URLs of a playback:            *)
(* stream_resource_store.go keeps a handle for every upstream URL a playlist *)
(* or a PlaybackInfo answer named, playbackCapabilityStore of                *)
(* playback_ingress.go the credentials of strict attempts.  Both are bounded *)
(* and forget by time.  A playlist that rolls (a live one) is a window of    *)
(* its session: what leaves every window stays for CatchupGrace.             *)
(*                                                                           *)
(* A play is a resourceSessionKey; Tries gives a strict one its attempt and  *)
(* a legacy one None.  The bindings of the attempts are those of             *)
(* PlaybackIdentityStore, reduced to what these tables ask of them.          *)
EXTENDS Naturals, FiniteSets

CONSTANTS
    Plays, Attempts, Tries, URLs, Playlists, Readers,
    Handles,         \* random identifiers; as many as the store has room for
    Capabilities,    \* likewise
    None,
    IdleTTL, CatchupGrace,   \* of resources
    CapabilityTTL,
    Horizon          \* bound of the clock

ASSUME StreamTimes == /\ IdleTTL \in Nat \ {0} /\ CatchupGrace \in Nat /\ CapabilityTTL \in Nat \ {0}
                      /\ Horizon \in Nat
ASSUME StreamTables == /\ IsFiniteSet(Handles) /\ IsFiniteSet(URLs) /\ IsFiniteSet(Playlists)
                       /\ IsFiniteSet(Plays) /\ Tries \in [Plays -> Attempts \cup {None}]

Windowing == [Playlists -> (SUBSET Handles) \cup {None}]
Resource == [play : Plays, url : URLs, pinned : BOOLEAN, retire : Nat \cup {None}]
ResourceSession == [expires : Nat, windows : Windowing]
Credential == [attempt : Attempts, used : Nat]
Reading == [play : Plays, list : Playlists, cap : Capabilities \cup {None}]
Given == [play : Plays, at : Nat, cap : Capabilities \cup {None}, shown : Nat, vod : BOOLEAN]
ASSUME NoneIsNowhere ==
    /\ None \notin Attempts /\ None \notin Playlists /\ None \notin Capabilities /\ None \notin Nat
    /\ None \notin Resource /\ None \notin ResourceSession /\ None \notin Credential
    /\ None \notin Reading /\ None \notin Given /\ \A S \in SUBSET Handles : S # None

VARIABLES
    binding,         \* of an attempt: unused, pending, active, over or forgotten
    negotiating,     \* attempts whose PlaybackInfo is not answered yet
    handle,          \* entries
    playing,         \* sessions: when they expire, the window of each playlist
    windowCount,     \* manifestCount
    capability,      \* byDigest: the attempt and the last use
    reader,          \* a request for a playlist, between its checks and its answer
    clock,
    promise, used    \* history: what players were given, and their last request

bindingVars == <<binding, negotiating>>
storeVars == <<handle, playing, windowCount>>
history == <<promise, used>>
streamVars == <<bindingVars, storeVars, capability, reader, clock, history>>

Strict(k) == Tries[k] # None
Live(a) == binding[a] \in {"pending", "active"}

(* The handles.                                                             *)

IsGone(k) == playing[k] # None /\ clock >= playing[k].expires
IsRetired(h) == handle[h].retire # None /\ clock >= handle[h].retire
Lapsed(h) == handle[h] # None /\ (IsGone(handle[h].play) \/ IsRetired(h))
Fetchable(h) == handle[h] # None /\ ~Lapsed(h)

WindowsOf(k) == IF playing[k] = None THEN {} ELSE {m \in Playlists : playing[k].windows[m] # None}
CountOf(plays) == Cardinality({w \in plays \X Playlists : w[2] \in WindowsOf(w[1])})

\* pruneLocked and removeAttempt: what stays when plays and handles go.
HandlesWithout(gone, dead) ==
    [h \in Handles |-> IF handle[h] = None \/ handle[h].play \in gone \/ h \in dead
                       THEN None ELSE handle[h]]
PlayingWithout(gone) == [k \in Plays |-> IF k \in gone THEN None ELSE playing[k]]
GonePlays == {k \in Plays : IsGone(k)}
PrunedHandles == HandlesWithout(GonePlays, {h \in Handles : Lapsed(h)})
PrunedPlaying == PlayingWithout(GonePlays)
PrunedCount == windowCount - CountOf(GonePlays)
Prune == /\ handle' = PrunedHandles
         /\ playing' = PrunedPlaying
         /\ windowCount' = PrunedCount

\* removeAttempt.
RemoveAttempts(attempts) ==
    LET gone == {k \in Plays : Strict(k) /\ Tries[k] \in attempts}
    IN /\ handle' = HandlesWithout(gone, {})
       /\ playing' = PlayingWithout(gone)
       /\ windowCount' = windowCount - CountOf(gone)

NoWindows == [m \in Playlists |-> None]
Injections(from, to) == {f \in [from -> to] : \A x, y \in from : f[x] = f[y] => x = y}

\* Faulty: the windows of its sibling playlists do not count.
LeftOwnWindow(old, members, windows) == old \ members
\* The handles of a playlist that no window of the session names any more.
LeftBehind(old, members, windows) ==
    old \ UNION {windows[m] : m \in {n \in Playlists : windows[n] # None}}

Registered(e, rolling) == [e EXCEPT !.pinned = @ \/ ~rolling, !.retire = None]

\* After pruning: the handle of an upstream URL (byURL), the windows of a session,
\* and whether a batch fits in what is left of both tables.
HandleOf(k, u) == {h \in Handles : PrunedHandles[h] # None
                                    /\ PrunedHandles[h].play = k /\ PrunedHandles[h].url = u}
Free == {h \in Handles : PrunedHandles[h] = None}
Missing(k, urls) == {u \in urls : HandleOf(k, u) = {}}
Windows(k) == IF PrunedPlaying[k] = None THEN NoWindows ELSE PrunedPlaying[k].windows
NewWindows(k, m) == IF m # None /\ Windows(k)[m] = None THEN 1 ELSE 0
FitsIn(k, urls, m) == /\ Cardinality(Missing(k, urls)) <= Cardinality(Free)
                    /\ PrunedCount + NewWindows(k, m) <= Cardinality(Handles)

\* When a credential was shown last, if it still is the attempt's.
LastUse(c, a) ==
    IF c # None /\ capability[c] # None /\ capability[c].attempt = a THEN capability[c].used ELSE 0

\* registerManifest when it fits; m is the rolling playlist, or None.
Enter(k, urls, m, c) ==
    LET fresh == CHOOSE f \in Injections(Missing(k, urls), Free) : TRUE
        at(u) == IF HandleOf(k, u) = {} THEN fresh[u] ELSE CHOOSE h \in HandleOf(k, u) : TRUE
        members == {at(u) : u \in urls}
        windows == IF m = None THEN Windows(k) ELSE [Windows(k) EXCEPT ![m] = members]
        left == IF m = None \/ Windows(k)[m] = None THEN {}
                ELSE LeftBehind(Windows(k)[m], members, windows)
        entry(h) == IF PrunedHandles[h] # None THEN PrunedHandles[h]
                    ELSE [play |-> k, url |-> CHOOSE u \in urls : at(u) = h,
                          pinned |-> FALSE, retire |-> None]
        leaves(h) == h \in left /\ PrunedHandles[h] # None /\ ~PrunedHandles[h].pinned
    IN /\ handle' = [h \in Handles |->
             IF h \in members THEN Registered(entry(h), m # None)
             ELSE IF leaves(h) THEN [PrunedHandles[h] EXCEPT !.retire = clock + CatchupGrace]
             ELSE PrunedHandles[h]]
       /\ playing' = [PrunedPlaying EXCEPT
                        ![k] = [expires |-> clock + IdleTTL, windows |-> windows]]
       /\ windowCount' = PrunedCount + NewWindows(k, m)
       /\ promise' = [h \in Handles |-> IF h \notin members THEN promise[h] ELSE
             [play |-> k, at |-> clock, cap |-> c,
              shown |-> LastUse(c, Tries[k]),
              vod |-> m = None \/ (PrunedHandles[h] # None /\ promise[h].vod)]]
       /\ used' = [used EXCEPT ![k] = clock]

\* All of the URLs or none.
Register(k, urls, m, c) ==
    \/ urls # {} /\ FitsIn(k, urls, m) /\ Enter(k, urls, m, c)
    \/ (urls = {} \/ ~FitsIn(k, urls, m)) /\ Prune /\ UNCHANGED history

(* The capabilities.                                                        *)

Unused(c) == capability[c] # None /\ clock - capability[c].used >= CapabilityTTL
KeptCapabilities ==
    [c \in Capabilities |-> IF Unused(c) THEN None ELSE capability[c]]
RevokeAttempts(attempts) ==
    capability' = [c \in Capabilities |->
        IF KeptCapabilities[c] # None /\ capability[c].attempt \in attempts
        THEN None ELSE KeptCapabilities[c]]

\* lookup: a capability speaks for one attempt.
Resolves(c, a) == capability[c] # None /\ ~Unused(c) /\ capability[c].attempt = a

\* withStrictPlayback: the capability resolves for the attempt and renews, the
\* binding can be leased, and a pending candidate becomes active.  A legacy request
\* is authenticated elsewhere and shows none.
Enters(k, c) ==
    IF ~Strict(k) THEN c = None /\ UNCHANGED <<binding, capability>>
    ELSE /\ c # None /\ Resolves(c, Tries[k])
         /\ capability' = [KeptCapabilities EXCEPT ![c].used = clock]
         /\ Live(Tries[k])
         /\ binding' = [binding EXCEPT ![Tries[k]] = "active"]

(* Requests for media and playlists.                                        *)

StreamInit ==
    /\ binding = [a \in Attempts |-> "unused"] /\ negotiating = {}
    /\ handle = [h \in Handles |-> None] /\ playing = [k \in Plays |-> None] /\ windowCount = 0
    /\ capability = [c \in Capabilities |-> None]
    /\ reader = [r \in Readers |-> None]
    /\ clock = 0
    /\ promise = [h \in Handles |-> None] /\ used = [k \in Plays |-> 0]

\* A media route of the item: the upstream is asked for a playlist, known by the
\* route and its query (streamManifestWindowKey).
AskPlaylist(r, k, m, c) ==
    /\ reader[r] = None
    /\ Enters(k, c)
    /\ reader' = [reader EXCEPT ![r] = [play |-> k, list |-> m, cap |-> c]]
    /\ UNCHANGED <<negotiating, storeVars, clock, history>>

\* serveStreamResource: the handle is looked up, the checks pass, and the session is
\* renewed.  What it names is a segment, or a playlist of its own, whose window goes
\* by the handle.
FetchResource(r, h, c) ==
    /\ reader[r] = None /\ Fetchable(h)
    /\ LET k == handle[h].play
       IN /\ Enters(k, c)
          /\ playing' = [playing EXCEPT ![k].expires = clock + IdleTTL]
          /\ used' = [used EXCEPT ![k] = clock]
          /\ \/ reader' = reader
             \/ \E m \in Playlists :
                  reader' = [reader EXCEPT ![r] = [play |-> k, list |-> m, cap |-> c]]
    /\ UNCHANGED <<negotiating, handle, windowCount, clock, promise>>

\* A lookup that comes too late deletes whatever else is overdue.
FetchTooLate(h, c) ==
    /\ Lapsed(h)
    /\ Enters(handle[h].play, c)
    /\ Prune
    /\ UNCHANGED <<negotiating, reader, clock, history>>

\* RewriteM3U8ForItemWithResources: the upstream answered.  A rolling playlist that
\* has not ended replaces its window; an ended one pins what it names.
AnswerPlaylist(r, urls, rolling) ==
    /\ reader[r] # None
    /\ Register(reader[r].play, urls, IF rolling THEN reader[r].list ELSE None, reader[r].cap)
    /\ reader' = [reader EXCEPT ![r] = None]
    /\ UNCHANGED <<bindingVars, capability, clock>>

\* The upstream failed, redirected too far, sent no playlist, or one that cannot be
\* rewritten: nothing is registered.
PlaylistFails(r) ==
    /\ reader[r] # None
    /\ reader' = [reader EXCEPT ![r] = None]
    /\ UNCHANGED <<bindingVars, storeVars, capability, clock, history>>

(* Negotiations.                                                            *)

\* A legacy PlaybackInfo registers the direct URL of its sources.
LegacyInfo(k, urls) ==
    /\ ~Strict(k)
    /\ Register(k, urls, None, None)
    /\ UNCHANGED <<bindingVars, capability, reader, clock>>

\* reclaimPlaybackAttempts, at the start of a strict PlaybackInfo.
StaleAttempts == {a \in Attempts : ~Live(a)}
ReclaimAttempts ==
    /\ RemoveAttempts(StaleAttempts)
    /\ RevokeAttempts({a \in Attempts : binding[a] \in {"unused", "forgotten"}})
    /\ UNCHANGED <<bindingVars, reader, clock, history>>

\* A candidate is reserved; the credential of its client is issued, one for each
\* attempt (so the limit of eight never bites).
ReserveAttempt(a) ==
    /\ binding[a] = "unused"
    /\ binding' = [binding EXCEPT ![a] = "pending"]
    /\ negotiating' = negotiating \cup {a}
    /\ UNCHANGED <<storeVars, capability, reader, clock, history>>

IssueCapability(a, c) ==
    /\ a \in negotiating
    /\ \A d \in Capabilities : capability[d] # None => capability[d].attempt # a
    /\ KeptCapabilities[c] = None
    /\ capability' = [KeptCapabilities EXCEPT ![c] = [attempt |-> a, used |-> clock]]
    /\ UNCHANGED <<bindingVars, storeVars, reader, clock, history>>

\* registerStrictPlaybackFields and the answer.  Without room for its URLs the
\* negotiation does not commit.
CommitNegotiation(k, urls, c) ==
    /\ Strict(k) /\ Tries[k] \in negotiating
    /\ capability[c] # None /\ capability[c].attempt = Tries[k]
    /\ IF urls = {} THEN UNCHANGED <<storeVars, history>> ELSE Register(k, urls, None, c)
    /\ negotiating' = IF urls = {} \/ FitsIn(k, urls, None) THEN negotiating \ {Tries[k]}
                      ELSE negotiating
    /\ UNCHANGED <<binding, capability, reader, clock>>

\* handleStrictPlaybackInfo's deferred cleanup, for each candidate of a negotiation
\* that did not commit.
RollBack(a) ==
    /\ a \in negotiating
    /\ negotiating' = negotiating \ {a}
    /\ binding' = [binding EXCEPT ![a] = IF Live(a) THEN "over" ELSE @]
    /\ RemoveAttempts({a})
    /\ RevokeAttempts({a})
    /\ UNCHANGED <<reader, clock, history>>

\* retireStrictPlaybackBinding, rejectStrictSupersededBinding: the attempt ends, with
\* requests for its playlists possibly in flight.  Its capabilities stay.
EndAttempt(a) ==
    /\ Live(a) /\ a \notin negotiating
    /\ binding' = [binding EXCEPT ![a] = "over"]
    /\ RemoveAttempts({a})
    /\ UNCHANGED <<negotiating, capability, reader, clock, history>>

\* The binding store forgets an attempt no request leases.
ForgetAttempt(a) ==
    /\ binding[a] \in {"pending", "active", "over"}
    /\ \A r \in Readers : reader[r] # None => Tries[reader[r].play] # a
    /\ binding' = [binding EXCEPT ![a] = "forgotten"]
    /\ UNCHANGED <<negotiating, storeVars, capability, reader, clock, history>>

\* What was given to a player ends with its session.
TickClock ==
    /\ clock < Horizon /\ clock' = clock + 1
    /\ promise' = [h \in Handles |->
           IF promise[h] # None /\ clock' >= used[promise[h].play] + IdleTTL
           THEN None ELSE promise[h]]
    /\ UNCHANGED <<bindingVars, storeVars, capability, reader, used>>

StreamNext ==
    \/ \E r \in Readers, k \in Plays, m \in Playlists, c \in Capabilities \cup {None} :
         AskPlaylist(r, k, m, c)
    \/ \E r \in Readers, h \in Handles, c \in Capabilities \cup {None} : FetchResource(r, h, c)
    \/ \E h \in Handles, c \in Capabilities \cup {None} : FetchTooLate(h, c)
    \/ \E r \in Readers, urls \in SUBSET URLs, rolling \in BOOLEAN : AnswerPlaylist(r, urls, rolling)
    \/ \E r \in Readers : PlaylistFails(r)
    \/ \E k \in Plays, urls \in SUBSET URLs : LegacyInfo(k, urls)
    \/ ReclaimAttempts
    \/ \E a \in Attempts, c \in Capabilities : IssueCapability(a, c)
    \/ \E k \in Plays, urls \in SUBSET URLs, c \in Capabilities : CommitNegotiation(k, urls, c)
    \/ \E a \in Attempts : ReserveAttempt(a) \/ RollBack(a) \/ EndAttempt(a) \/ ForgetAttempt(a)
    \/ TickClock

StreamSpec == StreamInit /\ [][StreamNext]_streamVars
-------------------------------------------------------------------------------
TablesTypeOK ==
    /\ binding \in [Attempts -> {"unused", "pending", "active", "over", "forgotten"}]
    /\ negotiating \subseteq Attempts
    /\ handle \in [Handles -> Resource \cup {None}]
    /\ playing \in [Plays -> ResourceSession \cup {None}]
    /\ capability \in [Capabilities -> Credential \cup {None}]
    /\ reader \in [Readers -> Reading \cup {None}]
    /\ clock \in 0..Horizon
StreamTypeOK == TablesTypeOK /\ windowCount \in 0..Cardinality(Handles)

\* What a player was given stays usable for as long as it was given: a URL of a
\* whole playlist or of PlaybackInfo while the player keeps asking; one of a rolling
\* playlist while any playlist of the session still names it, and for the grace
\* after the last answer that did; and the credential that came with it, for its own
\* idle time after it was shown last.  Other playlists of the session, negotiations
\* that reclaim what is over, other plays that fill the tables and late lookups take
\* none of it away before the attempt is over.
GivenStaysUsable ==
    \A h \in Handles : promise[h] # None =>
        LET p == promise[h]
            alive == ~Strict(p.play) \/ Live(Tries[p.play])
            named == \E m \in Playlists : playing[p.play] # None /\ m \in WindowsOf(p.play)
                                          /\ h \in playing[p.play].windows[m]
        IN alive =>
             /\ p.vod \/ named \/ clock < p.at + CatchupGrace
                  => Fetchable(h) /\ handle[h].play = p.play
             /\ p.cap # None /\ clock < p.shown + CapabilityTTL
                  => capability[p.cap] # None /\ capability[p.cap].attempt = Tries[p.play]
===============================================================================
