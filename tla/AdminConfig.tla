------------------------------ MODULE AdminConfig ------------------------------
(***************************************************************************)
(* The configuration and the library of client identities (config.go,      *)
(* ua_library.go), the administration handlers that change them            *)
(* (handlers_admin.go, handlers_admin_ua.go, admin_ua_assignments.go) and  *)
(* what follows from them: the clients of the pool, the cached library     *)
(* lists of the panel and the libraries a user hides.                      *)
(*                                                                         *)
(* Handlers that change the configuration or the library run one at a time *)
(* (withAdminMutation): each reads and checks, then saves, then rebuilds   *)
(* the pool and only after that forgets what depends on the old servers,   *)
(* each under a lock of its own.  Between these steps logins capture       *)
(* identities, and panels list libraries and read what is saved.  A file   *)
(* is replaced as a whole or not at all, before memory is.                 *)
(***************************************************************************)
EXTENDS Naturals, Sequences, SequencesExt, FiniteSets

CONSTANTS
    ServerIds,      \* ids an upstream server can be given; none is given twice
    Residents,    \* ids of resident identities
    Prints,       \* the identities that real clients present
    Urls,         \* addresses of upstream servers
    Graces,       \* grace periods the panel accepts, 0 among them
    Bodies,       \* the edits the panel sends, a missing field being None
    Viewers, Libraries,   \* who hides which library
    RecentLimit,  \* recentUALimit
    DefaultGrace, \* the grace period of a configuration that names none
    MaxRevision,  \* bound: revisions of a resident
    Nothing

VARIABLES
    config,   \* the configuration in memory
    disk,     \* config.yaml
    library,  \* the library in memory
    libraryFile,     \* ua-library.json
    readable, \* the library was read at the start
    pool,     \* the clients, in the order of the configuration
    jobs,     \* handlers between their checks and the last of their effects
    form,     \* an edit form or assignment dialog some panel has open
    listing,  \* library lists requested from upstreams
    cache,    \* address a cached library list came from, by server
    hidden, rows,   \* hidden libraries: what requests see, and the table
    minted    \* ids given out so far

configVars == <<config, disk, library, libraryFile, readable, pool, jobs, form, listing, cache, hidden, rows, minted>>

Modes == {"passthrough", "custom", "resident"}
Plays == {"proxy", "redirect"}
Credentials == {"apiKey", "account"}

\* Nothing stands for a field that is missing.
ASSUME MissingFields ==
    /\ Nothing \notin Urls /\ Nothing \notin Prints \cup Residents
    /\ Nothing \notin Plays \cup Modes \cup Credentials
    /\ Bodies \subseteq [url : Urls \cup {Nothing}, creds : SUBSET Credentials,
                       kind : Credentials \cup {Nothing}, play : Plays \cup {Nothing},
                       mode : Modes \cup {Nothing}, agent : BOOLEAN]
ASSUME ConfigNumbers == /\ Graces \subseteq Nat /\ DefaultGrace \in Graces
                        /\ MaxRevision \in Nat \ {0} /\ RecentLimit \in Nat \ {0}

\* agent: an own User-Agent is stored.  off: left out of aggregation.
Server == [id : ServerIds, url : Urls, creds : SUBSET Credentials, play : Plays,
           mode : Modes, profile : Residents \cup {Nothing}, agent : BOOLEAN, off : BOOLEAN]
Config == [servers : Seq(Server), play : Plays, grace : Graces]
Resident == [print : Prints, revision : 1..MaxRevision]
Client == [id : ServerIds, url : Urls, mode : Modes, profile : Residents \cup {Nothing},
           print : Prints \cup {Nothing}]

ConfigTypeOK ==
    /\ config \in [servers : Seq(Server), play : Plays, grace : Graces]
    /\ library.recent \in Seq(Prints) /\ library.booted \in BOOLEAN
    /\ DOMAIN library.residents \subseteq Residents
    /\ \A r \in DOMAIN library.residents : library.residents[r] \in Resident
    /\ pool \in Seq(Client)
    /\ readable \in BOOLEAN
    /\ cache \in [ServerIds -> Urls \cup {Nothing}]
    /\ hidden \in [Viewers -> [ServerIds -> SUBSET Libraries]]
    /\ minted \subseteq ServerIds \cup Residents

Indexes == DOMAIN config.servers
PlaceOf(id) == CHOOSE i \in Indexes : config.servers[i].id = id
Ids == {config.servers[i].id : i \in Indexes}
Of(id) == config.servers[PlaceOf(id)]

\* ResidentByID: nothing is found while the library could not be read.
Known(r) == readable /\ r \in DOMAIN library.residents
PrintOf(r) == IF Known(r) THEN library.residents[r].print ELSE Nothing

(* The file.  What is equal to a default, or belongs to another mode, is   *)
(* not written; what is missing is filled in on reading.                   *)

Rendered(cfg) ==
    [cfg EXCEPT !.servers = [i \in DOMAIN cfg.servers |->
        LET s == cfg.servers[i] IN
        [s EXCEPT !.creds = IF "apiKey" \in s.creds THEN {"apiKey"} ELSE s.creds,
                  !.play = IF s.play = cfg.play THEN Nothing ELSE s.play,
                  !.mode = IF s.mode = "passthrough" THEN Nothing ELSE s.mode,
                  !.agent = s.agent /\ s.mode = "custom"]]]

\* normalizeUpstream
Normal(s, play) ==
    [s EXCEPT !.play = IF s.play = Nothing THEN play ELSE s.play,
              !.mode = IF s.mode = Nothing THEN "passthrough" ELSE s.mode,
              !.profile = IF s.mode = "resident" THEN s.profile ELSE Nothing]

Parsed(f) ==
    [f EXCEPT !.grace = IF f.grace = 0 THEN DefaultGrace ELSE f.grace,
              !.servers = [i \in DOMAIN f.servers |-> Normal(f.servers[i], f.play)]]

(* The pool.                                                               *)

\* newUpstreamClient, with the identity read from the library once.
Built(s) == [id |-> s.id, url |-> s.url, mode |-> s.mode, profile |-> s.profile,
             print |-> IF s.mode = "resident" THEN PrintOf(s.profile) ELSE Nothing]

Reloaded(cfg) == [i \in DOMAIN cfg.servers |-> Built(cfg.servers[i])]

\* Faulty: the servers that enter the pool are forgotten.
SwappedOnly(cfg, ids) ==
    [i \in DOMAIN pool |->
        IF pool[i].id \in ids THEN CHOOSE c \in Range(Reloaded(cfg)) : c.id = pool[i].id ELSE pool[i]]

\* swapUAClients: only the servers named get a new client, at their place or at the end
\* (where more than one never goes at a time).
Swapped(cfg, ids) ==
    LET fresh == {c \in Range(Reloaded(cfg)) : c.id \in ids}
        there == {pool[i].id : i \in DOMAIN pool}
    IN  [i \in DOMAIN pool |->
            IF pool[i].id \in ids THEN CHOOSE c \in fresh : c.id = pool[i].id ELSE pool[i]]
        \o SetToSeq({c \in fresh : c.id \notin there})

-------------------------------------------------------------------------------
NoResidents == [r \in {} |-> Nothing]
EmptyLibrary == [recent |-> <<>>, residents |-> NoResidents, booted |-> FALSE]

ConfigInit ==
    /\ config = [servers |-> <<>>, play |-> "proxy", grace |-> DefaultGrace]
    /\ disk = Rendered(config)
    /\ library = EmptyLibrary /\ libraryFile = EmptyLibrary /\ readable = TRUE
    /\ pool = <<>> /\ jobs = {} /\ form = Nothing
    /\ listing = {} /\ cache = [s \in ServerIds |-> Nothing]
    /\ hidden = [u \in Viewers |-> [s \in ServerIds |-> {}]] /\ rows = {}
    /\ minted = {}

\* Faulty: some handler is registered without the mutex.
LockForgotten == Cardinality(jobs) < 2
\* withAdminMutation
NoMutation == jobs = {}

Begin(job) == jobs' = jobs \cup {job}
Advance(job, stage) == jobs' = (jobs \ {job}) \cup {[job EXCEPT !.stage = stage]}
End(job) == jobs' = jobs \ {job}

(* Reading and writing the files.                                          *)

\* What the handlers agree on: a view of all bindings and of one resident.
View(r) == [seen |-> [id \in Ids |-> <<Of(id).mode, Of(id).profile>>], target |-> r,
            revision |-> IF Known(r) THEN library.residents[r].revision ELSE 0, print |-> PrintOf(r)]

\* The premises an edit echoes: expectedIdentityBinding, expectedBindings.
Saw(v, ids) == \A id \in ids : id \in DOMAIN v.seen /\ v.seen[id] = <<Of(id).mode, Of(id).profile>>
\* uaExpectedProfileRevision, expectedProfileRevision
SawResident(v) == Known(v.target) /\ v.revision = library.residents[v.target].revision

\* A panel loads its lists and keeps an edit form or a dialog open.
Open(r) == /\ form' = View(r)
           /\ UNCHANGED <<config, disk, library, libraryFile, readable, pool, jobs, listing, cache, hidden, rows, minted>>

Views == {View(r) : r \in DOMAIN library.residents \cup {Nothing}} \cup ({form} \ {Nothing})

\* A handler that passed its checks: the configuration to save, what follows, for which
\* servers, and whose cached library list goes.
Job(v, next, how, ids, edited) ==
    [how |-> how, stage |-> "checked", next |-> next, base |-> config, ids |-> ids, edited |-> edited, view |-> v]

BeginConfig(v, next, how, ids, edited) ==
    /\ NoMutation
    /\ Begin(Job(v, next, how, ids, edited))
    /\ UNCHANGED <<config, disk, library, libraryFile, readable, pool, form, listing, cache, hidden, rows>>

(* Editing upstream servers.                                               *)

Or(field, old) == IF field = Nothing THEN old ELSE field

\* applyAdminUpstreamInput; a declared kind of credential drops the other one.
Applied(s, b, target) ==
    [s EXCEPT !.url = Or(b.url, @), !.play = Or(b.play, @), !.mode = Or(b.mode, @),
              !.agent = @ \/ b.agent,
              !.profile = IF b.mode = "resident" THEN target ELSE @,
              !.creds = IF b.kind = Nothing THEN @ \cup b.creds ELSE (@ \cup b.creds) \cap {b.kind}]

ValidDraft(s) == /\ Cardinality(s.creds) = 1
                 /\ s.mode = "resident" => s.profile # Nothing
                 /\ s.mode = "custom" => s.agent

\* The new server goes to the end.
CreateServer(id, v, b) ==
    LET blank == [id |-> id, url |-> Nothing, creds |-> {}, play |-> Nothing, mode |-> Nothing,
                  profile |-> Nothing, agent |-> FALSE, off |-> FALSE]
        new == Normal(Applied(blank, b, v.target), config.play)
        next == [config EXCEPT !.servers = Append(@, new)]
    IN  /\ id \notin minted /\ new.url # Nothing /\ ValidDraft(new)
        /\ new.mode = "resident" => SawResident(v)
        /\ BeginConfig(v, next, IF new.mode = "resident" THEN "swap" ELSE "reload", {id}, {})
        /\ minted' = minted \cup {id}

UpdateServer(id, v, b) ==
    LET old == Of(id)
        new == Normal(Applied(old, b, v.target), config.play)
        involved == "resident" \in {old.mode, new.mode}
    IN  /\ id \in Ids /\ ValidDraft(new)
        /\ involved => Saw(v, {id})
        /\ new.mode = "resident" => SawResident(v) /\ v.target = new.profile
        /\ BeginConfig(v, [config EXCEPT !.servers[PlaceOf(id)] = new],
                       IF involved THEN "swap" ELSE "reload", {id}, {id})
        /\ UNCHANGED minted

\* A batch of one resident's assignments: servers bound to it and servers released from it.
Assign(v, assigned, released) ==
    /\ assigned \cup released # {} /\ assigned \cap released = {}
    /\ assigned \cup released \subseteq Ids
    /\ SawResident(v) /\ Saw(v, assigned \cup released)
    /\ \A id \in released : Of(id).mode = "resident" /\ Of(id).profile = v.target
    /\ BeginConfig(v, [config EXCEPT !.servers = [i \in Indexes |->
            IF @[i].id \in assigned THEN [@[i] EXCEPT !.mode = "resident", !.profile = v.target]
            ELSE IF @[i].id \in released THEN [@[i] EXCEPT !.mode = "passthrough", !.profile = Nothing]
            ELSE @[i]]], "swap", assigned \cup released, {})
    /\ UNCHANGED minted

\* Server i moves to position k.
Reorder(i, k) ==
    LET s == config.servers
        moved == [n \in Indexes |->
                    IF n = k THEN s[i]
                    ELSE IF i <= n /\ n < k THEN s[n + 1]
                    ELSE IF k < n /\ n <= i THEN s[n - 1] ELSE s[n]]
    IN  /\ BeginConfig(Nothing, [config EXCEPT !.servers = moved], "reload", {}, {})
        /\ UNCHANGED minted

\* Only the file and memory change: no client is rebuilt.
ToggleAggregation(id) ==
    /\ BeginConfig(Nothing, [config EXCEPT !.servers[PlaceOf(id)].off = ~@], "none", {}, {})
    /\ UNCHANGED minted

\* Settings, and the forward proxies: the pool is rebuilt.
SaveSettings(play, grace) ==
    /\ BeginConfig(Nothing, [config EXCEPT !.play = play, !.grace = grace], "reload", {}, {})
    /\ UNCHANGED minted

DeleteServer(id) ==
    /\ id \in Ids
    /\ BeginConfig(Nothing, [config EXCEPT !.servers = RemoveAt(@, PlaceOf(id))], "delete", {id}, {id})
    /\ UNCHANGED minted

(* What a handler that changes the configuration does once its checks are  *)
(* passed: it saves, rebuilds the pool, and after the edit or the removal  *)
(* of a server forgets what was kept of it.                                *)

Committing(j) == j \in jobs /\ j.stage = "checked" /\ j.how \in {"reload", "swap", "none", "delete"}

\* The file is replaced first, then memory, under the lock of the configuration.
SaveConfig(j) ==
    /\ Committing(j)
    /\ config' = j.next
    /\ disk' = Rendered(j.next)
    /\ IF j.how = "none" THEN End(j) ELSE Advance(j, "saved")
    /\ UNCHANGED <<library, libraryFile, readable, pool, form, listing, cache, hidden, rows, minted>>

\* Faulty: memory is changed before the file is written.
PublishThenSave(j) ==
    /\ Committing(j)
    /\ config' = j.next
    /\ End(j)
    /\ UNCHANGED <<disk, library, libraryFile, readable, pool, form, listing, cache, hidden, rows, minted>>

\* The file cannot be written: nothing changes.
ConfigSaveFails(j) ==
    /\ Committing(j)
    /\ End(j)
    /\ UNCHANGED <<config, disk, library, libraryFile, readable, pool, form, listing, cache, hidden, rows, minted>>

\* The pool follows, under its own lock.
RebuildPool(j) ==
    /\ j \in jobs /\ j.stage = "saved"
    /\ pool' = IF j.how = "swap" THEN Swapped(j.next, j.ids) ELSE Reloaded(j.next)
    /\ IF j.edited = {} THEN End(j) ELSE Advance(j, "built")
    /\ UNCHANGED <<config, disk, library, libraryFile, readable, form, listing, cache, hidden, rows, minted>>

\* The rows and hidden libraries of a deleted server go; a failure is only logged.
ForgetHidden(j) ==
    /\ j \in jobs /\ j.stage = "built" /\ j.how = "delete"
    /\ \/ UNCHANGED <<hidden, rows>>
       \/ /\ rows' = {row \in rows : row[2] \notin j.ids}
          /\ hidden' = [u \in Viewers |-> [s \in ServerIds |-> IF s \in j.ids THEN {} ELSE hidden[u][s]]]
    /\ Advance(j, "purged")
    /\ UNCHANGED <<config, disk, library, libraryFile, readable, pool, form, listing, cache, minted>>

\* Last, the cached library list of an edited or deleted server.
ForgetList(j) ==
    /\ j \in jobs /\ j.stage = (IF j.how = "delete" THEN "purged" ELSE "built")
    /\ cache' = [s \in ServerIds |-> IF s \in j.edited THEN Nothing ELSE cache[s]]
    /\ End(j)
    /\ UNCHANGED <<config, disk, library, libraryFile, readable, pool, form, listing, hidden, rows, minted>>

(* The library.  A change is written, then published; a failed write       *)
(* changes nothing.                                                        *)

StoreLibrary(next) == library' = next /\ libraryFile' = next

OutsideLibrary == <<config, disk, readable, pool, form, listing, cache, hidden, rows>>

Residing(p) == \E r \in DOMAIN library.residents : library.residents[r].print = p
Resides(r, p) == [q \in DOMAIN library.residents \cup {r} |->
                     IF q = r THEN [print |-> p, revision |-> 1] ELSE library.residents[q]]

\* The latest capture comes first: its older entry goes, or else the oldest one too many.
RecentAfter(p) ==
    LET recent == library.recent
    IN  IF p \in Range(recent)
        THEN <<p>> \o RemoveAt(recent, CHOOSE i \in DOMAIN recent : recent[i] = p)
        ELSE SubSeq(<<p>> \o recent, 1, IF Len(recent) < RecentLimit THEN Len(recent) + 1 ELSE RecentLimit)

\* The login of a real client by the administrator; the first one becomes resident.
Capture(p, r) ==
    /\ readable
    /\ IF library.booted
       THEN /\ StoreLibrary([library EXCEPT !.recent = RecentAfter(p)])
            /\ UNCHANGED minted
       ELSE /\ r \notin minted /\ minted' = minted \cup {r}
            /\ StoreLibrary([recent |-> RecentAfter(p), residents |-> Resides(r, p), booted |-> TRUE])
    /\ UNCHANGED <<OutsideLibrary, jobs>>

SaveRecent(p, r) ==
    /\ NoMutation /\ readable /\ p \in Range(library.recent)
    /\ ~Residing(p)
    /\ r \notin minted /\ minted' = minted \cup {r}
    /\ StoreLibrary([library EXCEPT !.residents = Resides(r, p)])
    /\ UNCHANGED <<OutsideLibrary, jobs>>

Revised(r, p) == [print |-> p, revision |-> library.residents[r].revision + 1]

Rename(v) ==
    /\ NoMutation /\ SawResident(v) /\ v.revision < MaxRevision
    /\ StoreLibrary([library EXCEPT !.residents[v.target] = Revised(v.target, @.print)])
    /\ UNCHANGED <<OutsideLibrary, jobs, minted>>

BoundTo(cfg, r) == {s \in ServerIds : \E i \in DOMAIN cfg.servers :
                      cfg.servers[i].id = s /\ cfg.servers[i].mode = "resident" /\ cfg.servers[i].profile = r}

\* Faulty: a new identity leaves the revision as it was.
ReplaceUnrevised(v, p) ==
    LET r == v.target IN
    /\ NoMutation /\ SawResident(v) /\ p \in Range(library.recent)
    /\ p # library.residents[r].print => ~Residing(p)
    /\ StoreLibrary([library EXCEPT !.residents[r].print = p])
    /\ IF p # library.residents[r].print /\ BoundTo(config, r) # {}
       THEN Begin(Job(v, config, "identity", BoundTo(config, r), {})) ELSE UNCHANGED jobs
    /\ UNCHANGED <<OutsideLibrary, minted>>

\* A resident gets the identity of a capture; the clients of its servers follow.
Replace(v, p) ==
    LET r == v.target IN
    /\ NoMutation /\ SawResident(v) /\ v.revision < MaxRevision /\ p \in Range(library.recent)
    /\ p # library.residents[r].print => ~Residing(p)
    /\ StoreLibrary([library EXCEPT !.residents[r] = Revised(r, p)])
    /\ IF p # library.residents[r].print /\ BoundTo(config, r) # {}
       THEN Begin(Job(v, config, "identity", BoundTo(config, r), {})) ELSE UNCHANGED jobs
    /\ UNCHANGED <<OutsideLibrary, minted>>

\* applyResidentIdentityToServers
ApplyIdentity(j) ==
    /\ j \in jobs /\ j.how = "identity"
    /\ pool' = Swapped(j.next, j.ids)
    /\ End(j)
    /\ UNCHANGED <<config, disk, library, libraryFile, readable, form, listing, cache, hidden, rows, minted>>

\* A resident some server is bound to is not deleted.
BeginDeleteResident(v) ==
    /\ NoMutation /\ readable /\ v.target \in Residents
    /\ BoundTo(config, v.target) = {}
    /\ Begin(Job(v, config, "forget", {}, {}))
    /\ UNCHANGED <<OutsideLibrary, library, libraryFile, minted>>

DeleteResident(j) ==
    /\ j \in jobs /\ j.how = "forget"
    /\ IF SawResident(j.view)
       THEN StoreLibrary([library EXCEPT !.residents =
                [q \in DOMAIN library.residents \ {j.view.target} |-> library.residents[q]]])
       ELSE UNCHANGED <<library, libraryFile>>
    /\ End(j)
    /\ UNCHANGED <<OutsideLibrary, minted>>

(* Library lists in the panel.                                             *)

\* The handler takes the client of the server and asks its upstream.
RequestList(i) ==
    /\ listing' = listing \cup {[id |-> pool[i].id, url |-> pool[i].url]}
    /\ UNCHANGED <<config, disk, library, libraryFile, readable, pool, jobs, form, cache, hidden, rows, minted>>

ReceiveList(l) ==
    /\ l \in listing /\ listing' = listing \ {l}
    /\ cache' \in {cache, [cache EXCEPT ![l.id] = l.url]}
    /\ UNCHANGED <<config, disk, library, libraryFile, readable, pool, jobs, form, hidden, rows, minted>>

(* Hidden libraries: the table first, then what requests see.              *)

OutsideHidden == <<config, disk, library, libraryFile, readable, pool, jobs, form, listing, cache, minted>>
RowsOf(u, s, set) == {<<u, s, lib>> : lib \in set}

SetServerHidden(u, s, set) ==
    /\ rows' = {row \in rows : row[1] # u \/ row[2] # s} \cup RowsOf(u, s, set)
    /\ hidden' = [hidden EXCEPT ![u][s] = set]
    /\ UNCHANGED OutsideHidden

RemoveUser(u) ==
    /\ rows' = {row \in rows : row[1] # u}
    /\ hidden' = [hidden EXCEPT ![u] = [s \in ServerIds |-> {}]]
    /\ UNCHANGED OutsideHidden

\* An explicit grant list keeps only what is hidden on its servers.
PruneUserServers(u, kept) ==
    /\ rows' = {row \in rows : row[1] = u => row[2] \in kept}
    /\ hidden' = [hidden EXCEPT ![u] = [s \in ServerIds |-> IF s \in kept THEN @[s] ELSE {}]]
    /\ UNCHANGED OutsideHidden

LoadedHidden == [u \in Viewers |-> [s \in ServerIds |-> {lib \in Libraries : <<u, s, lib>> \in rows}]]

-------------------------------------------------------------------------------
\* A stop at any point, and a start from the files.  An unreadable library is left as it is.
ConfigRestart ==
    /\ config' = Parsed(disk)
    /\ library' = libraryFile /\ readable' \in BOOLEAN
    /\ pool' = Reloaded(config)'
    /\ hidden' = LoadedHidden
    /\ jobs' = {} /\ listing' = {} /\ cache' = [s \in ServerIds |-> Nothing]
    /\ UNCHANGED <<disk, libraryFile, form, rows, minted>>

EditServers == \E v \in Views, b \in Bodies :
    \/ \E id \in ServerIds : CreateServer(id, v, b)
    \/ \E id \in Ids : UpdateServer(id, v, b)

Library == \/ \E p \in Prints, r \in Residents : Capture(p, r) \/ SaveRecent(p, r)
           \/ \E v \in Views : \/ Rename(v)
                              \/ \E p \in Prints : Replace(v, p)
                              \/ BeginDeleteResident(v)
           \/ \E j \in jobs : ApplyIdentity(j) \/ DeleteResident(j)

ConfigNext ==
    \/ \E r \in DOMAIN library.residents \cup {Nothing} : Open(r)
    \/ EditServers
    \/ \E v \in Views, a, b \in SUBSET Ids : Assign(v, a, b)
    \/ \E i, k \in Indexes : Reorder(i, k)
    \/ \E id \in Ids : ToggleAggregation(id) \/ DeleteServer(id)
    \/ \E play \in Plays, grace \in Graces : SaveSettings(play, grace)
    \/ \E j \in jobs : \/ SaveConfig(j) \/ ConfigSaveFails(j)
                      \/ RebuildPool(j) \/ ForgetHidden(j) \/ ForgetList(j)
    \/ Library
    \/ \E i \in DOMAIN pool : RequestList(i)
    \/ \E l \in listing : ReceiveList(l)
    \/ \E u \in Viewers : \/ \E s \in ServerIds, set \in SUBSET Libraries : SetServerHidden(u, s, set)
                        \/ RemoveUser(u)
                        \/ \E kept \in SUBSET ServerIds : PruneUserServers(u, kept)
    \/ ConfigRestart

ConfigSpec == ConfigInit /\ [][ConfigNext]_configVars

-------------------------------------------------------------------------------
(* Every server in resident mode names a resident of the library, in       *)
(* memory and in the files (the deletion of a resident checks the bindings *)
(* that other handlers change), and no identity is resident twice.         *)
BindingsResolve ==
    /\ \A i \in Indexes : config.servers[i].mode = "resident" =>
          config.servers[i].profile \in DOMAIN library.residents
    /\ \A i \in DOMAIN disk.servers : disk.servers[i].mode = "resident" =>
          disk.servers[i].profile \in DOMAIN libraryFile.residents
    /\ \A q, r \in DOMAIN library.residents :
          library.residents[q].print = library.residents[r].print => q = r

\* One client for each server of cfg, in its order, as it would be built now; only the
\* servers of an identity that is being replaced may lag behind with theirs.
Follows(cfg) ==
    /\ Len(pool) = Len(cfg.servers)
    /\ \A i \in DOMAIN cfg.servers :
          \/ pool[i] = Built(cfg.servers[i])
          \/ \E j \in jobs : /\ j.how = "identity" /\ pool[i].id \in j.ids
                             /\ [pool[i] EXCEPT !.print = Nothing] = [Built(cfg.servers[i]) EXCEPT !.print = Nothing]

(* The pool holds one client for each server of the configuration, in its  *)
(* order, with its address, its mode and the identity its resident has     *)
(* now, although single clients are swapped, added and rebuilt.  While a   *)
(* handler has saved and not yet rebuilt, requests meet the pool of the    *)
(* configuration it replaced, whole: never a mixture of the two, and never *)
(* that of a configuration further back.                                   *)
PoolFollowsConfig ==
    /\ (\A j \in jobs : j.stage # "saved") => Follows(config)
    /\ \A j \in jobs : j.stage = "saved" => Follows(j.base)

(* An edit that binds or releases servers is saved over the bindings its   *)
(* panel saw, and binds them to the very identity the panel showed; and    *)
(* whatever is saved was derived from the configuration it replaces.       *)
EditsSeeWhatTheyChange ==
    \A j \in jobs : j.stage = "checked" =>
        /\ j.base = config
        /\ j.how = "swap" =>
             /\ \A id \in j.ids \cap Ids : j.view.seen[id] = <<Of(id).mode, Of(id).profile>>
             /\ \A i \in DOMAIN j.next.servers :
                  LET s == j.next.servers[i] IN
                  s.id \in j.ids /\ s.mode = "resident" => PrintOf(s.profile) = j.view.print

\* What a configuration makes the running server do, the grace period apart.
Effective(cfg) ==
    [cfg EXCEPT !.grace = Nothing,
                !.servers = [i \in DOMAIN cfg.servers |->
                    [cfg.servers[i] EXCEPT !.agent = @ /\ cfg.servers[i].mode = "custom"]]]

(* A restart at any moment brings back the configuration, the library and  *)
(* the hidden libraries the running server works with: the files and the   *)
(* table leave out and fill in only what makes no difference.              *)
RestartChangesNothing ==
    /\ Effective(Parsed(disk)) = Effective(config)
    /\ libraryFile = library
    /\ LoadedHidden = hidden

(* A grace period of 0 disables the timer, and the panel accepts it; a     *)
(* restart at any moment should keep the grace period that is in effect.   *)
GraceSurvivesRestart == Parsed(disk).grace = config.grace
=============================================================================
