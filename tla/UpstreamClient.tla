--------------------------- MODULE UpstreamClient ---------------------------
(* One upstream server of the pool (upstream.go, upstream_auth_state.go,      *)
(* upstream_resident_identity.go, upstream_ua_updates.go, healthcheck.go).    *)
(* Every change of the configuration builds a new client object that may      *)
(* inherit the session of the one it replaces; logins run concurrently on the *)
(* object they were started for, replaced or not.  A credential is named by   *)
(* the account it authenticates, an identity by the client presented.         *)
EXTENDS ClientIdentity

CONSTANTS Profiles, Configs,
          MaxObjects, MaxRejections, MaxVersion, MaxRestarts  \* bounds

VARIABLES config,   \* the saved configuration of the server, None when removed
          library,  \* [Profiles -> identity version], 0 when there is none
          objs,     \* every client object built so far
          pool,     \* the one in the pool, 0 when the server is not configured
          admin,    \* the configuration change being applied (adminMutationMu)
          calls,    \* the goroutines that log in
          restarts, rejections  \* bound the restarts and the 401 answers

poolVars == <<config, library, objs, pool, admin, calls, restarts, rejections>>
upVars == <<poolVars, idVars>>

Callers == {"loginall", "job", "health", "recovery", "reconnect", "capture"}
Idle == [at |-> "idle", obj |-> 0, r |-> [from |-> "none", who |-> None]]
NoChange == [at |-> "idle", new |-> None, then |-> "none"]

StableUpstreamKey(cfg) == <<cfg.site, cfg.mode>>

\* A configuration is one of a server, and its key has a place in the identities.
ASSUME ConfiguredServers ==
    /\ None \notin Configs
    /\ \A cfg \in Configs : StableUpstreamKey(cfg) \in Keys /\ cfg.apikey \in BOOLEAN
    /\ \A cfg \in Configs : cfg.mode = "resident" => cfg.profile \in Profiles

-----------------------------------------------------------------------------
\* Client objects.

ResidentSnapshot(cfg, lib) ==
    IF cfg.mode = "resident" /\ lib[cfg.profile] > 0
    THEN [profile |-> cfg.profile, version |-> lib[cfg.profile]] ELSE None

\* issued (the identity the session was granted to) and recovered (recoveries
\* since the debounce window opened) are not in the code: properties read them.
NewUpstreamClient(cfg, lib) ==
    [cfg |-> cfg, ident |-> ResidentSnapshot(cfg, lib),
     token |-> None, user |-> None, online |-> FALSE, compat |-> None,
     recent |-> FALSE, spawned |-> 0, issued |-> None, recovered |-> 0]

IsOnline(o) == o.online /\ o.token # None /\ o.user # None

CanAttempt(o) ==
    CASE o.cfg.mode = "passthrough" -> HasCapturedHeaders(StableUpstreamKey(o.cfg))
      [] o.cfg.mode = "resident"    -> o.ident # None
      [] OTHER                      -> TRUE

\* Faulty: only the profile is compared.
ChangedProfileOnly(old, new) ==
    IF new.cfg.mode # "resident" THEN old.cfg.mode = "resident"
    ELSE old.ident = None \/ new.ident = None \/ old.ident.profile # new.ident.profile

ResidentIdentityChanged(old, new) ==
    IF new.cfg.mode # "resident" THEN old.cfg.mode = "resident"
    ELSE old.ident = None \/ new.ident = None \/ old.ident # new.ident

Inherit(old, new, compat) ==
    [new EXCEPT !.token = old.token, !.user = old.user, !.online = old.online,
                !.issued = old.issued, !.compat = compat]

\* A reload matches the old client by its key and takes its attestation along;
\* an identity change matches by server and leaves the attestation behind.
Reloaded(cfg, lib) ==
    LET new == NewUpstreamClient(cfg, lib)  old == objs[pool]
    IN  IF /\ pool # 0
           /\ StableUpstreamKey(old.cfg) = StableUpstreamKey(cfg)
           /\ ~ResidentIdentityChanged(old, new)
        THEN Inherit(old, new, old.compat) ELSE new

Reidentified(cfg, lib) ==
    LET new == NewUpstreamClient(cfg, lib)  old == objs[pool]
    IN  IF pool # 0 /\ ~ResidentIdentityChanged(old, new)
        THEN Inherit(old, new, None) ELSE new

SetOffline(o) == [o EXCEPT !.online = FALSE, !.compat = None]

SetOnlineWithIdentity(o, who) ==
    [o EXCEPT !.token = o.cfg.account, !.user = o.cfg.account, !.online = TRUE,
              !.compat = IF who = None THEN None
                         ELSE [account |-> o.cfg.account, who |-> who],
              !.issued = who]

ResolveIdentity(o, override) ==
    CASE o.cfg.mode = "resident"    -> [from |-> "resident", who |-> o.ident]
      [] o.cfg.mode = "passthrough" ->
            ResolvePassthrough(override, None, None, StableUpstreamKey(o.cfg))
      [] OTHER                      -> [from |-> "custom", who |-> "custom"]

-----------------------------------------------------------------------------
\* Configuration changes: build the new object, then publish it.  Both steps
\* run under adminMutationMu, concurrently with the logins.

Built(new, cfg, then) ==
    /\ config' = cfg
    /\ admin' = [at |-> "built", new |-> new, then |-> then]
    /\ UNCHANGED <<objs, pool, calls, restarts, rejections, idVars>>

Resident(cfg) == cfg # None /\ cfg.mode = "resident"

\* handleAdminUpstreamUpdate, handleAdminUpstreamAdd: an edit in which resident
\* mode takes part swaps one client and logs it in by a job of its own.
EditServer(cfg) ==
    /\ admin.at = "idle" /\ Len(objs) < MaxObjects /\ cfg # config
    /\ cfg.mode = "resident" => library[cfg.profile] > 0
    /\ UNCHANGED library
    /\ IF Resident(config) \/ Resident(cfg)
       THEN Built(Reidentified(cfg, library), cfg, "job")
       ELSE Built(Reloaded(cfg, library), cfg, "loginall")

\* commitConfigSettingsOnly: every save rebuilds the pool, sessions carry over.
SaveSettings ==
    /\ admin.at = "idle" /\ Len(objs) < MaxObjects /\ config # None
    /\ UNCHANGED library
    /\ Built(Reloaded(config, library), config, "none")

RemoveServer ==
    /\ admin.at = "idle" /\ config # None
    /\ UNCHANGED library
    /\ Built(None, None, "none")

\* handleAdminUAResidentReplace
ReplaceProfile(p) ==
    /\ admin.at = "idle" /\ library[p] \in 1..MaxVersion - 1
    /\ library' = [library EXCEPT ![p] = @ + 1]
    /\ IF Resident(config) /\ config.profile = p
       THEN Len(objs) < MaxObjects /\ Built(Reidentified(config, library'), config, "job")
       ELSE UNCHANGED <<config, objs, pool, admin, calls, restarts, rejections, idVars>>

\* A job is only started for a client that could log in when it was swapped in.
PublishClient ==
    /\ admin.at = "built"
    /\ objs' = IF admin.new = None THEN objs ELSE Append(objs, admin.new)
    /\ pool' = IF admin.new = None THEN 0 ELSE Len(objs')
    /\ admin' = NoChange
    /\ IF admin.then = "none" \/ (admin.then = "job" /\ ~CanAttempt(admin.new))
       THEN UNCHANGED calls
       ELSE /\ calls[admin.then].at = "idle"
            /\ calls' = [calls EXCEPT ![admin.then].at = "spawned"]
    /\ UNCHANGED <<config, library, restarts, rejections, idVars>>

-----------------------------------------------------------------------------
\* Logins.

Ask(c, r) == calls' = [calls EXCEPT ![c] = [at |-> "waiting", obj |-> pool, r |-> r]]
GiveUp(c) == calls' = [calls EXCEPT ![c] = Idle]
NoOverride == [from |-> "none", who |-> None]
OnlyCalls == UNCHANGED <<config, library, objs, pool, admin, restarts, rejections, idVars>>

\* LoginAll reads the pool when its goroutine runs and skips a passthrough
\* client nobody was captured for.
LoginAll ==
    /\ calls["loginall"].at = "spawned" /\ OnlyCalls
    /\ IF pool # 0 /\ (objs[pool].cfg.mode = "passthrough" => CanAttempt(objs[pool]))
       THEN Ask("loginall", NoOverride) ELSE GiveUp("loginall")

\* startUAReconnectJobs: the job takes the client that is current when it runs.
ReconnectJob ==
    /\ calls["job"].at = "spawned" /\ OnlyCalls
    /\ IF pool # 0 THEN Ask("job", NoOverride) ELSE GiveUp("job")

\* ReconnectByID: the administrator's button.
Reconnect ==
    /\ calls["reconnect"].at = "idle" /\ pool # 0 /\ CanAttempt(objs[pool])
    /\ Ask("reconnect", NoOverride) /\ OnlyCalls

\* Faulty: only passthrough servers are tried again.
CheckPassthroughOnly ==
    /\ calls["health"].at = "idle" /\ pool # 0
    /\ ~IsOnline(objs[pool]) /\ CanAttempt(objs[pool])
    /\ objs[pool].cfg.mode = "passthrough"
    /\ Ask("health", NoOverride) /\ OnlyCalls

\* runHealthCheckCycle
HealthCheck ==
    /\ calls["health"].at = "idle" /\ pool # 0
    /\ ~IsOnline(objs[pool]) /\ CanAttempt(objs[pool])
    /\ Ask("health", NoOverride) /\ OnlyCalls

\* retryOfflinePassthrough, with the headers that were captured.
RetryCaptured ==
    /\ calls["capture"].at = "spawned" /\ OnlyCalls
    /\ IF pool # 0 /\ objs[pool].cfg.mode = "passthrough" /\ ~IsOnline(objs[pool])
       THEN Ask("capture", calls["capture"].r) ELSE GiveUp("capture")

Capture(token, who) ==
    /\ SetCaptured(token, who)
    /\ calls["capture"].at = "idle"
    /\ calls' = [calls EXCEPT !["capture"] =
                    [at |-> "spawned", obj |-> 0, r |-> [from |-> "override", who |-> who]]]
    /\ UNCHANGED <<config, library, objs, pool, admin, restarts, rejections>>

\* loginWithHeaders up to the request: one login of an object at a time.  A
\* resident client without an identity goes offline at once; an API key is the
\* credential before it is validated.
BeginLogin(c) ==
    LET call == calls[c]  o == objs[call.obj]
    IN  /\ call.at = "waiting"
        /\ \A d \in Callers : ~(calls[d].at = "sent" /\ calls[d].obj = call.obj)
        /\ IF o.cfg.mode = "resident" /\ o.ident = None
           THEN objs' = [objs EXCEPT ![call.obj] = SetOffline(o)] /\ GiveUp(c)
           ELSE /\ objs' = IF o.cfg.apikey
                           THEN [objs EXCEPT ![call.obj].token = o.cfg.account,
                                             ![call.obj].compat = None]
                           ELSE objs
                /\ calls' = [calls EXCEPT ![c].at = "sent",
                                          ![c].r = ResolveIdentity(o, call.r.who)]
        /\ UNCHANGED <<config, library, pool, admin, restarts, rejections, idVars>>

LoginSucceeds(c) ==
    LET call == calls[c]  o == objs[call.obj]
    IN  /\ call.at = "sent"
        /\ objs' = [objs EXCEPT ![call.obj] = SetOnlineWithIdentity(o, call.r.who)]
        /\ GiveUp(c)
        /\ IF o.cfg.mode = "passthrough" /\ call.r.who # None
           THEN RecordSuccess(StableUpstreamKey(o.cfg), call.r) ELSE UNCHANGED idVars
        /\ UNCHANGED <<config, library, pool, admin, restarts, rejections>>

\* Refused, unreachable, timed out or unreadable.
LoginFails(c) ==
    /\ calls[c].at = "sent"
    /\ objs' = [objs EXCEPT ![calls[c].obj] = SetOffline(@)]
    /\ GiveUp(c)
    /\ UNCHANGED <<config, library, pool, admin, restarts, rejections, idVars>>

-----------------------------------------------------------------------------
\* Recovery after a 401 or 403, debounced before and inside its goroutine.

\* requestAuthRecovery, for an answer that may arrive when the client is offline or
\* replaced by now, and for a request that finds the client without a session.
RequestRejected(i) ==
    /\ rejections < MaxRejections
    /\ rejections' = rejections + 1
    /\ objs' = IF objs[i].recent THEN objs ELSE [objs EXCEPT ![i].spawned = @ + 1]
    /\ UNCHANGED <<config, library, pool, admin, calls, restarts, idVars>>

Spawned(i) == objs[i].spawned > 0

RecoveringClient(o) == [SetOffline(o) EXCEPT !.spawned = o.spawned - 1, !.recent = TRUE,
                                             !.recovered = o.recovered + 1]

\* Faulty: the window is not tested again inside the goroutine.
RecoverUnchecked(i) ==
    /\ Spawned(i) /\ calls["recovery"].at = "idle"
    /\ objs' = [objs EXCEPT ![i] = RecoveringClient(objs[i])]
    /\ IF CanAttempt(objs[i])
       THEN calls' = [calls EXCEPT !["recovery"] = [at |-> "waiting", obj |-> i, r |-> NoOverride]]
       ELSE UNCHANGED calls
    /\ UNCHANGED <<config, library, pool, admin, restarts, rejections, idVars>>

\* handleUpstreamAuthError
Recover(i) ==
    /\ Spawned(i) /\ calls["recovery"].at = "idle"
    /\ IF objs[i].recent
       THEN objs' = [objs EXCEPT ![i].spawned = @ - 1] /\ UNCHANGED calls
       ELSE /\ objs' = [objs EXCEPT ![i] = RecoveringClient(objs[i])]
            /\ IF CanAttempt(objs[i])
               THEN calls' = [calls EXCEPT !["recovery"] =
                                [at |-> "waiting", obj |-> i, r |-> NoOverride]]
               ELSE UNCHANGED calls
    /\ UNCHANGED <<config, library, pool, admin, restarts, rejections, idVars>>

\* recoveryDebounce is over.
WindowEnds(i) ==
    /\ objs[i].recent
    /\ objs' = [objs EXCEPT ![i].recent = FALSE, ![i].recovered = 0]
    /\ UNCHANGED <<config, library, pool, admin, calls, restarts, rejections, idVars>>

-----------------------------------------------------------------------------
\* NewApp builds the pool and logs in; sessions live in memory only.

Started(cfg, lib) == IF cfg = None THEN <<>> ELSE <<NewUpstreamClient(cfg, lib)>>
StartCalls == [c \in Callers |-> IF c = "loginall" THEN [Idle EXCEPT !.at = "spawned"] ELSE Idle]

UpInit ==
    /\ config \in Configs
    /\ library = [p \in Profiles |-> 1]
    /\ objs = Started(config, library) /\ pool = 1
    /\ admin = NoChange
    /\ calls = StartCalls
    /\ restarts = 0 /\ rejections = 0
    /\ idDisk \in [latest : {None, Spoofed} \cup Clients, last : {Nobody}]
    /\ captured = [t \in Tokens |-> None]
    /\ latest = Loaded(idDisk.latest) /\ lastSuccess = Nobody

Restart ==
    /\ restarts < MaxRestarts
    /\ restarts' = restarts + 1
    /\ objs' = Started(config, library)
    /\ pool' = Len(objs')
    /\ admin' = NoChange
    /\ calls' = StartCalls
    /\ IdentityLoad
    /\ UNCHANGED <<config, library, rejections>>

LocalLogout(token) ==
    /\ captured[token] # None
    /\ DeleteCaptured(token)
    /\ UNCHANGED poolVars

UpNext ==
    \/ \E cfg \in Configs : EditServer(cfg)
    \/ SaveSettings \/ RemoveServer \/ PublishClient
    \/ \E p \in Profiles : ReplaceProfile(p)
    \/ LoginAll \/ ReconnectJob \/ Reconnect \/ HealthCheck \/ RetryCaptured
    \/ \E t \in Tokens, who \in Clients : Capture(t, who)
    \/ \E c \in Callers : BeginLogin(c) \/ LoginSucceeds(c) \/ LoginFails(c)
    \/ \E i \in DOMAIN objs : RequestRejected(i) \/ Recover(i) \/ WindowEnds(i)
    \/ Restart
    \/ \E t \in Tokens : LocalLogout(t)

\* Goroutines run, a login that may start starts, the health check ticks, and an
\* upstream that is asked again and again answers.  Nothing obliges the
\* administrator, the clients of the proxy or the upstream to do anything else.
UpFairness ==
    /\ WF_upVars(PublishClient \/ LoginAll \/ ReconnectJob \/ RetryCaptured)
    /\ WF_upVars(HealthCheck)
    /\ WF_upVars(\E c \in Callers : BeginLogin(c))
    /\ SF_upVars(\E c \in Callers : LoginSucceeds(c))

UpSpec == UpInit /\ [][UpNext]_upVars /\ UpFairness

-----------------------------------------------------------------------------
\* Properties.

\* upstream_auth_state.go, playback_auth_compatibility.go: an attestation always
\* describes the credential it stands beside (the strict sender trusts it), and
\* the session of a resident client was granted to the very identity version
\* the client presents, through reloads, swaps and logins of replaced clients.
SessionsAreTheirOwn ==
    \A i \in DOMAIN objs : LET o == objs[i] IN
        /\ o.compat # None => /\ o.online
                              /\ o.compat = [account |-> o.token, who |-> o.issued]
                              /\ o.user = o.token
        /\ (o.cfg.mode = "resident" /\ o.online) => o.issued = o.ident

\* upstream.go requestAuthRecovery: however many 401 answers race, one debounce
\* window starts at most one recovery login.
OneRecoveryPerWindow == \A i \in DOMAIN objs : objs[i].recovered <= 1

\* healthcheck.go: a configured server that can present an identity comes back
\* online, whatever the logins, recoveries and reloads before did to its client.
ServerComesBack ==
    []<>(pool = 0 \/ IsOnline(objs[pool]) \/ ~CanAttempt(objs[pool]))
=============================================================================
