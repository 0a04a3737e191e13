------------------------- MODULE UpstreamClient_proofs -------------------------
(***************************************************************************)
(* Proofs about the sessions of an upstream server, for every number of    *)
(* client objects, configurations, identities, rejections and restarts:    *)
(* whatever logins, recoveries, reloads and swaps overlap, an attestation  *)
(* and a session belong to the credential and the identity they stand      *)
(* beside, and a debounce window starts one recovery.                      *)
(***************************************************************************)
EXTENDS UpstreamClient, TLAPS

\* Types.
Credentials == {cfg.account : cfg \in Configs}
Idents == [profile : Profiles, version : Nat]
Whos == Clients \union Idents \union {None, "custom"}
Origins == {"none", "override", "live", "token", "lastSuccess", "latest", "resident", "custom"}
Captured == Clients \union {None}
Identities == [from : Origins, who : Whos]
Attestations == [account : Credentials, who : Whos]
Objects == [cfg : Configs, ident : Idents \union {None},
            token : Credentials \union {None}, user : Credentials \union {None}, online : BOOLEAN,
            compat : Attestations \union {None}, recent : BOOLEAN, spawned : Nat,
            issued : Whos, recovered : Nat]
Calls == [at : {"idle", "spawned", "waiting", "sent"}, obj : Nat, r : Identities]

IdentityTypeOK ==
    /\ captured \in [Tokens -> Captured]
    /\ latest \in Captured
    /\ lastSuccess \in [Keys -> Captured]
    /\ idDisk \in [latest : Captured \union {Spoofed}, last : [Keys -> Captured]]

ClientTypeOK ==
    /\ config \in Configs \union {None}
    /\ library \in [Profiles -> Nat]
    /\ objs \in Seq(Objects) /\ pool \in 0..Len(objs)
    /\ admin \in [at : {"idle", "built"}, new : Objects \union {None},
                  then : {"none", "loginall", "job"}]
    /\ calls \in [Callers -> Calls]

\* One object: only a resident client has an identity of the library, and a recovery was
\* counted only in an open window.
ObjectSound(o) ==
    /\ o.compat # None => /\ o.online
                          /\ o.compat = [account |-> o.token, who |-> o.issued]
                          /\ o.user = o.token
    /\ (o.cfg.mode = "resident" /\ o.online) => o.issued = o.ident
    /\ o.ident # None => o.cfg.mode = "resident"
    /\ o.recovered <= 1 /\ (o.recovered # 0 => o.recent)

\* A login under way is about an object that exists and presents its identity, or one
\* that was captured.
CallSound(c) ==
    /\ calls[c].at \in {"waiting", "sent"} => calls[c].obj \in DOMAIN objs
    /\ calls[c].at = "sent" /\ objs[calls[c].obj].cfg.mode = "resident" =>
          calls[c].r.who = objs[calls[c].obj].ident
    /\ calls[c].at # "sent" \/ objs[calls[c].obj].cfg.mode = "passthrough" =>
          calls[c].r.who \in Captured

UpInv ==
    /\ ClientTypeOK /\ IdentityTypeOK
    /\ \A i \in DOMAIN objs : ObjectSound(objs[i])
    /\ admin.at = "built" /\ admin.new # None => ObjectSound(admin.new)
    /\ \A c \in Callers : CallSound(c)

-------------------------------------------------------------------------------
(* The operators.                                                          *)

LEMMA NewClientSound ==
    ASSUME NEW cfg \in Configs, NEW lib \in [Profiles -> Nat]
    PROVE  LET o == NewUpstreamClient(cfg, lib) IN
           o \in Objects /\ ObjectSound(o) /\ o.cfg = cfg
<1>1. ResidentSnapshot(cfg, lib) \in Idents \union {None}
  <2>1. ASSUME cfg.mode = "resident"
        PROVE  [profile |-> cfg.profile, version |-> lib[cfg.profile]] \in Idents
    <3>1. cfg.profile \in Profiles
      BY <2>1, ConfiguredServers
    <3>2. lib[cfg.profile] \in Nat
      BY <3>1
    <3> QED
      BY <3>1, <3>2 DEF Idents
  <2> QED
    BY <2>1 DEF ResidentSnapshot
<1>2. ResidentSnapshot(cfg, lib) # None => cfg.mode = "resident"
  BY DEF ResidentSnapshot
<1> QED
  BY <1>1, <1>2 DEF NewUpstreamClient, Objects, ObjectSound, Whos

LEMMA InheritSound ==
    ASSUME NEW old \in Objects, ObjectSound(old), NEW new \in Objects, ObjectSound(new),
           new.recovered = 0, new.compat = None, new.cfg.mode = "resident" => old.ident = new.ident /\ old.ident # None,
           NEW compat \in {old.compat, None}
    PROVE  Inherit(old, new, compat) \in Objects /\ ObjectSound(Inherit(old, new, compat))
<1> DEFINE o == Inherit(old, new, compat)
<1>1. /\ o.cfg = new.cfg /\ o.ident = new.ident /\ o.token = old.token /\ o.user = old.user
      /\ o.online = old.online /\ o.issued = old.issued /\ o.compat = compat
      /\ o.recovered = new.recovered /\ o.recent = new.recent /\ o.spawned = new.spawned
  BY DEF Inherit, Objects
<1>2. o \in Objects
  BY DEF Inherit, Objects
<1>3. ObjectSound(o)
  BY <1>1 DEF ObjectSound, Objects
<1> QED
  BY <1>2, <1>3

LEMMA CarriedSound ==
    ASSUME UpInv, NEW cfg \in Configs, NEW lib \in [Profiles -> Nat]
    PROVE  /\ Reloaded(cfg, lib) \in Objects /\ ObjectSound(Reloaded(cfg, lib))
           /\ Reidentified(cfg, lib) \in Objects /\ ObjectSound(Reidentified(cfg, lib))
<1> DEFINE new == NewUpstreamClient(cfg, lib)
<1>1. new \in Objects /\ ObjectSound(new) /\ new.recovered = 0 /\ new.compat = None
  BY NewClientSound DEF NewUpstreamClient
<1> HIDE DEF new
<1>2. CASE pool = 0
  BY <1>1, <1>2 DEF Reloaded, Reidentified, new
<1>3. CASE pool # 0 /\ ResidentIdentityChanged(objs[pool], new)
  BY <1>1, <1>3 DEF Reloaded, Reidentified, new
<1>4. CASE pool # 0 /\ ~ResidentIdentityChanged(objs[pool], new)
  <2>1. pool \in DOMAIN objs /\ objs[pool] \in Objects /\ ObjectSound(objs[pool])
    BY <1>4 DEF UpInv, ClientTypeOK
  <2>2. new.cfg.mode = "resident" => objs[pool].ident = new.ident /\ objs[pool].ident # None
    BY <1>4 DEF ResidentIdentityChanged
  <2>3. \A compat \in {objs[pool].compat, None} :
          Inherit(objs[pool], new, compat) \in Objects /\ ObjectSound(Inherit(objs[pool], new, compat))
    BY <2>1, <2>2, <1>1, InheritSound
  <2> QED
    BY <2>3, <1>1, <1>4 DEF Reloaded, Reidentified, new
<1> QED
  BY <1>2, <1>3, <1>4

LEMMA ResolvedIdentity ==
    ASSUME UpInv, NEW o \in Objects, NEW override \in Captured
    PROVE  /\ ResolveIdentity(o, override) \in Identities
           /\ o.cfg.mode = "resident" => ResolveIdentity(o, override).who = o.ident
           /\ o.cfg.mode = "passthrough" => ResolveIdentity(o, override).who \in Captured
<1>1. CASE o.cfg.mode = "resident"
  BY <1>1 DEF ResolveIdentity, Identities, Origins, Objects, Whos
<1>2. CASE o.cfg.mode = "passthrough"
  <2> DEFINE key == StableUpstreamKey(o.cfg)
             all == Sources(override, None, None, key)
             known == {i \in DOMAIN all : all[i].who # None}
  <2>0. key \in Keys
    <3>1. o.cfg \in Configs
      BY DEF Objects
    <3> QED
      BY <3>1, ConfiguredServers
  <2>1. /\ None \in Captured /\ latest \in Captured /\ lastSuccess[key] \in Captured
        /\ None \notin Tokens
    <3> HIDE DEF key
    <3> QED
      BY <2>0, NobodyIsNoClient DEF UpInv, IdentityTypeOK, Captured
  <2>2. DOMAIN all = 1..5 /\ \A i \in 1..5 : all[i] \in [from : Origins, who : Captured]
    BY <2>1 DEF Sources, Origins
  <2>3. ASSUME known # {} PROVE \E i \in known : \A j \in known : i <= j
    <3>1. known \in SUBSET (1..5)
      BY <2>2
    <3>2. 1 \in known \/ 2 \in known \/ 3 \in known \/ 4 \in known \/ 5 \in known
      BY <3>1, <2>3
    <3> HIDE DEF known
    <3> QED
      BY <3>1, <3>2
  <2>4. ResolvePassthrough(override, None, None, key) \in [from : Origins, who : Captured]
    <3>1. CASE known = {}
      BY <3>1, <2>1 DEF ResolvePassthrough, Origins
    <3>2. CASE known # {}
      <4>1. PICK i \in known : i = CHOOSE n \in known : \A j \in known : n <= j
        BY <3>2, <2>3
      <4> QED
        BY <4>1, <3>2, <2>2 DEF ResolvePassthrough
    <3> QED
      BY <3>1, <3>2
  <2>5. [from : Origins, who : Captured] \subseteq Identities
    BY DEF Identities, Captured, Whos
  <2> QED
    BY <2>4, <2>5, <1>2 DEF ResolveIdentity
<1>3. CASE o.cfg.mode \notin {"resident", "passthrough"}
  BY <1>3 DEF ResolveIdentity, Identities, Origins, Whos
<1> QED
  BY <1>1, <1>2, <1>3

-------------------------------------------------------------------------------
(* What steps do to the objects and to the calls.                          *)

SameClient(i) == objs'[i].cfg = objs[i].cfg /\ objs'[i].ident = objs[i].ident

\* One object changes, its configuration and its identity apart.
LEMMA ObjectChanged ==
    ASSUME UpInv, NEW i \in DOMAIN objs, NEW o \in Objects, ObjectSound(o),
           o.cfg = objs[i].cfg, o.ident = objs[i].ident, objs' = [objs EXCEPT ![i] = o]
    PROVE  /\ objs' \in Seq(Objects) /\ Len(objs') = Len(objs) /\ DOMAIN objs' = DOMAIN objs
           /\ \A n \in DOMAIN objs : ObjectSound(objs'[n]) /\ SameClient(n)
<1>1. objs \in Seq(Objects) /\ DOMAIN objs = 1..Len(objs) /\ Len(objs) \in Nat
  BY DEF UpInv, ClientTypeOK
<1>2. \A n \in DOMAIN objs : objs'[n] = IF n = i THEN o ELSE objs[n]
  BY <1>1
<1>3. objs' \in Seq(Objects) /\ Len(objs') = Len(objs) /\ DOMAIN objs' = DOMAIN objs
  BY <1>1
<1> HIDE DEF Objects
<1> QED
  BY <1>2, <1>3 DEF UpInv, SameClient

LEMMA CallsKept ==
    ASSUME UpInv, DOMAIN objs \subseteq DOMAIN objs', \A n \in DOMAIN objs : SameClient(n),
           NEW c \in Callers, calls'[c] = calls[c]
    PROVE  CallSound(c)'
BY DEF UpInv, ClientTypeOK, Calls, CallSound, SameClient

\* Only the objects change.
LEMMA ObjectStep ==
    ASSUME UpInv, NEW i \in DOMAIN objs, NEW o \in Objects, ObjectSound(o),
           o.cfg = objs[i].cfg, o.ident = objs[i].ident, objs' = [objs EXCEPT ![i] = o],
           calls' \in [Callers -> Calls], \A c \in Callers : calls'[c] = calls[c] \/ CallSound(c)',
           IdentityTypeOK', UNCHANGED <<config, library, pool, admin>>
    PROVE  UpInv'
<1>1. /\ objs' \in Seq(Objects) /\ Len(objs') = Len(objs) /\ DOMAIN objs' = DOMAIN objs
      /\ \A n \in DOMAIN objs : ObjectSound(objs'[n]) /\ SameClient(n)
  BY ObjectChanged
<1>2. \A c \in Callers : CallSound(c)'
  BY <1>1, CallsKept
<1>3. ClientTypeOK'
  BY <1>1 DEF UpInv, ClientTypeOK
<1>4. \A n \in DOMAIN objs' : ObjectSound(objs[n])'
  BY <1>1 DEF ObjectSound
<1>5. (admin.at = "built" /\ admin.new # None => ObjectSound(admin.new))'
  BY DEF UpInv, ObjectSound
<1> QED
  BY <1>2, <1>3, <1>4, <1>5 DEF UpInv

\* Only the calls change.
LEMMA CallStep ==
    ASSUME UpInv, calls' \in [Callers -> Calls], IdentityTypeOK',
           \A c \in Callers : calls'[c] = calls[c] \/ CallSound(c)',
           UNCHANGED <<config, library, objs, pool, admin>>
    PROVE  UpInv'
<1>1. \A c \in Callers : CallSound(c)'
  BY CallsKept DEF SameClient
<1>2. ClientTypeOK'
  BY DEF UpInv, ClientTypeOK
<1>3. (\A n \in DOMAIN objs : ObjectSound(objs[n]))'
  BY DEF UpInv, ObjectSound
<1>4. (admin.at = "built" /\ admin.new # None => ObjectSound(admin.new))'
  BY DEF UpInv, ObjectSound
<1> QED
  BY <1>1, <1>2, <1>3, <1>4 DEF UpInv

LEMMA IdentityKept == ASSUME UpInv, UNCHANGED idVars PROVE IdentityTypeOK'
BY DEF UpInv, IdentityTypeOK, idVars

\* One call changes.
LEMMA CallSet ==
    ASSUME UpInv, NEW c \in Callers, NEW x \in Calls, calls' = [calls EXCEPT ![c] = x]
    PROVE  /\ calls' \in [Callers -> Calls] /\ calls'[c] = x
           /\ \A d \in Callers : d # c => calls'[d] = calls[d]
BY DEF UpInv, ClientTypeOK

LEMMA AskStep ==
    ASSUME UpInv, NEW c \in Callers, NEW r \in Identities, r.who \in Captured, pool # 0,
           Ask(c, r), OnlyCalls
    PROVE  UpInv'
<1>1. pool \in DOMAIN objs
  BY DEF UpInv, ClientTypeOK
<1>2. [at |-> "waiting", obj |-> pool, r |-> r] \in Calls
  BY <1>1 DEF Calls, UpInv, ClientTypeOK
<1>3. calls' = [calls EXCEPT ![c] = [at |-> "waiting", obj |-> pool, r |-> r]]
  BY DEF Ask
<1>4. calls' \in [Callers -> Calls] /\ \A d \in Callers : d # c => calls'[d] = calls[d]
  BY <1>2, <1>3, CallSet
<1>5. calls'[c] = [at |-> "waiting", obj |-> pool, r |-> r]
  BY <1>2, <1>3, CallSet
<1>6. CallSound(c)'
  BY <1>1, <1>5 DEF CallSound, OnlyCalls
<1> QED
  BY <1>4, <1>6, CallStep, IdentityKept DEF OnlyCalls

LEMMA IdleSound ==
    /\ Idle \in Calls /\ NoOverride \in Identities /\ NoOverride.who \in Captured
    /\ \A c \in Callers : (calls[c] = Idle => CallSound(c)) /\ (calls'[c] = Idle => CallSound(c)')
BY DEF Idle, Calls, NoOverride, Identities, Origins, Whos, Captured, CallSound

LEMMA GiveUpStep ==
    ASSUME UpInv, NEW c \in Callers, GiveUp(c), OnlyCalls
    PROVE  UpInv'
<1>1. calls' = [calls EXCEPT ![c] = Idle]
  BY DEF GiveUp
<1>2. /\ calls' \in [Callers -> Calls] /\ calls'[c] = Idle
      /\ \A d \in Callers : d # c => calls'[d] = calls[d]
  BY <1>1, CallSet, IdleSound
<1> QED
  BY <1>2, IdleSound, CallStep, IdentityKept DEF OnlyCalls

\* The identity a capture brought.
LEMMA SpawnedCapture ==
    ASSUME UpInv, NEW c \in Callers, calls[c].at = "spawned"
    PROVE  calls[c].r \in Identities /\ calls[c].r.who \in Captured
BY DEF UpInv, ClientTypeOK, Calls, CallSound

LEMMA InvCallers ==
    ASSUME UpInv, LoginAll \/ ReconnectJob \/ Reconnect \/ HealthCheck \/ RetryCaptured
    PROVE  UpInv'
<1> USE DEF Callers
<1>1. CASE LoginAll
  BY <1>1, AskStep, GiveUpStep, IdleSound DEF LoginAll
<1>2. CASE ReconnectJob
  BY <1>2, AskStep, GiveUpStep, IdleSound DEF ReconnectJob
<1>3. CASE Reconnect
  BY <1>3, AskStep, IdleSound DEF Reconnect
<1>4. CASE HealthCheck
  BY <1>4, AskStep, IdleSound DEF HealthCheck
<1>5. CASE RetryCaptured
  BY <1>5, AskStep, GiveUpStep, SpawnedCapture DEF RetryCaptured
<1> QED
  BY <1>1, <1>2, <1>3, <1>4, <1>5

LEMMA CaptureTypes ==
    ASSUME UpInv, NEW t \in Tokens, NEW who \in Clients, SetCaptured(t, who)
    PROVE  IdentityTypeOK'
BY DEF UpInv, IdentityTypeOK, SetCaptured, Captured

LEMMA InvCapture ==
    ASSUME UpInv, NEW t \in Tokens, NEW who \in Clients, Capture(t, who)
    PROVE  UpInv'
<1> DEFINE x == [at |-> "spawned", obj |-> 0, r |-> [from |-> "override", who |-> who]]
<1>1. x \in Calls /\ x.r.who \in Captured
  BY DEF Calls, Identities, Origins, Whos, Captured
<1>2. calls' = [calls EXCEPT !["capture"] = x] /\ "capture" \in Callers
  BY DEF Capture, Callers
<1>3. /\ calls' \in [Callers -> Calls] /\ calls'["capture"] = x
      /\ \A d \in Callers : d # "capture" => calls'[d] = calls[d]
  BY <1>1, <1>2, CallSet
<1>4. CallSound("capture")'
  BY <1>1, <1>3 DEF CallSound
<1>5. IdentityTypeOK'
  BY CaptureTypes DEF Capture
<1> QED
  BY <1>3, <1>4, <1>5, CallStep DEF Capture

LEMMA InvLogout ==
    ASSUME UpInv, NEW t \in Tokens, LocalLogout(t)
    PROVE  UpInv'
<1>1. IdentityTypeOK'
  BY DEF UpInv, IdentityTypeOK, LocalLogout, DeleteCaptured, Captured
<1>2. calls' \in [Callers -> Calls]
  BY DEF UpInv, ClientTypeOK, LocalLogout, poolVars
<1> QED
  BY <1>1, <1>2, CallStep DEF LocalLogout, poolVars

-------------------------------------------------------------------------------
(* Logins.                                                                 *)

LEMMA CalledObject ==
    ASSUME UpInv, NEW c \in Callers, calls[c].at \in {"waiting", "sent"}
    PROVE  /\ calls[c] \in Calls /\ calls[c].obj \in DOMAIN objs
           /\ objs[calls[c].obj] \in Objects /\ ObjectSound(objs[calls[c].obj])
BY DEF UpInv, ClientTypeOK, CallSound

LEMMA OfflineSound ==
    ASSUME NEW o \in Objects, ObjectSound(o)
    PROVE  LET off == SetOffline(o) IN
           /\ off \in Objects /\ ObjectSound(off) /\ off.cfg = o.cfg /\ off.ident = o.ident
           /\ off.recent = o.recent /\ off.spawned = o.spawned /\ off.recovered = o.recovered
           /\ off.online = FALSE /\ off.compat = None
BY DEF SetOffline, Objects, ObjectSound

\* An API key stands beside no attestation until it is validated.
LEMMA KeyedSound ==
    ASSUME NEW o \in Objects, ObjectSound(o)
    PROVE  LET k == [o EXCEPT !.token = o.cfg.account, !.compat = None] IN
           k \in Objects /\ ObjectSound(k) /\ k.cfg = o.cfg /\ k.ident = o.ident
<1>1. o.cfg.account \in Credentials
  BY DEF Objects, Credentials
<1> QED
  BY <1>1 DEF Objects, ObjectSound

LEMMA OnlineSound ==
    ASSUME NEW o \in Objects, ObjectSound(o), NEW who \in Whos,
           o.cfg.mode = "resident" => who = o.ident
    PROVE  LET on == SetOnlineWithIdentity(o, who) IN
           on \in Objects /\ ObjectSound(on) /\ on.cfg = o.cfg /\ on.ident = o.ident
<1>1. o.cfg.account \in Credentials
  BY DEF Objects, Credentials
<1>2. [account |-> o.cfg.account, who |-> who] \in Attestations
  BY <1>1 DEF Attestations
<1> DEFINE on == SetOnlineWithIdentity(o, who)
<1>3. on \in Objects
  BY <1>1, <1>2 DEF SetOnlineWithIdentity, Objects
<1>4. /\ on.cfg = o.cfg /\ on.ident = o.ident /\ on.recent = o.recent /\ on.recovered = o.recovered
      /\ on.online = TRUE /\ on.token = o.cfg.account /\ on.user = o.cfg.account /\ on.issued = who
      /\ on.compat = IF who = None THEN None ELSE [account |-> o.cfg.account, who |-> who]
  BY DEF SetOnlineWithIdentity, Objects
<1> HIDE DEF on
<1>5. ObjectSound(on)
  BY <1>4 DEF ObjectSound
<1> QED
  BY <1>3, <1>4, <1>5 DEF on

LEMMA InvBegin ==
    ASSUME UpInv, NEW c \in Callers, BeginLogin(c)
    PROVE  UpInv'
<1> DEFINE i == calls[c].obj
           o == objs[i]
           r == ResolveIdentity(o, calls[c].r.who)
           x == [calls[c] EXCEPT !.at = "sent", !.r = r]
<1>1. calls[c] \in Calls /\ i \in DOMAIN objs /\ o \in Objects /\ ObjectSound(o)
  BY CalledObject DEF BeginLogin
<1>2. IdentityTypeOK' /\ UNCHANGED <<config, library, pool, admin>>
  BY IdentityKept DEF BeginLogin
<1>3. CASE o.cfg.mode = "resident" /\ o.ident = None
  <2>1. objs' = [objs EXCEPT ![i] = SetOffline(o)] /\ calls' = [calls EXCEPT ![c] = Idle]
    BY <1>3 DEF BeginLogin, GiveUp
  <2>2. /\ calls' \in [Callers -> Calls] /\ calls'[c] = Idle
        /\ \A d \in Callers : d # c => calls'[d] = calls[d]
    BY <2>1, CallSet, IdleSound
  <2> QED
    BY <1>1, <1>2, <2>1, <2>2, OfflineSound, IdleSound, ObjectStep
<1>4. CASE ~(o.cfg.mode = "resident" /\ o.ident = None)
  <2>1. calls[c].r.who \in Captured
    BY DEF UpInv, CallSound, BeginLogin
  <2>2. /\ r \in Identities /\ (o.cfg.mode = "resident" => r.who = o.ident)
        /\ (o.cfg.mode = "passthrough" => r.who \in Captured)
    BY <1>1, <2>1, ResolvedIdentity
  <2>3. calls' = [calls EXCEPT ![c] = x]
    <3>1. calls' = [calls EXCEPT ![c].at = "sent", ![c].r = r]
      BY <1>4 DEF BeginLogin
    <3> HIDE DEF r
    <3> QED
      BY <3>1, <1>1 DEF UpInv, ClientTypeOK, Calls
  <2>4. x \in Calls /\ x.at = "sent" /\ x.obj = i /\ x.r = r
    <3> HIDE DEF r
    <3> QED
      BY <1>1, <2>2 DEF Calls
  <2>5. /\ calls' \in [Callers -> Calls] /\ calls'[c] = x
        /\ \A d \in Callers : d # c => calls'[d] = calls[d]
    BY <2>3, <2>4, CallSet
  <2>6. PICK k \in Objects : /\ ObjectSound(k) /\ k.cfg = o.cfg /\ k.ident = o.ident
                             /\ objs' = [objs EXCEPT ![i] = k]
    <3>1. CASE o.cfg.apikey
      <4> DEFINE k == [o EXCEPT !.token = o.cfg.account, !.compat = None]
      <4>1. objs' = [objs EXCEPT ![i].token = o.cfg.account, ![i].compat = None]
        BY <1>4, <3>1 DEF BeginLogin
      <4>2. objs' = [objs EXCEPT ![i] = k]
        BY <4>1, <1>1 DEF Objects, UpInv, ClientTypeOK
      <4> QED
        BY <4>2, <1>1, KeyedSound
    <3>2. CASE ~o.cfg.apikey
      <4>1. objs' = objs
        BY <1>4, <3>2 DEF BeginLogin
      <4>2. objs' = [objs EXCEPT ![i] = o]
        BY <4>1, <1>1 DEF UpInv, ClientTypeOK
      <4> QED
        BY <4>2, <1>1
    <3> QED
      BY <3>1, <3>2
  <2>7. CallSound(c)'
    <3>1. i \in DOMAIN objs' /\ objs'[i].cfg = o.cfg /\ objs'[i].ident = o.ident
      BY <2>6, <1>1, ObjectChanged DEF SameClient
    <3> QED
      BY <3>1, <2>2, <2>4, <2>5 DEF CallSound
  <2> QED
    BY <1>1, <1>2, <2>5, <2>6, <2>7, ObjectStep
<1> QED
  BY <1>3, <1>4

LEMMA InvSucceeds ==
    ASSUME UpInv, NEW c \in Callers, LoginSucceeds(c)
    PROVE  UpInv'
<1> DEFINE i == calls[c].obj
           o == objs[i]
           who == calls[c].r.who
<1>1. calls[c] \in Calls /\ i \in DOMAIN objs /\ o \in Objects /\ ObjectSound(o)
  BY CalledObject DEF LoginSucceeds
<1>2. who \in Whos /\ (o.cfg.mode = "resident" => who = o.ident)
      /\ (o.cfg.mode = "passthrough" => who \in Captured)
  BY <1>1 DEF Calls, Identities, UpInv, CallSound, LoginSucceeds
<1>3. calls' = [calls EXCEPT ![c] = Idle] /\ objs' = [objs EXCEPT ![i] = SetOnlineWithIdentity(o, who)]
  BY DEF LoginSucceeds, GiveUp
<1>4. /\ calls' \in [Callers -> Calls] /\ calls'[c] = Idle
      /\ \A d \in Callers : d # c => calls'[d] = calls[d]
  BY <1>3, CallSet, IdleSound
<1>5. IdentityTypeOK'
  <2>1. CASE o.cfg.mode = "passthrough" /\ who # None
    <3>1. RecordSuccess(StableUpstreamKey(o.cfg), calls[c].r)
      BY <2>1 DEF LoginSucceeds
    <3>2. PICK key : key = StableUpstreamKey(o.cfg)
      OBVIOUS
    <3>3. calls[c].r.who \in Captured
      BY <1>2, <2>1
    <3> QED
      BY <3>1, <3>2, <3>3 DEF RecordSuccess, Real, UpInv, IdentityTypeOK, Captured
  <2>2. CASE ~(o.cfg.mode = "passthrough" /\ who # None)
    BY <2>2, IdentityKept DEF LoginSucceeds
  <2> QED
    BY <2>1, <2>2
<1>6. UNCHANGED <<config, library, pool, admin>>
  BY DEF LoginSucceeds
<1> QED
  BY <1>1, <1>2, <1>3, <1>4, <1>5, <1>6, OnlineSound, IdleSound, ObjectStep

LEMMA InvFails ==
    ASSUME UpInv, NEW c \in Callers, LoginFails(c)
    PROVE  UpInv'
<1> DEFINE i == calls[c].obj
<1>1. i \in DOMAIN objs /\ objs[i] \in Objects /\ ObjectSound(objs[i])
  BY CalledObject DEF LoginFails
<1>2. calls' = [calls EXCEPT ![c] = Idle] /\ objs' = [objs EXCEPT ![i] = SetOffline(objs[i])]
  BY DEF LoginFails, GiveUp
<1>3. /\ calls' \in [Callers -> Calls] /\ calls'[c] = Idle
      /\ \A d \in Callers : d # c => calls'[d] = calls[d]
  BY <1>2, CallSet, IdleSound
<1>4. IdentityTypeOK' /\ UNCHANGED <<config, library, pool, admin>>
  BY IdentityKept DEF LoginFails
<1> QED
  BY <1>1, <1>2, <1>3, <1>4, OfflineSound, IdleSound, ObjectStep

-------------------------------------------------------------------------------
(* Recoveries.                                                             *)

LEMMA InvRejected ==
    ASSUME UpInv, NEW i \in DOMAIN objs, RequestRejected(i)
    PROVE  UpInv'
<1>1. objs[i] \in Objects /\ ObjectSound(objs[i])
  BY DEF UpInv, ClientTypeOK
<1>2. calls' \in [Callers -> Calls] /\ IdentityTypeOK' /\ UNCHANGED <<config, library, pool, admin, calls>>
  BY IdentityKept DEF RequestRejected, UpInv, ClientTypeOK
<1>3. CASE objs[i].recent
  BY <1>2, <1>3, CallStep DEF RequestRejected
<1>4. CASE ~objs[i].recent
  <2> DEFINE o == [objs[i] EXCEPT !.spawned = objs[i].spawned + 1]
  <2>1. o \in Objects /\ ObjectSound(o) /\ o.cfg = objs[i].cfg /\ o.ident = objs[i].ident
    BY <1>1 DEF Objects, ObjectSound
  <2>2. objs' = [objs EXCEPT ![i] = o]
    BY <1>4 DEF RequestRejected
  <2> QED
    BY <2>1, <2>2, <1>2, ObjectStep
<1> QED
  BY <1>3, <1>4

\* The window a recovery opens had not counted one yet.
LEMMA RecoveringSound ==
    ASSUME NEW o \in Objects, ObjectSound(o), o.spawned > 0, ~o.recent
    PROVE  LET r == RecoveringClient(o) IN
           r \in Objects /\ ObjectSound(r) /\ r.cfg = o.cfg /\ r.ident = o.ident
<1>1. PICK off : off = SetOffline(o)
  OBVIOUS
<1>2. /\ off \in Objects /\ ObjectSound(off) /\ off.cfg = o.cfg /\ off.ident = o.ident
      /\ off.compat = None /\ off.online = FALSE
      /\ off.spawned = o.spawned /\ off.recovered = o.recovered
  BY <1>1, OfflineSound
<1>3. o.recovered = 0 /\ o.spawned - 1 \in Nat /\ o.recovered + 1 = 1
  BY DEF ObjectSound, Objects
<1>4. PICK r : r = RecoveringClient(o)
  OBVIOUS
<1>0. r = [off EXCEPT !.spawned = o.spawned - 1, !.recent = TRUE, !.recovered = o.recovered + 1]
  BY <1>1, <1>2, <1>4 DEF RecoveringClient, Objects
<1>5. r \in Objects
  <2>1. o.spawned - 1 \in Nat /\ o.recovered + 1 \in Nat
    BY <1>3
  <2> QED
    BY <1>2, <2>1, <1>0 DEF Objects
<1>6. /\ r.cfg = o.cfg /\ r.ident = o.ident /\ r.compat = None /\ r.online = FALSE
      /\ r.recent = TRUE /\ r.recovered = 1
  BY <1>2, <1>3, <1>0 DEF Objects
<1>7. ObjectSound(r)
  BY <1>2, <1>6 DEF ObjectSound
<1> QED
  BY <1>4, <1>5, <1>6, <1>7

LEMMA InvRecover ==
    ASSUME UpInv, NEW i \in DOMAIN objs, Recover(i)
    PROVE  UpInv'
<1>1. objs[i] \in Objects /\ ObjectSound(objs[i]) /\ objs[i].spawned > 0
  BY DEF UpInv, ClientTypeOK, Recover, Spawned
<1>2. IdentityTypeOK' /\ UNCHANGED <<config, library, pool, admin>>
  BY IdentityKept DEF Recover
<1>3. CASE objs[i].recent
  <2> DEFINE o == [objs[i] EXCEPT !.spawned = objs[i].spawned - 1]
  <2>1. o \in Objects /\ ObjectSound(o) /\ o.cfg = objs[i].cfg /\ o.ident = objs[i].ident
    BY <1>1 DEF Objects, ObjectSound
  <2>2. objs' = [objs EXCEPT ![i] = o] /\ calls' = calls
    BY <1>3 DEF Recover
  <2>3. calls' \in [Callers -> Calls]
    BY <2>2 DEF UpInv, ClientTypeOK
  <2> QED
    BY <2>1, <2>2, <2>3, <1>2, ObjectStep
<1>4. CASE ~objs[i].recent
  <2>1. PICK o : o = RecoveringClient(objs[i])
    OBVIOUS
  <2>2. o \in Objects /\ ObjectSound(o) /\ o.cfg = objs[i].cfg /\ o.ident = objs[i].ident
    BY <2>1, <1>1, <1>4, RecoveringSound
  <2>3. objs' = [objs EXCEPT ![i] = o]
    BY <1>4, <2>1 DEF Recover
  <2>4. calls' \in [Callers -> Calls] /\ \A c \in Callers : calls'[c] = calls[c] \/ CallSound(c)'
    <3>1. CASE calls' = calls
      BY <3>1 DEF UpInv, ClientTypeOK
    <3>2. CASE calls' # calls
      <4> DEFINE x == [at |-> "waiting", obj |-> i, r |-> NoOverride]
      <4>1. calls' = [calls EXCEPT !["recovery"] = x] /\ "recovery" \in Callers
        BY <1>4, <3>2 DEF Recover, Callers
      <4>2. x \in Calls /\ x.r.who \in Captured
        BY IdleSound DEF Calls, UpInv, ClientTypeOK
      <4>3. /\ calls' \in [Callers -> Calls] /\ calls'["recovery"] = x
            /\ \A d \in Callers : d # "recovery" => calls'[d] = calls[d]
        BY <4>1, <4>2, CallSet
      <4>4. DOMAIN objs' = DOMAIN objs
        BY <2>2, <2>3, ObjectChanged
      <4>5. CallSound("recovery")'
        BY <4>2, <4>3, <4>4 DEF CallSound
      <4> QED
        BY <4>3, <4>5
    <3> QED
      BY <3>1, <3>2
  <2> QED
    BY <2>2, <2>3, <2>4, <1>2, ObjectStep
<1> QED
  BY <1>3, <1>4

LEMMA InvWindow ==
    ASSUME UpInv, NEW i \in DOMAIN objs, WindowEnds(i)
    PROVE  UpInv'
<1> DEFINE o == [objs[i] EXCEPT !.recent = FALSE, !.recovered = 0]
<1>1. objs[i] \in Objects /\ ObjectSound(objs[i])
  BY DEF UpInv, ClientTypeOK
<1>2. o \in Objects /\ ObjectSound(o) /\ o.cfg = objs[i].cfg /\ o.ident = objs[i].ident
  <2>1. PICK k : k = objs[i]
    OBVIOUS
  <2>2. PICK n : n = [k EXCEPT !.recent = FALSE, !.recovered = 0]
    OBVIOUS
  <2>3. k \in Objects /\ ObjectSound(k)
    BY <1>1, <2>1
  <2>4. n \in Objects
    BY <2>2, <2>3 DEF Objects
  <2>5. /\ n.cfg = k.cfg /\ n.ident = k.ident /\ n.compat = k.compat /\ n.online = k.online
        /\ n.token = k.token /\ n.user = k.user /\ n.issued = k.issued /\ n.recovered = 0
    BY <2>2, <2>3 DEF Objects
  <2>6. ObjectSound(n)
    BY <2>3, <2>5 DEF ObjectSound
  <2> QED
    BY <2>1, <2>2, <2>4, <2>5, <2>6
<1>3. objs' = [objs EXCEPT ![i] = o]
  <2>1. objs' = [objs EXCEPT ![i].recent = FALSE, ![i].recovered = 0]
    BY DEF WindowEnds
  <2> QED
    BY <2>1, <1>1 DEF Objects, UpInv, ClientTypeOK
<1>4. /\ calls' \in [Callers -> Calls] /\ IdentityTypeOK'
      /\ UNCHANGED <<config, library, pool, admin, calls>>
  BY IdentityKept DEF WindowEnds, UpInv, ClientTypeOK
<1> QED
  BY <1>2, <1>3, <1>4, ObjectStep

-------------------------------------------------------------------------------
(* Configuration changes and restarts.                                     *)

LEMMA InvBuiltBy ==
    ASSUME UpInv, NEW new \in Objects \union {None}, new # None => ObjectSound(new),
           NEW cfg \in Configs \union {None}, NEW then \in {"none", "loginall", "job"},
           library' \in [Profiles -> Nat], Built(new, cfg, then)
    PROVE  UpInv'
<1>1. UNCHANGED <<objs, pool, calls, idVars>> /\ config' = cfg
      /\ admin' = [at |-> "built", new |-> new, then |-> then]
  BY DEF Built
<1>2. ClientTypeOK' /\ IdentityTypeOK'
  BY <1>1, IdentityKept DEF UpInv, ClientTypeOK
<1>3. (\A i \in DOMAIN objs : ObjectSound(objs[i]))'
  BY <1>1 DEF UpInv, ObjectSound
<1>4. (admin.at = "built" /\ admin.new # None => ObjectSound(admin.new))'
  BY <1>1 DEF ObjectSound
<1>5. \A c \in Callers : CallSound(c)'
  BY <1>1, CallsKept DEF SameClient
<1> QED
  BY <1>2, <1>3, <1>4, <1>5 DEF UpInv

LEMMA InvChange ==
    ASSUME UpInv,
           \/ \E cfg \in Configs : EditServer(cfg)
           \/ SaveSettings \/ RemoveServer
           \/ \E p \in Profiles : ReplaceProfile(p)
    PROVE  UpInv'
<1>0. library \in [Profiles -> Nat] /\ config \in Configs \union {None}
  BY DEF UpInv, ClientTypeOK
<1>1. ASSUME NEW cfg \in Configs, EditServer(cfg) PROVE UpInv'
  <2>1. library' \in [Profiles -> Nat] /\ library' = library
    BY <1>0, <1>1 DEF EditServer
  <2>2. PICK new \in Objects, then \in {"none", "loginall", "job"} :
          ObjectSound(new) /\ Built(new, cfg, then)
    <3>1. /\ Reidentified(cfg, library) \in Objects /\ ObjectSound(Reidentified(cfg, library))
          /\ Reloaded(cfg, library) \in Objects /\ ObjectSound(Reloaded(cfg, library))
      BY <1>0, CarriedSound
    <3>2. Built(Reidentified(cfg, library), cfg, "job") \/ Built(Reloaded(cfg, library), cfg, "loginall")
      BY <1>1 DEF EditServer
    <3> QED
      BY <3>1, <3>2
  <2> QED
    BY <2>1, <2>2, InvBuiltBy
<1>2. ASSUME SaveSettings PROVE UpInv'
  <2>1. config \in Configs /\ library' \in [Profiles -> Nat]
    BY <1>0, <1>2 DEF SaveSettings
  <2>2. Reloaded(config, library) \in Objects /\ ObjectSound(Reloaded(config, library))
    BY <1>0, <2>1, CarriedSound
  <2> QED
    BY <2>1, <2>2, <1>2, InvBuiltBy DEF SaveSettings
<1>3. ASSUME RemoveServer PROVE UpInv'
  BY <1>0, <1>3, InvBuiltBy DEF RemoveServer
<1>4. ASSUME NEW p \in Profiles, ReplaceProfile(p) PROVE UpInv'
  <2>1. library' \in [Profiles -> Nat]
    BY <1>0, <1>4 DEF ReplaceProfile
  <2>2. CASE Resident(config) /\ config.profile = p
    <3>1. config \in Configs
      BY <1>0, <2>2 DEF Resident
    <3>2. Reidentified(config, library') \in Objects /\ ObjectSound(Reidentified(config, library'))
      BY <3>1, <2>1, CarriedSound
    <3> QED
      BY <3>1, <3>2, <2>1, <2>2, <1>4, InvBuiltBy DEF ReplaceProfile
  <2>3. CASE ~(Resident(config) /\ config.profile = p)
    <3>1. UNCHANGED <<config, objs, pool, admin, calls, idVars>>
      BY <2>3, <1>4 DEF ReplaceProfile
    <3>2. ClientTypeOK' /\ IdentityTypeOK'
      BY <3>1, <2>1, IdentityKept DEF UpInv, ClientTypeOK
    <3>3. (\A i \in DOMAIN objs : ObjectSound(objs[i]))'
      BY <3>1 DEF UpInv, ObjectSound
    <3>4. (admin.at = "built" /\ admin.new # None => ObjectSound(admin.new))'
      BY <3>1 DEF UpInv, ObjectSound
    <3>5. \A c \in Callers : CallSound(c)'
      BY <3>1, CallsKept DEF SameClient
    <3> QED
      BY <3>2, <3>3, <3>4, <3>5 DEF UpInv
  <2> QED
    BY <2>2, <2>3
<1> QED
  BY <1>1, <1>2, <1>3, <1>4

\* Publishing appends the object that was built; the logins under way keep theirs.
LEMMA InvPublish ==
    ASSUME UpInv, PublishClient
    PROVE  UpInv'
<1>1. /\ objs \in Seq(Objects) /\ DOMAIN objs = 1..Len(objs) /\ Len(objs) \in Nat
      /\ pool \in 0..Len(objs) /\ admin.new \in Objects \union {None}
      /\ admin.then \in {"none", "loginall", "job"} /\ admin.at = "built"
  BY DEF UpInv, ClientTypeOK, PublishClient
<1>2. IdentityTypeOK' /\ UNCHANGED <<config, library>>
  BY IdentityKept DEF PublishClient
<1>3. /\ objs' \in Seq(Objects) /\ pool' \in 0..Len(objs') /\ DOMAIN objs \subseteq DOMAIN objs'
      /\ \A i \in DOMAIN objs : objs'[i] = objs[i]
      /\ \A i \in DOMAIN objs' : ObjectSound(objs'[i])
  <2> HIDE DEF Objects
  <2>1. CASE admin.new = None
    <3>1. objs' = objs /\ pool' = 0
      BY <2>1 DEF PublishClient
    <3> QED
      BY <3>1, <1>1 DEF UpInv
  <2>2. CASE admin.new # None
    <3>1. objs' = Append(objs, admin.new) /\ pool' = Len(objs') /\ admin.new \in Objects
      BY <2>2, <1>1 DEF PublishClient
    <3>2. /\ objs' \in Seq(Objects) /\ Len(objs') = Len(objs) + 1 /\ DOMAIN objs' = 1..Len(objs) + 1
          /\ \A i \in 1..Len(objs) : objs'[i] = objs[i]
          /\ objs'[Len(objs) + 1] = admin.new
      BY <3>1, <1>1
    <3>3. ObjectSound(admin.new)
      BY <1>1, <2>2 DEF UpInv
    <3>4. \A i \in DOMAIN objs' : i \in DOMAIN objs \/ i = Len(objs) + 1
      BY <3>2, <1>1
    <3>5. \A i \in DOMAIN objs : ObjectSound(objs[i])
      BY DEF UpInv
    <3>6. \A i \in DOMAIN objs' : ObjectSound(objs'[i])
      BY <3>2, <3>3, <3>4, <3>5, <1>1
    <3> QED
      BY <3>1, <3>2, <3>6, <1>1
  <2> QED
    BY <2>1, <2>2
<1>4. /\ calls' \in [Callers -> Calls]
      /\ \A c \in Callers : calls'[c] = calls[c] \/ CallSound(c)'
  <2>1. CASE calls' = calls
    BY <2>1 DEF UpInv, ClientTypeOK
  <2>2. CASE calls' # calls
    <3> DEFINE c == admin.then
               x == [calls[c] EXCEPT !.at = "spawned"]
    <3>1. c \in Callers /\ calls[c].at = "idle" /\ calls' = [calls EXCEPT ![c] = x]
      BY <2>2, <1>1 DEF PublishClient, Callers
    <3>2. calls[c] \in Calls /\ calls[c].r.who \in Captured
      BY <3>1 DEF UpInv, ClientTypeOK, CallSound
    <3>3. x \in Calls /\ x.at = "spawned" /\ x.r = calls[c].r
      BY <3>2 DEF Calls
    <3>4. PICK n \in Callers : n = c
      BY <3>1
    <3>5. /\ calls' \in [Callers -> Calls] /\ calls'[n] = x
          /\ \A d \in Callers : d # n => calls'[d] = calls[d]
      BY <3>1, <3>3, <3>4, CallSet
    <3>6. CallSound(n)'
      BY <3>2, <3>3, <3>5 DEF CallSound
    <3> QED
      BY <3>5, <3>6
  <2> QED
    BY <2>1, <2>2
<1>5. \A c \in Callers : CallSound(c)'
  BY <1>3, <1>4, CallsKept DEF SameClient
<1>6. ClientTypeOK'
  <2>1. admin' \in [at : {"idle", "built"}, new : Objects \union {None}, then : {"none", "loginall", "job"}]
    BY DEF PublishClient, NoChange
  <2> QED
    BY <1>2, <1>3, <1>4, <2>1 DEF UpInv, ClientTypeOK
<1>7. (admin.at = "built" /\ admin.new # None => ObjectSound(admin.new))'
  BY DEF PublishClient, NoChange
<1>8. (\A i \in DOMAIN objs : ObjectSound(objs[i]))'
  BY <1>3 DEF ObjectSound
<1> QED
  BY <1>2, <1>5, <1>6, <1>7, <1>8 DEF UpInv

\* A start: one new client, nobody logging in but LoginAll.
LEMMA StartSound ==
    ASSUME NEW cfg \in Configs \union {None}, NEW lib \in [Profiles -> Nat]
    PROVE  /\ Started(cfg, lib) \in Seq(Objects)
           /\ \A i \in DOMAIN Started(cfg, lib) : ObjectSound(Started(cfg, lib)[i])
           /\ Len(Started(cfg, lib)) \in Nat
           /\ cfg \in Configs => Len(Started(cfg, lib)) = 1
           /\ StartCalls \in [Callers -> Calls]
           /\ \A c \in Callers : StartCalls[c].at \in {"idle", "spawned"} /\ StartCalls[c].r.who \in Captured
<1>1. /\ StartCalls \in [Callers -> Calls]
      /\ \A c \in Callers : StartCalls[c].at \in {"idle", "spawned"} /\ StartCalls[c].r.who \in Captured
  BY DEF StartCalls, Idle, Calls, Identities, Origins, Whos, Captured
<1>2. CASE cfg = None
  BY <1>1, <1>2, ConfiguredServers DEF Started
<1>3. CASE cfg # None
  <2>1. PICK o : o = NewUpstreamClient(cfg, lib)
    OBVIOUS
  <2>2. o \in Objects /\ ObjectSound(o)
    BY <2>1, <1>3, NewClientSound
  <2>3. Started(cfg, lib) = <<o>>
    BY <2>1, <1>3 DEF Started
  <2> HIDE DEF Objects
  <2> QED
    BY <1>1, <2>2, <2>3
<1> QED
  BY <1>2, <1>3

LEMMA InvRestart ==
    ASSUME UpInv, Restart
    PROVE  UpInv'
<1>1. /\ config \in Configs \union {None} /\ library \in [Profiles -> Nat]
      /\ objs' = Started(config, library) /\ calls' = StartCalls /\ pool' = Len(objs')
      /\ admin' = NoChange /\ UNCHANGED <<config, library>>
  BY DEF UpInv, ClientTypeOK, Restart
<1>2. IdentityTypeOK'
  BY NobodyIsNoClient DEF UpInv, IdentityTypeOK, Restart, IdentityLoad, Loaded, Captured
<1>3. ClientTypeOK'
  <2>1. NoChange \in [at : {"idle", "built"}, new : Objects \union {None},
                      then : {"none", "loginall", "job"}]
    BY DEF NoChange
  <2>2. objs' \in Seq(Objects) /\ calls' \in [Callers -> Calls] /\ pool' \in 0..Len(objs')
    BY <1>1, StartSound
  <2> QED
    BY <1>1, <2>1, <2>2 DEF ClientTypeOK
<1>4. (\A i \in DOMAIN objs : ObjectSound(objs[i]))'
  <2>1. \A i \in DOMAIN objs' : ObjectSound(objs'[i])
    BY <1>1, StartSound
  <2> QED
    BY <2>1 DEF ObjectSound
<1>5. (admin.at = "built" /\ admin.new # None => ObjectSound(admin.new))'
  BY <1>1 DEF NoChange
<1>6. (\A c \in Callers : CallSound(c))'
  BY <1>1, StartSound DEF CallSound
<1> QED
  BY <1>2, <1>3, <1>4, <1>5, <1>6 DEF UpInv

LEMMA InvInit == UpInit => UpInv
<1> SUFFICES ASSUME UpInit PROVE UpInv
  OBVIOUS
<1>1. /\ config \in Configs /\ library \in [Profiles -> Nat]
      /\ objs = Started(config, library) /\ calls = StartCalls /\ pool = 1
      /\ admin = NoChange
  BY DEF UpInit
<1>2. IdentityTypeOK
  BY NobodyIsNoClient DEF UpInit, IdentityTypeOK, Loaded, Captured, Nobody
<1>3. ClientTypeOK
  <2>1. NoChange \in [at : {"idle", "built"}, new : Objects \union {None},
                      then : {"none", "loginall", "job"}]
    BY DEF NoChange
  <2>2. objs \in Seq(Objects) /\ calls \in [Callers -> Calls] /\ Len(objs) = 1
    BY <1>1, StartSound
  <2> QED
    BY <1>1, <2>1, <2>2 DEF ClientTypeOK
<1>4. \A i \in DOMAIN objs : ObjectSound(objs[i])
  BY <1>1, StartSound
<1>5. admin.at = "built" /\ admin.new # None => ObjectSound(admin.new)
  BY <1>1 DEF NoChange
<1>6. \A c \in Callers : CallSound(c)
  BY <1>1, StartSound DEF CallSound
<1> QED
  BY <1>2, <1>3, <1>4, <1>5, <1>6 DEF UpInv

LEMMA InvNext == UpInv /\ [UpNext]_upVars => UpInv'
<1> SUFFICES ASSUME UpInv, [UpNext]_upVars PROVE UpInv'
  OBVIOUS
<1>1. CASE UNCHANGED upVars
  <2>1. UNCHANGED <<config, library, objs, pool, admin, calls, idVars>>
    BY <1>1 DEF upVars, poolVars
  <2>2. calls' \in [Callers -> Calls]
    BY <2>1 DEF UpInv, ClientTypeOK
  <2> QED
    BY <2>1, <2>2, IdentityKept, CallStep
<1>2. CASE UpNext
  <2>1. CASE \/ \E cfg \in Configs : EditServer(cfg)
             \/ SaveSettings \/ RemoveServer
             \/ \E p \in Profiles : ReplaceProfile(p)
    BY <2>1, InvChange
  <2>2. CASE PublishClient
    BY <2>2, InvPublish
  <2>3. CASE LoginAll \/ ReconnectJob \/ Reconnect \/ HealthCheck \/ RetryCaptured
    BY <2>3, InvCallers
  <2>4. ASSUME NEW t \in Tokens, NEW who \in Clients, Capture(t, who) PROVE UpInv'
    BY <2>4, InvCapture
  <2>5. ASSUME NEW c \in Callers, BeginLogin(c) \/ LoginSucceeds(c) \/ LoginFails(c) PROVE UpInv'
    BY <2>5, InvBegin, InvSucceeds, InvFails
  <2>6. ASSUME NEW i \in DOMAIN objs, RequestRejected(i) \/ Recover(i) \/ WindowEnds(i) PROVE UpInv'
    BY <2>6, InvRejected, InvRecover, InvWindow
  <2>7. CASE Restart
    BY <2>7, InvRestart
  <2>8. ASSUME NEW t \in Tokens, LocalLogout(t) PROVE UpInv'
    BY <2>8, InvLogout
  <2> QED
    BY <1>2, <2>1, <2>2, <2>3, <2>4, <2>5, <2>6, <2>7, <2>8 DEF UpNext
<1> QED
  BY <1>1, <1>2

-------------------------------------------------------------------------------
(* The theorems.                                                           *)

\* Every object a step can reach, the one being published too, is sound, and every login
\* under way presents the identity of its object (loginWithHeaders).
THEOREM ClientsSound == UpSpec => []UpInv
<1>1. UpInit => UpInv
  BY InvInit
<1>2. UpInv /\ [UpNext]_upVars => UpInv'
  BY InvNext
<1> QED
  BY <1>1, <1>2, PTL DEF UpSpec

\* An attestation describes the credential it stands beside, and a resident session was
\* granted to the identity version its client presents: for any number of objects built by
\* Reload and publishUAChanges, and logins that finish on replaced ones (loginWithHeaders).
THEOREM SessionsBelong == UpSpec => []SessionsAreTheirOwn
<1>1. UpInv => SessionsAreTheirOwn
  BY DEF UpInv, ObjectSound, SessionsAreTheirOwn
<1> QED
  BY <1>1, ClientsSound, PTL

\* However many requests are rejected at once, the debounce window that opens starts one
\* recovery (requestAuthRecovery, handleUpstreamAuthError).
THEOREM WindowsRecoverOnce == UpSpec => []OneRecoveryPerWindow
<1>1. UpInv => OneRecoveryPerWindow
  BY DEF UpInv, ObjectSound, OneRecoveryPerWindow
<1> QED
  BY <1>1, ClientsSound, PTL
================================================================================
