--------------------------- MODULE ClientIdentity ---------------------------
(* The captured client identities of passthrough upstreams (identity.go,      *)
(* identity_persistence.go): per local token, per upstream key (the last one  *)
(* a login succeeded with) and the latest of all, the last two on disk too.   *)
(* A header set is abstracted to the client it identifies, None when it       *)
(* identifies nobody; Spoofed is the entry an old version used to write.      *)
EXTENDS Naturals, Sequences

CONSTANTS Tokens, Keys, Clients, Spoofed, None
ASSUME NobodyIsNoClient == None \notin Clients \cup Tokens /\ Spoofed \notin Clients

VARIABLES captured,     \* [Tokens -> client or None]: entries
          latest,       \* latestCaptured
          lastSuccess,  \* [Keys -> client or None]: lastSuccessByServer
          idDisk        \* [latest, last]: captured-headers.json

idVars == <<captured, latest, lastSuccess, idDisk>>

Nobody == [k \in Keys |-> None]

Real(who) == who \in Clients

\* Entries of the removed built-in profile are dropped when the file is read.
Loaded(who) == IF who = Spoofed THEN None ELSE who

IdentityLoad ==
    /\ captured' = [t \in Tokens |-> None]
    /\ latest' = Loaded(idDisk.latest)
    /\ lastSuccess' = [k \in Keys |-> Loaded(idDisk.last[k])]
    /\ UNCHANGED idDisk

\* The sources of an identity in the order they are tried.
Sources(override, live, token, key) ==
    << [from |-> "override",    who |-> override],
       [from |-> "live",        who |-> live],
       [from |-> "token",       who |-> IF token \in Tokens THEN captured[token] ELSE None],
       [from |-> "lastSuccess", who |-> lastSuccess[key]],
       [from |-> "latest",      who |-> latest] >>

ResolvePassthrough(override, live, token, key) ==
    LET all   == Sources(override, live, token, key)
        known == {i \in DOMAIN all : all[i].who # None}
    IN  IF known = {} THEN [from |-> "none", who |-> None]
        ELSE all[CHOOSE i \in known : \A j \in known : i <= j]

HasCapturedHeaders(key) == Real(lastSuccess[key]) \/ Real(latest)

SetCaptured(token, who) ==
    /\ Real(who)
    /\ captured' = [captured EXCEPT ![token] = who]
    /\ latest' = who
    /\ idDisk' = [idDisk EXCEPT !.latest = who]
    /\ UNCHANGED lastSuccess

DeleteCaptured(token) ==
    /\ captured' = [captured EXCEPT ![token] = None]
    /\ UNCHANGED <<latest, lastSuccess, idDisk>>

\* recordSuccessfulIdentity: the identity of a login that succeeded becomes the
\* upstream's last success and, unless it came from there, the latest one too.
RecordSuccess(key, r) ==
    LET newest == r.from # "lastSuccess" /\ Real(r.who)
    IN  /\ lastSuccess' = [lastSuccess EXCEPT ![key] = r.who]
        /\ latest' = IF newest THEN r.who ELSE latest
        /\ idDisk' = [latest |-> IF newest THEN r.who ELSE idDisk.latest,
                      last   |-> [idDisk.last EXCEPT ![key] = r.who]]
        /\ UNCHANGED captured
=============================================================================
