---------------------------- MODULE MCAdminConfig ----------------------------
(* Instances of AdminConfig for TLC: the bindings of two servers to resident  *)
(* identities, the library lists and hidden libraries of one server, and the  *)
(* fields of the file, explored in turns.                                     *)
EXTENDS AdminConfig, TLC

CONSTANTS s1, s2, r1, r2, p1, p2, v1, l1

VARIABLE focus
mcConfigVars == <<configVars, focus>>

Body(url, creds, kind, play, mode, agent) ==
    [url |-> url, creds |-> creds, kind |-> kind, play |-> play, mode |-> mode, agent |-> agent]

BindingBodies == {Body(1, {"account"}, Nothing, Nothing, mode, FALSE) : mode \in {"passthrough", "resident"}}
AddressBodies == {Body(url, {"account"}, Nothing, Nothing, Nothing, FALSE) : url \in Urls}
FieldBodies == {Body(1, {"account"}, Nothing, Nothing, "custom", TRUE),
                Body(Nothing, {"apiKey"}, "apiKey", "redirect", Nothing, FALSE),
                Body(Nothing, {"account"}, "account", "proxy", "passthrough", FALSE)}
TheBodies == BindingBodies \cup AddressBodies \cup FieldBodies

IdSymmetry == Permutations({s1, s2}) \cup Permutations({r1, r2}) \cup Permutations({p1, p2})

Edits(bodies) == \E v \in Views, b \in bodies :
    \/ \E id \in ServerIds : CreateServer(id, v, b)
    \/ \E id \in Ids : UpdateServer(id, v, b)

Ends == \E j \in jobs : \/ SaveConfig(j) \/ ConfigSaveFails(j)
                      \/ RebuildPool(j) \/ ForgetHidden(j) \/ ForgetList(j)

Bindings ==
    \/ \E r \in DOMAIN library.residents : Open(r)
    \/ Edits(BindingBodies)
    \/ \E v \in Views, a, b \in SUBSET Ids : Cardinality(b) < 2 /\ Assign(v, a, b)
    \/ Library
    \/ \E id \in Ids : DeleteServer(id)

Lists ==
    \/ Edits(AddressBodies)
    \/ \E id \in Ids : DeleteServer(id)
    \/ \E i \in DOMAIN pool : RequestList(i)
    \/ \E l \in listing : ReceiveList(l)
    \/ \E u \in Viewers :
        \/ \E s \in ServerIds, set \in SUBSET Libraries : SetServerHidden(u, s, set)
        \/ RemoveUser(u)
        \/ \E kept \in SUBSET ServerIds : PruneUserServers(u, kept)

Fields ==
    \/ Edits(FieldBodies)
    \/ \E i, k \in Indexes : Reorder(i, k)
    \/ \E id \in Ids : ToggleAggregation(id)
    \/ \E play \in Plays, grace \in Graces : SaveSettings(play, grace)

MCConfigInit == ConfigInit /\ focus \in {"bindings", "lists", "fields"}
MCConfigNext ==
    /\ \/ focus = "bindings" /\ Bindings
       \/ focus = "lists" /\ Lists
       \/ focus = "fields" /\ Fields
       \/ Ends
       \/ ConfigRestart /\ (focus # "bindings" => readable')
    /\ UNCHANGED focus
MCConfigSpec == MCConfigInit /\ [][MCConfigNext]_mcConfigVars
==============================================================================
