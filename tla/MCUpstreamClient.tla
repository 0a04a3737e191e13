-------------------------- MODULE MCUpstreamClient --------------------------
(* An instance of UpstreamClient for TLC.  The inputs of the environment are  *)
(* split over three scenarios, chosen in the initial state, so that the runs  *)
(* of each stay small; the goroutines of the proxy run in all of them.        *)
EXTENDS UpstreamClient

CONSTANTS t1, c1, p1, a1, a2

VARIABLE focus

C(site, mode, account, apikey) ==
    [site |-> site, mode |-> mode, profile |-> p1, account |-> account, apikey |-> apikey]

MCTokens == {t1}
MCClients == {c1}
MCKeys == {"s1"} \X {"passthrough", "resident"}
MCProfiles == {p1}
MCConfigs == {C("s1", "passthrough", a1, FALSE), C("s1", "passthrough", a2, TRUE),
              C("s1", "resident", a1, FALSE)}

Edits == \/ \E cfg \in Configs : EditServer(cfg)
         \/ SaveSettings \/ RemoveServer
         \/ \E p \in Profiles : ReplaceProfile(p)
Answers == \E i \in DOMAIN objs : RequestRejected(i)
Clicks == Reconnect
Captures == \/ \E t \in Tokens, who \in Clients : Capture(t, who)
            \/ \E t \in Tokens : LocalLogout(t)

MCInit == /\ UpInit /\ focus \in {"edits", "answers", "captures"}
          /\ focus # "captures" => idDisk.latest # Spoofed

MCNext == /\ UpNext
          /\ focus' = focus
          /\ focus # "edits" => ~Edits
          /\ focus # "answers" => ~(Answers \/ Clicks)
          /\ focus # "captures" => ~(Captures \/ Restart)

MCSpec == MCInit /\ [][MCNext]_<<upVars, focus>> /\ UpFairness
=============================================================================
