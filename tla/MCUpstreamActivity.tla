--------------------------- MODULE MCUpstreamActivity ---------------------------
(* Small instances of UpstreamActivity, one part of the behaviour at a     *)
(* time: "samples" reorders the answers of one play session, "stops" ends  *)
(* and evicts sessions of two, "accounts" edits and deletes the server     *)
(* around two events, the second of which qualifies the session.           *)
EXTENDS UpstreamActivity

VARIABLE focus

CONSTANTS a1, a2, p1, p2

TheAccounts == {a1, a2}
ThePlays == {p1, p2}
TheHandlers == {1, 2}

UsesHandlers == CASE focus = "accounts" -> {1} [] OTHER -> Handlers
UsesPlays == IF focus = "stops" THEN Plays ELSE {p1}
UsesPositions == IF focus = "samples" THEN Positions \union {None} ELSE {now}
UsesKinds == IF focus = "stops" THEN {"Report", "Stopped"} ELSE {"Report"}

MCInit == Init /\ account = a1 /\ focus \in {"samples", "stops", "accounts"}

Reports(h) ==
  \/ \E kind \in UsesKinds, play \in UsesPlays \union (IF focus = "accounts" THEN {None} ELSE {}), pos \in UsesPositions :
        Begin(h, kind, play, pos)
  \/ Unconfirmed(h) \/ NotAllowed(h) \/ ConfirmScope(h) \/ ReadThreshold(h)
  \/ Observe(h) \/ Record(h) \/ MarkRecord(h) \/ FinishStop(h)

Admin ==
  \/ ShowActivity(form = NoForm)
  \/ \E enabled \in {TRUE}, min \in Thresholds, manual \in {0, now} : SavePolicy(enabled, min, manual)
  \/ \E a \in Accounts \union {Blank} : EditAccount(a)
  \/ DeleteServer \/ ExpireCache \/ Restart

MCNext ==
  /\ \/ \E h \in UsesHandlers : Reports(h)
     \/ focus = "accounts" /\ Admin
     \/ Tick
  /\ focus # "stops" => cache' # 0
  /\ focus # "samples" => now' < MaxTime
  /\ focus = "accounts" => seq' < MaxEvents /\ now' < MaxTime - 1
  /\ UNCHANGED focus

MCSpec == MCInit /\ [][MCNext]_<<vars, focus>>
=================================================================================
