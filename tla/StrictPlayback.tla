----------------------------- MODULE StrictPlayback -----------------------------
(***************************************************************************)
(* The strict playback path: the HTTP handlers of one attempt, from        *)
(* PlaybackInfo to the last stop, over the binding store and the           *)
(* concurrent playback limit.                                              *)
(*                                                                         *)
(* The two components keep their own locks; a handler calls them one after *)
(* the other, talks to the upstream in between, and works on the snapshot  *)
(* of the binding it leased.  A request is a process with a program        *)
(* counter and every call that takes a lock is one step, so every          *)
(* interleaving of the handlers is a behaviour.  The capability, the       *)
(* grants, the ratings and the request body decide only whether a request  *)
(* goes on: Refuse is their early return.  What an applied event writes to *)
(* the local watch store is left out.                                      *)
(*                                                                         *)
(*   first use   claim -> ensure (-> switch) -> activate (-> giveUp)       *)
(*   report      check -> send -> resolve -> slot                          *)
(*   Stopped     check -> begin -> send -> confirm -> slot -> retire -> end *)
(*   the others  check -> begin -> send -> confirm -> retire -> slot -> end *)
(***************************************************************************)
EXTENDS Integers, FiniteSets

CONSTANTS
    Attempts, Users, Servers, Items, Aliases, None,
    UpstreamPlay,   \* the PlaySessionId of the PlaybackInfo response
    Requests,       \* bound: requests to attempts, each served once
    Ops,            \* what the requests do
    Limits, Timeout, MaxVersion,
    MaxNegotiations,    \* bound: reservations made
    PendingTTL, ActiveTTL, TerminalTTL, MaxEntries, MaxPerUser

CleanupOps == {"Stopped", "ActiveEncodings", "PlayingItems"}
Reports == {"started", "progress"}

ASSUME OpsAssumption == Ops \subseteq CleanupOps \cup Reports \cup {"stream"}
ASSUME LimitAssumption == 0 \notin Limits
ASSUME NoneAssumption ==
    UpstreamPlay \notin Attempts \cup {None} /\ None \notin Attempts \cup Items

VARIABLES
    streams, nextVersion, tokens, switches, last,   \* the limiter
    entries, perUser, activationSequence,           \* the binding store
    open,           \* negotiations still running: their reservation and item
    origin,         \* the negotiation an attempt was reserved in
    published,      \* attempts a client knows
    requests        \* the requests to attempts

slotVars == <<streams, nextVersion, tokens, switches, last>>
storeVars == <<entries, perUser, activationSequence>>
negotiationVars == <<open, origin, published>>
vars == <<slotVars, storeVars, negotiationVars, requests>>

Slots == INSTANCE PlaybackLimiter WITH
    Sessions <- Attempts, PlaySessions <- Attempts \cup {UpstreamPlay},
    MaxTokens <- MaxNegotiations, MaxSwitches <- Cardinality(Requests)
Store == INSTANCE PlaybackIdentityStore WITH
    Accounts <- Servers, Operations <- CleanupOps \cap Ops,
    MaxLeases <- Cardinality(Requests)

-------------------------------------------------------------------------------
NoToken == [key |-> None, version |-> 0]
NoSwitch == [key |-> None]
NotServed == [pc |-> "idle", op |-> None, attempt |-> None, acked |-> FALSE,
              late |-> FALSE, switch |-> NoSwitch]

\* The attempt is stored, in time, and neither stopping nor ended.
Resolves(a) == Store!Found(entries[a]) /\ entries[a].state \in Store!Workable

\* Both identity fields of a strict session event carry the attempt.
SlotIdentity(a) == [session |-> a, play |-> a]
ServerOf(a) == entries[a].account
UserOf(a) == entries[a].user
ItemOf(a) == entries[a].item

Init ==
    /\ Slots!Init
    /\ Store!Init
    /\ open = {}
    /\ origin = [a \in Attempts |-> NoToken]
    /\ published = {}
    /\ requests = [r \in Requests |-> NotServed]

Goto(r, pc) == requests' = [requests EXCEPT ![r].pc = pc]
At(r, pc) == requests[r].pc = pc
IsCleanup(r) == requests[r].op \in CleanupOps

-------------------------------------------------------------------------------
(* PlaybackInfo.  The reservation is released when the negotiation fails   *)
(* and kept by every candidate when it succeeds.                           *)

Negotiate(u, s, i, max) ==
    /\ nextVersion < MaxNegotiations
    /\ Slots!TryReserve(u, s, i, max)
    /\ open' = open \cup {[token |-> t, item |-> i] : t \in tokens' \ tokens}
    /\ UNCHANGED <<storeVars, origin, published, requests>>

Candidate(n, a) ==
    /\ n \in open
    /\ UserOf(a) = n.token.key[1] /\ ItemOf(a) = n.item
    /\ Store!Reserve(a)
    /\ origin' = IF entries'[a].state = "pending" THEN [origin EXCEPT ![a] = n.token] ELSE origin
    /\ UNCHANGED <<slotVars, open, published, requests>>

BindCandidate(n, a, alias) ==
    /\ n \in open /\ origin[a] = n.token
    /\ Store!BindAlias(a, alias)
    /\ UNCHANGED <<slotVars, negotiationVars, requests>>

\* The unit is bound to the PlaySessionId of the response.
BindResponse(n) ==
    /\ n \in open
    /\ Slots!BindReservationPlaySession(n.token, UpstreamPlay)
    /\ UNCHANGED <<storeVars, negotiationVars, requests>>

\* Unused candidates, and all of a negotiation that failed.
FailCandidate(a) ==
    /\ origin[a] # NoToken /\ a \notin published
    /\ Store!Finish(a, "failed")
    /\ UNCHANGED <<slotVars, negotiationVars, requests>>

Commit(n) ==
    LET used == {a \in Attempts : origin[a] = n.token /\ entries[a].state = "pending"} IN
    /\ n \in open
    /\ used # {} /\ \A a \in used : Store!Found(entries[a])
    /\ open' = open \ {n}
    /\ published' = published \cup used
    /\ UNCHANGED <<slotVars, storeVars, origin, requests>>

Abort(n) ==
    /\ n \in open
    /\ Slots!ReleaseReservation(n.token)
    /\ open' = open \ {n}
    /\ UNCHANGED <<storeVars, origin, published, requests>>

-------------------------------------------------------------------------------
(* The ingress: lease the binding, claim the unit and activate a candidate *)
(* that is used for the first time.  A stop never activates.               *)

FirstStep(a, op) ==
    IF op \in CleanupOps
    THEN IF op \in entries[a].confirmed THEN "leave" ELSE "check"
    ELSE IF entries[a].state = "pending" THEN "claim" ELSE "check"

Admit(r, a, op) ==
    /\ At(r, "idle") /\ a \in published
    /\ IF op \in CleanupOps THEN Store!LeaseCleanup(a) ELSE Store!Lease(a)
    /\ requests' = [requests EXCEPT ![r].op = op, ![r].attempt = a, ![r].pc = FirstStep(a, op)]
    /\ UNCHANGED <<slotVars, negotiationVars>>

\* Grants, ratings, an offline source, a body that names something else; or a
\* stream, which is served without another step here.
Refuse(r) ==
    /\ requests[r].pc \in {"claim", "check"}
    /\ Goto(r, "leave")
    /\ UNCHANGED <<slotVars, storeVars, negotiationVars>>

\* Faulty: binds whatever unit is there now.
ClaimAnyVersion(r) ==
    LET a == requests[r].attempt IN
    /\ At(r, "claim")
    /\ streams' = [streams EXCEPT ![origin[a].key].bound = a]
    /\ Goto(r, "ensure")
    /\ UNCHANGED <<nextVersion, tokens, switches, last, storeVars, negotiationVars>>

Claim(r) ==
    LET a == requests[r].attempt
        t == origin[a]
    IN  /\ At(r, "claim")
        /\ IF streams[t.key].version = t.version
           THEN Slots!BindReservationPlaySession(t, a)
           ELSE UNCHANGED slotVars
        /\ Goto(r, "ensure")
        /\ UNCHANGED <<storeVars, negotiationVars>>

Ensure(r) ==
    LET a == requests[r].attempt
        u == UserOf(a)
        s == ServerOf(a)
        from == origin[a].key[2]
    IN  /\ At(r, "ensure")
        /\ \/ /\ \E max \in Limits : Slots!EnsureStreamSlot(u, s, from, ItemOf(a), a, max)
              /\ IF from = s THEN Goto(r, "activate")
                 ELSE \E w \in switches' \ switches :
                         requests' = [requests EXCEPT ![r].pc = "switch", ![r].switch = w]
           \/ /\ \E max \in Limits : Slots!RefuseStream(u, s, max)
              /\ Goto(r, "leave")
        /\ UNCHANGED <<storeVars, negotiationVars>>

Switch(r) ==
    /\ At(r, "switch")
    /\ Slots!ReleaseSwitchedSource(requests[r].switch)
    /\ requests' = [requests EXCEPT ![r].pc = "activate", ![r].switch = NoSwitch]
    /\ UNCHANGED <<storeVars, negotiationVars>>

Activate(r) ==
    LET a == requests[r].attempt IN
    /\ At(r, "activate")
    /\ \/ /\ Store!Activate(a)
          /\ Goto(r, IF entries'[a].state = "active" THEN "check" ELSE "giveUp")
       \/ /\ ~Resolves(a)
          /\ Goto(r, "giveUp")
          /\ UNCHANGED storeVars
    /\ UNCHANGED <<slotVars, negotiationVars>>

\* The local end of an attempt: a stop with the attempt's own identity.
FinishLocally(a) ==
    Slots!SessionEvent("stopped", <<UserOf(a), ServerOf(a)>>, ItemOf(a), SlotIdentity(a))

\* Faulty: the unit claimed for the activation that failed stays.
GiveUpKeepsUnit(r) ==
    /\ At(r, "giveUp")
    /\ Goto(r, "leave")
    /\ UNCHANGED <<slotVars, storeVars, negotiationVars>>

GiveUp(r) ==
    /\ At(r, "giveUp")
    /\ FinishLocally(requests[r].attempt)
    /\ Goto(r, "leave")
    /\ UNCHANGED <<storeVars, negotiationVars>>

-------------------------------------------------------------------------------
(* Before the upstream: a newer attempt that shares the cleanup scope      *)
(* stops the request; a report needs a workable binding; a stop closes     *)
(* admission and claims its operation.                                     *)

Check(r) ==
    LET a == requests[r].attempt
        op == requests[r].op
    IN  /\ At(r, "check") /\ op # "stream"
        /\ Goto(r,
             IF Store!NewerActiveAlias(a, op)
             THEN IF IsCleanup(r) THEN "superseded" ELSE "leave"
             ELSE IF IsCleanup(r)
             THEN IF op = "ActiveEncodings" /\ entries[a].alias = None THEN "leave" ELSE "begin"
             ELSE IF Resolves(a) THEN "send" ELSE "leave")
        /\ UNCHANGED <<slotVars, storeVars, negotiationVars>>

Begin(r) ==
    LET a == requests[r].attempt
        op == requests[r].op
        e == entries[a]
    IN  /\ At(r, "begin")
        /\ \/ /\ Store!BeginCleanup(a, op)
              /\ Goto(r, "send")
           \/ /\ ~(/\ Store!Found(e) /\ e.state # "failed" /\ op \notin e.confirmed
                   /\ op \notin e.inFlight /\ ~Store!NewerActiveAlias(a, op))
              /\ Goto(r, IF /\ Store!Found(e) /\ e.state # "failed" /\ op \notin e.confirmed
                            /\ Store!NewerActiveAlias(a, op)
                         THEN "superseded" ELSE "leave")
              /\ UNCHANGED storeVars
        /\ UNCHANGED <<slotVars, negotiationVars>>

\* A superseded stop ends the attempt locally and sends nothing.
Superseded(r) ==
    /\ At(r, "superseded")
    /\ FinishLocally(requests[r].attempt)
    /\ Goto(r, "fail")
    /\ UNCHANGED <<storeVars, negotiationVars>>

Fail(r) ==
    LET a == requests[r].attempt IN
    /\ At(r, "fail")
    /\ IF Store!Found(entries[a]) THEN Store!Finish(a, "failed") ELSE UNCHANGED storeVars
    /\ Goto(r, "leave")
    /\ UNCHANGED <<slotVars, negotiationVars>>

-------------------------------------------------------------------------------
(* The upstream answers, or cannot be reached.  Only an accepted stop is   *)
(* confirmed; every stop releases the unit.                                *)

Delivered(r) ==
    /\ At(r, "send")
    /\ IF IsCleanup(r)
       THEN requests' = [requests EXCEPT ![r].pc = "confirm", ![r].acked = TRUE]
       ELSE Goto(r, "resolve")
    /\ UNCHANGED <<slotVars, storeVars, negotiationVars>>

\* A lost connection may have delivered a report, so it is applied; after a
\* refusal, a failed preparation or without a source it is not.
NotDelivered(r) ==
    /\ At(r, "send")
    /\ IF IsCleanup(r) THEN Goto(r, "slot") ELSE Goto(r, "resolve") \/ Goto(r, "leave")
    /\ UNCHANGED <<slotVars, storeVars, negotiationVars>>

\* Faulty: the acknowledgment is not recorded.
ConfirmForgotten(r) ==
    /\ At(r, "confirm")
    /\ Goto(r, IF requests[r].op = "Stopped" THEN "slot" ELSE "retire")
    /\ UNCHANGED <<slotVars, storeVars, negotiationVars>>

Confirm(r) ==
    LET a == requests[r].attempt
        op == requests[r].op
    IN  /\ At(r, "confirm")
        /\ IF Store!Found(entries[a]) THEN Store!ConfirmCleanup(a, op) ELSE UNCHANGED storeVars
        /\ Goto(r, IF op = "Stopped" THEN "slot" ELSE "retire")
        /\ UNCHANGED <<slotVars, negotiationVars>>

\* A report already in flight when a stop began is not applied.
Resolve(r) ==
    /\ At(r, "resolve")
    /\ Goto(r, IF Resolves(requests[r].attempt) THEN "slot" ELSE "leave")
    /\ UNCHANGED <<slotVars, storeVars, negotiationVars>>

-------------------------------------------------------------------------------
(* The local bookkeeping.  late: history, a report was applied although    *)
(* its attempt no longer resolved.                                         *)

Slot(r) ==
    LET req == requests[r]
        a == req.attempt
    IN  /\ At(r, "slot")
        /\ Slots!SessionEvent(IF IsCleanup(r) THEN "stopped" ELSE req.op,
                              <<UserOf(a), ServerOf(a)>>, ItemOf(a), SlotIdentity(a))
        /\ IF IsCleanup(r)
           THEN Goto(r, IF req.op = "Stopped" /\ req.acked THEN "retire" ELSE "end")
           ELSE requests' = [requests EXCEPT ![r].pc = "leave", ![r].late = ~Resolves(a)]
        /\ UNCHANGED <<storeVars, negotiationVars>>

\* Faulty: writes the state the request decided on, whatever the binding is now.
RetireFromSnapshot(r) ==
    /\ At(r, "retire")
    /\ entries' = [entries EXCEPT ![requests[r].attempt].state = "retired",
                                     ![requests[r].attempt].age = 0]
    /\ Goto(r, IF requests[r].op = "Stopped" THEN "end" ELSE "slot")
    /\ UNCHANGED <<slotVars, perUser, activationSequence, negotiationVars>>

\* Only a confirmed stop retires the binding; the other two cleanups release the
\* unit after that, on their way out.
Retire(r) ==
    LET a == requests[r].attempt IN
    /\ At(r, "retire")
    /\ IF Store!Found(entries[a]) THEN Store!Finish(a, "retired") ELSE UNCHANGED storeVars
    /\ Goto(r, IF requests[r].op = "Stopped" THEN "end" ELSE "slot")
    /\ UNCHANGED <<slotVars, negotiationVars>>

\* Faulty: the claim of the operation is kept.
EndForgotten(r) ==
    /\ At(r, "end")
    /\ Goto(r, "leave")
    /\ UNCHANGED <<slotVars, storeVars, negotiationVars>>

End(r) ==
    /\ At(r, "end")
    /\ Store!EndCleanup(requests[r].attempt, requests[r].op)
    /\ Goto(r, "leave")
    /\ UNCHANGED <<slotVars, negotiationVars>>

Leave(r) ==
    /\ At(r, "leave")
    /\ Store!Release(requests[r].attempt)
    /\ requests' = [requests EXCEPT ![r] =
          IF @.acked \/ @.late THEN [@ EXCEPT !.pc = "done"]
          ELSE [NotServed EXCEPT !.pc = "done"]]
    /\ UNCHANGED <<slotVars, negotiationVars>>

-------------------------------------------------------------------------------
(* Time, the janitor of the limiter, and the pruning every call of the     *)
(* store starts with, those of requests that are turned away included.     *)

Tick ==
    /\ \/ \E k \in Slots!Key : Slots!Active(k)
       \/ \E a \in Attempts : Store!Found(entries[a])
    /\ IF \E k \in Slots!Key : Slots!Active(k) THEN Slots!Tick ELSE UNCHANGED slotVars
    /\ IF \E a \in Attempts : Store!Found(entries[a]) THEN Store!Tick ELSE UNCHANGED storeVars
    /\ UNCHANGED <<negotiationVars, requests>>

Janitor ==
    /\ Slots!Cleanup
    /\ UNCHANGED <<storeVars, negotiationVars, requests>>

Prune ==
    /\ Store!Cleanup
    /\ UNCHANGED <<slotVars, negotiationVars, requests>>

PlaybackInfo ==
    \/ \E u \in Users, s \in Servers, i \in Items, max \in Limits : Negotiate(u, s, i, max)
    \/ \E n \in open :
          \/ \E a \in Attempts : Candidate(n, a) \/ \E x \in Aliases : BindCandidate(n, a, x)
          \/ BindResponse(n)
          \/ Commit(n)
          \/ Abort(n)
    \/ \E a \in Attempts : FailCandidate(a)

\* What a request that was admitted does next.
Step(r) ==
    \/ Refuse(r) \/ Claim(r) \/ Ensure(r) \/ Switch(r) \/ Activate(r) \/ GiveUp(r)
    \/ Check(r) \/ Begin(r) \/ Superseded(r) \/ Fail(r)
    \/ Delivered(r) \/ NotDelivered(r) \/ Confirm(r) \/ Resolve(r)
    \/ Slot(r) \/ Retire(r) \/ End(r) \/ Leave(r)

Next ==
    \/ PlaybackInfo
    \/ \E r \in Requests : Step(r) \/ \E a \in Attempts, op \in Ops : Admit(r, a, op)
    \/ Tick
    \/ Janitor
    \/ Prune

\* A handler that runs goes on: upstream calls time out and no lock is held
\* across one.
Spec == Init /\ [][Next]_vars /\ \A r \in Requests : WF_vars(Step(r))

-------------------------------------------------------------------------------
(* Properties.                                                             *)

Steps == {"claim", "ensure", "switch", "activate", "giveUp", "check", "begin",
          "superseded", "fail", "send", "confirm", "resolve", "slot",
          "retire", "end", "leave"}

TypeOK ==
    /\ Slots!TypeOK
    /\ Store!TypeOK
    /\ origin \in [Attempts -> Slots!Token \cup {NoToken}]
    /\ published \subseteq Attempts
    /\ \A n \in open : n.token \in tokens /\ n.item \in Items
    /\ \A r \in Requests : requests[r].pc \in Steps => requests[r].attempt \in published

Running(a) == {r \in Requests : requests[r].attempt = a /\ requests[r].pc \in Steps}
HoldsUnit(a) ==
    \E k \in Slots!Key :
        Slots!Active(k) /\ Slots!LiveClaim(streams[k]) /\ streams[k].claim.play = a

\* No attempt that was stopped keeps a capacity unit once its requests are done,
\* whatever the upstream answered, whatever was negotiated meanwhile, and whichever
\* first request of the attempt was between its claim and its activation when the
\* stop came - unless a report of it was already past its last check.
StoppedAttemptHoldsNoUnit ==
    \A a \in Attempts :
        /\ entries[a].state \in {"stopping", "retired"} /\ Running(a) = {}
        /\ \A r \in Requests : requests[r].late => requests[r].attempt # a
        => ~HoldsUnit(a)

\* A stop on its way to the upstream spares every newer attempt that shares its
\* scope, and no other request sends the same operation or ever had it accepted.
AtUpstream(r) == At(r, "send") /\ IsCleanup(r)
SameOperation(r, q) ==
    /\ requests[r].attempt = requests[q].attempt
    /\ requests[r].op = requests[q].op
StopsSentOnce ==
    \A r \in Requests : AtUpstream(r) =>
        LET a == requests[r].attempt
            op == requests[r].op
        IN  /\ \A b \in Attempts :
                  /\ entries[b].state = "active" /\ ~Store!Expired(entries[b])
                  /\ Store!RemoteConflict(entries[b], entries[a], op)
                  => entries[b].seq <= entries[a].seq
            /\ \A q \in Requests \ {r} : SameOperation(r, q) =>
                  ~AtUpstream(q) /\ ~(requests[q].acked /\ Store!Found(entries[a]))

\* The handlers use the limiter and the store only in ways their own
\* specifications allow, so that what is proved of those holds here.
UsesSlots == Slots!Init /\ [][Slots!Next]_slotVars
UsesStore == Store!Init /\ [][Store!Next]_storeVars

\* A binding that left the workable states is let go: every lease and every
\* cleanup claim of it ends, although cleanups may still be retried.
DrainedBindingIsLetGo ==
    \A a \in Attempts :
        entries[a].state \in {"stopping", "retired", "failed"}
            ~> entries[a].leases = 0 /\ entries[a].inFlight = {}

===============================================================================
