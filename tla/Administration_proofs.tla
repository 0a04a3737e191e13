-------------------------- MODULE Administration_proofs --------------------------
(* Proofs about what an administrator changes.  First the proxy tokens and *)
(* the handlers of accounts and sessions, for every set of owners, serial  *)
(* numbers and handlers: the token map of AuthManager alone, then that the *)
(* handlers use it as it allows, and what they add.  Then the              *)
(* configuration, the library of client identities, the pool of clients    *)
(* and the hidden libraries, for every set of servers, residents,          *)
(* identities, addresses, edits and viewers.                               *)
EXTENDS Accounts, AdminConfig, FiniteSetTheorems, TLAPS

-----------------------------------------------------------------------------
(* The token map.                                                          *)

\* The strengthening: a token is in one place only, in memory or with the one
\* handler that took it out, so that only this handler can put it back, and what
\* was reported as revoked is in none; a login takes nothing out.
TakenApart ==
    /\ \A h \in Handlers : calls[h].taken \cap tokens = {} /\ calls[h].taken \subseteq spent
    /\ \A g, h \in Handlers : g # h => calls[g].taken \cap calls[h].taken = {}
OnlyRevocationsTake ==
    \A h \in Handlers : calls[h].taken # {} => calls[h].at \in {"saveRevoke", "putBack"}
RevokedNowhere == revoked \cap (tokens \cup Pending) = {}
IInv ==
    /\ TypeOK /\ TakenApart /\ OnlyRevocationsTake
    /\ RevokedNowhere /\ RestartRevivesNothing

LEMMA PendingMeans ==
    \A t : t \in Pending <=> \E h \in Handlers : t \in calls[h].taken
BY DEF Pending

LEMMA InvInit == Init => IInv
BY DEF Init, IInv, TypeOK, TakenApart, OnlyRevocationsTake, RevokedNowhere,
       RestartRevivesNothing, Pending, NoCall, Call, Stages

\* A handler that takes tokens out of the map keeps the invariant.
LEMMA InvTake ==
    ASSUME IInv, NEW h \in Handlers, Idle(h), NEW taken \in SUBSET tokens, Take(h, taken)
    PROVE  IInv'
<1> USE DEF IInv
<1>1. calls[h].taken = {}
  BY DEF Idle, OnlyRevocationsTake
<1>2. TypeOK'
  BY DEF Take, Enter, TypeOK, Call, Stages
<1>3. \A g \in Handlers : calls'[g].taken = IF g = h THEN taken ELSE calls[g].taken
  BY DEF Take, Enter, TypeOK
<1>4. TakenApart'
  BY <1>3 DEF Take, TypeOK, TakenApart
<1>5. OnlyRevocationsTake'
  BY <1>2 DEF Take, Enter, TypeOK, OnlyRevocationsTake
<1>6. \A t : t \in Pending' <=> t \in Pending \/ t \in taken
  BY <1>1, <1>3 DEF Pending
<1>7. RevokedNowhere' /\ RestartRevivesNothing'
  BY <1>6 DEF Take, RevokedNowhere, RestartRevivesNothing, TypeOK
<1> QED
  BY <1>2, <1>4, <1>5, <1>7

\* What happens to the tokens in flight when a handler is done.
LEMMA DoneTakes ==
    ASSUME IInv, NEW h \in Handlers, Done(h)
    PROVE  /\ calls' \in [Handlers -> Call]
           /\ \A g \in Handlers : calls'[g].taken = IF g = h THEN {} ELSE calls[g].taken
           /\ \A t : t \in Pending' <=> t \in Pending /\ t \notin calls[h].taken
           /\ OnlyRevocationsTake'
<1>1. \A g \in Handlers : calls'[g] = IF g = h THEN NoCall ELSE calls[g]
  BY DEF IInv, TypeOK, Done
<1>2. calls' \in [Handlers -> Call]
  BY DEF IInv, TypeOK, Done, NoCall, Call, Stages
<1>3. \A g \in Handlers : calls'[g].taken = IF g = h THEN {} ELSE calls[g].taken
  BY <1>1 DEF NoCall
<1>4. \A t : t \in Pending' <=> t \in Pending /\ t \notin calls[h].taken
  BY <1>3 DEF Pending, IInv, TakenApart
<1>5. OnlyRevocationsTake'
  BY <1>1 DEF IInv, OnlyRevocationsTake, NoCall
<1> QED
  BY <1>2, <1>3, <1>4, <1>5

LEMMA InvIssue ==
    ASSUME IInv, NEW h \in Handlers, NEW t \in Token, Issue(h, t)
    PROVE  IInv'
<1> USE DEF IInv
<1>1. calls[h].taken = {}
  BY DEF Issue, Idle, OnlyRevocationsTake
<1>2. calls' \in [Handlers -> Call]
  BY DEF Issue, Enter, TypeOK, Call, Stages
<1>3. \A g \in Handlers : calls'[g].taken = calls[g].taken
  BY <1>1 DEF Issue, Enter, TypeOK
<1>4. TypeOK'
  BY <1>2 DEF Issue, TypeOK
<1>5. TakenApart'
  BY <1>3 DEF Issue, TakenApart
<1>6. OnlyRevocationsTake'
  BY <1>1 DEF Issue, Enter, TypeOK, OnlyRevocationsTake
<1>7. \A s : s \in Pending' <=> s \in Pending
  BY <1>3 DEF Pending
<1>8. RevokedNowhere' /\ RestartRevivesNothing'
  BY <1>7 DEF Issue, TypeOK, RevokedNowhere, RestartRevivesNothing
<1> QED
  BY <1>4, <1>5, <1>6, <1>8

LEMMA InvSave ==
    ASSUME IInv, NEW h \in Handlers, Save(h)
    PROVE  IInv'
<1> USE DEF IInv
<1>1. Done(h)
  BY DEF Save
<1>2. TypeOK'
  BY <1>1, DoneTakes DEF Save, TypeOK, TakenApart
<1>3. TakenApart' /\ OnlyRevocationsTake'
  BY <1>1, DoneTakes DEF Save, TakenApart
<1>4. RevokedNowhere'
  BY <1>1, DoneTakes DEF Save, TakenApart, RevokedNowhere
<1>5. RestartRevivesNothing'
  BY DEF Save, RestartRevivesNothing
<1> QED
  BY <1>2, <1>3, <1>4, <1>5

LEMMA InvSaveFails ==
    ASSUME IInv, NEW h \in Handlers, SaveFails(h)
    PROVE  IInv'
<1> USE DEF IInv
<1>1. /\ calls' \in [Handlers -> Call]
      /\ \A g \in Handlers : calls'[g].taken = calls[g].taken
      /\ OnlyRevocationsTake'
  <2>1. CASE calls[h].at = "saveRevoke"
    BY <2>1 DEF SaveFails, Enter, TypeOK, Call, Stages, OnlyRevocationsTake
  <2>2. CASE calls[h].at # "saveRevoke"
    <3>1. calls[h].taken = {} /\ Done(h)
      BY <2>2 DEF SaveFails, Saving, OnlyRevocationsTake
    <3> QED
      BY <3>1, DoneTakes
  <2> QED
    BY <2>1, <2>2
<1>2. TypeOK'
  BY <1>1 DEF SaveFails, TypeOK
<1>3. TakenApart'
  BY <1>1 DEF SaveFails, TakenApart
<1>4. \A t : t \in Pending' <=> t \in Pending
  BY <1>1 DEF Pending
<1>5. RevokedNowhere' /\ RestartRevivesNothing'
  BY <1>4 DEF SaveFails, RevokedNowhere, RestartRevivesNothing
<1> QED
  BY <1>1, <1>2, <1>3, <1>5

LEMMA InvPutBack ==
    ASSUME IInv, NEW h \in Handlers, PutBack(h)
    PROVE  IInv'
<1> USE DEF IInv
<1>1. Done(h)
  BY DEF PutBack
<1>2. calls[h].taken \subseteq Pending
  BY DEF Pending
<1>3. TypeOK'
  BY <1>1, DoneTakes DEF PutBack, TypeOK, TakenApart
<1>4. TakenApart' /\ OnlyRevocationsTake'
  BY <1>1, DoneTakes DEF PutBack, TakenApart
<1>5. RevokedNowhere' /\ RestartRevivesNothing'
  BY <1>1, <1>2, DoneTakes DEF PutBack, RevokedNowhere, RestartRevivesNothing
<1> QED
  BY <1>3, <1>4, <1>5

\* The process stops: everything in flight is gone.
LEMMA InvStop ==
    ASSUME IInv, Restart \/ Reset
    PROVE  IInv'
<1> USE DEF IInv
<1>1. calls' = [h \in Handlers |-> NoCall] /\ tokens' = file'
  BY DEF Restart, Reset
<1>2. TypeOK'
  BY <1>1 DEF Restart, Reset, TypeOK, NoCall, Call, Stages
<1>3. TakenApart' /\ OnlyRevocationsTake'
  BY <1>1 DEF TakenApart, OnlyRevocationsTake, NoCall
<1>4. Pending' = {}
  BY <1>1 DEF Pending, NoCall
<1>5. RevokedNowhere' /\ RestartRevivesNothing'
  BY <1>4 DEF Restart, Reset, RevokedNowhere, RestartRevivesNothing
<1> QED
  BY <1>2, <1>3, <1>5

LEMMA InvStep == IInv /\ [Next]_vars => IInv'
<1> SUFFICES ASSUME IInv, [Next]_vars PROVE IInv'
  OBVIOUS
<1>1. ASSUME NEW h \in Handlers, NEW t \in Token, Issue(h, t)
      PROVE  IInv'
  BY <1>1, InvIssue
<1>2. ASSUME NEW h \in Handlers, NEW t \in Token, RevokeToken(h, t)
      PROVE  IInv'
  BY <1>2, InvTake DEF RevokeToken
<1>3. ASSUME NEW h \in Handlers, NEW u \in Owners, RevokeTokensByUserID(h, u)
      PROVE  IInv'
  BY <1>3, InvTake DEF RevokeTokensByUserID
<1>4. ASSUME NEW h \in Handlers, RevokeAllTokens(h)
      PROVE  IInv'
  BY <1>4, InvTake DEF RevokeAllTokens
<1>5. ASSUME NEW h \in Handlers, Save(h) \/ SaveFails(h) \/ PutBack(h)
      PROVE  IInv'
  BY <1>5, InvSave, InvSaveFails, InvPutBack
<1>6. CASE Restart \/ Reset
  BY <1>6, InvStop
<1>7. CASE UNCHANGED vars
  BY <1>7 DEF vars, IInv, TypeOK, TakenApart, OnlyRevocationsTake, RevokedNowhere,
              RestartRevivesNothing, Pending
<1> QED
  BY <1>1, <1>2, <1>3, <1>4, <1>5, <1>6, <1>7 DEF Next

LEMMA Invariance == Spec => []IInv
BY InvInit, InvStep, PTL DEF Spec

\* Tokens in memory, in the file, in flight and revoked were all issued.
THEOREM TypeCorrect == Spec => []TypeOK
BY Invariance, PTL DEF IInv

\* A revocation that was reported as done is final, across failures of other
\* saves, concurrent logins and restarts.
THEOREM RevocationsAreFinal == Spec => []RevokedStaysRevoked
<1>1. IInv => RevokedStaysRevoked
  BY DEF IInv, RevokedNowhere, RestartRevivesNothing, RevokedStaysRevoked
<1> QED
  BY <1>1, Invariance, PTL

\* A restart never makes valid what was not valid before it, revocations that had
\* not finished apart.
THEOREM RestartsReviveNothing == Spec => []RestartRevivesNothing
BY Invariance, PTL DEF IInv

-----------------------------------------------------------------------------
(* The handlers.                                                           *)

\* A user whose tokens are revoked has one, and so is an owner.
LEMMA RevokedHasOwner ==
    ASSUME TypeOK, NEW u, \E t \in tokens : OwnerOf(t) = u
    PROVE  u \in Owners
BY DEF TypeOK, Token, OwnerOf

\* Logging in and out.
LEMMA SessionSteps ==
    ASSUME NEW h \in Handlers,
           \/ \E u \in Owners : Verify(h, u)
           \/ Login(h)
           \/ \E t \in Token : Logout(h, t)
    PROVE  [Next]_vars
<1>1. CASE \E u \in Owners : Verify(h, u)
  BY <1>1 DEF Verify
<1>2. CASE Login(h)
  <2>1. PICK t \in Token : Issue(h, t)
    BY <1>2 DEF Login
  <2> QED
    BY <2>1 DEF Next
<1>3. CASE \E t \in Token : Logout(h, t)
  <2>1. PICK t \in Token : RevokeToken(h, t)
    BY <1>3 DEF Logout
  <2> QED
    BY <2>1 DEF Next
<1> QED
  BY <1>1, <1>2, <1>3

\* Changing users and the configuration.
LEMMA AdministrationSteps ==
    ASSUME TypeOK, NEW h \in Handlers,
           \/ \E u \in Users, grants \in SUBSET Servers :
                 \/ Create(h, u, grants)
                 \/ \E state \in {"enabled", "disabled"} : Update(h, u, state, grants)
           \/ \E u \in Users : Delete(h, u)
           \/ PatchFails(h) \/ Revoke(h)
           \/ ChangeAdminPassword(h) \/ RevokeAll(h)
           \/ \E s \in Servers : RemoveServer(h, s)
           \/ RemoveServerGrants(h)
    PROVE  [Next]_vars
<1>1. CASE Revoke(h)
  <2>1. CASE \E t \in tokens : OwnerOf(t) = handlers[h].owner
    BY <1>1, <2>1, RevokedHasOwner DEF Revoke, Next
  <2>2. CASE ~ \E t \in tokens : OwnerOf(t) = handlers[h].owner
    BY <1>1, <2>2 DEF Revoke
  <2> QED
    BY <2>1, <2>2
<1>2. CASE RevokeAll(h)
  BY <1>2 DEF RevokeAll, Next
<1>3. CASE \E u \in Users, grants \in SUBSET Servers :
              \/ Create(h, u, grants)
              \/ \E state \in {"enabled", "disabled"} : Update(h, u, state, grants)
  BY <1>3 DEF Create, Update
<1>4. CASE PatchFails(h) \/ ChangeAdminPassword(h) \/ RemoveServerGrants(h)
  BY <1>4 DEF PatchFails, ChangeAdminPassword, RemoveServerGrants
<1>5. CASE (\E u \in Users : Delete(h, u)) \/ (\E s \in Servers : RemoveServer(h, s))
  BY <1>5 DEF Delete, RemoveServer
<1> QED
  BY <1>1, <1>2, <1>3, <1>4, <1>5

\* Every step of the handlers is one of the token map, or leaves it alone.
LEMMA StepsUseTokens ==
    ASSUME TypeOK, [AccountNext]_allVars
    PROVE  [Next]_vars
<1>1. CASE UNCHANGED allVars
  BY <1>1 DEF allVars
<1>2. CASE StopAndStart
  BY <1>2 DEF StopAndStart, Next
<1>3. CASE ResetPassword
  BY <1>3 DEF ResetPassword, Next
<1>4. ASSUME NEW h \in Handlers, Saved(h) \/ NotSaved(h) \/ Kept(h)
      PROVE  [Next]_vars
  BY <1>4 DEF Saved, NotSaved, Kept, Next
<1> QED
  BY <1>1, <1>2, <1>3, <1>4, SessionSteps, AdministrationSteps DEF AccountNext

LEMMA TokensInvariance == AccountSpec => []IInv
<1>1. AccountInit => IInv
  BY InvInit DEF AccountInit
<1>2. IInv /\ [AccountNext]_allVars => IInv'
  BY StepsUseTokens, InvStep DEF IInv
<1> QED
  BY <1>1, <1>2, PTL DEF AccountSpec

\* The handlers use the token map as its own specification allows: whatever logins,
\* administration and restarts do, what is proved of the map holds.
THEOREM AccountsUseTokens == AccountSpec => UsesTokens
<1>1. AccountInit => Init
  BY DEF AccountInit
<1>2. IInv /\ [AccountNext]_allVars => [Next]_vars
  BY StepsUseTokens DEF IInv
<1> QED
  BY <1>1, <1>2, TokensInvariance, PTL DEF AccountSpec, UsesTokens, Spec

-------------------------------------------------------------------------------
(* Sessions end with their credential.                                     *)

\* The strengthening: a handler with a call of the token map under way is not the
\* one a cut-off token waits for.
CallsApart == \A h \in Handlers : ~ Idle(h) => handlers[h].pc \in {"call", "settings"}
AccountInv == IInv /\ AccountTypeOK /\ CallsApart /\ CutOffSessionsEnd

LEMMA AccountInvInit == AccountInit => AccountInv
<1> SUFFICES ASSUME AccountInit PROVE AccountInv
  OBVIOUS
<1>1. IInv
  BY InvInit DEF AccountInit
<1>2. AccountTypeOK
  BY <1>1 DEF AccountInit, AccountTypeOK, IInv, Account, Handler, Free
<1>3. CallsApart /\ CutOffSessionsEnd
  BY DEF AccountInit, Init, CallsApart, CutOffSessionsEnd, NoCall, Idle
<1> QED
  BY <1>1, <1>2, <1>3 DEF AccountInv

LEMMA GotoKeepsType ==
    ASSUME handlers \in [Handlers -> Handler], NEW h \in Handlers, NEW pc \in {"call", "settings"},
           Goto(h, pc)
    PROVE  handlers' \in [Handlers -> Handler] /\ handlers'[h].pc = pc
BY DEF Goto, Handler

(* One lemma for each action, and in it a step for each part of the        *)
(* invariant: who is cut off and who is about to revoke changes together.  *)

LEMMA InvVerify ==
    ASSUME AccountInv, IInv', NEW h \in Handlers, NEW u \in Owners, Verify(h, u)
    PROVE  AccountInv'
<1> USE DEF AccountInv, AccountTypeOK, IInv, TypeOK, Verify, vars, IsFree, At, Become, Goto
<1>1. AccountTypeOK'
  BY DEF Account, Handler, Free
<1>2. CallsApart'
  BY DEF CallsApart, Idle, NoCall, Free, Handler
<1>3. CutOffSessionsEnd'
  BY DEF CutOffSessionsEnd, AboutToRevoke, CallsApart, Idle, Free, Handler
<1> QED
  BY <1>1, <1>2, <1>3

\* A token issued now was not cut off before; one of an outdated login is excused.
LEMMA InvLogin ==
    ASSUME AccountInv, IInv', NEW h \in Handlers, Login(h)
    PROVE  AccountInv'
<1> USE DEF AccountInv, AccountTypeOK, IInv, TypeOK, Login, Issue, Enter, IsFree, At, Become, Goto
<1>1. AccountTypeOK'
  <2>1. PICK t \in Token : /\ spent' = spent \cup {t}
                           /\ ended' \subseteq ended \cup {t}
                           /\ excused' \subseteq excused \cup {t}
    OBVIOUS
  <2>2. handlers' \in [Handlers -> Handler]
    BY GotoKeepsType
  <2> QED
    BY <2>1, <2>2
<1>2. CallsApart'
  BY DEF CallsApart, Idle, NoCall, Free, Handler
<1>3. CutOffSessionsEnd'
  BY DEF CutOffSessionsEnd, AboutToRevoke, CallsApart, Idle, Free, Handler
<1> QED
  BY <1>1, <1>2, <1>3

LEMMA InvLogout ==
    ASSUME AccountInv, IInv', NEW h \in Handlers, NEW t \in Token, Logout(h, t)
    PROVE  AccountInv'
<1> USE DEF AccountInv, AccountTypeOK, IInv, TypeOK, Logout, RevokeToken, Take, Enter, IsFree, At, Become, Goto
<1>1. AccountTypeOK'
  BY DEF Account, Handler, Free
<1>2. CallsApart'
  BY DEF CallsApart, Idle, NoCall, Free, Handler
<1>3. CutOffSessionsEnd'
  BY DEF CutOffSessionsEnd, AboutToRevoke, CallsApart, Idle, Free, Handler
<1> QED
  BY <1>1, <1>2, <1>3

LEMMA InvCreate ==
    ASSUME AccountInv, IInv', NEW h \in Handlers, NEW u \in Users, NEW grants \in SUBSET Servers, Create(h, u, grants)
    PROVE  AccountInv'
<1> USE DEF AccountInv, AccountTypeOK, IInv, TypeOK, Create, vars, IsFree, At, Become, Goto
<1>1. AccountTypeOK'
  BY DEF Account, Handler, Free
<1>2. CallsApart'
  BY DEF CallsApart, Idle, NoCall, Free, Handler
<1>3. CutOffSessionsEnd'
  BY DEF CutOffSessionsEnd, AboutToRevoke, CallsApart, Idle, Free, Handler
<1> QED
  BY <1>1, <1>2, <1>3

\* A cut leaves the tokens of the user to the handler that made it.
LEMMA CutOffLeavesRevoker ==
    ASSUME AccountInv, UNCHANGED vars, NEW h \in Handlers, NEW u \in Users,
           NEW pc \in {"patch", "revoke"}, IsFree(h), CutOff(h, u, pc)
    PROVE  /\ handlers' \in [Handlers -> Handler]
           /\ ended' \subseteq spent' /\ excused' \subseteq spent' /\ halfway' \subseteq spent'
           /\ CallsApart' /\ CutOffSessionsEnd'
<1> USE OwnersAssumption DEF AccountInv, AccountTypeOK, TypeOK, vars, CutOff, IsFree, Free
<1>1. handlers' \in [Handlers -> Handler]
  <2>1. [Free EXCEPT !.pc = pc, !.owner = u] \in Handler
    BY DEF Handler
  <2>2. \A r \in Handler : [r EXCEPT !.outdated = TRUE] \in Handler
    BY DEF Handler
  <2>3. handlers' = [g \in Handlers |->
            IF g = h THEN [Free EXCEPT !.pc = pc, !.owner = u]
            ELSE IF handlers[g].pc = "verified" /\ handlers[g].owner = u
            THEN [handlers[g] EXCEPT !.outdated = TRUE]
            ELSE handlers[g]]
    BY DEF CutOff
  <2>4. handlers \in [Handlers -> Handler]
    OBVIOUS
  <2> HIDE DEF AccountInv, AccountTypeOK, TypeOK, vars, CutOff, IsFree, Free
  <2> QED
    BY <2>1, <2>2, <2>3, <2>4
<1>2. ended' \subseteq spent' /\ excused' \subseteq spent' /\ halfway' \subseteq spent'
  OBVIOUS
<1>3. CallsApart'
  BY DEF CallsApart, Idle, Handler
<1>4. CutOffSessionsEnd'
  <2> SUFFICES ASSUME NEW t \in ended' \cap tokens', t \notin excused' \cup halfway'
               PROVE  AboutToRevoke(t)'
    BY DEF CutOffSessionsEnd
  <2>1. CASE OwnerOf(t) = u
    <3>1. handlers'[h].pc = pc /\ handlers'[h].owner = u
      OBVIOUS
    <3> QED
      BY <2>1, <3>1 DEF AboutToRevoke, OwnerOf
  <2>2. CASE OwnerOf(t) # u
    <3>1. AboutToRevoke(t)
      BY <2>2 DEF CutOffSessionsEnd
    <3>2. \A g \in Handlers : /\ At(g, "revokeAll") => At(g, "revokeAll")'
                             /\ handlers[g].pc \in {"patch", "revoke"} => handlers'[g] = handlers[g]
      BY DEF At, Handler
    <3> QED
      BY <3>1, <3>2 DEF AboutToRevoke, At, OwnerOf
  <2> QED
    BY <2>1, <2>2
<1> QED
  BY <1>1, <1>2, <1>3, <1>4

LEMMA InvUpdate ==
    ASSUME AccountInv, IInv', NEW h \in Handlers, NEW u \in Users, NEW grants \in SUBSET Servers,
           NEW state \in {"enabled", "disabled"}, Update(h, u, state, grants)
    PROVE  AccountInv'
<1> USE DEF AccountInv
<1>1. accounts' \in [Users -> Account] /\ UNCHANGED configured /\ UNCHANGED vars
  BY DEF Update, AccountTypeOK, Account
<1>2. CASE CutOff(h, u, "patch")
  BY <1>1, <1>2, CutOffLeavesRevoker DEF Update, AccountTypeOK, IInv
<1>3. CASE UNCHANGED <<handlers, ended, excused, halfway>>
  BY <1>1, <1>3 DEF vars, IInv, AccountTypeOK, CallsApart, Idle, CutOffSessionsEnd, AboutToRevoke, At
<1> QED
  BY <1>2, <1>3 DEF Update

LEMMA InvDelete ==
    ASSUME AccountInv, IInv', NEW h \in Handlers, NEW u \in Users, Delete(h, u)
    PROVE  AccountInv'
<1>1. accounts' \in [Users -> Account] /\ UNCHANGED configured /\ UNCHANGED vars
  BY DEF Delete, AccountInv, AccountTypeOK, Account
<1> QED
  BY <1>1, CutOffLeavesRevoker DEF Delete, AccountInv, AccountTypeOK, IInv

LEMMA InvPatchFails ==
    ASSUME AccountInv, IInv', NEW h \in Handlers, PatchFails(h)
    PROVE  AccountInv'
<1> USE DEF AccountInv, AccountTypeOK, IInv, TypeOK, PatchFails, vars, OwnerOf, IsFree, At, Become, Goto
<1>1. AccountTypeOK'
  BY DEF Account, Handler, Free
<1>2. CallsApart'
  BY DEF CallsApart, Idle, NoCall, Free, Handler
<1>3. CutOffSessionsEnd'
  BY DEF CutOffSessionsEnd, AboutToRevoke, CallsApart, Idle, Free, Handler
<1> QED
  BY <1>1, <1>2, <1>3

\* Once a handler has taken the tokens of its user, no token waits for it.
LEMMA InvRevoke ==
    ASSUME AccountInv, IInv', NEW h \in Handlers, Revoke(h)
    PROVE  AccountInv'
<1> DEFINE u == handlers[h].owner
<1>1. /\ tokens' = {t \in tokens : OwnerOf(t) # u}
      /\ UNCHANGED <<spent, accounts, configured, ended, excused, halfway>>
      /\ \A g \in Handlers \ {h} : calls'[g] = calls[g] /\ handlers'[g] = handlers[g]
      /\ handlers' \in [Handlers -> Handler]
      /\ \/ handlers'[h].pc = "call"
         \/ handlers'[h].pc = "free" /\ calls'[h] = calls[h]
  <2> USE DEF AccountInv, AccountTypeOK, IInv, TypeOK, Revoke, Handler
  <2>1. CASE \E t \in tokens : OwnerOf(t) = u
    <3>1. RevokeTokensByUserID(h, u) /\ Goto(h, "call")
      BY <2>1
    <3>2. handlers' \in [Handlers -> Handler] /\ handlers'[h].pc = "call"
      BY <3>1, GotoKeepsType
    <3>3. \A g \in Handlers \ {h} : calls'[g] = calls[g] /\ handlers'[g] = handlers[g]
      BY <3>1 DEF RevokeTokensByUserID, Take, Enter, Goto
    <3>4. tokens' = {t \in tokens : OwnerOf(t) # u} /\ UNCHANGED spent
      BY <3>1 DEF RevokeTokensByUserID, Take
    <3> QED
      BY <3>2, <3>3, <3>4
  <2>2. CASE ~ \E t \in tokens : OwnerOf(t) = u
    <3>1. UNCHANGED vars /\ Become(h, Free)
      BY <2>2
    <3>2. Free \in Handler /\ Free.pc = "free"
      BY DEF Free
    <3>3. \A g \in Handlers : handlers'[g] = IF g = h THEN Free ELSE handlers[g]
      BY <3>1 DEF Become
    <3>4. handlers' \in [Handlers -> Handler]
      BY <3>1, <3>2 DEF Become
    <3>5. tokens = {t \in tokens : OwnerOf(t) # u}
      BY <2>2
    <3> QED
      BY <3>1, <3>2, <3>3, <3>4, <3>5 DEF vars
  <2> QED
    BY <2>1, <2>2
<1>2. AccountTypeOK'
  BY <1>1 DEF AccountInv, AccountTypeOK, IInv
<1>3. CallsApart'
  BY <1>1 DEF AccountInv, CallsApart, Idle, Revoke
<1>4. CutOffSessionsEnd'
  <2> SUFFICES ASSUME NEW t \in ended' \cap tokens', t \notin excused' \cup halfway'
               PROVE  AboutToRevoke(t)'
    BY DEF CutOffSessionsEnd
  <2>1. PICK g \in Handlers : \/ At(g, "revokeAll")
                              \/ /\ handlers[g].pc \in {"patch", "revoke"}
                                 /\ handlers[g].owner = OwnerOf(t)
    BY <1>1 DEF AccountInv, CutOffSessionsEnd, AboutToRevoke
  <2>2. g # h
    BY <1>1, <2>1 DEF Revoke, At
  <2> QED
    BY <1>1, <2>1, <2>2 DEF AboutToRevoke, At, OwnerOf
<1> QED
  BY <1>2, <1>3, <1>4 DEF AccountInv

LEMMA InvChangeAdminPassword ==
    ASSUME AccountInv, IInv', NEW h \in Handlers, ChangeAdminPassword(h)
    PROVE  AccountInv'
<1> USE DEF AccountInv, AccountTypeOK, IInv, TypeOK, ChangeAdminPassword, vars, IsFree, At, Become, Goto
<1>1. AccountTypeOK'
  BY DEF Account, Handler, Free
<1>2. CallsApart'
  BY DEF CallsApart, Idle, NoCall, Free, Handler
<1>3. CutOffSessionsEnd'
  BY DEF CutOffSessionsEnd, AboutToRevoke, CallsApart, Idle, Free, Handler
<1> QED
  BY <1>1, <1>2, <1>3

LEMMA InvRevokeAll ==
    ASSUME AccountInv, IInv', NEW h \in Handlers, RevokeAll(h)
    PROVE  AccountInv'
<1> USE DEF AccountInv, AccountTypeOK, IInv, TypeOK, RevokeAll, RevokeAllTokens, Take, Enter, IsFree, At, Become, Goto
<1>1. AccountTypeOK'
  BY DEF Account, Handler, Free
<1>2. CallsApart'
  BY DEF CallsApart, Idle, NoCall, Free, Handler
<1>3. CutOffSessionsEnd'
  BY DEF CutOffSessionsEnd, AboutToRevoke, CallsApart, Idle, Free, Handler
<1> QED
  BY <1>1, <1>2, <1>3

LEMMA InvRemoveServer ==
    ASSUME AccountInv, IInv', NEW h \in Handlers, NEW s \in Servers, RemoveServer(h, s)
    PROVE  AccountInv'
<1> USE DEF AccountInv, AccountTypeOK, IInv, TypeOK, RemoveServer, vars, IsFree, At, Become, Goto
<1>1. AccountTypeOK'
  BY DEF Account, Handler, Free
<1>2. CallsApart'
  BY DEF CallsApart, Idle, NoCall, Free, Handler
<1>3. CutOffSessionsEnd'
  BY DEF CutOffSessionsEnd, AboutToRevoke, CallsApart, Idle, Free, Handler
<1> QED
  BY <1>1, <1>2, <1>3

LEMMA InvRemoveServerGrants ==
    ASSUME AccountInv, IInv', NEW h \in Handlers, RemoveServerGrants(h)
    PROVE  AccountInv'
<1> USE DEF AccountInv, AccountTypeOK, IInv, TypeOK, RemoveServerGrants, vars, IsFree, At, Become, Goto
<1>1. AccountTypeOK'
  BY DEF Account, Handler, Free
<1>2. CallsApart'
  BY DEF CallsApart, Idle, NoCall, Free, Handler
<1>3. CutOffSessionsEnd'
  BY DEF CutOffSessionsEnd, AboutToRevoke, CallsApart, Idle, Free, Handler
<1> QED
  BY <1>1, <1>2, <1>3

LEMMA InvSaved ==
    ASSUME AccountInv, IInv', NEW h \in Handlers, Saved(h)
    PROVE  AccountInv'
<1> USE DEF AccountInv, AccountTypeOK, IInv, TypeOK, Saved, Save, Saving, Done, IsFree, At, Become, Goto
<1>1. AccountTypeOK'
  BY DEF Account, Handler, Free
<1>2. CallsApart'
  BY DEF CallsApart, Idle, NoCall, Free, Handler
<1>3. CutOffSessionsEnd'
  BY DEF CutOffSessionsEnd, AboutToRevoke, CallsApart, Idle, Free, Handler
<1> QED
  BY <1>1, <1>2, <1>3

LEMMA InvNotSaved ==
    ASSUME AccountInv, IInv', NEW h \in Handlers, NotSaved(h)
    PROVE  AccountInv'
<1> USE DEF AccountInv, AccountTypeOK, IInv, TypeOK, NotSaved, SaveFails, Saving, Enter, Done, IsFree, At, Become, Goto
<1>1. AccountTypeOK'
  BY DEF Account, Handler, Free
<1>2. CallsApart'
  BY DEF CallsApart, Idle, NoCall, Free, Handler
<1>3. CutOffSessionsEnd'
  BY DEF CutOffSessionsEnd, AboutToRevoke, CallsApart, Idle, Free, Handler
<1> QED
  BY <1>1, <1>2, <1>3

LEMMA InvKept ==
    ASSUME AccountInv, IInv', NEW h \in Handlers, Kept(h)
    PROVE  AccountInv'
<1> USE DEF AccountInv, AccountTypeOK, IInv, TypeOK, Kept, PutBack, Done, IsFree, At, Become, Goto
<1>1. AccountTypeOK'
  BY DEF Account, Handler, Free
<1>2. CallsApart'
  BY DEF CallsApart, Idle, NoCall, Free, Handler
<1>3. CutOffSessionsEnd'
  BY DEF CutOffSessionsEnd, AboutToRevoke, CallsApart, Idle, Free, Handler
<1> QED
  BY <1>1, <1>2, <1>3

\* What a restart reads from the file was valid, or was being revoked.
LEMMA InvStopAndStart ==
    ASSUME AccountInv, IInv', StopAndStart
    PROVE  AccountInv'
<1> USE DEF AccountInv, AccountTypeOK, IInv, TypeOK, StopAndStart, Restart
<1>1. AccountTypeOK'
  BY DEF Handler, Free
<1>2. CallsApart'
  BY DEF CallsApart, Idle, NoCall
<1>3. ASSUME NEW t \in ended' \cap tokens'
      PROVE  t \in excused' \cup halfway'
  BY <1>3 DEF RestartRevivesNothing, CutOffSessionsEnd, AboutToRevoke, At
<1> QED
  BY <1>1, <1>2, <1>3 DEF CutOffSessionsEnd

LEMMA InvResetPassword ==
    ASSUME AccountInv, IInv', ResetPassword
    PROVE  AccountInv'
<1> USE DEF AccountInv, AccountTypeOK, IInv, TypeOK, ResetPassword, Reset
<1>1. AccountTypeOK'
  BY DEF Handler, Free
<1>2. CallsApart' /\ CutOffSessionsEnd'
  BY DEF CallsApart, Idle, NoCall, CutOffSessionsEnd
<1> QED
  BY <1>1, <1>2

LEMMA AccountInvStep == AccountInv /\ [AccountNext]_allVars => AccountInv'
<1> SUFFICES ASSUME AccountInv, [AccountNext]_allVars PROVE AccountInv'
  OBVIOUS
<1>1. IInv'
  BY StepsUseTokens, InvStep DEF AccountInv, IInv
<1>2. CASE UNCHANGED allVars
  BY <1>1, <1>2 DEF allVars, vars, accountVars, AccountInv, AccountTypeOK, IInv, CallsApart, Idle,
                    CutOffSessionsEnd, AboutToRevoke, At
<1>3. ASSUME NEW h \in Handlers,
             \/ \E u \in Owners : Verify(h, u)
             \/ Login(h)
             \/ \E t \in Token : Logout(h, t)
      PROVE  AccountInv'
  BY <1>1, <1>3, InvVerify, InvLogin, InvLogout
<1>4. ASSUME NEW h \in Handlers, NEW u \in Users, NEW grants \in SUBSET Servers,
             \/ Create(h, u, grants)
             \/ \E state \in {"enabled", "disabled"} : Update(h, u, state, grants)
      PROVE  AccountInv'
  BY <1>1, <1>4, InvCreate, InvUpdate
<1>5. ASSUME NEW h \in Handlers,
             \/ \E u \in Users : Delete(h, u)
             \/ PatchFails(h) \/ Revoke(h)
      PROVE  AccountInv'
  BY <1>1, <1>5, InvDelete, InvPatchFails, InvRevoke
<1>6. ASSUME NEW h \in Handlers,
             \/ ChangeAdminPassword(h) \/ RevokeAll(h)
             \/ \E s \in Servers : RemoveServer(h, s)
             \/ RemoveServerGrants(h)
      PROVE  AccountInv'
  BY <1>1, <1>6, InvChangeAdminPassword, InvRevokeAll, InvRemoveServer, InvRemoveServerGrants
<1>7. ASSUME NEW h \in Handlers, Saved(h) \/ NotSaved(h) \/ Kept(h)
      PROVE  AccountInv'
  BY <1>1, <1>7, InvSaved, InvNotSaved, InvKept
<1>8. CASE StopAndStart \/ ResetPassword
  BY <1>1, <1>8, InvStopAndStart, InvResetPassword
<1> QED
  BY <1>2, <1>3, <1>4, <1>5, <1>6, <1>7, <1>8 DEF AccountNext

LEMMA AccountInvariance == AccountSpec => []AccountInv
BY AccountInvInit, AccountInvStep, PTL DEF AccountSpec

\* Accounts, grants, handlers and histories keep their types.
THEOREM AccountsTypeCorrect == AccountSpec => []AccountTypeOK
BY AccountInvariance, PTL DEF AccountInv

\* A session does not outlive the account or the credential it came from, the four
\* stated reasons apart, for any number of users, tokens and handlers.
THEOREM SessionsEndWithCredential == AccountSpec => []CutOffSessionsEnd
BY AccountInvariance, PTL DEF AccountInv

-------------------------------------------------------------------------------
(* The configuration and the library.                                      *)

\* A server of a configuration: one kind of credential, an identity only in resident mode.
ServerOK(s) ==
    /\ s \in Server
    /\ \E kind \in Credentials : s.creds = {kind}
    /\ s.mode = "resident" <=> s.profile # Nothing
Sane(cfg) ==
    /\ cfg \in Config
    /\ \A i \in DOMAIN cfg.servers : ServerOK(cfg.servers[i])
    /\ \A i, k \in DOMAIN cfg.servers : cfg.servers[i].id = cfg.servers[k].id => i = k

\* Every server in resident mode has its resident.
Resolves(cfg) == \A i \in DOMAIN cfg.servers :
    cfg.servers[i].mode = "resident" => cfg.servers[i].profile \in DOMAIN library.residents

\* The library: what it holds was minted, and nothing is captured before the first resident.
LibraryOK ==
    /\ library = [recent |-> library.recent, residents |-> library.residents, booted |-> library.booted]
    /\ library.residents \in [DOMAIN library.residents -> [print : Prints, revision : Nat \ {0}]]
    /\ DOMAIN library.residents \subseteq Residents \cap minted
    /\ library.booted \in BOOLEAN /\ readable \in BOOLEAN
    /\ ~library.booted => DOMAIN library.residents = {} /\ Range(library.recent) = {}
    /\ \A q, r \in DOMAIN library.residents :
          library.residents[q].print = library.residents[r].print => q = r

\* What a panel saw of a resident: the same revision means the same identity.
ViewOK(v) ==
    /\ v.target \in {Nothing} \cup minted
    /\ v.target \in DOMAIN library.residents =>
          /\ v.revision <= library.residents[v.target].revision
          /\ v.revision = library.residents[v.target].revision => v.print = library.residents[v.target].print
    /\ v.revision \in Nat

\* Two servers for which the same client is built.
SameBuild(s, t) == s.id = t.id /\ s.url = t.url /\ s.mode = t.mode /\ s.profile = t.profile

\* A handler between its checks and its effects: what it will save is derived from what is there.
SwapOK(j) ==
    /\ \A id \in j.ids \cap Ids : j.view.seen[id] = <<Of(id).mode, Of(id).profile>>
    /\ \A i \in DOMAIN j.next.servers :
          LET s == j.next.servers[i] IN
          s.id \in j.ids /\ s.mode = "resident" => PrintOf(s.profile) = j.view.print
    /\ \A i \in Indexes : /\ i \in DOMAIN j.next.servers
                          /\ j.next.servers[i].id = config.servers[i].id
                          /\ config.servers[i].id \in j.ids \/ SameBuild(j.next.servers[i], config.servers[i])
    /\ \/ Len(j.next.servers) = Len(config.servers)
       \/ /\ Len(j.next.servers) = Len(config.servers) + 1
          /\ j.next.servers[Len(j.next.servers)].id \in j.ids
CheckedOK(j) ==
    /\ j.base = config
    /\ j.how = "swap" => SwapOK(j)
    /\ j.how = "none" => /\ DOMAIN j.next.servers = Indexes
                         /\ \A i \in Indexes : SameBuild(j.next.servers[i], config.servers[i])
    /\ j.how \in {"identity", "forget"} => j.next = config
    /\ j.how = "forget" => BoundTo(config, j.view.target) = {}

\* A handler that saved: what it saved is in force, and the pool it has yet to rebuild
\* differs from it only where its clients are swapped.
Reaches(base, next, ids) ==
    /\ \A i \in DOMAIN base.servers : /\ i \in DOMAIN next.servers
                                      /\ next.servers[i].id = base.servers[i].id
                                      /\ base.servers[i].id \in ids \/ SameBuild(next.servers[i], base.servers[i])
    /\ \/ Len(next.servers) = Len(base.servers)
       \/ /\ Len(next.servers) = Len(base.servers) + 1
          /\ next.servers[Len(next.servers)].id \in ids
SavedOK(j) ==
    /\ j.next = config
    /\ j.how \in {"reload", "swap", "delete"}
    /\ Sane(j.base) /\ Resolves(j.base)
    /\ j.how = "swap" => Reaches(j.base, j.next, j.ids)

JobOK(j) ==
    /\ j = [how |-> j.how, stage |-> j.stage, next |-> j.next, base |-> j.base, ids |-> j.ids,
            edited |-> j.edited, view |-> j.view]
    /\ Sane(j.next) /\ Resolves(j.next)
    /\ j.how \in {"reload", "swap", "none", "delete", "identity", "forget"}
    /\ j.stage = "checked" => CheckedOK(j)
    /\ j.stage # "checked" => SavedOK(j)
Given(j) == \A i \in DOMAIN j.next.servers : j.next.servers[i].id \in minted

\* The configuration, in memory and as it would be read from its file.
ConfigOK ==
    /\ Sane(config) /\ Resolves(config)
    /\ Ids \subseteq minted
    /\ Sane(Parsed(disk)) /\ Effective(Parsed(disk)) = Effective(config)

\* Handlers hold the mutex: there is one at most.
JobsOK ==
    /\ \A j \in jobs : JobOK(j) /\ Given(j)
    /\ \A j, k \in jobs : j = k

FormOK == form # Nothing => ViewOK(form)
PoolOK == pool \in Seq(Client) /\ PoolFollowsConfig

AdminInv ==
    /\ ConfigOK
    /\ LibraryOK /\ libraryFile = library
    /\ FormOK
    /\ JobsOK
    /\ PoolOK
    /\ LoadedHidden = hidden

-------------------------------------------------------------------------------
(* The file: what is written of a sane configuration is read back as one   *)
(* that makes the server do the same.                                      *)

Written(s, play) ==
    [s EXCEPT !.creds = IF "apiKey" \in s.creds THEN {"apiKey"} ELSE s.creds,
              !.play = IF s.play = play THEN Nothing ELSE s.play,
              !.mode = IF s.mode = "passthrough" THEN Nothing ELSE s.mode,
              !.agent = s.agent /\ s.mode = "custom"]
Acting(s) == [s EXCEPT !.agent = s.agent /\ s.mode = "custom"]

LEMMA WrittenBack ==
    ASSUME NEW s, ServerOK(s), NEW play \in Plays
    PROVE  ServerOK(Normal(Written(s, play), play)) /\ Normal(Written(s, play), play) = Acting(s)
<1>1. PICK agent \in BOOLEAN : agent = (s.agent /\ s.mode = "custom")
  BY DEF ServerOK, Server
<1>2. PICK kind \in Credentials : s.creds = {kind}
  BY DEF ServerOK
<1>3. (IF "apiKey" \in s.creds THEN {"apiKey"} ELSE s.creds) = s.creds
  BY <1>2
<1>4. PICK w : w = [s EXCEPT !.creds = s.creds,
                             !.play = IF s.play = play THEN Nothing ELSE s.play,
                             !.mode = IF s.mode = "passthrough" THEN Nothing ELSE s.mode,
                             !.agent = agent]
  OBVIOUS
<1>5. Written(s, play) = w
  BY <1>1, <1>3, <1>4 DEF Written
<1>6. s \in Server /\ (s.mode = "resident" <=> s.profile # Nothing)
  BY DEF ServerOK
<1>7. Normal(w, play) = [s EXCEPT !.agent = agent]
  BY <1>4, <1>6, MissingFields DEF Server, Normal, Modes
<1>8. PICK n : n = [s EXCEPT !.agent = agent]
  OBVIOUS
<1>9. n \in Server /\ n.creds = s.creds /\ n.mode = s.mode /\ n.profile = s.profile
  BY <1>6, <1>8 DEF Server
<1>10. ServerOK(n)
  BY <1>2, <1>6, <1>9 DEF ServerOK
<1> QED
  BY <1>1, <1>5, <1>7, <1>8, <1>10 DEF Acting

LEMMA FileRoundTrip ==
    ASSUME NEW cfg, Sane(cfg)
    PROVE  Sane(Parsed(Rendered(cfg))) /\ Effective(Parsed(Rendered(cfg))) = Effective(cfg)
<1>1. cfg \in Config /\ cfg.play \in Plays /\ DOMAIN cfg.servers = 1..Len(cfg.servers)
      /\ Len(cfg.servers) \in Nat
  BY DEF Sane, Config
<1>2. PICK ss : ss = [i \in DOMAIN cfg.servers |-> Written(cfg.servers[i], cfg.play)]
  OBVIOUS
<1>3. Rendered(cfg) = [cfg EXCEPT !.servers = ss]
  BY <1>2 DEF Rendered, Written
<1>4. PICK rs : rs = [i \in DOMAIN cfg.servers |-> Acting(cfg.servers[i])]
  OBVIOUS
<1>5. \A i \in DOMAIN cfg.servers : ServerOK(Acting(cfg.servers[i])) /\ Normal(ss[i], cfg.play) = Acting(cfg.servers[i])
  BY <1>1, <1>2, WrittenBack DEF Sane
<1>6. rs = [i \in DOMAIN ss |-> Normal(ss[i], cfg.play)]
  BY <1>2, <1>4, <1>5
<1>7. PICK grace \in Graces : grace = IF cfg.grace = 0 THEN DefaultGrace ELSE cfg.grace
  BY <1>1, ConfigNumbers DEF Config
<1>8. PICK f : f = Rendered(cfg)
  OBVIOUS
<1>9. f.servers = ss /\ f.play = cfg.play /\ f.grace = cfg.grace
  BY <1>1, <1>3, <1>8 DEF Config
<1>10. Parsed(f) = [f EXCEPT !.grace = grace, !.servers = rs]
  BY <1>6, <1>7, <1>9 DEF Parsed
<1>11. Parsed(f) = [servers |-> rs, play |-> cfg.play, grace |-> grace]
  BY <1>1, <1>3, <1>8, <1>10 DEF Config
<1>12. Sane(Parsed(f))
  <2>1. \A i \in DOMAIN cfg.servers : rs[i] \in Server /\ rs[i].id = cfg.servers[i].id
    BY <1>4, <1>5 DEF ServerOK, Acting, Server, Sane
  <2>2. rs \in Seq(Server) /\ DOMAIN rs = DOMAIN cfg.servers
    <3>1. PICK n \in Nat : DOMAIN cfg.servers = 1..n
      BY <1>1
    <3>2. rs \in [1..n -> Server] /\ DOMAIN rs = DOMAIN cfg.servers
      BY <2>1, <3>1, <1>4
    <3> HIDE DEF Server
    <3> QED
      BY <3>2
  <2> HIDE DEF Server
  <2>3. [servers |-> rs, play |-> cfg.play, grace |-> grace] \in Config
    BY <2>2, <1>1, <1>7 DEF Config
  <2>4. PICK c : c = Parsed(f) /\ c.servers = rs /\ c \in Config
    BY <2>3, <1>11
  <2>5. \A i \in DOMAIN rs : ServerOK(rs[i])
    BY <1>4, <1>5, <2>2
  <2>6. \A i, k \in DOMAIN rs : rs[i].id = rs[k].id => i = k
    BY <2>1, <2>2 DEF Sane
  <2> QED
    BY <2>4, <2>5, <2>6 DEF Sane
<1>13. Effective(Parsed(f)) = Effective(cfg)
  <2>1. \A i \in DOMAIN cfg.servers : Acting(rs[i]) = Acting(cfg.servers[i])
    <3> SUFFICES ASSUME NEW s, ServerOK(s) PROVE Acting(Acting(s)) = Acting(s)
      BY <1>4 DEF Sane
    <3>1. PICK agent \in BOOLEAN : agent = (s.agent /\ s.mode = "custom")
      BY DEF ServerOK, Server
    <3>2. PICK n : n = [s EXCEPT !.agent = agent]
      OBVIOUS
    <3>3. n = Acting(s)
      BY <3>1, <3>2 DEF Acting
    <3>4. s \in Server
      BY DEF ServerOK
    <3>5. n.agent = agent /\ n.mode = s.mode
      BY <3>2, <3>4 DEF Server
    <3>6. (n.agent /\ n.mode = "custom") = agent
      BY <3>1, <3>5
    <3>7. [n EXCEPT !.agent = agent] = n
      BY <3>2, <3>4 DEF Server
    <3> QED
      BY <3>3, <3>6, <3>7 DEF Acting
  <2>2. [i \in DOMAIN rs |-> Acting(rs[i])] = [i \in DOMAIN cfg.servers |-> Acting(cfg.servers[i])]
    BY <2>1, <1>4
  <2>3. Effective(Parsed(f)) = [Parsed(f) EXCEPT !.grace = Nothing, !.servers = [i \in DOMAIN rs |-> Acting(rs[i])]]
    BY <1>11 DEF Effective, Acting
  <2>4. Effective(cfg) = [cfg EXCEPT !.grace = Nothing, !.servers = [i \in DOMAIN cfg.servers |-> Acting(cfg.servers[i])]]
    BY DEF Effective, Acting
  <2>5. PICK es : es = [i \in DOMAIN rs |-> Acting(rs[i])]
    OBVIOUS
  <2>6. Effective(cfg) = [servers |-> es, play |-> cfg.play, grace |-> Nothing]
    BY <2>2, <2>4, <2>5, <1>1 DEF Config
  <2>7. Effective(Parsed(f)) = [servers |-> es, play |-> cfg.play, grace |-> Nothing]
    <3>1. PICK c : c = Parsed(f)
      OBVIOUS
    <3>2. c \in Config /\ c.play = cfg.play
      BY <3>1, <1>11, <1>12 DEF Sane
    <3>3. Effective(c) = [c EXCEPT !.grace = Nothing, !.servers = es]
      BY <3>1, <2>3, <2>5
    <3> QED
      BY <3>1, <3>2, <3>3 DEF Config
  <2> QED
    BY <2>6, <2>7
<1> QED
  BY <1>8, <1>12, <1>13

LEMMA SameEffect ==
    ASSUME NEW c, Sane(c), NEW d, Sane(d), Effective(c) = Effective(d)
    PROVE  DOMAIN c.servers = DOMAIN d.servers /\ \A i \in DOMAIN c.servers : SameBuild(c.servers[i], d.servers[i])
<1> DEFINE Of_(x) == [i \in DOMAIN x.servers |-> [x.servers[i] EXCEPT !.agent = x.servers[i].agent /\ x.servers[i].mode = "custom"]]
<1>1. ASSUME NEW x, Sane(x)
      PROVE  /\ Effective(x).servers = Of_(x)
             /\ \A i \in DOMAIN x.servers : SameBuild(Of_(x)[i], x.servers[i])
  <2>1. x \in Config
    BY <1>1 DEF Sane
  <2>2. PICK es : es = Of_(x)
    OBVIOUS
  <2>3. Effective(x) = [x EXCEPT !.grace = Nothing, !.servers = es]
    BY <2>2 DEF Effective
  <2>4. Effective(x).servers = es
    BY <2>1, <2>3 DEF Config
  <2>5. ASSUME NEW i \in DOMAIN x.servers PROVE SameBuild(Of_(x)[i], x.servers[i])
    <3>1. PICK s : s = x.servers[i]
      OBVIOUS
    <3>2. s \in Server
      BY <3>1, <1>1 DEF Sane, ServerOK
    <3>3. PICK agent : agent = (s.agent /\ s.mode = "custom")
      OBVIOUS
    <3>4. Of_(x)[i] = [s EXCEPT !.agent = agent]
      BY <3>1, <3>3
    <3> QED
      BY <3>1, <3>2, <3>4 DEF SameBuild, Server
  <2> QED
    BY <2>2, <2>4, <2>5
<1> HIDE DEF Of_
<1>2. Of_(c) = Of_(d)
  BY <1>1
<1> USE DEF Of_
<1>3. DOMAIN c.servers = DOMAIN d.servers
  <2>1. DOMAIN Of_(c) = DOMAIN c.servers /\ DOMAIN Of_(d) = DOMAIN d.servers
    OBVIOUS
  <2> HIDE DEF Of_
  <2> QED
    BY <1>2, <2>1
<1>4. ASSUME NEW i \in DOMAIN c.servers PROVE SameBuild(c.servers[i], d.servers[i])
  <2>1. SameBuild(Of_(c)[i], c.servers[i]) /\ SameBuild(Of_(d)[i], d.servers[i])
    BY <1>1, <1>3
  <2> HIDE DEF Of_
  <2> QED
    BY <1>2, <2>1 DEF SameBuild
<1> QED
  BY <1>3, <1>4

-------------------------------------------------------------------------------
(* The pool.                                                               *)

LEMMA BuiltAlike == ASSUME NEW s, NEW t, SameBuild(s, t) PROVE Built(s) = Built(t)
BY DEF SameBuild, Built

LEMMA NothingListed == ASSUME NEW S, S = {}, NEW e, e = << >> PROVE SetToSeq(S) = e
<1>1. Cardinality(S) = 0
  BY FS_EmptySet
<1>3. [1..0 -> S] = {e}
  <2>1. 1..0 = {}
    OBVIOUS
  <2>2. \A f \in [{} -> S] : f = << >>
    OBVIOUS
  <2>3. << >> \in [{} -> S]
    OBVIOUS
  <2> QED
    BY <2>1, <2>2, <2>3
<1>4. IsInjective(e)
  BY DEF IsInjective
<1>5. [1..Cardinality(S) -> S] = {e}
  BY <1>1, <1>3
<1> QED
  BY <1>4, <1>5, Zenon DEF SetToSeq

LEMMA OneListed == ASSUME NEW x, NEW S, S = {x} PROVE SetToSeq(S) = <<x>>
<1>1. Cardinality(S) = 1
  BY FS_Singleton
<1>0. PICK e : e = <<x>>
  OBVIOUS
<1>2. [1..1 -> S] = {e}
  BY <1>0
<1>4. IsInjective(e)
  BY <1>0 DEF IsInjective
<1>5. [1..Cardinality(S) -> S] = {e}
  BY <1>1, <1>2
<1>6. SetToSeq(S) = e
  BY <1>4, <1>5, Zenon DEF SetToSeq
<1> QED
  BY <1>0, <1>6

LEMMA Grown ==
    ASSUME NEW n \in Nat, NEW T, NEW K \in [1..n -> T], NEW R \in [1..(n + 1) -> T],
           \A i \in 1..n : K[i] = R[i]
    PROVE  K \o <<R[n + 1]>> = R
<1>1. K \in Seq(T) /\ Len(K) = n /\ R \in Seq(T) /\ Len(R) = n + 1
  OBVIOUS
<1>2. PICK x \in T : x = R[n + 1]
  OBVIOUS
<1>3. K \o <<x>> \in Seq(T) /\ Len(K \o <<x>>) = n + 1
  BY <1>1
<1>4. \A i \in 1..(n + 1) : (K \o <<x>>)[i] = R[i]
  BY <1>1, <1>2
<1> QED
  BY <1>1, <1>2, <1>3, <1>4

\* The clients of some servers are swapped: at most one is new, the last of the configuration.
LEMMA SwapFollows ==
    ASSUME NEW next, Sane(next), NEW ids, NEW base, Sane(base), pool \in Seq(Client),
           Len(pool) = Len(base.servers), Reaches(base, next, ids),
           \A i \in DOMAIN base.servers : /\ pool[i].id = base.servers[i].id
                                          /\ base.servers[i].id \in ids \/ pool[i] = Built(base.servers[i])
    PROVE  Swapped(next, ids) = Reloaded(next)
<1> DEFINE n == Len(base.servers)
           fresh == {c \in Range(Reloaded(next)) : c.id \in ids}
           there == {pool[i].id : i \in DOMAIN pool}
           kept == [i \in DOMAIN pool |-> IF pool[i].id \in ids THEN CHOOSE c \in fresh : c.id = pool[i].id ELSE pool[i]]
           added == {c \in fresh : c.id \notin there}
<1>1. /\ n \in Nat /\ DOMAIN base.servers = 1..n /\ Len(next.servers) \in Nat
      /\ DOMAIN next.servers = 1..Len(next.servers)
  BY DEF Sane, Config
<1>2. \A i \in 1..n : pool[i].id = base.servers[i].id
  BY <1>1
<1>3. PICK R : R = Reloaded(next)
  OBVIOUS
<1> DEFINE m == Len(next.servers)
<1>4. /\ DOMAIN R = 1..m /\ m \in Nat
      /\ \A i \in 1..m : R[i] = Built(next.servers[i]) /\ R[i].id = next.servers[i].id
  BY <1>1, <1>3 DEF Reloaded, Built
<1>5. \A i, k \in 1..m : R[i].id = R[k].id => i = k
  BY <1>1, <1>4 DEF Sane
<1>6. DOMAIN pool = 1..n /\ n <= m
  BY <1>1 DEF Reaches
<1>7. fresh = {c \in {R[i] : i \in 1..m} : c.id \in ids}
  BY <1>3, <1>4 DEF Range
<1>8. \A i \in 1..n : pool[i].id = R[i].id
  BY <1>1, <1>2, <1>4, <1>6 DEF Reaches
<1>9. \A i \in 1..n : kept[i] = R[i]
  <2> SUFFICES ASSUME NEW i \in 1..n PROVE kept[i] = R[i]
    OBVIOUS
  <2>0. i \in 1..m /\ i \in DOMAIN pool
    BY <1>1, <1>6
  <2>1. CASE pool[i].id \in ids
    <3>1. R[i] \in fresh /\ R[i].id = pool[i].id
      BY <2>0, <2>1, <1>7, <1>8
    <3>2. \A c \in fresh : c.id = pool[i].id => c = R[i]
      BY <2>0, <1>5, <1>7, <1>8
    <3>3. (CHOOSE c \in fresh : c.id = pool[i].id) = R[i]
      <4> HIDE DEF fresh
      <4> QED
        BY <3>1, <3>2
    <3> HIDE DEF fresh
    <3> QED
      BY <2>0, <2>1, <3>3
  <2>2. CASE pool[i].id \notin ids
    <3>1. SameBuild(next.servers[i], base.servers[i]) /\ pool[i] = Built(base.servers[i])
      BY <2>2, <1>1, <1>2 DEF Reaches
    <3>2. R[i] = pool[i]
      BY <3>1, <2>0, <1>4, BuiltAlike
    <3> QED
      BY <2>0, <2>2, <3>2
  <2> QED
    BY <2>1, <2>2
<1>10. DOMAIN kept = 1..n
  BY <1>6
<1>11. Swapped(next, ids) = kept \o SetToSeq(added)
  BY DEF Swapped
<1>12. PICK K : K = kept
  OBVIOUS
<1>13. PICK A : A = added
  OBVIOUS
<1>14. \A c \in A : \E i \in 1..m : c = R[i] /\ R[i].id \in ids /\ ~(i \in 1..n)
  BY <1>13, <1>7, <1>8, <1>6
<1>17. PICK T : T = {R[i] : i \in 1..m} /\ R \in [1..m -> T]
  <2>1. R = [i \in 1..m |-> R[i]]
    BY <1>1, <1>3, <1>4 DEF Reloaded
  <2>2. PICK T : T = {R[i] : i \in 1..m}
    OBVIOUS
  <2>3. \A i \in 1..m : R[i] \in T
    BY <2>2
  <2>4. R \in [1..m -> T]
    BY <2>1, <2>3
  <2> QED
    BY <2>2, <2>4
<1>15. CASE m = n
  <2>1. A = {}
    BY <1>14, <1>15
  <2>2. SetToSeq(added) = << >>
    BY <2>1, <1>13, NothingListed
  <2>3. K \in [1..n -> T] /\ K = R
    BY <1>1, <1>4, <1>9, <1>10, <1>12, <1>15, <1>17
  <2>4. K \o << >> = K
    <3>1. K \in Seq(T)
      BY <2>3, <1>1
    <3> QED
      BY <3>1
  <2> QED
    BY <1>3, <1>11, <1>12, <2>2, <2>3, <2>4
<1>16. CASE m = n + 1 /\ R[m].id \in ids
  <2>1. R[m] \in {c \in {R[i] : i \in 1..m} : c.id \in ids} /\ R[m].id \notin there
    <3>1. R[m].id \notin there
      BY <1>1, <1>4, <1>5, <1>6, <1>8, <1>16
    <3> QED
      BY <3>1, <1>1, <1>4, <1>16
  <2>2. A = {R[m]}
    <3>1. R[m] \in A
      BY <2>1, <1>7, <1>13
    <3>2. \A c \in A : c = R[m]
      BY <1>1, <1>14, <1>16
    <3> QED
      BY <3>1, <3>2
  <2>3. SetToSeq(added) = <<R[m]>>
    BY <2>2, <1>13, OneListed
  <2>4. /\ n \in Nat /\ K \in [1..n -> T] /\ R \in [1..(n + 1) -> T]
        /\ \A i \in 1..n : K[i] = R[i]
    <3>1. n \in Nat /\ R \in [1..(n + 1) -> T]
      BY <1>1, <1>16, <1>17
    <3>2. K = [i \in 1..n |-> K[i]] /\ \A i \in 1..n : K[i] = R[i]
      BY <1>9, <1>10, <1>12
    <3>3. \A i \in 1..n : R[i] \in T
      BY <3>1
    <3> HIDE DEF n, m, kept
    <3> QED
      BY <3>1, <3>2, <3>3
  <2> HIDE DEF m, n, kept, added
  <2>5. K \o <<R[m]>> = R
    BY <2>4, <1>16, Grown
  <2> QED
    BY <1>3, <1>11, <1>12, <2>3, <2>5
<1> QED
  BY <1>1, <1>4, <1>15, <1>16 DEF Reaches

\* The pool is what a configuration would build now, that of the server or an earlier one.
Holds(cfg) == /\ Len(pool) = Len(cfg.servers)
              /\ \A i \in DOMAIN cfg.servers : pool[i] = Built(cfg.servers[i])
Current == Holds(config)

LEMMA NoneLags ==
    ASSUME AdminInv, \A j \in jobs : j.how # "identity" /\ j.stage # "saved" PROVE Current
BY DEF AdminInv, PoolOK, PoolFollowsConfig, Follows, Current, Holds

LEMMA CurrentFollows ==
    ASSUME Current, \A j \in jobs : j.stage # "saved" PROVE PoolFollowsConfig
BY DEF PoolFollowsConfig, Follows, Current, Holds

LEMMA BuiltIsClient ==
    ASSUME LibraryOK, NEW s, ServerOK(s) PROVE Built(s) \in Client
<1>1. PrintOf(s.profile) \in Prints \cup {Nothing}
  BY DEF LibraryOK, PrintOf, Known
<1>2. s.id \in ServerIds /\ s.url \in Urls /\ s.mode \in Modes /\ s.profile \in Residents \cup {Nothing}
  BY DEF ServerOK, Server
<1> QED
  BY <1>1, <1>2 DEF Built, Client

LEMMA ReloadedIsPool ==
    ASSUME LibraryOK, NEW cfg, Sane(cfg)
    PROVE  Reloaded(cfg) \in Seq(Client) /\ Len(Reloaded(cfg)) = Len(cfg.servers)
<1>1. PICK n \in Nat : DOMAIN cfg.servers = 1..n /\ Len(cfg.servers) = n
  BY DEF Sane, Config
<1>2. \A i \in 1..n : Built(cfg.servers[i]) \in Client
  BY <1>1, BuiltIsClient DEF Sane
<1>3. PICK R : R = Reloaded(cfg)
  OBVIOUS
<1>4. R \in [1..n -> Client]
  <2> HIDE DEF Client
  <2> QED
    BY <1>1, <1>2, <1>3 DEF Reloaded
<1> HIDE DEF Client
<1>5. R \in Seq(Client) /\ Len(R) = n
  BY <1>4
<1> QED
  BY <1>1, <1>3, <1>5

-------------------------------------------------------------------------------
(* A handler takes the mutex and passes its checks.                        *)

\* A step keeps the residents there are, with their identities.
ResidentsStay ==
    \A r \in DOMAIN library.residents :
        /\ r \in DOMAIN library'.residents
        /\ library'.residents[r].print = library.residents[r].print

LEMMA PrintStays ==
    ASSUME ResidentsStay, readable' = readable, NEW r \in DOMAIN library.residents
    PROVE  PrintOf(r)' = PrintOf(r)
BY DEF ResidentsStay, PrintOf, Known

LEMMA JobStays ==
    ASSUME NEW j, JobOK(j), UNCHANGED <<config, readable>>, ResidentsStay PROVE JobOK(j)'
<1>1. Resolves(j.next)' /\ (Resolves(j.base) => Resolves(j.base)')
  BY DEF JobOK, Resolves, ResidentsStay
<1>2. ASSUME SwapOK(j) PROVE SwapOK(j)'
  <2>1. ASSUME NEW id PROVE Of(id)' = Of(id)
    BY DEF Of, PlaceOf, Indexes
  <2>2. Ids' = Ids /\ Indexes' = Indexes
    BY DEF Ids, Indexes
  <2>3. Resolves(j.next)
    BY DEF JobOK
  <2>4. ASSUME NEW i \in DOMAIN j.next.servers, j.next.servers[i].id \in j.ids, j.next.servers[i].mode = "resident"
        PROVE  PrintOf(j.next.servers[i].profile)' = j.view.print
    <3>1. PICK r : r = j.next.servers[i].profile
      OBVIOUS
    <3>2. r \in DOMAIN library.residents /\ PrintOf(r) = j.view.print
      BY <1>2, <2>3, <2>4, <3>1 DEF Resolves, SwapOK
    <3>3. PrintOf(r)' = PrintOf(r)
      BY <3>2, PrintStays
    <3> QED
      BY <3>1, <3>2, <3>3
  <2> QED
    BY <1>2, <2>1, <2>2, <2>4 DEF SwapOK
<1>3. Indexes' = Indexes
  BY DEF Indexes
<1>4. CheckedOK(j) => CheckedOK(j)'
  BY <1>2, <1>3 DEF CheckedOK
<1>5. SavedOK(j) => SavedOK(j)'
  BY <1>1 DEF SavedOK
<1> QED
  BY <1>1, <1>4, <1>5 DEF JobOK

LEMMA BuiltStays ==
    ASSUME ResidentsStay, readable' = readable,
           NEW s, s.mode = "resident" => s.profile \in DOMAIN library.residents
    PROVE  Built(s)' = Built(s)
<1>1. CASE s.mode = "resident"
  BY <1>1, PrintStays DEF Built
<1>2. CASE s.mode # "resident"
  BY <1>2 DEF Built
<1> QED
  BY <1>1, <1>2

LEMMA FollowsStays ==
    ASSUME NEW cfg, Follows(cfg), Resolves(cfg), UNCHANGED <<readable, pool, jobs>>, ResidentsStay
    PROVE  Follows(cfg)'
<1>1. \A i \in DOMAIN cfg.servers : Built(cfg.servers[i])' = Built(cfg.servers[i])
  BY BuiltStays DEF Resolves
<1> QED
  BY <1>1 DEF Follows

LEMMA PoolStays ==
    ASSUME AdminInv, UNCHANGED <<config, readable, pool, jobs>>, ResidentsStay
    PROVE  PoolOK'
<1>1. Resolves(config) /\ \A j \in jobs : j.stage = "saved" => Resolves(j.base)
  BY DEF AdminInv, ConfigOK, JobsOK, JobOK, SavedOK
<1>2. PoolFollowsConfig /\ pool \in Seq(Client)
  BY DEF AdminInv, PoolOK
<1>3. PICK c : c = config
  OBVIOUS
<1>4. (\A j \in jobs : j.stage # "saved") => Follows(c)'
  BY <1>1, <1>2, <1>3, FollowsStays DEF PoolFollowsConfig
<1>5. \A j \in jobs : j.stage = "saved" => Follows(j.base)'
  BY <1>1, <1>2, FollowsStays DEF PoolFollowsConfig
<1>6. Follows(c)' => Follows(config)'
  BY <1>3 DEF Follows
<1>7. PoolFollowsConfig'
  BY <1>4, <1>5, <1>6 DEF PoolFollowsConfig
<1> QED
  BY <1>2, <1>7 DEF PoolOK

LEMMA CurrentStays ==
    ASSUME Current, Resolves(config), UNCHANGED <<config, readable, pool>>, ResidentsStay
    PROVE  Current'
<1>1. \A i \in Indexes : Built(config.servers[i])' = Built(config.servers[i])
  BY BuiltStays DEF Resolves, Indexes
<1> QED
  BY <1>1 DEF Current, Holds, Indexes

LEMMA BeginKeeps ==
    ASSUME AdminInv, NoMutation, NEW j, JobOK(j), j.stage = "checked", Given(j)', Begin(j),
           minted \subseteq minted',
           UNCHANGED <<config, disk, library, libraryFile, readable, pool, form, listing, cache, hidden, rows>>
    PROVE  AdminInv'
<1>1. jobs = {} /\ jobs' = {j}
  BY DEF NoMutation, Begin
<1>2. ConfigOK'
  BY DEF AdminInv, ConfigOK, Ids, Indexes, Resolves
<1>3. LibraryOK' /\ libraryFile' = library'
  BY DEF AdminInv, LibraryOK
<1>4. FormOK'
  BY DEF AdminInv, FormOK, ViewOK
<1>5. JobsOK'
  <2>1. JobOK(j)'
    BY JobStays DEF ResidentsStay
  <2> QED
    BY <1>1, <2>1 DEF JobsOK
<1>6. PoolOK'
  <2>1. Current
    BY <1>1, NoneLags
  <2>2. Current'
    BY <2>1 DEF Current, Holds, Built, PrintOf, Known
  <2>3. \A k \in jobs' : k.stage # "saved"
    BY <1>1
  <2>4. PoolFollowsConfig'
    BY <2>2, <2>3 DEF PoolFollowsConfig, Follows, Current, Holds
  <2> QED
    BY <2>4 DEF AdminInv, PoolOK
<1>7. LoadedHidden' = hidden'
  BY DEF AdminInv, LoadedHidden
<1> QED
  BY <1>2, <1>3, <1>4, <1>5, <1>6, <1>7 DEF AdminInv

LEMMA ViewsOK == ASSUME AdminInv, NEW v \in Views PROVE ViewOK(v)
<1>1. CASE v = form /\ form # Nothing
  BY <1>1 DEF AdminInv, FormOK
<1>2. ASSUME NEW r \in DOMAIN library.residents \cup {Nothing}, v = View(r) PROVE ViewOK(v)
  <2>1. v.target = r /\ v.revision = (IF Known(r) THEN library.residents[r].revision ELSE 0) /\ v.print = PrintOf(r)
    BY <1>2 DEF View
  <2>2. r \in DOMAIN library.residents => library.residents[r].revision \in Nat \ {0}
    BY DEF AdminInv, LibraryOK
  <2>3. r \in {Nothing} \cup minted
    BY DEF AdminInv, LibraryOK
  <2> QED
    BY <2>1, <2>2, <2>3 DEF ViewOK, PrintOf, Known
<1> QED
  BY <1>1, <1>2 DEF Views

LEMMA ShownIdentity ==
    ASSUME AdminInv, NEW v \in Views, SawResident(v)
    PROVE  /\ v.target \in DOMAIN library.residents /\ v.target \in Residents
           /\ PrintOf(v.target) = v.print
<1>1. v.target \in DOMAIN library.residents /\ PrintOf(v.target) = library.residents[v.target].print
  BY DEF SawResident, Known, PrintOf
<1>2. v.revision = library.residents[v.target].revision
  BY DEF SawResident
<1> QED
  BY <1>1, <1>2, ViewsOK DEF ViewOK, AdminInv, LibraryOK

\* What the panel sends, applied to a server or to a blank one.
Draft(s) == s \in [id : ServerIds, url : Urls \cup {Nothing}, creds : SUBSET Credentials,
                   play : Plays \cup {Nothing}, mode : Modes \cup {Nothing},
                   profile : Residents \cup {Nothing}, agent : BOOLEAN, off : BOOLEAN]

LEMMA EditedServer ==
    ASSUME NEW s, Draft(s), NEW b \in Bodies, NEW target, NEW play \in Plays, NEW new,
           new = Normal(Applied(s, b, target), play), new.url # Nothing, ValidDraft(new),
           new.mode = "resident" => new.profile \in Residents
    PROVE  ServerOK(new) /\ new.id = s.id
<1>1. /\ b.url \in Urls \cup {Nothing} /\ b.creds \in SUBSET Credentials
      /\ b.kind \in Credentials \cup {Nothing} /\ b.play \in Plays \cup {Nothing}
      /\ b.mode \in Modes \cup {Nothing} /\ b.agent \in BOOLEAN
  BY MissingFields
<1>2. PICK agent \in BOOLEAN : agent = (s.agent \/ b.agent)
  OBVIOUS
<1>3. PICK url \in Urls \cup {Nothing}, play1 \in Plays \cup {Nothing}, mode1 \in Modes \cup {Nothing} :
          url = Or(b.url, s.url) /\ play1 = Or(b.play, s.play) /\ mode1 = Or(b.mode, s.mode)
  BY <1>1 DEF Or, Draft
<1>4. PICK creds \in SUBSET Credentials :
          creds = IF b.kind = Nothing THEN s.creds \cup b.creds ELSE (s.creds \cup b.creds) \cap {b.kind}
  BY <1>1 DEF Draft
<1>5. PICK profile1 : profile1 = IF b.mode = "resident" THEN target ELSE s.profile
  OBVIOUS
<1>6. PICK play2, mode2, profile2 :
          /\ play2 = IF play1 = Nothing THEN play ELSE play1
          /\ mode2 = IF mode1 = Nothing THEN "passthrough" ELSE mode1
          /\ profile2 = IF mode1 = "resident" THEN profile1 ELSE Nothing
  OBVIOUS
<1>7. PICK a : a = [s EXCEPT !.url = url, !.play = play1, !.mode = mode1, !.agent = agent,
                             !.profile = profile1, !.creds = creds]
  OBVIOUS
<1>8. Applied(s, b, target) = a
  BY <1>2, <1>3, <1>4, <1>5, <1>7 DEF Applied, Draft
<1>9. /\ a.id = s.id /\ a.url = url /\ a.play = play1 /\ a.mode = mode1 /\ a.agent = agent
      /\ a.profile = profile1 /\ a.creds = creds /\ a.off = s.off
      /\ a = [id |-> s.id, url |-> url, creds |-> creds, play |-> play1, mode |-> mode1,
              profile |-> profile1, agent |-> agent, off |-> s.off]
  BY <1>7 DEF Draft
<1>10. new = [id |-> s.id, url |-> url, creds |-> creds, play |-> play2, mode |-> mode2,
              profile |-> profile2, agent |-> agent, off |-> s.off]
  BY <1>6, <1>8, <1>9 DEF Normal
<1>11. /\ new.url = url /\ new.creds = creds /\ new.mode = mode2 /\ new.profile = profile2 /\ new.id = s.id
  BY <1>10
<1>12. url \in Urls /\ play2 \in Plays /\ mode2 \in Modes /\ (mode2 = "resident" <=> mode1 = "resident")
  BY <1>3, <1>6, <1>11, MissingFields DEF Modes
<1>13. profile2 \in Residents \cup {Nothing} /\ (mode2 = "resident" <=> profile2 # Nothing)
  BY <1>6, <1>11, <1>12, MissingFields DEF ValidDraft
<1>14. \E kind \in Credentials : creds = {kind}
  <2>1. IsFiniteSet(creds)
    <3>1. IsFiniteSet({"apiKey", "account"})
      <4>1. IsFiniteSet({"apiKey"})
        BY FS_Singleton
      <4>2. IsFiniteSet({"apiKey"} \cup {"account"})
        BY <4>1, FS_AddElement, Zenon
      <4> QED
        BY <4>2
    <3> QED
      BY <3>1, FS_Subset DEF Credentials
  <2>2. Cardinality(creds) = 1
    BY <1>11 DEF ValidDraft
  <2>3. PICK x : creds = {x}
    BY <2>1, <2>2, FS_Singleton
  <2> QED
    BY <2>3
<1>15. new \in Server
  BY <1>10, <1>12, <1>13 DEF Server, Draft
<1> HIDE DEF Draft
<1> QED
  BY <1>11, <1>12, <1>13, <1>14, <1>15 DEF ServerOK

LEMMA EditedBinding ==
    ASSUME NEW s, Draft(s), NEW b \in Bodies, NEW target, NEW play, NEW new,
           new = Normal(Applied(s, b, target), play), new.mode = "resident", s.mode # "resident"
    PROVE  new.profile = target
<1>1. PICK agent, url, play1, mode1, creds, profile1 :
          /\ agent = (s.agent \/ b.agent)
          /\ url = Or(b.url, s.url) /\ play1 = Or(b.play, s.play) /\ mode1 = Or(b.mode, s.mode)
          /\ creds = IF b.kind = Nothing THEN s.creds \cup b.creds ELSE (s.creds \cup b.creds) \cap {b.kind}
          /\ profile1 = IF b.mode = "resident" THEN target ELSE s.profile
  OBVIOUS
<1>2. PICK a : a = [s EXCEPT !.url = url, !.play = play1, !.mode = mode1, !.agent = agent,
                             !.profile = profile1, !.creds = creds]
  OBVIOUS
<1>3. Applied(s, b, target) = a
  BY <1>1, <1>2 DEF Applied, Draft
<1>4. a.mode = mode1 /\ a.profile = profile1 /\ DOMAIN a = DOMAIN s /\ "mode" \in DOMAIN s /\ "profile" \in DOMAIN s
  BY <1>2 DEF Draft
<1>5. new.mode = IF mode1 = Nothing THEN "passthrough" ELSE mode1
  BY <1>3, <1>4 DEF Normal
<1>6. new.profile = IF mode1 = "resident" THEN profile1 ELSE Nothing
  BY <1>3, <1>4 DEF Normal
<1> QED
  BY <1>1, <1>5, <1>6 DEF Or

(* Configurations made of sane ones.                                       *)

LEMMA MadeSane ==
    ASSUME NEW n \in Nat, NEW ss \in [1..n -> Server], \A i \in 1..n : ServerOK(ss[i]),
           \A i, k \in 1..n : ss[i].id = ss[k].id => i = k,
           NEW play \in Plays, NEW grace \in Graces,
           NEW c, c = [servers |-> ss, play |-> play, grace |-> grace]
    PROVE  Sane(c) /\ c.servers = ss /\ DOMAIN ss = 1..n /\ Len(ss) = n
<1> HIDE DEF Server
<1>2. ss \in Seq(Server) /\ DOMAIN ss = 1..n /\ Len(ss) = n
  OBVIOUS
<1>3. c \in Config /\ c.servers = ss
  BY <1>2 DEF Config
<1> QED
  BY <1>2, <1>3 DEF Sane

LEMMA SaneParts ==
    ASSUME NEW cfg, Sane(cfg)
    PROVE  /\ cfg = [servers |-> cfg.servers, play |-> cfg.play, grace |-> cfg.grace]
           /\ cfg.play \in Plays /\ cfg.grace \in Graces
           /\ Len(cfg.servers) \in Nat /\ DOMAIN cfg.servers = 1..Len(cfg.servers)
           /\ cfg.servers = [i \in 1..Len(cfg.servers) |-> cfg.servers[i]]
           /\ \A i \in 1..Len(cfg.servers) : cfg.servers[i] \in Server /\ cfg.servers[i].id \in ServerIds
<1>1. cfg \in Config
  BY DEF Sane
<1>2. \A i \in DOMAIN cfg.servers : cfg.servers[i] \in Server
  BY DEF Sane, ServerOK
<1>3. \A s \in Server : s.id \in ServerIds
  BY DEF Server
<1> HIDE DEF Server
<1> QED
  BY <1>1, <1>2, <1>3 DEF Config

LEMMA SameIdsSane ==
    ASSUME NEW cfg, Sane(cfg), NEW ss \in [DOMAIN cfg.servers -> Server],
           \A i \in DOMAIN cfg.servers : ServerOK(ss[i]) /\ ss[i].id = cfg.servers[i].id,
           NEW c, c = [servers |-> ss, play |-> cfg.play, grace |-> cfg.grace]
    PROVE  Sane(c) /\ c.servers = ss /\ DOMAIN ss = DOMAIN cfg.servers /\ Len(ss) = Len(cfg.servers)
<1>1. PICK n \in Nat : DOMAIN cfg.servers = 1..n /\ Len(cfg.servers) = n
  BY SaneParts
<1>2. PICK play \in Plays, grace \in Graces : c = [servers |-> ss, play |-> play, grace |-> grace]
  BY SaneParts
<1> HIDE DEF Server
<1>3. \A i, k \in 1..n : ss[i].id = ss[k].id => i = k
  BY <1>1 DEF Sane
<1>4. ss \in [1..n -> Server] /\ \A i \in 1..n : ServerOK(ss[i])
  BY <1>1
<1>5. Sane(c) /\ c.servers = ss /\ DOMAIN ss = 1..n /\ Len(ss) = n
  BY <1>2, <1>3, <1>4, MadeSane
<1> QED
  BY <1>1, <1>5

LEMMA AppendedIs ==
    ASSUME NEW T, NEW ss \in Seq(T), NEW x \in T, NEW n, n = Len(ss), NEW m, m = n + 1
    PROVE  \E y : /\ y = Append(ss, x) /\ y \in [1..m -> T]
                  /\ y[m] = x
                  /\ \A i \in 1..n : y[i] = ss[i]
<1>1. n \in Nat /\ Append(ss, x) \in Seq(T) /\ Len(Append(ss, x)) = m
  OBVIOUS
<1>2. PICK y \in Seq(T) : y = Append(ss, x)
  BY <1>1
<1>3. Len(y) = m /\ y \in [1..m -> T]
  <2>1. Len(y) = m
    BY <1>1, <1>2
  <2>2. y \in [1..Len(y) -> T]
    OBVIOUS
  <2> QED
    BY <2>1, <2>2
<1>4. y[m] = x /\ \A i \in 1..n : y[i] = ss[i]
  BY <1>1, <1>2
<1> QED
  BY <1>2, <1>3, <1>4

LEMMA PlaceOfId ==
    ASSUME Sane(config), NEW id \in Ids
    PROVE  /\ PlaceOf(id) \in Indexes /\ Of(id) = config.servers[PlaceOf(id)] /\ Of(id).id = id
           /\ \A i \in Indexes : config.servers[i].id = id => i = PlaceOf(id)
<1>1. \E i \in Indexes : config.servers[i].id = id
  BY DEF Ids
<1>2. PlaceOf(id) \in Indexes /\ config.servers[PlaceOf(id)].id = id
  BY <1>1, Zenon DEF PlaceOf
<1> QED
  BY <1>2 DEF Sane, Indexes, Of

\* What BeginConfig leaves to show: the handler carries what it should.
LEMMA BeginConfigKeeps ==
    ASSUME AdminInv, NEW v, NEW next, NEW how \in {"reload", "swap", "none", "delete"}, NEW ids, NEW edited,
           BeginConfig(v, next, how, ids, edited),
           NEW new, minted' = minted \cup new,
           Sane(next), Resolves(next), \A i \in DOMAIN next.servers : next.servers[i].id \in minted \cup new,
           how = "swap" => SwapOK(Job(v, next, how, ids, edited)),
           how = "none" => /\ DOMAIN next.servers = Indexes
                           /\ \A i \in Indexes : SameBuild(next.servers[i], config.servers[i])
    PROVE  AdminInv'
<1>1. PICK j : j = Job(v, next, how, ids, edited)
  OBVIOUS
<1>2. j.base = config /\ j.next = next /\ j.how = how /\ j.stage = "checked"
  BY <1>1 DEF Job
<1>3. JobOK(j)
  <2>1. CheckedOK(j)
    BY <1>1, <1>2 DEF CheckedOK
  <2>2. j = [how |-> j.how, stage |-> j.stage, next |-> j.next, base |-> j.base, ids |-> j.ids,
             edited |-> j.edited, view |-> j.view]
    BY <1>1 DEF Job
  <2> QED
    BY <1>2, <2>1, <2>2 DEF JobOK
<1>4. Given(j)'
  BY <1>2 DEF Given
<1>5. NoMutation /\ Begin(j)
  BY <1>1 DEF BeginConfig
<1>6. UNCHANGED <<config, disk, library, libraryFile, readable, pool, form, listing, cache, hidden, rows>>
  BY DEF BeginConfig
<1>7. minted \subseteq minted'
  OBVIOUS
<1> QED
  BY <1>2, <1>3, <1>4, <1>5, <1>6, <1>7, BeginKeeps

LEMMA BeginEditKeeps ==
    ASSUME AdminInv, NEW v, NEW next, NEW how \in {"reload", "swap", "none", "delete"}, NEW ids, NEW edited,
           BeginConfig(v, next, how, ids, edited), minted' = minted,
           Sane(next), Resolves(next), \A i \in DOMAIN next.servers : next.servers[i].id \in minted,
           how = "swap" => SwapOK(Job(v, next, how, ids, edited)),
           how = "none" => /\ DOMAIN next.servers = Indexes
                           /\ \A i \in Indexes : SameBuild(next.servers[i], config.servers[i])
    PROVE  AdminInv'
<1>1. PICK added : added = {}
  OBVIOUS
<1>2. minted' = minted \cup added /\ \A i \in DOMAIN next.servers : next.servers[i].id \in minted \cup added
  BY <1>1
<1> QED
  BY <1>2, BeginConfigKeeps

LEMMA CreateServerKeeps ==
    ASSUME AdminInv, NEW id \in ServerIds, NEW v \in Views, NEW b \in Bodies, CreateServer(id, v, b)
    PROVE  AdminInv'
<1>1. PICK blank : blank = [id |-> id, url |-> Nothing, creds |-> {}, play |-> Nothing, mode |-> Nothing,
                            profile |-> Nothing, agent |-> FALSE, off |-> FALSE]
  OBVIOUS
<1>2. PICK new : new = Normal(Applied(blank, b, v.target), config.play)
  OBVIOUS
<1>3. PICK next, how : /\ next = [config EXCEPT !.servers = Append(config.servers, new)]
                       /\ how = IF new.mode = "resident" THEN "swap" ELSE "reload"
  OBVIOUS
<1>4. /\ id \notin minted /\ new.url # Nothing /\ ValidDraft(new)
      /\ new.mode = "resident" => SawResident(v)
      /\ BeginConfig(v, next, how, {id}, {})
      /\ minted' = minted \cup {id}
  BY <1>1, <1>2, <1>3 DEF CreateServer
<1>5. Draft(blank) /\ blank.mode = Nothing /\ blank.id = id
  BY <1>1 DEF Draft
<1>6. new.mode = "resident" => new.profile = v.target
  BY <1>2, <1>5, EditedBinding, MissingFields DEF Modes
<1>7. new.mode = "resident" => /\ new.profile \in DOMAIN library.residents /\ new.profile \in Residents
                               /\ PrintOf(new.profile) = v.print
  BY <1>4, <1>6, ShownIdentity
<1>8. Sane(config) /\ Resolves(config) /\ Ids \subseteq minted
  BY DEF AdminInv, ConfigOK
<1>9. config.play \in Plays /\ Len(config.servers) \in Nat /\ DOMAIN config.servers = 1..Len(config.servers)
  BY <1>8, SaneParts
<1>10. ServerOK(new) /\ new.id = id
  BY <1>2, <1>4, <1>5, <1>7, <1>9, EditedServer
<1>11. \A i \in DOMAIN config.servers : config.servers[i].id \in minted /\ config.servers[i].id # new.id
  BY <1>4, <1>8, <1>10 DEF Ids, Indexes
<1>12. PICK n, m, ss : /\ n = Len(config.servers) /\ m = n + 1 /\ ss = Append(config.servers, new)
                       /\ ss \in [1..m -> Server] /\ ss[m] = new /\ \A i \in 1..n : ss[i] = config.servers[i]
  <2>1. config.servers \in Seq(Server) /\ new \in Server
    BY <1>8, <1>10 DEF Sane, Config, ServerOK
  <2>2. PICK n, m : n = Len(config.servers) /\ m = n + 1
    OBVIOUS
  <2>3. \E y : /\ y = Append(config.servers, new) /\ y \in [1..m -> Server]
               /\ y[m] = new
               /\ \A i \in 1..n : y[i] = config.servers[i]
    <3> HIDE DEF Server
    <3> QED
      BY <2>1, <2>2, AppendedIs
  <2> HIDE DEF Server
  <2> QED
    BY <2>2, <2>3, Zenon
<1>13. Sane(next) /\ next.servers = ss /\ Len(ss) = m /\ DOMAIN ss = 1..m
  <2>1. config = [servers |-> config.servers, play |-> config.play, grace |-> config.grace]
    BY <1>8, SaneParts
  <2>2. next = [servers |-> ss, play |-> config.play, grace |-> config.grace]
    BY <1>3, <1>12, <2>1
  <2>3. n \in Nat /\ m \in Nat /\ ss \in [1..m -> Server] /\ \A i \in 1..m : i = m \/ i \in 1..n
    BY <1>9, <1>12
  <2>4. \A i \in 1..m : ServerOK(ss[i])
    BY <2>3, <1>8, <1>9, <1>10, <1>12 DEF Sane
  <2>5. \A i, k \in 1..m : ss[i].id = ss[k].id => i = k
    BY <2>3, <1>8, <1>9, <1>10, <1>11, <1>12 DEF Sane
  <2>6. PICK play \in Plays, grace \in Graces : play = config.play /\ grace = config.grace
    BY <1>8, SaneParts
  <2>7. next = [servers |-> ss, play |-> play, grace |-> grace]
    BY <2>2, <2>6
  <2> HIDE DEF Server
  <2> QED
    BY <2>3, <2>4, <2>5, <2>7, MadeSane
<1>14. \A i \in 1..m : i = m \/ i \in 1..n
  BY <1>9, <1>12
<1>15. Resolves(next)
  BY <1>7, <1>8, <1>9, <1>12, <1>13, <1>14 DEF Resolves
<1>16. \A i \in DOMAIN next.servers : next.servers[i].id \in minted \cup {id}
  BY <1>9, <1>10, <1>11, <1>12, <1>13, <1>14
<1>17. how = "swap" => SwapOK(Job(v, next, how, {id}, {}))
  <2> SUFFICES ASSUME new.mode = "resident" PROVE SwapOK(Job(v, next, how, {id}, {}))
    BY <1>3
  <2>1. PICK j : j = Job(v, next, how, {id}, {})
    OBVIOUS
  <2>2. j.next = next /\ j.ids = {id} /\ j.view = v
    BY <2>1 DEF Job
  <2>3. j.ids \cap Ids = {}
    BY <1>4, <1>8, <2>2
  <2>4. \A i \in DOMAIN j.next.servers :
            j.next.servers[i].id \in j.ids /\ j.next.servers[i].mode = "resident" =>
                PrintOf(j.next.servers[i].profile) = j.view.print
    BY <2>2, <1>7, <1>9, <1>10, <1>11, <1>12, <1>13, <1>14
  <2>5. \A i \in Indexes : /\ i \in DOMAIN j.next.servers
                           /\ j.next.servers[i].id = config.servers[i].id
                           /\ config.servers[i].id \in j.ids \/ SameBuild(j.next.servers[i], config.servers[i])
    BY <2>2, <1>9, <1>12, <1>13 DEF Indexes, SameBuild
  <2>6. /\ Len(j.next.servers) = Len(config.servers) + 1
        /\ j.next.servers[Len(j.next.servers)].id \in j.ids
    BY <2>2, <1>10, <1>12, <1>13
  <2> QED
    BY <2>1, <2>3, <2>4, <2>5, <2>6 DEF SwapOK
<1>18. how \in {"reload", "swap"}
  BY <1>3
<1>19. PICK added : added = {id}
  OBVIOUS
<1> QED
  BY <1>4, <1>13, <1>15, <1>16, <1>17, <1>18, <1>19, BeginConfigKeeps

LEMMA UpdateServerKeeps ==
    ASSUME AdminInv, NEW id \in Ids, NEW v \in Views, NEW b \in Bodies, UpdateServer(id, v, b)
    PROVE  AdminInv'
<1>1. PICK old, new, p : /\ old = Of(id) /\ p = PlaceOf(id)
                         /\ new = Normal(Applied(old, b, v.target), config.play)
  OBVIOUS
<1>2. PICK next, how : /\ next = [config EXCEPT !.servers[p] = new]
                       /\ how = IF "resident" \in {old.mode, new.mode} THEN "swap" ELSE "reload"
  OBVIOUS
<1>3. /\ ValidDraft(new)
      /\ how = "swap" => Saw(v, {id})
      /\ new.mode = "resident" => SawResident(v) /\ v.target = new.profile
      /\ BeginConfig(v, next, how, {id}, {id})
      /\ minted' = minted
  BY <1>1, <1>2 DEF UpdateServer
<1>4. Sane(config) /\ Resolves(config) /\ Ids \subseteq minted
  BY DEF AdminInv, ConfigOK
<1>5. /\ p \in Indexes /\ old = config.servers[p] /\ old.id = id
      /\ \A i \in Indexes : config.servers[i].id = id => i = p
  BY <1>1, <1>4, PlaceOfId
<1>6. new.mode = "resident" => /\ new.profile \in DOMAIN library.residents /\ new.profile \in Residents
                               /\ PrintOf(new.profile) = v.print
  BY <1>3, ShownIdentity
<1>7. config.play \in Plays /\ Len(config.servers) \in Nat /\ DOMAIN config.servers = 1..Len(config.servers)
  BY <1>4, SaneParts
<1>8. ServerOK(old)
  BY <1>4, <1>5 DEF Sane, Indexes
<1>9. Draft(old) /\ new.url # Nothing
  <2>1. old \in Server
    BY <1>8 DEF ServerOK
  <2>2. Draft(old) /\ old.url \in Urls
    BY <2>1 DEF Server, Draft
  <2>3. new.url = Or(b.url, old.url)
    <3>1. PICK agent, url, play1, mode1, creds, profile1 :
              /\ agent = (old.agent \/ b.agent)
              /\ url = Or(b.url, old.url) /\ play1 = Or(b.play, old.play) /\ mode1 = Or(b.mode, old.mode)
              /\ creds = IF b.kind = Nothing THEN old.creds \cup b.creds ELSE (old.creds \cup b.creds) \cap {b.kind}
              /\ profile1 = IF b.mode = "resident" THEN v.target ELSE old.profile
      OBVIOUS
    <3>2. PICK a : a = [old EXCEPT !.url = url, !.play = play1, !.mode = mode1, !.agent = agent,
                                   !.profile = profile1, !.creds = creds]
      OBVIOUS
    <3>3. Applied(old, b, v.target) = a
      BY <2>1, <3>1, <3>2 DEF Applied, Server
    <3>4. a.url = url /\ DOMAIN a = DOMAIN old /\ "url" \in DOMAIN a
      BY <2>1, <3>2 DEF Server
    <3>5. new.url = a.url
      BY <1>1, <3>3, <3>4 DEF Normal
    <3> QED
      BY <3>1, <3>4, <3>5
  <2> QED
    BY <2>2, <2>3, MissingFields DEF Or
<1>10. ServerOK(new) /\ new.id = id
  BY <1>1, <1>3, <1>5, <1>6, <1>7, <1>9, EditedServer
<1>11. PICK ss : ss = [config.servers EXCEPT ![p] = new]
  OBVIOUS
<1>12. /\ DOMAIN ss = Indexes /\ ss[p] = new /\ \A i \in Indexes : i # p => ss[i] = config.servers[i]
       /\ ss = [i \in DOMAIN config.servers |-> ss[i]]
  BY <1>5, <1>11 DEF Indexes
<1>13. Sane(next) /\ next.servers = ss /\ Len(ss) = Len(config.servers)
  <2>1. next = [servers |-> ss, play |-> config.play, grace |-> config.grace]
    <3>1. config = [servers |-> config.servers, play |-> config.play, grace |-> config.grace]
      BY <1>4, SaneParts
    <3> QED
      BY <3>1, <1>2, <1>11
  <2>2. \A i \in DOMAIN config.servers : ServerOK(ss[i]) /\ ss[i].id = config.servers[i].id
    BY <1>4, <1>5, <1>10, <1>12 DEF Sane, Indexes
  <2>3. ss \in [DOMAIN config.servers -> Server]
    <3>1. \A i \in DOMAIN config.servers : ss[i] \in Server
      BY <2>2 DEF ServerOK
    <3> HIDE DEF Server
    <3> QED
      BY <3>1, <1>12
  <2> HIDE DEF Server
  <2> QED
    BY <2>1, <2>2, <2>3, <1>4, SameIdsSane
<1>14. Resolves(next)
  BY <1>4, <1>6, <1>12, <1>13 DEF Resolves, Indexes
<1>15. \A i \in DOMAIN next.servers : next.servers[i].id \in minted
  BY <1>4, <1>5, <1>10, <1>12, <1>13 DEF Ids
<1>16. how = "swap" => SwapOK(Job(v, next, how, {id}, {id}))
  <2> SUFFICES ASSUME how = "swap" PROVE SwapOK(Job(v, next, how, {id}, {id}))
    OBVIOUS
  <2>1. PICK j : j = Job(v, next, how, {id}, {id})
    OBVIOUS
  <2>2. j.next = next /\ j.ids = {id} /\ j.view = v
    BY <2>1 DEF Job
  <2>3. \A k \in j.ids \cap Ids : j.view.seen[k] = <<Of(k).mode, Of(k).profile>>
    BY <1>3, <2>2 DEF Saw
  <2>4. \A i \in DOMAIN j.next.servers :
            j.next.servers[i].id \in j.ids /\ j.next.servers[i].mode = "resident" =>
                PrintOf(j.next.servers[i].profile) = j.view.print
    BY <2>2, <1>5, <1>6, <1>12, <1>13
  <2>5. \A i \in Indexes : /\ i \in DOMAIN j.next.servers
                           /\ j.next.servers[i].id = config.servers[i].id
                           /\ config.servers[i].id \in j.ids \/ SameBuild(j.next.servers[i], config.servers[i])
    BY <2>2, <1>5, <1>10, <1>12, <1>13 DEF SameBuild
  <2>6. Len(j.next.servers) = Len(config.servers)
    BY <2>2, <1>13
  <2> QED
    BY <2>1, <2>3, <2>4, <2>5, <2>6 DEF SwapOK
<1>17. how \in {"reload", "swap"}
  BY <1>2
<1> QED
  BY <1>3, <1>13, <1>14, <1>15, <1>16, <1>17, BeginEditKeeps

LEMMA AssignKeeps ==
    ASSUME AdminInv, NEW v \in Views, NEW assigned \in SUBSET Ids, NEW released \in SUBSET Ids,
           Assign(v, assigned, released)
    PROVE  AdminInv'
<1>1. PICK ss : ss = [i \in Indexes |->
            IF config.servers[i].id \in assigned
            THEN [config.servers[i] EXCEPT !.mode = "resident", !.profile = v.target]
            ELSE IF config.servers[i].id \in released
            THEN [config.servers[i] EXCEPT !.mode = "passthrough", !.profile = Nothing]
            ELSE config.servers[i]]
  OBVIOUS
<1>2. PICK next, ids : next = [config EXCEPT !.servers = ss] /\ ids = assigned \cup released
  OBVIOUS
<1>3. /\ assigned \cap released = {} /\ SawResident(v) /\ Saw(v, ids)
      /\ BeginConfig(v, next, "swap", ids, {}) /\ minted' = minted
  BY <1>1, <1>2 DEF Assign
<1>4. Sane(config) /\ Resolves(config) /\ Ids \subseteq minted
  BY DEF AdminInv, ConfigOK
<1>5. v.target \in DOMAIN library.residents /\ v.target \in Residents /\ PrintOf(v.target) = v.print
  BY <1>3, ShownIdentity
<1>6. /\ config = [servers |-> config.servers, play |-> config.play, grace |-> config.grace]
      /\ DOMAIN config.servers = Indexes
  BY <1>4, SaneParts DEF Indexes
<1>7. ASSUME NEW i \in Indexes
      PROVE  /\ ServerOK(ss[i]) /\ ss[i].id = config.servers[i].id
             /\ ss[i].mode = "resident" => \/ ss[i].profile = v.target
                                           \/ ss[i].id \notin ids /\ ss[i] = config.servers[i]
             /\ ss[i].id \notin ids => ss[i] = config.servers[i]
  <2>0. ServerOK(config.servers[i])
    BY <1>4, <1>6 DEF Sane
  <2>1. CASE config.servers[i].id \in assigned
    <3>1. ss[i] = [config.servers[i] EXCEPT !.mode = "resident", !.profile = v.target]
      BY <1>1, <2>1
    <3>2. ServerOK(ss[i]) /\ ss[i].id = config.servers[i].id /\ ss[i].profile = v.target
      <4>1. PICK s : s = config.servers[i]
        OBVIOUS
      <4>2. s \in Server /\ \E kind \in Credentials : s.creds = {kind}
        BY <2>0, <4>1 DEF ServerOK
      <4>3. PICK t : t = [s EXCEPT !.mode = "resident", !.profile = v.target]
        OBVIOUS
      <4>4. t \in Server /\ t.id = s.id /\ t.mode = "resident" /\ t.profile = v.target /\ t.creds = s.creds
        BY <1>5, <4>2, <4>3 DEF Server, Modes
      <4>5. ServerOK(t)
        BY <1>5, <4>2, <4>4, MissingFields DEF ServerOK
      <4> QED
        BY <3>1, <4>1, <4>3, <4>4, <4>5
    <3> QED
      BY <2>1, <3>2, <1>2
  <2>2. CASE config.servers[i].id \notin assigned /\ config.servers[i].id \in released
    <3>1. ss[i] = [config.servers[i] EXCEPT !.mode = "passthrough", !.profile = Nothing]
      BY <1>1, <2>2
    <3>2. ServerOK(ss[i]) /\ ss[i].id = config.servers[i].id /\ ss[i].mode = "passthrough"
      <4>1. PICK s : s = config.servers[i]
        OBVIOUS
      <4>2. s \in Server /\ \E kind \in Credentials : s.creds = {kind}
        BY <2>0, <4>1 DEF ServerOK
      <4>3. PICK t : t = [s EXCEPT !.mode = "passthrough", !.profile = Nothing]
        OBVIOUS
      <4>4. t \in Server /\ t.id = s.id /\ t.mode = "passthrough" /\ t.profile = Nothing /\ t.creds = s.creds
        BY <4>2, <4>3 DEF Server, Modes
      <4>5. ServerOK(t)
        BY <4>2, <4>4 DEF ServerOK
      <4> QED
        BY <3>1, <4>1, <4>3, <4>4, <4>5
    <3> QED
      BY <2>2, <3>2, <1>2
  <2>3. CASE config.servers[i].id \notin ids
    BY <1>1, <1>2, <2>0, <2>3
  <2> QED
    BY <2>1, <2>2, <2>3, <1>2
<1>8. Sane(next) /\ next.servers = ss /\ DOMAIN ss = Indexes /\ Len(ss) = Len(config.servers)
  <2>1. next = [servers |-> ss, play |-> config.play, grace |-> config.grace]
    BY <1>2, <1>6
  <2>2. \A i \in DOMAIN config.servers : ServerOK(ss[i]) /\ ss[i].id = config.servers[i].id
    BY <1>6, <1>7
  <2>3. ss \in [DOMAIN config.servers -> Server]
    <3>1. \A i \in DOMAIN config.servers : ss[i] \in Server
      BY <2>2 DEF ServerOK
    <3>2. DOMAIN ss = DOMAIN config.servers /\ ss = [i \in DOMAIN ss |-> ss[i]]
      BY <1>1, <1>6
    <3> HIDE DEF Server
    <3> QED
      BY <3>1, <3>2
  <2>4. DOMAIN ss = Indexes
    BY <1>1
  <2> HIDE DEF Server
  <2> QED
    BY <2>1, <2>2, <2>3, <2>4, <1>4, SameIdsSane
<1>9. Resolves(next)
  BY <1>4, <1>5, <1>6, <1>7, <1>8 DEF Resolves
<1>10. \A i \in DOMAIN next.servers : next.servers[i].id \in minted
  BY <1>4, <1>7, <1>8 DEF Ids
<1>11. SwapOK(Job(v, next, "swap", ids, {}))
  <2>1. PICK j : j = Job(v, next, "swap", ids, {})
    OBVIOUS
  <2>2. j.next = next /\ j.ids = ids /\ j.view = v
    BY <2>1 DEF Job
  <2>3. \A k \in j.ids \cap Ids : j.view.seen[k] = <<Of(k).mode, Of(k).profile>>
    BY <1>3, <2>2 DEF Saw
  <2>4. \A i \in DOMAIN j.next.servers :
            j.next.servers[i].id \in j.ids /\ j.next.servers[i].mode = "resident" =>
                PrintOf(j.next.servers[i].profile) = j.view.print
    BY <2>2, <1>5, <1>7, <1>8
  <2>5. \A i \in Indexes : /\ i \in DOMAIN j.next.servers
                           /\ j.next.servers[i].id = config.servers[i].id
                           /\ config.servers[i].id \in j.ids \/ SameBuild(j.next.servers[i], config.servers[i])
    BY <2>2, <1>7, <1>8 DEF SameBuild
  <2>6. Len(j.next.servers) = Len(config.servers)
    BY <2>2, <1>8
  <2> QED
    BY <2>1, <2>3, <2>4, <2>5, <2>6 DEF SwapOK
<1>12. PICK how : how = "swap"
  OBVIOUS
<1> QED
  BY <1>3, <1>8, <1>9, <1>10, <1>11, <1>12, BeginEditKeeps

\* Settings, the order of the servers and their share in aggregation.
LEMMA SaveSettingsKeeps ==
    ASSUME AdminInv, NEW play \in Plays, NEW grace \in Graces, SaveSettings(play, grace)
    PROVE  AdminInv'
<1>1. PICK next : next = [config EXCEPT !.play = play, !.grace = grace]
  OBVIOUS
<1>2. BeginConfig(Nothing, next, "reload", {}, {}) /\ minted' = minted
  BY <1>1 DEF SaveSettings
<1>3. Sane(config) /\ Resolves(config) /\ Ids \subseteq minted
  BY DEF AdminInv, ConfigOK
<1>4. PICK ss : ss = config.servers
  OBVIOUS
<1>5. next = [servers |-> ss, play |-> play, grace |-> grace]
  <2>1. config = [servers |-> config.servers, play |-> config.play, grace |-> config.grace]
    BY <1>3, SaneParts
  <2> QED
    BY <2>1, <1>1, <1>4
<1>6. Sane(next) /\ next.servers = ss
  <2>1. PICK n \in Nat : DOMAIN config.servers = 1..n /\ Len(config.servers) = n
    BY <1>3, SaneParts
  <2>2. ss \in [1..n -> Server]
    <3>1. config.servers \in Seq(Server)
      BY <1>3 DEF Sane, Config
    <3> HIDE DEF Server
    <3> QED
      BY <2>1, <3>1, <1>4
  <2>3. /\ \A i \in 1..n : ServerOK(ss[i])
        /\ \A i, k \in 1..n : ss[i].id = ss[k].id => i = k
    BY <1>3, <1>4, <2>1 DEF Sane
  <2> HIDE DEF Server
  <2> QED
    BY <1>5, <2>2, <2>3, MadeSane
<1>7. Resolves(next)
  BY <1>3, <1>4, <1>6 DEF Resolves
<1>8. \A i \in DOMAIN next.servers : next.servers[i].id \in minted
  BY <1>3, <1>4, <1>6 DEF Ids, Indexes
<1> QED
  BY <1>2, <1>6, <1>7, <1>8, BeginEditKeeps

LEMMA ToggleAggregationKeeps ==
    ASSUME AdminInv, NEW id \in Ids, ToggleAggregation(id)
    PROVE  AdminInv'
<1>1. Sane(config) /\ Resolves(config) /\ Ids \subseteq minted
  BY DEF AdminInv, ConfigOK
<1>2. PICK p \in Indexes : p = PlaceOf(id)
  BY <1>1, PlaceOfId
<1>3. PICK off : off = ~config.servers[p].off
  OBVIOUS
<1>4. PICK new : new = [config.servers[p] EXCEPT !.off = off]
  OBVIOUS
<1>5. PICK ss : ss = [config.servers EXCEPT ![p] = new]
  OBVIOUS
<1>6. PICK next : next = [config EXCEPT !.servers = ss]
  OBVIOUS
<1>7. BeginConfig(Nothing, next, "none", {}, {}) /\ minted' = minted
  BY <1>2, <1>3, <1>4, <1>5, <1>6 DEF ToggleAggregation
<1>8. ServerOK(new) /\ SameBuild(new, config.servers[p])
  <2>1. PICK s : s = config.servers[p]
    OBVIOUS
  <2>2. ServerOK(s)
    BY <1>1, <1>2, <2>1 DEF Sane, Indexes
  <2>3. s \in Server /\ \E kind \in Credentials : s.creds = {kind}
    BY <2>2 DEF ServerOK
  <2>4. off \in BOOLEAN
    BY <1>3
  <2>5. new \in Server /\ new.creds = s.creds /\ new.id = s.id /\ new.url = s.url
        /\ new.mode = s.mode /\ new.profile = s.profile
    BY <1>4, <2>1, <2>3, <2>4 DEF Server
  <2> QED
    BY <2>1, <2>2, <2>3, <2>5 DEF ServerOK, SameBuild
<1>9. /\ DOMAIN config.servers = Indexes /\ DOMAIN ss = Indexes
      /\ \A i \in Indexes : SameBuild(ss[i], config.servers[i]) /\ ServerOK(ss[i])
  BY <1>1, <1>2, <1>5, <1>8 DEF Indexes, SameBuild, Sane
<1>10. Sane(next) /\ next.servers = ss
  <2>1. config = [servers |-> config.servers, play |-> config.play, grace |-> config.grace]
    BY <1>1, SaneParts
  <2>2. next = [servers |-> ss, play |-> config.play, grace |-> config.grace]
    BY <2>1, <1>6
  <2>3. ss \in [DOMAIN config.servers -> Server]
    <3>1. \A i \in DOMAIN config.servers : ss[i] \in Server
      BY <1>9 DEF ServerOK
    <3>2. ss = [i \in DOMAIN config.servers |-> ss[i]]
      BY <1>5
    <3> HIDE DEF Server
    <3> QED
      BY <3>1, <3>2
  <2>4. \A i \in DOMAIN config.servers : ServerOK(ss[i]) /\ ss[i].id = config.servers[i].id
    BY <1>9 DEF SameBuild
  <2> HIDE DEF Server
  <2> QED
    BY <2>2, <2>3, <2>4, <1>1, SameIdsSane
<1>11. Resolves(next)
  BY <1>1, <1>9, <1>10 DEF Resolves, SameBuild
<1>12. \A i \in DOMAIN next.servers : next.servers[i].id \in minted
  BY <1>1, <1>9, <1>10 DEF Ids, SameBuild
<1>13. DOMAIN next.servers = Indexes /\ \A i \in Indexes : SameBuild(next.servers[i], config.servers[i])
  BY <1>9, <1>10
<1>14. PICK how : how = "none"
  OBVIOUS
<1> QED
  BY <1>7, <1>10, <1>11, <1>12, <1>13, <1>14, BeginEditKeeps

\* A configuration whose servers are servers of another one, each taken once.
LEMMA ChosenSane ==
    ASSUME NEW cfg, Sane(cfg), NEW m \in Nat, NEW from \in [1..m -> DOMAIN cfg.servers],
           \A i, k \in 1..m : from[i] = from[k] => i = k,
           NEW ss, ss = [i \in 1..m |-> cfg.servers[from[i]]],
           NEW c, c = [servers |-> ss, play |-> cfg.play, grace |-> cfg.grace]
    PROVE  Sane(c) /\ c.servers = ss /\ DOMAIN ss = 1..m
<1>1. PICK play \in Plays, grace \in Graces : c = [servers |-> ss, play |-> play, grace |-> grace]
  BY SaneParts
<1>2. \A i \in 1..m : from[i] \in DOMAIN cfg.servers /\ ss[i] = cfg.servers[from[i]]
  OBVIOUS
<1>3. \A i, k \in 1..m : ss[i].id = ss[k].id => i = k
  BY <1>2 DEF Sane
<1>4. \A i \in 1..m : ServerOK(ss[i])
  BY <1>2 DEF Sane
<1>5. ss \in [1..m -> Server]
  <2>1. \A i \in 1..m : cfg.servers[from[i]] \in Server
    BY <1>2 DEF Sane, ServerOK
  <2> HIDE DEF Server
  <2> QED
    BY <2>1
<1> HIDE DEF Server
<1> QED
  BY <1>1, <1>3, <1>4, <1>5, MadeSane

LEMMA ReorderKeeps ==
    ASSUME AdminInv, NEW i \in Indexes, NEW k \in Indexes, Reorder(i, k)
    PROVE  AdminInv'
<1>1. Sane(config) /\ Resolves(config) /\ Ids \subseteq minted
  BY DEF AdminInv, ConfigOK
<1>2. PICK m \in Nat : Indexes = 1..m /\ DOMAIN config.servers = 1..m
  BY <1>1, SaneParts DEF Indexes
<1>3. PICK from : from = [n \in 1..m |-> IF n = k THEN i
                                        ELSE IF i <= n /\ n < k THEN n + 1
                                        ELSE IF k < n /\ n <= i THEN n - 1 ELSE n]
  OBVIOUS
<1>4. from \in [1..m -> DOMAIN config.servers] /\ \A a, b \in 1..m : from[a] = from[b] => a = b
  <2>1. i \in 1..m /\ k \in 1..m
    BY <1>2
  <2>2. \A n \in 1..m : from[n] \in 1..m
    BY <1>3, <2>1
  <2>3. from \in [1..m -> DOMAIN config.servers]
    BY <1>2, <1>3, <2>2
  <2>4. \A a, b \in 1..m : from[a] = from[b] => a = b
    BY <1>3, <2>1
  <2> QED
    BY <2>3, <2>4
<1>5. PICK ss : ss = [n \in 1..m |-> config.servers[from[n]]]
  OBVIOUS
<1>6. PICK next : next = [config EXCEPT !.servers = ss]
  OBVIOUS
<1>7. BeginConfig(Nothing, next, "reload", {}, {}) /\ minted' = minted
  <2>1. PICK moved : moved = [n \in Indexes |->
                    IF n = k THEN config.servers[i]
                    ELSE IF i <= n /\ n < k THEN config.servers[n + 1]
                    ELSE IF k < n /\ n <= i THEN config.servers[n - 1] ELSE config.servers[n]]
    OBVIOUS
  <2>2. moved = ss
    BY <1>2, <1>3, <1>5, <2>1
  <2>3. BeginConfig(Nothing, [config EXCEPT !.servers = moved], "reload", {}, {}) /\ minted' = minted
    BY <2>1 DEF Reorder
  <2> QED
    BY <2>2, <2>3, <1>6
<1>8. Sane(next) /\ next.servers = ss /\ DOMAIN ss = 1..m
  <2>1. config = [servers |-> config.servers, play |-> config.play, grace |-> config.grace]
    BY <1>1, SaneParts
  <2>2. next = [servers |-> ss, play |-> config.play, grace |-> config.grace]
    BY <2>1, <1>6
  <2> QED
    BY <1>1, <1>4, <1>5, <2>2, ChosenSane
<1>9. \A n \in 1..m : from[n] \in 1..m /\ ss[n] = config.servers[from[n]]
  BY <1>2, <1>4, <1>5
<1>10. Resolves(next)
  BY <1>1, <1>2, <1>8, <1>9 DEF Resolves
<1>11. \A n \in DOMAIN next.servers : next.servers[n].id \in minted
  BY <1>1, <1>2, <1>8, <1>9 DEF Ids
<1> QED
  BY <1>7, <1>8, <1>10, <1>11, BeginEditKeeps

LEMMA RemovedIs ==
    ASSUME NEW T, NEW ss \in Seq(T), NEW p \in 1..Len(ss), NEW m, m = Len(ss) - 1
    PROVE  /\ m \in Nat
           /\ \E y : /\ y = RemoveAt(ss, p)
                     /\ y = [i \in 1..m |-> ss[IF i < p THEN i ELSE i + 1]]
<1>1. m \in Nat /\ Len(ss) \in Nat
  OBVIOUS
<1>2. PICK a, b : a = SubSeq(ss, 1, p - 1) /\ b = SubSeq(ss, p + 1, Len(ss))
  OBVIOUS
<1>3. /\ a \in Seq(T) /\ Len(a) = p - 1 /\ \A i \in 1..(p - 1) : a[i] = ss[i]
      /\ b \in Seq(T) /\ Len(b) = Len(ss) - p /\ \A i \in 1..(Len(ss) - p) : b[i] = ss[p + i]
  <2>1. a \in Seq(T) /\ Len(a) = p - 1
    BY <1>1, <1>2
  <2>2. \A i \in 1..(p - 1) : a[i] = ss[i]
    BY <1>1, <1>2
  <2>3. b \in Seq(T) /\ Len(b) = Len(ss) - p
    BY <1>1, <1>2
  <2>4. \A i \in 1..(Len(ss) - p) : b[i] = ss[p + i]
    BY <1>1, <1>2
  <2> QED
    BY <2>1, <2>2, <2>3, <2>4
<1>4. PICK y : y = a \o b
  OBVIOUS
<1>5. y \in Seq(T) /\ Len(y) = m
  BY <1>1, <1>3, <1>4
<1>6. \A i \in 1..m : y[i] = ss[IF i < p THEN i ELSE i + 1]
  BY <1>1, <1>3, <1>4
<1>7. PICK z : z = [i \in 1..m |-> ss[IF i < p THEN i ELSE i + 1]]
  OBVIOUS
<1>8. y = z
  <2>1. y \in [1..m -> T]
    <3>1. y \in [1..Len(y) -> T]
      BY <1>5
    <3> QED
      BY <1>5, <3>1
  <2> QED
    BY <2>1, <1>6, <1>7
<1>9. y = RemoveAt(ss, p)
  BY <1>2, <1>4 DEF RemoveAt
<1> QED
  BY <1>1, <1>7, <1>8, <1>9

LEMMA DeleteServerKeeps ==
    ASSUME AdminInv, NEW id \in Ids, DeleteServer(id)
    PROVE  AdminInv'
<1>1. Sane(config) /\ Resolves(config) /\ Ids \subseteq minted
  BY DEF AdminInv, ConfigOK
<1>2. PICK p \in Indexes : p = PlaceOf(id)
  BY <1>1, PlaceOfId
<1>3. PICK n \in Nat : n = Len(config.servers) /\ DOMAIN config.servers = 1..n
  BY <1>1, SaneParts
<1>4. PICK m, ss : /\ m \in Nat /\ m = n - 1 /\ ss = RemoveAt(config.servers, p)
                   /\ ss = [i \in 1..m |-> config.servers[IF i < p THEN i ELSE i + 1]]
  <2>1. config.servers \in Seq(Server)
    BY <1>1 DEF Sane, Config
  <2>2. p \in 1..Len(config.servers)
    BY <1>2, <1>3 DEF Indexes
  <2>3. PICK m : m = Len(config.servers) - 1
    OBVIOUS
  <2> HIDE DEF Server
  <2> QED
    BY <2>1, <2>2, <2>3, <1>3, RemovedIs
<1>5. PICK from : from = [i \in 1..m |-> IF i < p THEN i ELSE i + 1]
  OBVIOUS
<1>6. from \in [1..m -> DOMAIN config.servers] /\ \A a, b \in 1..m : from[a] = from[b] => a = b
  <2>1. p \in 1..n
    BY <1>2, <1>3 DEF Indexes
  <2>2. \A i \in 1..m : from[i] \in 1..n
    BY <2>1, <1>4, <1>5
  <2>3. from \in [1..m -> DOMAIN config.servers]
    BY <1>3, <1>5, <2>2
  <2>4. \A a, b \in 1..m : from[a] = from[b] => a = b
    BY <1>4, <1>5, <2>1
  <2> QED
    BY <2>3, <2>4
<1>7. ss = [i \in 1..m |-> config.servers[from[i]]]
  BY <1>4, <1>5
<1>8. PICK next : next = [config EXCEPT !.servers = ss]
  OBVIOUS
<1>9. BeginConfig(Nothing, next, "delete", {id}, {id}) /\ minted' = minted
  BY <1>2, <1>4, <1>8 DEF DeleteServer
<1>10. Sane(next) /\ next.servers = ss /\ DOMAIN ss = 1..m
  <2>1. config = [servers |-> config.servers, play |-> config.play, grace |-> config.grace]
    BY <1>1, SaneParts
  <2>2. next = [servers |-> ss, play |-> config.play, grace |-> config.grace]
    BY <2>1, <1>8
  <2> QED
    BY <1>1, <1>4, <1>6, <1>7, <2>2, ChosenSane
<1>11. \A i \in 1..m : from[i] \in DOMAIN config.servers /\ ss[i] = config.servers[from[i]]
  BY <1>6, <1>7
<1>12. Resolves(next)
  BY <1>1, <1>10, <1>11 DEF Resolves
<1>13. \A i \in DOMAIN next.servers : next.servers[i].id \in minted
  BY <1>1, <1>10, <1>11 DEF Ids, Indexes
<1> QED
  BY <1>9, <1>10, <1>12, <1>13, BeginEditKeeps

-------------------------------------------------------------------------------
(* The handler's effects.                                                  *)

LEMMA OnlyJob == ASSUME AdminInv, NEW j \in jobs PROVE jobs = {j} /\ JobOK(j) /\ Given(j)
BY DEF AdminInv, JobsOK

LEMMA LastJob == ASSUME AdminInv, NEW j \in jobs, End(j) PROVE jobs = {j} /\ jobs' = {} /\ JobsOK' /\ JobOK(j)
<1>1. jobs = {j} /\ JobOK(j)
  BY OnlyJob
<1>2. jobs' = {}
  BY <1>1 DEF End
<1> QED
  BY <1>1, <1>2 DEF JobsOK

\* A handler goes on to its next step.
LEMMA NextStage ==
    ASSUME AdminInv, NEW j \in jobs, NEW stage, Advance(j, stage)
    PROVE  \E k : /\ jobs' = {k} /\ k.stage = stage
                  /\ k = [how |-> k.how, stage |-> k.stage, next |-> k.next, base |-> k.base, ids |-> k.ids,
                          edited |-> k.edited, view |-> k.view]
                  /\ k.how = j.how /\ k.next = j.next /\ k.base = j.base /\ k.ids = j.ids
<1>1. jobs = {j} /\ JobOK(j)
  BY OnlyJob
<1>2. PICK k : k = [j EXCEPT !.stage = stage]
  OBVIOUS
<1>3. k = [how |-> j.how, stage |-> stage, next |-> j.next, base |-> j.base, ids |-> j.ids,
           edited |-> j.edited, view |-> j.view]
  BY <1>1, <1>2 DEF JobOK
<1>4. jobs' = {k}
  BY <1>1, <1>2 DEF Advance
<1> QED
  BY <1>3, <1>4

LEMMA ConfigSaveFailsKeeps == ASSUME AdminInv, NEW j \in jobs, ConfigSaveFails(j) PROVE AdminInv'
<1>1. /\ End(j) /\ j.stage = "checked" /\ j.how # "identity"
      /\ UNCHANGED <<config, disk, library, libraryFile, readable, pool, form, hidden, rows, minted>>
  BY DEF ConfigSaveFails, Committing
<1>2. jobs = {j} /\ jobs' = {} /\ JobsOK'
  BY <1>1, LastJob
<1>3. Current
  BY <1>1, <1>2, NoneLags
<1>4. PoolOK'
  <2>1. Current'
    BY <1>1, <1>3 DEF Current, Holds, Built, PrintOf, Known
  <2>2. PoolFollowsConfig'
    BY <1>2, <2>1 DEF PoolFollowsConfig, Follows, Current, Holds
  <2> QED
    BY <1>1, <2>2 DEF AdminInv, PoolOK
<1>5. ConfigOK' /\ LibraryOK' /\ FormOK' /\ LoadedHidden' = hidden' /\ libraryFile' = library'
  BY <1>1 DEF AdminInv, ConfigOK, LibraryOK, FormOK, ViewOK, LoadedHidden, Ids, Indexes, Resolves
<1> QED
  BY <1>2, <1>4, <1>5 DEF AdminInv

LEMMA HiddenAfterDelete ==
    ASSUME NEW ids, LoadedHidden = hidden,
           rows' = {row \in rows : row[2] \notin ids},
           hidden' = [u \in Viewers |-> [s \in ServerIds |-> IF s \in ids THEN {} ELSE hidden[u][s]]]
    PROVE  LoadedHidden' = hidden'
<1>1. \A u \in Viewers, s \in ServerIds : hidden[u][s] = {lib \in Libraries : <<u, s, lib>> \in rows}
  BY DEF LoadedHidden
<1>2. \A u \in Viewers, s \in ServerIds :
          (IF s \in ids THEN {} ELSE hidden[u][s]) = {lib \in Libraries : <<u, s, lib>> \in rows'}
  <2> SUFFICES ASSUME NEW u \in Viewers, NEW s \in ServerIds
               PROVE  (IF s \in ids THEN {} ELSE hidden[u][s]) = {lib \in Libraries : <<u, s, lib>> \in rows'}
    OBVIOUS
  <2>1. ASSUME NEW lib PROVE <<u, s, lib>> \in rows' <=> <<u, s, lib>> \in rows /\ s \notin ids
    OBVIOUS
  <2> QED
    BY <1>1, <2>1
<1> QED
  BY <1>2 DEF LoadedHidden

LEMMA SaveConfigKeeps == ASSUME AdminInv, NEW j \in jobs, SaveConfig(j) PROVE AdminInv'
<1>1. PICK next, base : next = j.next /\ base = config
  OBVIOUS
<1>2. /\ j.stage = "checked" /\ j.how \in {"reload", "swap", "none", "delete"}
      /\ config' = next /\ disk' = Rendered(next)
      /\ j.how = "none" => End(j)
      /\ j.how # "none" => Advance(j, "saved")
      /\ UNCHANGED <<library, libraryFile, readable, pool, form, hidden, rows, minted>>
  BY <1>1 DEF SaveConfig, Committing
<1>3. jobs = {j} /\ JobOK(j) /\ Given(j) /\ CheckedOK(j)
  BY <1>2, OnlyJob DEF JobOK
<1>4. Sane(next) /\ Resolves(next) /\ Sane(base) /\ Resolves(base)
  BY <1>1, <1>3 DEF JobOK, AdminInv, ConfigOK
<1>5. \A i \in DOMAIN next.servers : next.servers[i].id \in minted
  BY <1>1, <1>3 DEF Given
<1>6. Holds(base) /\ pool \in Seq(Client)
  BY <1>1, <1>2, <1>3, NoneLags DEF Current, AdminInv, PoolOK
<1>7. ConfigOK'
  <2>1. Sane(Parsed(Rendered(next))) /\ Effective(Parsed(Rendered(next))) = Effective(next)
    BY <1>4, FileRoundTrip
  <2>2. Resolves(next)' /\ (Ids \subseteq minted)'
    BY <1>2, <1>4, <1>5 DEF Resolves, Ids, Indexes
  <2> QED
    BY <1>2, <1>4, <2>1, <2>2 DEF ConfigOK, Resolves
<1>8. LibraryOK' /\ libraryFile' = library' /\ FormOK' /\ LoadedHidden' = hidden'
  BY <1>2 DEF AdminInv, LibraryOK, FormOK, ViewOK, LoadedHidden
<1>9. Holds(base)'
  BY <1>2, <1>6 DEF Holds, Built, PrintOf, Known
<1>10. CASE j.how = "none"
  <2>1. /\ DOMAIN next.servers = DOMAIN base.servers
        /\ \A i \in DOMAIN base.servers : SameBuild(next.servers[i], base.servers[i])
    BY <1>1, <1>3, <1>10 DEF CheckedOK, Indexes
  <2>2. \A i \in DOMAIN next.servers : pool[i] = Built(next.servers[i])
    BY <1>6, <2>1, BuiltAlike DEF Holds
  <2>3. Len(next.servers) = Len(base.servers)
    <3>1. /\ Len(next.servers) \in Nat /\ DOMAIN next.servers = 1..Len(next.servers)
          /\ Len(base.servers) \in Nat /\ DOMAIN base.servers = 1..Len(base.servers)
      BY <1>4, SaneParts
    <3>2. PICK a \in Nat, b \in Nat : a = Len(next.servers) /\ b = Len(base.servers) /\ 1..a = 1..b
      BY <2>1, <3>1
    <3>3. (a \in 1..a <=> a \in 1..b) /\ (b \in 1..a <=> b \in 1..b)
      BY <3>2
    <3>4. a = b
      BY <3>3
    <3> QED
      BY <3>2, <3>4
  <2>4. \A i \in DOMAIN next.servers : Built(next.servers[i])' = Built(next.servers[i])
    BY <1>2 DEF Built, PrintOf, Known
  <2>5. jobs' = {} /\ JobsOK'
    BY <1>2, <1>10, LastJob
  <2>6. PoolFollowsConfig'
    BY <1>2, <1>6, <2>2, <2>3, <2>4, <2>5 DEF PoolFollowsConfig, Follows, Holds
  <2> QED
    BY <1>2, <1>6, <1>7, <1>8, <2>5, <2>6 DEF AdminInv, PoolOK
<1>11. CASE j.how # "none"
  <2>1. PICK k : /\ jobs' = {k} /\ k.stage = "saved"
                 /\ k = [how |-> k.how, stage |-> k.stage, next |-> k.next, base |-> k.base, ids |-> k.ids,
                         edited |-> k.edited, view |-> k.view]
                 /\ k.how = j.how /\ k.next = j.next /\ k.base = j.base /\ k.ids = j.ids
    BY <1>2, <1>11, NextStage
  <2>2. k.base = base /\ k.next = next
    BY <1>1, <1>3, <2>1 DEF CheckedOK
  <2>3. k.how = "swap" => Reaches(base, next, k.ids)
    BY <1>1, <1>3, <2>1 DEF CheckedOK, SwapOK, Reaches, Indexes
  <2>4. Resolves(next)' /\ Resolves(base)'
    BY <1>2, <1>4 DEF Resolves
  <2>5. SavedOK(k)'
    BY <1>2, <1>4, <1>11, <2>1, <2>2, <2>3, <2>4 DEF SavedOK
  <2>6. JobOK(k)' /\ Given(k)'
    BY <1>2, <1>4, <1>5, <2>1, <2>2, <2>4, <2>5 DEF JobOK, Given
  <2>7. JobsOK'
    BY <2>1, <2>6 DEF JobsOK
  <2>8. PoolFollowsConfig'
    BY <1>9, <2>1, <2>2 DEF PoolFollowsConfig, Follows, Holds
  <2> QED
    BY <1>2, <1>6, <1>7, <1>8, <2>7, <2>8 DEF AdminInv, PoolOK
<1> QED
  BY <1>10, <1>11

\* What the steps after the save leave of the handler: it stays as it is, or it is done.
LEMMA GoesOn ==
    ASSUME AdminInv, NEW j \in jobs, j.stage # "checked", NEW stage, stage \notin {"checked", "saved"},
           End(j) \/ Advance(j, stage), UNCHANGED <<config, library, readable, minted>>
    PROVE  JobsOK' /\ \A k \in jobs' : k.stage # "saved"
<1>1. jobs = {j} /\ JobOK(j) /\ Given(j) /\ SavedOK(j)
  BY OnlyJob DEF JobOK
<1>2. CASE End(j)
  BY <1>2, LastJob
<1>3. CASE Advance(j, stage)
  <2>1. PICK k : /\ jobs' = {k} /\ k.stage = stage
                 /\ k = [how |-> k.how, stage |-> k.stage, next |-> k.next, base |-> k.base, ids |-> k.ids,
                         edited |-> k.edited, view |-> k.view]
                 /\ k.how = j.how /\ k.next = j.next /\ k.base = j.base /\ k.ids = j.ids
    BY <1>3, NextStage
  <2>2. SavedOK(k) /\ Resolves(k.next) /\ Sane(k.next)
    BY <1>1, <2>1 DEF SavedOK, JobOK
  <2>3. JobOK(k)
    BY <1>1, <2>1, <2>2 DEF JobOK
  <2>4. JobOK(k)'
    BY <2>3, JobStays DEF ResidentsStay
  <2>5. Given(k)'
    BY <1>1, <2>1 DEF Given
  <2> QED
    BY <2>1, <2>4, <2>5 DEF JobsOK
<1> QED
  BY <1>2, <1>3

LEMMA RebuildPoolKeeps == ASSUME AdminInv, NEW j \in jobs, RebuildPool(j) PROVE AdminInv'
<1>1. PICK next, base, ids : next = j.next /\ base = j.base /\ ids = j.ids
  OBVIOUS
<1>2. /\ j.stage = "saved" /\ (End(j) \/ Advance(j, "built"))
      /\ j.how = "swap" => pool' = Swapped(next, ids)
      /\ j.how # "swap" => pool' = Reloaded(next)
      /\ UNCHANGED <<config, disk, library, libraryFile, readable, form, hidden, rows, minted>>
  BY <1>1 DEF RebuildPool
<1>3. JobOK(j) /\ SavedOK(j) /\ jobs = {j}
  BY <1>2, OnlyJob DEF JobOK
<1>4. /\ next = config /\ Sane(next) /\ Sane(base) /\ Resolves(base) /\ LibraryOK
      /\ j.how # "identity"
      /\ j.how = "swap" => Reaches(base, next, ids)
  BY <1>1, <1>3 DEF SavedOK, JobOK, AdminInv
<1>5. Holds(base) /\ pool \in Seq(Client)
  <2>1. Follows(base) /\ pool \in Seq(Client)
    BY <1>1, <1>2 DEF AdminInv, PoolOK, PoolFollowsConfig
  <2> QED
    BY <2>1, <1>3, <1>4 DEF Follows, Holds
<1>6. pool' = Reloaded(next)
  <2>1. CASE j.how = "swap"
    <3>1. \A i \in DOMAIN base.servers : pool[i].id = base.servers[i].id /\ pool[i] = Built(base.servers[i])
      BY <1>5 DEF Holds, Built
    <3>2. Len(pool) = Len(base.servers) /\ Reaches(base, next, ids)
      BY <1>4, <1>5, <2>1 DEF Holds
    <3>3. Swapped(next, ids) = Reloaded(next)
      BY <1>4, <1>5, <3>1, <3>2, SwapFollows
    <3> QED
      BY <1>2, <2>1, <3>3
  <2> QED
    BY <1>2, <2>1
<1>7. Reloaded(next) \in Seq(Client) /\ Len(Reloaded(next)) = Len(next.servers)
  BY <1>4, ReloadedIsPool
<1>8. JobsOK' /\ \A k \in jobs' : k.stage # "saved"
  BY <1>2, GoesOn
<1>9. PoolOK'
  <2>1. \A i \in DOMAIN next.servers : pool'[i] = Built(next.servers[i]) /\ Built(next.servers[i])' = Built(next.servers[i])
    BY <1>2, <1>6 DEF Reloaded, Built, PrintOf, Known
  <2>2. config' = next /\ Len(pool') = Len(next.servers)
    BY <1>2, <1>4, <1>6, <1>7
  <2>3. PoolFollowsConfig'
    BY <1>8, <2>1, <2>2 DEF PoolFollowsConfig, Follows
  <2> QED
    BY <1>6, <1>7, <2>3 DEF PoolOK
<1>10. ConfigOK' /\ LibraryOK' /\ FormOK' /\ LoadedHidden' = hidden' /\ libraryFile' = library'
  BY <1>2 DEF AdminInv, ConfigOK, LibraryOK, FormOK, ViewOK, LoadedHidden, Ids, Indexes, Resolves
<1> QED
  BY <1>8, <1>9, <1>10 DEF AdminInv

\* A step after the pool is rebuilt: what is forgotten leaves table and memory alike.
LEMMA ForgettingKeeps ==
    ASSUME AdminInv, NEW j \in jobs, j.stage \in {"built", "purged"}, NEW stage, stage \notin {"checked", "saved"},
           End(j) \/ Advance(j, stage), LoadedHidden' = hidden',
           UNCHANGED <<config, disk, library, libraryFile, readable, pool, form, minted>>
    PROVE  AdminInv'
<1>1. jobs = {j} /\ JobOK(j) /\ SavedOK(j)
  BY OnlyJob DEF JobOK
<1>2. Current
  BY <1>1, NoneLags DEF SavedOK
<1>3. JobsOK' /\ \A k \in jobs' : k.stage # "saved"
  BY GoesOn
<1>4. PoolOK'
  <2>1. Current'
    BY <1>2 DEF Current, Holds, Built, PrintOf, Known
  <2>2. PoolFollowsConfig'
    BY <1>3, <2>1 DEF PoolFollowsConfig, Follows, Current, Holds
  <2> QED
    BY <2>2 DEF AdminInv, PoolOK
<1>5. ConfigOK' /\ LibraryOK' /\ FormOK' /\ libraryFile' = library'
  BY DEF AdminInv, ConfigOK, LibraryOK, FormOK, ViewOK, Ids, Indexes, Resolves
<1> QED
  BY <1>3, <1>4, <1>5 DEF AdminInv

LEMMA ForgetHiddenKeeps == ASSUME AdminInv, NEW j \in jobs, ForgetHidden(j) PROVE AdminInv'
<1>1. PICK ids, stage : ids = j.ids /\ stage = "purged"
  OBVIOUS
<1>2. LoadedHidden' = hidden'
  <2>1. LoadedHidden = hidden
    BY DEF AdminInv
  <2>2. CASE UNCHANGED <<hidden, rows>>
    BY <2>1, <2>2 DEF LoadedHidden
  <2>3. CASE /\ rows' = {row \in rows : row[2] \notin ids}
             /\ hidden' = [u \in Viewers |-> [s \in ServerIds |-> IF s \in ids THEN {} ELSE hidden[u][s]]]
    BY <2>1, <2>3, HiddenAfterDelete
  <2> QED
    BY <1>1, <2>2, <2>3 DEF ForgetHidden
<1>3. /\ j.stage = "built" /\ Advance(j, stage)
      /\ UNCHANGED <<config, disk, library, libraryFile, readable, pool, form, minted>>
  BY <1>1 DEF ForgetHidden
<1> QED
  BY <1>1, <1>2, <1>3, ForgettingKeeps

LEMMA ForgetListKeeps == ASSUME AdminInv, NEW j \in jobs, ForgetList(j) PROVE AdminInv'
<1>1. PICK stage : stage = "purged"
  OBVIOUS
<1>2. /\ j.stage \in {"built", "purged"} /\ End(j)
      /\ UNCHANGED <<config, disk, library, libraryFile, readable, pool, form, hidden, rows, minted>>
  BY DEF ForgetList
<1>3. LoadedHidden' = hidden'
  BY <1>2 DEF AdminInv, LoadedHidden
<1> QED
  BY <1>1, <1>2, <1>3, ForgettingKeeps

-------------------------------------------------------------------------------
(* The library.                                                            *)

\* Residents stay, their revisions only grow, and new ones have ids never given out.
Evolves ==
    /\ ResidentsStay
    /\ \A r \in DOMAIN library.residents :
          library'.residents[r].revision >= library.residents[r].revision
    /\ DOMAIN library'.residents \cap minted \subseteq DOMAIN library.residents

LEMMA FormStays ==
    ASSUME FormOK, LibraryOK, LibraryOK', Evolves, form' = form, minted \subseteq minted', Nothing \notin Residents
    PROVE  FormOK'
<1> SUFFICES ASSUME form # Nothing PROVE ViewOK(form)'
  BY DEF FormOK
<1>1. PICK v : v = form
  OBVIOUS
<1>2. ViewOK(v)
  BY <1>1 DEF FormOK
<1>3. ASSUME v.target \in DOMAIN library'.residents PROVE v.target \in DOMAIN library.residents
  BY <1>2, <1>3 DEF ViewOK, Evolves, LibraryOK
<1>4. \A r \in DOMAIN library.residents :
          /\ library.residents[r].revision \in Nat /\ library'.residents[r].revision \in Nat
          /\ library'.residents[r].revision >= library.residents[r].revision
          /\ library'.residents[r].print = library.residents[r].print
  BY DEF Evolves, ResidentsStay, LibraryOK
<1>5. ViewOK(v)'
  BY <1>2, <1>3, <1>4 DEF ViewOK
<1> QED
  BY <1>1, <1>5 DEF ViewOK

LEMMA LibraryKeeps ==
    ASSUME AdminInv, LibraryOK', libraryFile' = library', Evolves, minted \subseteq minted',
           UNCHANGED <<config, disk, readable, pool, jobs, form, hidden, rows>>
    PROVE  AdminInv'
<1>1. ResidentsStay
  BY DEF Evolves
<1>2. ConfigOK'
  BY <1>1 DEF AdminInv, ConfigOK, Resolves, ResidentsStay, Ids, Indexes
<1>3. FormOK'
  BY FormStays, MissingFields DEF AdminInv
<1>4. JobsOK'
  <2>1. ASSUME NEW j \in jobs PROVE JobOK(j)' /\ Given(j)'
    BY <1>1, JobStays DEF AdminInv, JobsOK, Given
  <2> QED
    BY <2>1 DEF AdminInv, JobsOK
<1>5. PoolOK'
  BY <1>1, PoolStays
<1>6. LoadedHidden' = hidden'
  BY DEF AdminInv, LoadedHidden
<1> QED
  BY <1>2, <1>3, <1>4, <1>5, <1>6 DEF AdminInv

\* A capture becomes resident.
LEMMA ResidesOK ==
    ASSUME LibraryOK, NEW r \in Residents, r \notin minted, NEW p \in Prints, ~Residing(p),
           minted' = minted \cup {r}, readable' = readable, NEW recent,
           library' = [recent |-> recent, residents |-> Resides(r, p), booted |-> TRUE]
    PROVE  LibraryOK' /\ Evolves
<1>1. r \notin DOMAIN library.residents
  BY DEF LibraryOK
<1>2. PICK old, new : old = library.residents /\ new = library'.residents
  OBVIOUS
<1>3. /\ DOMAIN new = DOMAIN old \cup {r}
      /\ new[r] = [print |-> p, revision |-> 1]
      /\ \A q \in DOMAIN old : new[q] = old[q]
      /\ new = [q \in DOMAIN old \cup {r} |-> new[q]]
  BY <1>1, <1>2 DEF Resides
<1>4. /\ old \in [DOMAIN old -> [print : Prints, revision : Nat \ {0}]]
      /\ DOMAIN old \subseteq Residents \cap minted
      /\ \A q, t \in DOMAIN old : old[q].print = old[t].print => q = t
      /\ \A q \in DOMAIN old : old[q].print # p
  BY <1>2 DEF LibraryOK, Residing
<1>5. new \in [DOMAIN new -> [print : Prints, revision : Nat \ {0}]]
  <2>1. PICK R : R = [print : Prints, revision : Nat \ {0}]
    OBVIOUS
  <2>2. [print |-> p, revision |-> 1] \in R
    BY <2>1
  <2>3. \A q \in DOMAIN old : old[q] \in R
    BY <1>4, <2>1
  <2>4. new \in [DOMAIN new -> R]
    BY <1>3, <2>2, <2>3
  <2> QED
    BY <2>1, <2>4
<1>6. \A q, t \in DOMAIN new : new[q].print = new[t].print => q = t
  BY <1>1, <1>2, <1>3, <1>4
<1>7. LibraryOK'
  BY <1>2, <1>3, <1>4, <1>5, <1>6 DEF LibraryOK
<1>8. Evolves
  <2>1. \A q \in DOMAIN old : old[q].revision \in Nat
    BY <1>4
  <2> QED
    BY <2>1, <1>2, <1>3 DEF Evolves, ResidentsStay
<1> QED
  BY <1>7, <1>8

LEMMA CaptureKeeps ==
    ASSUME AdminInv, NEW p \in Prints, NEW r \in Residents, Capture(p, r) PROVE AdminInv'
<1>1. LibraryOK /\ UNCHANGED <<config, disk, readable, pool, jobs, form, hidden, rows>> /\ libraryFile' = library'
  <2>1. LibraryOK
    BY DEF AdminInv
  <2>2. UNCHANGED <<config, disk, readable, pool, jobs, form, hidden, rows>>
    BY DEF Capture, OutsideLibrary
  <2>3. CASE library.booted
    <3>1. StoreLibrary([library EXCEPT !.recent = RecentAfter(p)])
      BY <2>3 DEF Capture
    <3> QED
      BY <3>1, <2>1, <2>2 DEF StoreLibrary
  <2>4. CASE ~library.booted
    <3>1. StoreLibrary([recent |-> RecentAfter(p), residents |-> Resides(r, p), booted |-> TRUE])
      BY <2>4 DEF Capture
    <3> QED
      BY <3>1, <2>1, <2>2 DEF StoreLibrary
  <2> QED
    BY <2>3, <2>4
<1>2. PICK recent : recent = RecentAfter(p)
  OBVIOUS
<1>3. CASE library.booted
  <2>1. library' = [library EXCEPT !.recent = recent] /\ minted' = minted
    BY <1>2, <1>3 DEF Capture, StoreLibrary
  <2>2. /\ library'.residents = library.residents /\ library'.booted = library.booted
        /\ library' = [recent |-> library'.recent, residents |-> library'.residents, booted |-> library'.booted]
    <3>1. PICK old : old = library /\ old = [recent |-> old.recent, residents |-> old.residents, booted |-> old.booted]
      BY <1>1 DEF LibraryOK
    <3> QED
      BY <2>1, <3>1
  <2>3. LibraryOK'
    BY <1>1, <1>3, <2>1, <2>2 DEF LibraryOK
  <2>4. Evolves
    <3>1. \A q \in DOMAIN library.residents : library.residents[q].revision \in Nat
      BY <1>1 DEF LibraryOK
    <3> QED
      BY <2>2, <3>1 DEF Evolves, ResidentsStay
  <2> QED
    BY <1>1, <2>1, <2>3, <2>4, LibraryKeeps
<1>4. CASE ~library.booted
  <2>1. /\ r \notin minted /\ minted' = minted \cup {r}
        /\ library' = [recent |-> recent, residents |-> Resides(r, p), booted |-> TRUE]
    BY <1>2, <1>4 DEF Capture, StoreLibrary
  <2>2. ~Residing(p)
    BY <1>1, <1>4 DEF LibraryOK, Residing
  <2>3. LibraryOK' /\ Evolves
    BY <1>1, <2>1, <2>2, ResidesOK
  <2> QED
    BY <1>1, <2>1, <2>3, LibraryKeeps
<1> QED
  BY <1>3, <1>4

LEMMA SaveRecentKeeps ==
    ASSUME AdminInv, NEW p \in Prints, NEW r \in Residents, SaveRecent(p, r) PROVE AdminInv'
<1>1. /\ LibraryOK /\ UNCHANGED <<config, disk, readable, pool, jobs, form, hidden, rows>> /\ libraryFile' = library'
      /\ p \in Range(library.recent) /\ ~Residing(p) /\ r \notin minted /\ minted' = minted \cup {r}
      /\ library' = [library EXCEPT !.residents = Resides(r, p)]
  BY DEF AdminInv, SaveRecent, StoreLibrary, OutsideLibrary
<1>2. PICK recent : recent = library.recent
  OBVIOUS
<1>3. library' = [recent |-> recent, residents |-> Resides(r, p), booted |-> TRUE]
  <2>1. PICK old : old = library /\ old = [recent |-> old.recent, residents |-> old.residents, booted |-> old.booted]
    BY <1>1 DEF LibraryOK
  <2>2. old.booted = TRUE
    BY <1>1, <2>1 DEF LibraryOK
  <2>3. PICK res : res = Resides(r, p)
    OBVIOUS
  <2> QED
    BY <1>1, <1>2, <2>1, <2>2, <2>3
<1>4. LibraryOK' /\ Evolves
  BY <1>1, <1>3, ResidesOK
<1> QED
  BY <1>1, <1>4, LibraryKeeps

LEMMA RevisedOK ==
    ASSUME LibraryOK, NEW t \in DOMAIN library.residents, NEW p \in Prints,
           p = library.residents[t].print \/ ~Residing(p),
           UNCHANGED <<minted, readable>>,
           library' = [library EXCEPT !.residents = [library.residents EXCEPT ![t] = Revised(t, p)]]
    PROVE  /\ LibraryOK'
           /\ DOMAIN library'.residents = DOMAIN library.residents
           /\ library'.residents[t].print = p
           /\ library'.residents[t].revision = library.residents[t].revision + 1
           /\ \A q \in DOMAIN library.residents : q # t => library'.residents[q] = library.residents[q]
<1>1. PICK old, new, x : old = library.residents /\ x = Revised(t, p) /\ new = [old EXCEPT ![t] = x]
  OBVIOUS
<1>2. /\ old \in [DOMAIN old -> [print : Prints, revision : Nat \ {0}]]
      /\ \A q, r \in DOMAIN old : old[q].print = old[r].print => q = r
      /\ DOMAIN old \subseteq Residents \cap minted
      /\ p = old[t].print \/ \A q \in DOMAIN old : old[q].print # p
  BY <1>1 DEF LibraryOK, Residing
<1>3. old[t].revision \in Nat
  BY <1>1, <1>2
<1>4. x = [print |-> p, revision |-> old[t].revision + 1]
  BY <1>1 DEF Revised
<1>5. PICK R : R = [print : Prints, revision : Nat \ {0}]
  OBVIOUS
<1>6. x \in R /\ x.print = p /\ x.revision = old[t].revision + 1
  BY <1>3, <1>4, <1>5
<1>7. new \in [DOMAIN old -> R] /\ new[t] = x /\ \A q \in DOMAIN old : q # t => new[q] = old[q]
  BY <1>1, <1>2, <1>5, <1>6
<1>8. \A q, r \in DOMAIN old : new[q].print = new[r].print => q = r
  BY <1>1, <1>2, <1>6, <1>7
<1>9. library'.residents = new /\ library'.booted = library.booted
      /\ library' = [recent |-> library'.recent, residents |-> library'.residents, booted |-> library'.booted]
      /\ library'.recent = library.recent
  <2>1. PICK lib : lib = library /\ lib = [recent |-> lib.recent, residents |-> lib.residents, booted |-> lib.booted]
    BY DEF LibraryOK
  <2>2. library' = [lib EXCEPT !.residents = new]
    BY <1>1, <2>1
  <2> QED
    BY <2>1, <2>2
<1>10. new \in [DOMAIN new -> R] /\ DOMAIN new = DOMAIN old
  BY <1>7
<1>11. LibraryOK'
  BY <1>1, <1>2, <1>5, <1>8, <1>9, <1>10 DEF LibraryOK
<1> QED
  BY <1>1, <1>6, <1>7, <1>9, <1>10, <1>11

LEMMA RenameKeeps == ASSUME AdminInv, NEW v \in Views, Rename(v) PROVE AdminInv'
<1>1. /\ LibraryOK /\ SawResident(v)
      /\ UNCHANGED <<config, disk, readable, pool, jobs, form, hidden, rows, minted>>
      /\ library' = [library EXCEPT !.residents[v.target] = Revised(v.target, library.residents[v.target].print)]
      /\ libraryFile' = library'
  BY DEF AdminInv, Rename, StoreLibrary, OutsideLibrary
<1>2. PICK t \in DOMAIN library.residents : t = v.target
  BY <1>1, ShownIdentity
<1>3. PICK p \in Prints : p = library.residents[t].print
  BY <1>1 DEF LibraryOK
<1>4. library' = [library EXCEPT !.residents = [library.residents EXCEPT ![t] = Revised(t, p)]]
  BY <1>1, <1>2, <1>3
<1>5. /\ LibraryOK'
      /\ DOMAIN library'.residents = DOMAIN library.residents
      /\ library'.residents[t].print = p
      /\ library'.residents[t].revision = library.residents[t].revision + 1
      /\ \A q \in DOMAIN library.residents : q # t => library'.residents[q] = library.residents[q]
  BY <1>1, <1>3, <1>4, RevisedOK
<1>6. Evolves
  <2>1. \A q \in DOMAIN library.residents : library.residents[q].revision \in Nat
    BY <1>1 DEF LibraryOK
  <2> QED
    BY <2>1, <1>3, <1>5 DEF Evolves, ResidentsStay
<1> QED
  BY <1>1, <1>5, <1>6, LibraryKeeps

LEMMA ReplaceKeeps == ASSUME AdminInv, NEW v \in Views, NEW p \in Prints, Replace(v, p) PROVE AdminInv'
<1>1. /\ LibraryOK /\ SawResident(v) /\ NoMutation
      /\ UNCHANGED <<config, disk, readable, pool, form, hidden, rows, minted>>
      /\ library' = [library EXCEPT !.residents[v.target] = Revised(v.target, p)]
      /\ libraryFile' = library'
  BY DEF AdminInv, Replace, StoreLibrary, OutsideLibrary
<1>2. PICK t \in DOMAIN library.residents : t = v.target
  BY <1>1, ShownIdentity
<1>3. p = library.residents[t].print \/ ~Residing(p)
  BY <1>2 DEF Replace
<1>4. library' = [library EXCEPT !.residents = [library.residents EXCEPT ![t] = Revised(t, p)]]
  BY <1>1, <1>2
<1>5. /\ LibraryOK'
      /\ DOMAIN library'.residents = DOMAIN library.residents
      /\ library'.residents[t].print = p
      /\ library'.residents[t].revision = library.residents[t].revision + 1
      /\ \A q \in DOMAIN library.residents : q # t => library'.residents[q] = library.residents[q]
  BY <1>1, <1>3, <1>4, RevisedOK
<1>6. jobs = {} /\ Current /\ Sane(config) /\ Resolves(config)
  <2>1. jobs = {}
    BY <1>1 DEF NoMutation
  <2> QED
    BY <2>1, NoneLags DEF AdminInv, ConfigOK
<1>7. ConfigOK'
  BY <1>1, <1>5 DEF AdminInv, ConfigOK, Resolves, Ids, Indexes
<1>8. FormOK'
  <2> SUFFICES ASSUME form # Nothing PROVE ViewOK(form)'
    BY <1>1 DEF FormOK
  <2>1. PICK w : w = form
    OBVIOUS
  <2>2. ViewOK(w)
    BY <2>1 DEF AdminInv, FormOK
  <2>3. \A q \in DOMAIN library.residents : library.residents[q].revision \in Nat
    BY <1>1 DEF LibraryOK
  <2>4. CASE w.target = t
    <3>1. w.revision \in Nat /\ w.revision <= library.residents[t].revision /\ library.residents[t].revision \in Nat
      BY <2>2, <2>3, <2>4, <1>2 DEF ViewOK
    <3>2. w.revision <= library'.residents[t].revision /\ w.revision # library'.residents[t].revision
      BY <3>1, <1>5
    <3> QED
      BY <2>1, <2>2, <2>4, <3>1, <3>2, <1>1, <1>5 DEF ViewOK
  <2>5. CASE w.target # t
    BY <2>1, <2>2, <2>5, <1>1, <1>5 DEF ViewOK
  <2> QED
    BY <2>4, <2>5
<1>9. \A i \in Indexes :
          ~(config.servers[i].mode = "resident" /\ config.servers[i].profile = t) =>
              Built(config.servers[i])' = Built(config.servers[i])
  <2> SUFFICES ASSUME NEW i \in Indexes,
                      ~(config.servers[i].mode = "resident" /\ config.servers[i].profile = t)
               PROVE  Built(config.servers[i])' = Built(config.servers[i])
    OBVIOUS
  <2>1. PICK s : s = config.servers[i]
    OBVIOUS
  <2>2. s.mode = "resident" => PrintOf(s.profile)' = PrintOf(s.profile)
    BY <2>1, <1>1, <1>5, <1>6 DEF PrintOf, Known, Resolves, Indexes
  <2>3. Built(s)' = Built(s)
    BY <2>2 DEF Built
  <2> QED
    BY <2>1, <2>3, <1>1 DEF Built
<1>10. Len(pool) = Len(config.servers) /\ pool \in Seq(Client)
  BY <1>6 DEF AdminInv, PoolOK, Current, Holds
<1>11. LoadedHidden' = hidden'
  BY <1>1 DEF AdminInv, LoadedHidden
<1>12. \A i \in Indexes : config.servers[i].id \in ServerIds
  BY <1>6, SaneParts DEF Indexes
<1>13. CASE p # library.residents[t].print /\ BoundTo(config, t) # {}
  <2>1. PICK j : j = Job(v, config, "identity", BoundTo(config, t), {})
    OBVIOUS
  <2>2. jobs' = {j}
    BY <1>2, <1>6, <1>13, <2>1 DEF Replace, Begin
  <2>3. /\ j.how = "identity" /\ j.stage = "checked" /\ j.base = config /\ j.next = config
        /\ j.ids = BoundTo(config, t)
        /\ j = [how |-> j.how, stage |-> j.stage, next |-> j.next, base |-> j.base, ids |-> j.ids,
                edited |-> j.edited, view |-> j.view]
    BY <2>1 DEF Job
  <2>4. JobsOK'
    <3>1. JobOK(j)'
      BY <2>3, <1>1, <1>6, <1>7 DEF JobOK, CheckedOK, ConfigOK
    <3>2. Given(j)'
      BY <2>3, <1>1 DEF Given, AdminInv, ConfigOK, Ids, Indexes
    <3> QED
      BY <2>2, <3>1, <3>2 DEF JobsOK
  <2>5. PoolOK'
    <3>1. ASSUME NEW i \in Indexes, config.servers[i].mode = "resident", config.servers[i].profile = t
          PROVE  /\ pool[i].id \in j.ids
                 /\ [pool[i] EXCEPT !.print = Nothing] = [Built(config.servers[i])' EXCEPT !.print = Nothing]
      <4>1. pool[i] = Built(config.servers[i])
        BY <1>6 DEF Current, Holds, Indexes
      <4>2. config.servers[i].id \in BoundTo(config, t)
        BY <3>1, <1>12 DEF BoundTo, Indexes
      <4>3. PICK s : s = config.servers[i]
        OBVIOUS
      <4>4. [Built(s) EXCEPT !.print = Nothing] = [Built(s)' EXCEPT !.print = Nothing]
        BY DEF Built
      <4>5. Built(config.servers[i])' = Built(s)'
        BY <4>3, <1>1 DEF Built
      <4> QED
        BY <2>3, <4>1, <4>2, <4>3, <4>4, <4>5 DEF Built
    <3>2. PoolFollowsConfig'
      <4> SUFFICES ASSUME NEW i \in Indexes
                   PROVE  \/ pool[i] = Built(config.servers[i])'
                          \/ /\ pool[i].id \in j.ids
                             /\ [pool[i] EXCEPT !.print = Nothing] = [Built(config.servers[i])' EXCEPT !.print = Nothing]
        BY <1>1, <1>10, <2>2, <2>3 DEF PoolFollowsConfig, Follows, Indexes
      <4> QED
        BY <3>1, <1>6, <1>9 DEF Current, Holds, Indexes
    <3> QED
      BY <3>2, <1>1, <1>10 DEF PoolOK
  <2> QED
    BY <1>1, <1>5, <1>7, <1>8, <1>11, <2>4, <2>5 DEF AdminInv
<1>14. CASE ~(p # library.residents[t].print /\ BoundTo(config, t) # {})
  <2>1. jobs' = {}
    BY <1>2, <1>6, <1>14 DEF Replace
  <2>2. \A i \in Indexes : Built(config.servers[i])' = Built(config.servers[i])
    <3> SUFFICES ASSUME NEW i \in Indexes, config.servers[i].mode = "resident", config.servers[i].profile = t
                 PROVE  Built(config.servers[i])' = Built(config.servers[i])
      BY <1>9
    <3>1. config.servers[i].id \in BoundTo(config, t)
      BY <1>12 DEF BoundTo, Indexes
    <3>2. library'.residents[t].print = library.residents[t].print
      BY <3>1, <1>5, <1>14
    <3>3. PrintOf(t)' = PrintOf(t)
      BY <3>2, <1>1, <1>5 DEF PrintOf, Known
    <3> QED
      BY <3>3, <1>1 DEF Built
  <2>3. PoolOK'
    BY <1>1, <1>6, <1>10, <2>1, <2>2 DEF PoolOK, PoolFollowsConfig, Follows, Current, Holds, Indexes
  <2>4. JobsOK'
    BY <2>1 DEF JobsOK
  <2> QED
    BY <1>1, <1>5, <1>7, <1>8, <1>11, <2>3, <2>4 DEF AdminInv
<1> QED
  BY <1>13, <1>14

LEMMA ApplyIdentityKeeps == ASSUME AdminInv, NEW j \in jobs, ApplyIdentity(j) PROVE AdminInv'
<1>1. /\ j.how = "identity" /\ pool' = Swapped(j.next, j.ids) /\ End(j)
      /\ UNCHANGED <<config, disk, library, libraryFile, readable, form, hidden, rows, minted>>
  BY DEF ApplyIdentity
<1>2. jobs = {j} /\ jobs' = {} /\ JobsOK' /\ JobOK(j)
  BY <1>1, LastJob
<1>3. j.next = config /\ j.stage = "checked"
  BY <1>1, <1>2 DEF JobOK, CheckedOK, SavedOK
<1>4. Sane(config) /\ Follows(config) /\ pool \in Seq(Client) /\ LibraryOK
  BY <1>2, <1>3 DEF AdminInv, ConfigOK, PoolOK, PoolFollowsConfig
<1>5. \A i \in DOMAIN config.servers : /\ pool[i].id = config.servers[i].id
                                       /\ config.servers[i].id \in j.ids \/ pool[i] = Built(config.servers[i])
  <2> SUFFICES ASSUME NEW i \in DOMAIN config.servers
               PROVE  /\ pool[i].id = config.servers[i].id
                      /\ config.servers[i].id \in j.ids \/ pool[i] = Built(config.servers[i])
    OBVIOUS
  <2>1. CASE pool[i] = Built(config.servers[i])
    BY <2>1 DEF Built
  <2>2. CASE pool[i] # Built(config.servers[i])
    <3>1. /\ pool[i].id \in j.ids
          /\ [pool[i] EXCEPT !.print = Nothing] = [Built(config.servers[i]) EXCEPT !.print = Nothing]
      BY <2>2, <1>2, <1>4 DEF Follows
    <3>2. pool[i].id = config.servers[i].id
      BY <3>1 DEF Built
    <3> QED
      BY <3>1, <3>2
  <2> QED
    BY <2>1, <2>2
<1>6. PICK next, base, ids : next = config /\ base = config /\ ids = j.ids
  OBVIOUS
<1>7. Len(pool) = Len(base.servers) /\ Reaches(base, next, ids)
  BY <1>4, <1>6 DEF Follows, Reaches, SameBuild
<1>8. Swapped(next, ids) = Reloaded(next)
  BY <1>4, <1>5, <1>6, <1>7, SwapFollows
<1>9. Reloaded(config) \in Seq(Client) /\ Len(Reloaded(config)) = Len(config.servers)
  BY <1>4, ReloadedIsPool
<1>10. PoolOK'
  <2>1. pool' = Reloaded(config)
    BY <1>1, <1>3, <1>6, <1>8
  <2>2. \A i \in Indexes : pool'[i] = Built(config.servers[i])
    BY <2>1 DEF Reloaded, Indexes
  <2>3. \A i \in Indexes : Built(config.servers[i])' = Built(config.servers[i])
    BY <1>1 DEF Built, PrintOf, Known
  <2> QED
    BY <1>1, <1>2, <1>9, <2>1, <2>2, <2>3 DEF PoolOK, PoolFollowsConfig, Follows, Indexes
<1>11. ConfigOK' /\ LibraryOK' /\ FormOK' /\ LoadedHidden' = hidden' /\ libraryFile' = library'
  BY <1>1 DEF AdminInv, ConfigOK, LibraryOK, FormOK, ViewOK, LoadedHidden, Ids, Indexes, Resolves
<1> QED
  BY <1>2, <1>10, <1>11 DEF AdminInv

LEMMA BeginDeleteResidentKeeps == ASSUME AdminInv, NEW v \in Views, BeginDeleteResident(v) PROVE AdminInv'
<1>1. PICK j : j = Job(v, config, "forget", {}, {})
  OBVIOUS
<1>2. /\ j.how = "forget" /\ j.stage = "checked" /\ j.base = config /\ j.next = config /\ j.view = v
      /\ j = [how |-> j.how, stage |-> j.stage, next |-> j.next, base |-> j.base, ids |-> j.ids,
              edited |-> j.edited, view |-> j.view]
  BY <1>1 DEF Job
<1>3. /\ NoMutation /\ BoundTo(config, v.target) = {} /\ Begin(j)
      /\ UNCHANGED <<config, disk, library, libraryFile, readable, pool, form, listing, cache, hidden, rows, minted>>
  BY <1>1 DEF BeginDeleteResident, OutsideLibrary
<1>4. JobOK(j)
  BY <1>2, <1>3 DEF JobOK, CheckedOK, AdminInv, ConfigOK
<1>5. Given(j)'
  BY <1>2, <1>3 DEF Given, AdminInv, ConfigOK, Ids, Indexes
<1> QED
  BY <1>2, <1>3, <1>4, <1>5, BeginKeeps

LEMMA DeleteResidentKeeps == ASSUME AdminInv, NEW j \in jobs, DeleteResident(j) PROVE AdminInv'
<1>1. /\ j.how = "forget" /\ End(j) /\ LibraryOK /\ libraryFile = library
      /\ UNCHANGED <<config, disk, readable, pool, form, hidden, rows, minted>>
  BY DEF AdminInv, DeleteResident, OutsideLibrary
<1>2. jobs = {j} /\ jobs' = {} /\ JobsOK' /\ JobOK(j)
  BY <1>1, LastJob
<1>3. Current /\ Sane(config) /\ Resolves(config)
  <2>1. j.stage = "checked"
    BY <1>1, <1>2 DEF JobOK, SavedOK
  <2>2. Current
    BY <1>1, <1>2, <2>1, NoneLags
  <2> QED
    BY <2>2 DEF AdminInv, ConfigOK
<1>4. BoundTo(config, j.view.target) = {}
  BY <1>1, <1>2 DEF JobOK, CheckedOK, SavedOK
<1>5. PICK t : t = j.view.target
  OBVIOUS
<1>6. \A i \in Indexes : config.servers[i].mode = "resident" => config.servers[i].profile # t
  <2>1. \A i \in Indexes : config.servers[i].id \in ServerIds
    BY <1>3, SaneParts DEF Indexes
  <2> QED
    BY <2>1, <1>4, <1>5 DEF BoundTo, Indexes
<1>7. PICK kept : \/ kept = DOMAIN library.residents \ {t}
                  \/ kept = DOMAIN library.residents
  OBVIOUS
<1>8. /\ libraryFile' = library' /\ LibraryOK'
      /\ DOMAIN library'.residents \subseteq DOMAIN library.residents
      /\ DOMAIN library.residents \subseteq DOMAIN library'.residents \cup {t}
      /\ \A q \in DOMAIN library'.residents : library'.residents[q] = library.residents[q]
  <2>1. CASE SawResident(j.view)
    <3>1. PICK old, new : old = library.residents /\ new = [q \in DOMAIN old \ {t} |-> old[q]]
      OBVIOUS
    <3>2. library' = [library EXCEPT !.residents = new] /\ libraryFile' = library'
      BY <1>5, <2>1, <3>1 DEF DeleteResident, StoreLibrary
    <3>3. PICK lib : lib = library /\ lib = [recent |-> lib.recent, residents |-> lib.residents, booted |-> lib.booted]
      BY <1>1 DEF LibraryOK
    <3>4. /\ library'.residents = new /\ library'.booted = library.booted /\ library'.recent = library.recent
          /\ library' = [recent |-> library'.recent, residents |-> library'.residents, booted |-> library'.booted]
      BY <3>2, <3>3
    <3>5. old \in [DOMAIN old -> [print : Prints, revision : Nat \ {0}]]
      BY <1>1, <3>1 DEF LibraryOK
    <3>6. DOMAIN new \subseteq DOMAIN old /\ \A q \in DOMAIN new : new[q] = old[q]
      BY <3>1
    <3>7. new \in [DOMAIN new -> [print : Prints, revision : Nat \ {0}]]
      <4>1. PICK R : R = [print : Prints, revision : Nat \ {0}]
        OBVIOUS
      <4>2. new \in [DOMAIN new -> R]
        BY <3>1, <3>5, <3>6, <4>1
      <4> QED
        BY <4>1, <4>2
    <3>8. LibraryOK'
      BY <1>1, <3>1, <3>4, <3>6, <3>7 DEF LibraryOK
    <3> QED
      BY <3>1, <3>2, <3>4, <3>6, <3>8
  <2>2. CASE ~SawResident(j.view)
    <3>1. library' = library /\ libraryFile' = libraryFile
      BY <2>2 DEF DeleteResident
    <3> QED
      BY <3>1, <1>1 DEF LibraryOK
  <2> QED
    BY <2>1, <2>2
<1>9. Resolves(config)
  BY <1>3
<1>10. ConfigOK'
  <2>1. Resolves(config)'
    BY <1>1, <1>3, <1>6, <1>8 DEF Resolves, Indexes
  <2> QED
    BY <2>1, <1>1 DEF AdminInv, ConfigOK, Ids, Indexes
<1>11. FormOK'
  BY <1>1, <1>8 DEF AdminInv, FormOK, ViewOK
<1>12. PoolOK'
  <2>1. \A i \in Indexes : Built(config.servers[i])' = Built(config.servers[i])
    <3> SUFFICES ASSUME NEW i \in Indexes PROVE Built(config.servers[i])' = Built(config.servers[i])
      OBVIOUS
    <3>1. PICK s : s = config.servers[i]
      OBVIOUS
    <3>2. s.mode = "resident" => s.profile \in DOMAIN library.residents /\ s.profile # t
      BY <1>3, <1>6, <3>1 DEF Resolves, Indexes
    <3>3. s.mode = "resident" => PrintOf(s.profile)' = PrintOf(s.profile)
      BY <3>2, <1>1, <1>8 DEF PrintOf, Known
    <3>4. Built(s)' = Built(s)
      BY <3>3 DEF Built
    <3> QED
      BY <3>1, <3>4, <1>1 DEF Built
  <2> QED
    BY <1>1, <1>2, <1>3, <2>1 DEF AdminInv, PoolOK, PoolFollowsConfig, Follows, Current, Holds, Indexes
<1>13. LoadedHidden' = hidden'
  BY <1>1 DEF AdminInv, LoadedHidden
<1> QED
  BY <1>2, <1>8, <1>10, <1>11, <1>12, <1>13 DEF AdminInv

LEMMA OpenKeeps == ASSUME AdminInv, NEW r \in DOMAIN library.residents \cup {Nothing}, Open(r) PROVE AdminInv'
<1>1. PICK v : v = View(r)
  OBVIOUS
<1>2. /\ form' = v
      /\ UNCHANGED <<config, disk, library, libraryFile, readable, pool, jobs, hidden, rows, minted>>
  BY <1>1 DEF Open
<1>3. ViewOK(v)
  BY <1>1, ViewsOK DEF Views
<1>4. FormOK'
  BY <1>2, <1>3 DEF FormOK, ViewOK
<1>5. ConfigOK' /\ LibraryOK' /\ LoadedHidden' = hidden' /\ libraryFile' = library'
  BY <1>2 DEF AdminInv, ConfigOK, LibraryOK, LoadedHidden, Ids, Indexes, Resolves
<1>6. JobsOK'
  BY <1>2, JobStays DEF AdminInv, JobsOK, Given, ResidentsStay
<1>7. PoolOK'
  BY <1>2, PoolStays DEF ResidentsStay
<1> QED
  BY <1>4, <1>5, <1>6, <1>7 DEF AdminInv

-------------------------------------------------------------------------------
(* Library lists and hidden libraries.                                     *)

LEMMA OnlyHidden ==
    ASSUME AdminInv, UNCHANGED <<config, disk, library, libraryFile, readable, pool, jobs, form, minted>>,
           LoadedHidden' = hidden'
    PROVE  AdminInv'
<1>1. FormOK'
  BY DEF AdminInv, FormOK, ViewOK
<1>2. ConfigOK' /\ LibraryOK' /\ libraryFile' = library'
  BY DEF AdminInv, ConfigOK, LibraryOK, Ids, Indexes, Resolves
<1>3. JobsOK'
  BY JobStays DEF AdminInv, JobsOK, Given, ResidentsStay
<1>4. PoolOK'
  BY PoolStays DEF ResidentsStay
<1> QED
  BY <1>1, <1>2, <1>3, <1>4 DEF AdminInv

LEMMA HiddenKeeps ==
    ASSUME AdminInv, NEW u \in Viewers,
           \/ \E s \in ServerIds, set \in SUBSET Libraries : SetServerHidden(u, s, set)
           \/ RemoveUser(u)
           \/ \E kept \in SUBSET ServerIds : PruneUserServers(u, kept)
    PROVE  AdminInv'
<1>1. UNCHANGED <<config, disk, library, libraryFile, readable, pool, jobs, form, minted>>
  BY DEF SetServerHidden, RemoveUser, PruneUserServers, OutsideHidden
<1>2. /\ hidden = [w \in Viewers |-> [s \in ServerIds |-> {lib \in Libraries : <<w, s, lib>> \in rows}]]
  BY DEF AdminInv, LoadedHidden
<1>3. LoadedHidden' = hidden'
  <2>1. ASSUME NEW s \in ServerIds, NEW set \in SUBSET Libraries, SetServerHidden(u, s, set)
        PROVE  LoadedHidden' = hidden'
    <3>1. /\ rows' = {row \in rows : row[1] # u \/ row[2] # s} \cup {<<u, s, lib>> : lib \in set}
          /\ hidden' = [hidden EXCEPT ![u][s] = set]
      BY <2>1 DEF SetServerHidden, RowsOf
    <3>2. ASSUME NEW w, NEW z, NEW lib
          PROVE  <<w, z, lib>> \in rows' <=> IF w = u /\ z = s THEN lib \in set ELSE <<w, z, lib>> \in rows
      BY <3>1
    <3>3. \A w \in Viewers, z \in ServerIds :
              {lib \in Libraries : <<w, z, lib>> \in rows'} = hidden'[w][z]
      BY <1>2, <3>1, <3>2
    <3>4. hidden' = [w \in Viewers |-> [z \in ServerIds |-> hidden'[w][z]]]
      BY <1>2, <3>1
    <3> QED
      BY <3>3, <3>4 DEF LoadedHidden
  <2>2. CASE RemoveUser(u)
    <3>1. /\ rows' = {row \in rows : row[1] # u}
          /\ hidden' = [hidden EXCEPT ![u] = [s \in ServerIds |-> {}]]
      BY <2>2 DEF RemoveUser
    <3>2. ASSUME NEW w, NEW z, NEW lib
          PROVE  <<w, z, lib>> \in rows' <=> w # u /\ <<w, z, lib>> \in rows
      BY <3>1
    <3>3. \A w \in Viewers, z \in ServerIds :
              {lib \in Libraries : <<w, z, lib>> \in rows'} = hidden'[w][z]
      BY <1>2, <3>1, <3>2
    <3>4. hidden' = [w \in Viewers |-> [z \in ServerIds |-> hidden'[w][z]]]
      BY <1>2, <3>1
    <3> QED
      BY <3>3, <3>4 DEF LoadedHidden
  <2>3. ASSUME NEW kept \in SUBSET ServerIds, PruneUserServers(u, kept)
        PROVE  LoadedHidden' = hidden'
    <3>1. /\ rows' = {row \in rows : row[1] = u => row[2] \in kept}
          /\ hidden' = [hidden EXCEPT ![u] = [s \in ServerIds |-> IF s \in kept THEN hidden[u][s] ELSE {}]]
      BY <2>3 DEF PruneUserServers
    <3>2. ASSUME NEW w, NEW z, NEW lib
          PROVE  <<w, z, lib>> \in rows' <=> <<w, z, lib>> \in rows /\ (w = u => z \in kept)
      BY <3>1
    <3>3. \A w \in Viewers, z \in ServerIds :
              {lib \in Libraries : <<w, z, lib>> \in rows'} = hidden'[w][z]
      BY <1>2, <3>1, <3>2
    <3>4. hidden' = [w \in Viewers |-> [z \in ServerIds |-> hidden'[w][z]]]
      BY <1>2, <3>1
    <3> QED
      BY <3>3, <3>4 DEF LoadedHidden
  <2> QED
    BY <2>1, <2>2, <2>3
<1> QED
  BY <1>1, <1>3, OnlyHidden

LEMMA ReloadedPool ==
    LibraryOK /\ Sane(config) => Reloaded(config) \in Seq(Client) /\ Len(Reloaded(config)) = Len(config.servers)
BY ReloadedIsPool

LEMMA ConfigRestartKeeps == ASSUME AdminInv, ConfigRestart PROVE AdminInv'
<1>1. /\ config' = Parsed(disk) /\ library' = libraryFile /\ readable' \in BOOLEAN
      /\ pool' = Reloaded(config)' /\ hidden' = LoadedHidden /\ jobs' = {}
      /\ UNCHANGED <<disk, libraryFile, form, rows, minted>>
  BY DEF ConfigRestart
<1>2. /\ Sane(config) /\ Resolves(config) /\ Ids \subseteq minted
      /\ Sane(Parsed(disk)) /\ Effective(Parsed(disk)) = Effective(config)
      /\ LibraryOK /\ libraryFile = library
  BY DEF AdminInv, ConfigOK
<1>3. PICK cfg : cfg = Parsed(disk)
  OBVIOUS
<1>4. /\ DOMAIN cfg.servers = DOMAIN config.servers
      /\ \A i \in DOMAIN cfg.servers : SameBuild(cfg.servers[i], config.servers[i])
  BY <1>2, <1>3, SameEffect
<1>5. Sane(cfg) /\ Resolves(cfg) /\ \A i \in DOMAIN cfg.servers : cfg.servers[i].id \in minted
  BY <1>2, <1>3, <1>4 DEF Resolves, SameBuild, Ids, Indexes
<1>6. ConfigOK'
  BY <1>1, <1>2, <1>3, <1>5 DEF ConfigOK, Ids, Indexes, Resolves
<1>7. LibraryOK' /\ libraryFile' = library'
  BY <1>1, <1>2 DEF LibraryOK
<1>8. FormOK'
  BY <1>1, <1>2 DEF AdminInv, FormOK, ViewOK
<1>9. JobsOK'
  BY <1>1 DEF JobsOK
<1>10. PoolOK'
  <2>1. (LibraryOK /\ Sane(config))'
    BY <1>6, <1>7 DEF ConfigOK
  <2>2. (Reloaded(config) \in Seq(Client) /\ Len(Reloaded(config)) = Len(config.servers))'
    BY <2>1, ReloadedPool, PTL
  <2>3. (\A i \in Indexes : Reloaded(config)[i] = Built(config.servers[i]))'
    BY DEF Reloaded, Indexes
  <2> QED
    BY <1>1, <2>2, <2>3 DEF PoolOK, PoolFollowsConfig, Follows, Indexes
<1>11. LoadedHidden' = hidden'
  BY <1>1 DEF LoadedHidden
<1> QED
  BY <1>6, <1>7, <1>8, <1>9, <1>10, <1>11 DEF AdminInv

LEMMA AdminStarts == ASSUME ConfigInit PROVE AdminInv
<1>1. PICK c : c = [servers |-> <<>>, play |-> "proxy", grace |-> DefaultGrace]
  OBVIOUS
<1>2. /\ config = c /\ disk = Rendered(c) /\ library = EmptyLibrary /\ libraryFile = EmptyLibrary
      /\ readable = TRUE /\ pool = <<>> /\ jobs = {} /\ form = Nothing
      /\ hidden = [u \in Viewers |-> [s \in ServerIds |-> {}]] /\ rows = {} /\ minted = {}
  BY <1>1 DEF ConfigInit
<1>3. PICK e : e = << >>
  OBVIOUS
<1>4. c.servers = e /\ e \in Seq(Server) /\ DOMAIN e = {} /\ Len(e) = 0
  <2> HIDE DEF Server
  <2> QED
    BY <1>1, <1>3
<1>5. c \in Config
  <2> HIDE DEF Server
  <2> QED
    BY <1>1, <1>3, <1>4, ConfigNumbers DEF Config, Plays
<1>6. Sane(c)
  BY <1>4, <1>5 DEF Sane
<1>7. ConfigOK
  <2>1. Sane(Parsed(Rendered(c))) /\ Effective(Parsed(Rendered(c))) = Effective(c)
    BY <1>6, FileRoundTrip
  <2> QED
    BY <1>2, <1>4, <1>6, <2>1 DEF ConfigOK, Resolves, Ids, Indexes
<1>8. LibraryOK /\ libraryFile = library
  <2>1. /\ library = [recent |-> <<>>, residents |-> NoResidents, booted |-> FALSE]
        /\ library.residents = NoResidents /\ library.recent = <<>> /\ library.booted = FALSE
    BY <1>2 DEF EmptyLibrary
  <2>2. DOMAIN NoResidents = {} /\ NoResidents = [r \in {} |-> Nothing]
    BY DEF NoResidents
  <2>3. NoResidents \in [{} -> [print : Prints, revision : Nat \ {0}]]
    <3>1. PICK R : R = [print : Prints, revision : Nat \ {0}]
      OBVIOUS
    <3>2. NoResidents \in [{} -> R]
      BY <2>2
    <3> QED
      BY <3>1, <3>2
  <2>4. Range(library.recent) = {}
    BY <2>1 DEF Range
  <2> QED
    BY <1>2, <2>1, <2>2, <2>3, <2>4 DEF LibraryOK
<1>9. FormOK /\ JobsOK
  BY <1>2 DEF FormOK, JobsOK
<1>10. PoolOK
  <2>1. pool \in Seq(Client)
    <3> HIDE DEF Client
    <3> QED
      BY <1>2
  <2> QED
    BY <1>2, <1>3, <1>4, <2>1 DEF PoolOK, PoolFollowsConfig, Follows
<1>11. LoadedHidden = hidden
  BY <1>2 DEF LoadedHidden
<1> QED
  BY <1>7, <1>8, <1>9, <1>10, <1>11 DEF AdminInv

LEMMA AdminStep == ASSUME AdminInv, [ConfigNext]_configVars PROVE AdminInv'
<1>1. ASSUME NEW r \in DOMAIN library.residents \cup {Nothing}, Open(r) PROVE AdminInv'
  BY <1>1, OpenKeeps
<1>2. CASE EditServers
  BY <1>2, CreateServerKeeps, UpdateServerKeeps DEF EditServers
<1>3. ASSUME NEW v \in Views, NEW a \in SUBSET Ids, NEW b \in SUBSET Ids, Assign(v, a, b) PROVE AdminInv'
  BY <1>3, AssignKeeps
<1>4. ASSUME NEW i \in Indexes, NEW k \in Indexes, Reorder(i, k) PROVE AdminInv'
  BY <1>4, ReorderKeeps
<1>5. ASSUME NEW id \in Ids, ToggleAggregation(id) \/ DeleteServer(id) PROVE AdminInv'
  BY <1>5, ToggleAggregationKeeps, DeleteServerKeeps
<1>6. ASSUME NEW play \in Plays, NEW grace \in Graces, SaveSettings(play, grace) PROVE AdminInv'
  BY <1>6, SaveSettingsKeeps
<1>7. ASSUME NEW j \in jobs,
             SaveConfig(j) \/ ConfigSaveFails(j) \/ RebuildPool(j) \/ ForgetHidden(j) \/ ForgetList(j)
      PROVE  AdminInv'
  BY <1>7, SaveConfigKeeps, ConfigSaveFailsKeeps, RebuildPoolKeeps, ForgetHiddenKeeps, ForgetListKeeps
<1>8. CASE Library
  <2>1. ASSUME NEW p \in Prints, NEW r \in Residents, Capture(p, r) \/ SaveRecent(p, r) PROVE AdminInv'
    BY <2>1, CaptureKeeps, SaveRecentKeeps
  <2>2. ASSUME NEW v \in Views, Rename(v) \/ BeginDeleteResident(v) \/ \E p \in Prints : Replace(v, p) PROVE AdminInv'
    BY <2>2, RenameKeeps, BeginDeleteResidentKeeps, ReplaceKeeps
  <2>3. ASSUME NEW j \in jobs, ApplyIdentity(j) \/ DeleteResident(j) PROVE AdminInv'
    BY <2>3, ApplyIdentityKeeps, DeleteResidentKeeps
  <2> QED
    BY <1>8, <2>1, <2>2, <2>3 DEF Library
<1>9. ASSUME NEW i \in DOMAIN pool, RequestList(i) PROVE AdminInv'
  <2>1. UNCHANGED <<config, disk, library, libraryFile, readable, pool, jobs, form, minted, hidden, rows>>
    BY <1>9 DEF RequestList
  <2> QED
    BY <2>1, OnlyHidden DEF AdminInv, LoadedHidden
<1>10. ASSUME NEW l \in listing, ReceiveList(l) PROVE AdminInv'
  <2>1. UNCHANGED <<config, disk, library, libraryFile, readable, pool, jobs, form, minted, hidden, rows>>
    BY <1>10 DEF ReceiveList
  <2> QED
    BY <2>1, OnlyHidden DEF AdminInv, LoadedHidden
<1>11. ASSUME NEW u \in Viewers,
              \/ \E s \in ServerIds, set \in SUBSET Libraries : SetServerHidden(u, s, set)
              \/ RemoveUser(u)
              \/ \E kept \in SUBSET ServerIds : PruneUserServers(u, kept)
       PROVE  AdminInv'
  BY <1>11, HiddenKeeps
<1>12. CASE ConfigRestart
  BY <1>12, ConfigRestartKeeps
<1>13. CASE UNCHANGED configVars
  <2>1. UNCHANGED <<config, disk, library, libraryFile, readable, pool, jobs, form, minted, hidden, rows>>
    BY <1>13 DEF configVars
  <2> QED
    BY <2>1, OnlyHidden DEF AdminInv, LoadedHidden
<1> QED
  BY <1>1, <1>2, <1>3, <1>4, <1>5, <1>6, <1>7, <1>8, <1>9, <1>10, <1>11, <1>12, <1>13 DEF ConfigNext

LEMMA DiskIsParsed ==
    ASSUME AdminInv
    PROVE  \A i \in DOMAIN disk.servers : disk.servers[i].mode = "resident" =>
              /\ i \in Indexes /\ config.servers[i].mode = "resident"
              /\ config.servers[i].profile = disk.servers[i].profile
<1>1. PICK f, cfg : f = disk /\ cfg = Parsed(disk)
  OBVIOUS
<1>2. Sane(cfg) /\ Sane(config) /\ Effective(cfg) = Effective(config)
  BY <1>1 DEF AdminInv, ConfigOK
<1>3. /\ DOMAIN cfg.servers = DOMAIN config.servers
      /\ \A i \in DOMAIN cfg.servers : SameBuild(cfg.servers[i], config.servers[i])
  BY <1>2, SameEffect
<1>4. PICK ss, grace : /\ ss = [i \in DOMAIN f.servers |-> Normal(f.servers[i], f.play)]
                       /\ grace = IF f.grace = 0 THEN DefaultGrace ELSE f.grace
  OBVIOUS
<1>5. cfg = [f EXCEPT !.grace = grace, !.servers = ss]
  BY <1>1, <1>4 DEF Parsed
<1>6. cfg.servers = ss
  <2>1. cfg = [servers |-> cfg.servers, play |-> cfg.play, grace |-> cfg.grace]
    BY <1>2, SaneParts
  <2> QED
    BY <1>5, <2>1
<1>7. ASSUME NEW i \in DOMAIN f.servers, f.servers[i].mode = "resident"
      PROVE  i \in DOMAIN cfg.servers /\ cfg.servers[i].mode = "resident" /\ cfg.servers[i].profile = f.servers[i].profile
  <2>1. PICK s, play, mode, profile :
            /\ s = f.servers[i]
            /\ play = (IF s.play = Nothing THEN f.play ELSE s.play)
            /\ mode = (IF s.mode = Nothing THEN "passthrough" ELSE s.mode)
            /\ profile = (IF s.mode = "resident" THEN s.profile ELSE Nothing)
    OBVIOUS
  <2>2. i \in DOMAIN cfg.servers /\ cfg.servers[i] = [s EXCEPT !.play = play, !.mode = mode, !.profile = profile]
    <3>1. PICK n : n = Normal(f.servers[i], f.play)
      OBVIOUS
    <3>2. n = [s EXCEPT !.play = play, !.mode = mode, !.profile = profile]
      BY <2>1, <3>1 DEF Normal
    <3>3. i \in DOMAIN cfg.servers /\ cfg.servers[i] = n
      BY <1>4, <1>6, <3>1
    <3> QED
      BY <3>2, <3>3
  <2>3. PICK t : t = cfg.servers[i] /\ t \in Server
    BY <1>2, <2>2 DEF Sane, ServerOK
  <2>4. t.mode = mode /\ t.profile = profile
    <3>1. "mode" \in DOMAIN t /\ "profile" \in DOMAIN t
      BY <2>3 DEF Server
    <3> QED
      BY <2>2, <2>3, <3>1
  <2>5. mode = "resident" /\ profile = s.profile
    BY <1>7, <2>1, MissingFields DEF Modes
  <2> QED
    BY <2>1, <2>2, <2>3, <2>4, <2>5
<1> QED
  BY <1>1, <1>3, <1>7 DEF SameBuild, Indexes

LEMMA InvariantMeans ==
    ASSUME AdminInv
    PROVE  BindingsResolve /\ PoolFollowsConfig /\ EditsSeeWhatTheyChange /\ RestartChangesNothing
<1>1. BindingsResolve
  BY DiskIsParsed DEF AdminInv, ConfigOK, Resolves, LibraryOK, BindingsResolve, Indexes
<1>2. EditsSeeWhatTheyChange
  BY DEF AdminInv, JobsOK, JobOK, CheckedOK, SwapOK, EditsSeeWhatTheyChange
<1>3. PoolFollowsConfig /\ RestartChangesNothing
  BY DEF AdminInv, PoolOK, ConfigOK, RestartChangesNothing
<1> QED
  BY <1>1, <1>2, <1>3

-------------------------------------------------------------------------------
(* What the type invariant says beyond AdminInv.                           *)
Listed == [id : ServerIds, url : Urls]
PanelOK ==
    /\ library.recent \in Seq(Prints)
    /\ \A r \in DOMAIN library.residents : library.residents[r].revision <= MaxRevision
    /\ listing \subseteq Listed
    /\ cache \in [ServerIds -> Urls \cup {Nothing}]
    /\ minted \subseteq ServerIds \cup Residents

LEMMA PanelMeans == ASSUME AdminInv, PanelOK PROVE ConfigTypeOK
<1>1. config \in Config
  BY DEF AdminInv, ConfigOK, Sane
<1>2. library.recent \in Seq(Prints) /\ library.booted \in BOOLEAN /\ readable \in BOOLEAN
  BY DEF PanelOK, AdminInv, LibraryOK
<1>3. DOMAIN library.residents \subseteq Residents
  BY DEF AdminInv, LibraryOK
<1>4. ASSUME NEW r \in DOMAIN library.residents PROVE library.residents[r] \in Resident
  <2>1. PICK e : e = library.residents[r]
    OBVIOUS
  <2>2. e \in [print : Prints, revision : Nat \ {0}] /\ e.revision <= MaxRevision
    BY <2>1 DEF AdminInv, LibraryOK, PanelOK
  <2> QED
    BY <2>1, <2>2, ConfigNumbers DEF Resident
<1>5. pool \in Seq(Client)
  BY DEF AdminInv, PoolOK
<1>6. cache \in [ServerIds -> Urls \cup {Nothing}] /\ minted \subseteq ServerIds \cup Residents
  BY DEF PanelOK
<1>7. hidden \in [Viewers -> [ServerIds -> SUBSET Libraries]]
  BY DEF AdminInv, LoadedHidden
<1> HIDE DEF Client, Server, Resident
<1> QED
  BY <1>1, <1>2, <1>3, <1>4, <1>5, <1>6, <1>7 DEF ConfigTypeOK, Config

LEMMA RecentTyped ==
    ASSUME library.recent \in Seq(Prints), NEW p \in Prints
    PROVE  RecentAfter(p) \in Seq(Prints)
<1>1. PICK recent : recent = library.recent /\ recent \in Seq(Prints)
  OBVIOUS
<1>2. CASE p \in Range(recent)
  <2>1. \E i \in DOMAIN recent : recent[i] = p
    BY <1>2 DEF Range
  <2>2. PICK i : i = CHOOSE n \in DOMAIN recent : recent[n] = p
    OBVIOUS
  <2>3. i \in 1..Len(recent)
    <3>1. i \in DOMAIN recent
      BY <2>1, <2>2
    <3> QED
      BY <3>1, <1>1
  <2>4. RemoveAt(recent, i) \in Seq(Prints)
    BY <1>1, <2>3 DEF RemoveAt
  <2>5. PICK rest : rest = RemoveAt(recent, i) /\ rest \in Seq(Prints)
    BY <2>4
  <2>6. RecentAfter(p) = <<p>> \o rest
    BY <1>1, <1>2, <2>2, <2>5 DEF RecentAfter
  <2> QED
    BY <2>5, <2>6
<1>3. CASE p \notin Range(recent)
  <2>1. PICK n \in Nat : n = IF Len(recent) < RecentLimit THEN Len(recent) + 1 ELSE RecentLimit
    BY <1>1, ConfigNumbers
  <2>2. RecentAfter(p) = SubSeq(<<p>> \o recent, 1, n)
    BY <1>1, <1>3, <2>1 DEF RecentAfter
  <2>3. PICK all : all = <<p>> \o recent /\ all \in Seq(Prints) /\ Len(all) = Len(recent) + 1
    <3>1. <<p>> \o recent \in Seq(Prints) /\ Len(<<p>> \o recent) = Len(recent) + 1
      BY <1>1
    <3> QED
      BY <3>1
  <2>4. n <= Len(all)
    BY <1>1, <2>1, <2>3, ConfigNumbers
  <2> QED
    BY <2>1, <2>2, <2>3, <2>4
<1> QED
  BY <1>2, <1>3

\* The library changes; ids are given.
LEMMA PanelStays ==
    ASSUME PanelOK, UNCHANGED <<library, listing, cache>>, minted' \subseteq minted \cup ServerIds
    PROVE  PanelOK'
BY DEF PanelOK

LEMMA LibraryTyped ==
    ASSUME AdminInv, PanelOK, Library PROVE PanelOK'
<1> USE DEF PanelOK
<1>0. PICK old : old = library /\ old = [recent |-> old.recent, residents |-> old.residents, booted |-> old.booted]
  BY DEF AdminInv, LibraryOK
<1>1. ASSUME NEW p \in Prints, NEW r \in Residents, Capture(p, r) \/ SaveRecent(p, r) PROVE PanelOK'
  <2>1. UNCHANGED <<listing, cache>> /\ minted' \subseteq minted \cup {r}
    BY <1>1 DEF Capture, SaveRecent, OutsideLibrary
  <2>2. PICK recent, res : recent = RecentAfter(p) /\ res = Resides(r, p)
    OBVIOUS
  <2>3. recent \in Seq(Prints)
    BY <2>2, RecentTyped
  <2>4. \A q \in DOMAIN res : res[q].revision <= MaxRevision
    BY <2>2, ConfigNumbers DEF Resides
  <2>5. library'.recent \in {recent, old.recent} /\ library'.residents \in {res, old.residents}
    <3>1. \/ library' = [old EXCEPT !.recent = recent]
          \/ library' = [recent |-> recent, residents |-> res, booted |-> TRUE]
          \/ library' = [old EXCEPT !.residents = res]
      BY <1>0, <1>1, <2>2 DEF Capture, SaveRecent, StoreLibrary
    <3> QED
      BY <1>0, <3>1
  <2> QED
    BY <1>0, <2>1, <2>3, <2>4, <2>5
<1>2. ASSUME NEW v \in Views, Rename(v) \/ \E p \in Prints : Replace(v, p) PROVE PanelOK'
  <2>1. UNCHANGED <<listing, cache, minted>> /\ v.target \in DOMAIN library.residents /\ v.revision < MaxRevision
        /\ v.revision = library.residents[v.target].revision
    BY <1>2 DEF Rename, Replace, OutsideLibrary, SawResident, Known
  <2>2. PICK q, new : /\ library' = [old EXCEPT !.residents[v.target] = new]
                      /\ new = Revised(v.target, q)
    BY <1>0, <1>2 DEF Rename, Replace, StoreLibrary
  <2>3. new.revision <= MaxRevision
    <3>1. PICK n \in Nat : n = v.revision
      BY <2>1 DEF AdminInv, LibraryOK
    <3>2. new.revision = n + 1
      BY <2>1, <2>2, <3>1 DEF Revised
    <3> QED
      BY <2>1, <3>1, <3>2, ConfigNumbers
  <2>4. library'.recent = old.recent /\ library'.residents = [old.residents EXCEPT ![v.target] = new]
    BY <1>0, <2>2
  <2>5. \A r \in DOMAIN library'.residents : library'.residents[r].revision <= MaxRevision
    BY <1>0, <2>3, <2>4
  <2> QED
    BY <1>0, <2>1, <2>4, <2>5
<1>3. ASSUME NEW v \in Views, BeginDeleteResident(v) PROVE PanelOK'
  BY <1>3 DEF BeginDeleteResident, OutsideLibrary
<1>4. ASSUME NEW j \in jobs, ApplyIdentity(j) PROVE PanelOK'
  BY <1>4 DEF ApplyIdentity
<1>5. ASSUME NEW j \in jobs, DeleteResident(j) PROVE PanelOK'
  <2>1. UNCHANGED <<listing, cache, minted>>
    BY <1>5 DEF DeleteResident, OutsideLibrary
  <2>2. PICK res : res = [q \in DOMAIN library.residents \ {j.view.target} |-> library.residents[q]]
    OBVIOUS
  <2>3. library' \in {old, [old EXCEPT !.residents = res]}
    BY <1>0, <1>5, <2>2 DEF DeleteResident, StoreLibrary
  <2>4. library'.recent = old.recent /\ library'.residents \in {res, old.residents}
    BY <1>0, <2>3
  <2> QED
    BY <1>0, <2>1, <2>2, <2>4
<1> QED
  BY <1>1, <1>2, <1>3, <1>4, <1>5 DEF Library

LEMMA PanelStep ==
    ASSUME AdminInv, PanelOK, [ConfigNext]_configVars PROVE PanelOK'
<1>1. ASSUME NEW r \in DOMAIN library.residents \cup {Nothing}, Open(r) PROVE PanelOK'
  BY <1>1, PanelStays DEF Open
<1>2. CASE EditServers
  <2>1. ASSUME NEW v \in Views, NEW b \in Bodies, NEW id \in ServerIds, CreateServer(id, v, b) PROVE PanelOK'
    <3>1. UNCHANGED <<library, listing, cache>> /\ minted' = minted \cup {id}
      BY <2>1 DEF CreateServer, BeginConfig
    <3> QED
      BY <3>1, PanelStays
  <2>2. ASSUME NEW v \in Views, NEW b \in Bodies, NEW id \in Ids, UpdateServer(id, v, b) PROVE PanelOK'
    <3>1. UNCHANGED <<library, listing, cache, minted>>
      BY <2>2 DEF UpdateServer, BeginConfig
    <3> QED
      BY <3>1, PanelStays
  <2> QED
    BY <1>2, <2>1, <2>2 DEF EditServers
<1>3. ASSUME NEW v \in Views, NEW a \in SUBSET Ids, NEW b \in SUBSET Ids, Assign(v, a, b) PROVE PanelOK'
  BY <1>3, PanelStays DEF Assign, BeginConfig
<1>4. ASSUME NEW i \in Indexes, NEW k \in Indexes, Reorder(i, k) PROVE PanelOK'
  BY <1>4, PanelStays DEF Reorder, BeginConfig
<1>5. ASSUME NEW id \in Ids, ToggleAggregation(id) \/ DeleteServer(id) PROVE PanelOK'
  BY <1>5, PanelStays DEF ToggleAggregation, DeleteServer, BeginConfig
<1>6. ASSUME NEW play \in Plays, NEW grace \in Graces, SaveSettings(play, grace) PROVE PanelOK'
  BY <1>6, PanelStays DEF SaveSettings, BeginConfig
<1>7. ASSUME NEW j \in jobs, ForgetList(j) PROVE PanelOK'
  <2>1. UNCHANGED <<library, listing, minted>>
    BY <1>7 DEF ForgetList
  <2>2. cache' = [s \in ServerIds |-> IF s \in j.edited THEN Nothing ELSE cache[s]]
    BY <1>7 DEF ForgetList
  <2> QED
    BY <2>1, <2>2 DEF PanelOK
<1>8. ASSUME NEW j \in jobs, SaveConfig(j) \/ ConfigSaveFails(j) \/ RebuildPool(j) \/ ForgetHidden(j) PROVE PanelOK'
  BY <1>8, PanelStays DEF SaveConfig, ConfigSaveFails, RebuildPool, ForgetHidden
<1>9. CASE Library
  BY <1>9, LibraryTyped
<1>10. ASSUME NEW i \in DOMAIN pool, RequestList(i) PROVE PanelOK'
  <2>1. PICK c \in Client : c = pool[i]
    BY DEF AdminInv, PoolOK
  <2>2. PICK l : l = [id |-> c.id, url |-> c.url]
    OBVIOUS
  <2>3. l \in Listed
    BY <2>1, <2>2 DEF Client, Listed
  <2>4. UNCHANGED <<library, cache, minted>> /\ listing' = listing \cup {l}
    BY <1>10, <2>1, <2>2 DEF RequestList
  <2> QED
    BY <2>3, <2>4 DEF PanelOK
<1>11. ASSUME NEW l \in listing, ReceiveList(l) PROVE PanelOK'
  <2>1. UNCHANGED <<library, minted>> /\ listing' \subseteq listing
    BY <1>11 DEF ReceiveList
  <2>2. l.id \in ServerIds /\ l.url \in Urls
    BY DEF PanelOK, Listed
  <2>3. cache' \in {cache, [cache EXCEPT ![l.id] = l.url]}
    BY <1>11 DEF ReceiveList
  <2> QED
    BY <2>1, <2>2, <2>3 DEF PanelOK
<1>12. ASSUME NEW u \in Viewers,
              \/ \E s \in ServerIds, set \in SUBSET Libraries : SetServerHidden(u, s, set)
              \/ RemoveUser(u)
              \/ \E kept \in SUBSET ServerIds : PruneUserServers(u, kept)
       PROVE  PanelOK'
  BY <1>12, PanelStays DEF SetServerHidden, RemoveUser, PruneUserServers, OutsideHidden
<1>13. CASE ConfigRestart
  <2>1. library' = library /\ listing' = {} /\ cache' = [s \in ServerIds |-> Nothing] /\ minted' = minted
    BY <1>13 DEF ConfigRestart, AdminInv
  <2> QED
    BY <2>1 DEF PanelOK
<1>14. CASE UNCHANGED configVars
  BY <1>14, PanelStays DEF configVars
<1> QED
  BY <1>1, <1>2, <1>3, <1>4, <1>5, <1>6, <1>7, <1>8, <1>9, <1>10, <1>11, <1>12, <1>13, <1>14 DEF ConfigNext

LEMMA PanelStarts == ASSUME ConfigInit PROVE PanelOK
<1>1. library.recent = <<>> /\ DOMAIN library.residents = {}
  BY DEF ConfigInit, EmptyLibrary, NoResidents
<1>2. listing = {} /\ minted = {} /\ cache = [s \in ServerIds |-> Nothing]
  BY DEF ConfigInit
<1> QED
  BY <1>1, <1>2 DEF PanelOK

-------------------------------------------------------------------------------
(* The invariant the following theorems rest on: one handler at a time     *)
(* changes the configuration, and what it is about to save is sane, refers *)
(* to residents that exist and was derived from what it will replace       *)
(* (withAdminMutation and the handlers under it).                          *)
THEOREM ConfigInvariant == ConfigSpec => []AdminInv
<1>1. ConfigInit => AdminInv
  BY AdminStarts
<1>2. AdminInv /\ [ConfigNext]_configVars => AdminInv'
  BY AdminStep
<1> QED
  BY <1>1, <1>2, PTL DEF ConfigSpec

(* Configuration, library, pool, cached library lists and hidden libraries *)
(* keep their types: no edit of the panel leaves a server half configured, *)
(* and no revision outgrows its bound.                                     *)
THEOREM ConfigTypeCorrect == ConfigSpec => []ConfigTypeOK
<1>1. ConfigInit => AdminInv /\ PanelOK
  BY AdminStarts, PanelStarts
<1>2. AdminInv /\ PanelOK /\ [ConfigNext]_configVars => (AdminInv /\ PanelOK)'
  BY AdminStep, PanelStep
<1>3. AdminInv /\ PanelOK => ConfigTypeOK
  BY PanelMeans
<1> QED
  BY <1>1, <1>2, <1>3, PTL DEF ConfigSpec

(* Every server in resident mode names a resident that exists, in memory   *)
(* and in the files, and no identity is resident twice, whatever edits,    *)
(* assignments, replacements and deletions come in whatever order.         *)
THEOREM BindingsAlwaysResolve == ConfigSpec => []BindingsResolve
<1>1. AdminInv => BindingsResolve
  BY InvariantMeans
<1> QED
  BY <1>1, ConfigInvariant, PTL

(* The pool holds the client of each server of the configuration, in its   *)
(* order and with the identity its resident has, while clients are swapped *)
(* one by one (swapUAClients); between the save of a handler and the       *)
(* rebuild that follows it, that of the configuration the save replaced.   *)
THEOREM PoolAlwaysFollows == ConfigSpec => []PoolFollowsConfig
<1>1. AdminInv => PoolFollowsConfig
  BY InvariantMeans
<1> QED
  BY <1>1, ConfigInvariant, PTL

(* An edit is saved over the bindings and the identity its panel showed,   *)
(* and over the configuration it was derived from, although logins capture *)
(* identities meanwhile.                                                   *)
THEOREM NoEditIsBlind == ConfigSpec => []EditsSeeWhatTheyChange
<1>1. AdminInv => EditsSeeWhatTheyChange
  BY InvariantMeans
<1> QED
  BY <1>1, ConfigInvariant, PTL

(* A restart at any moment finds in the files what the server works with:  *)
(* what Rendered leaves out, Parsed fills in to the same effect.           *)
THEOREM RestartsLoseNothing == ConfigSpec => []RestartChangesNothing
<1>1. AdminInv => RestartChangesNothing
  BY InvariantMeans
<1> QED
  BY <1>1, ConfigInvariant, PTL
================================================================================
