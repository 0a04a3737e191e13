-------------------------------- MODULE Accounts --------------------------------
(***************************************************************************)
(* Accounts and sessions: the handlers that log in, log out and administer *)
(* accounts (handlers_user.go, handlers_admin.go) over the user store      *)
(* (user_store.go) and the proxy tokens, and what a request that carries a *)
(* token may reach (auth_context.go, aggregation_policy.go).               *)
(*                                                                         *)
(* A change of the user store is one transaction and one critical section; *)
(* the revocation it calls for follows in another component.  A login      *)
(* verifies the password first and issues the token later.  Changes of the *)
(* configuration are serialised by a mutex, those of users are not.        *)
(***************************************************************************)
EXTENDS AuthManager

CONSTANTS
    Users,      \* regular users
    Admin,      \* the administrator
    Servers,    \* upstream servers of the first configuration
    None

ASSUME OwnersAssumption == Owners = Users \cup {Admin} /\ Admin \notin Users
ASSUME NoneAssumption == None \notin Owners

VARIABLES
    accounts,   \* the user store: memory and database change together
    configured, \* the upstream servers of the configuration
    handlers,   \* where each handler is, outside its calls of the token map
    ended,      \* history: tokens whose account or credential was cut off
    excused,    \* history: tokens that outlive that: a failed save, a stop, a late login
    halfway     \* history: tokens that outlive that because an update failed half-way

accountVars == <<accounts, configured, handlers, ended, excused, halfway>>
allVars == <<vars, accountVars>>

Account == [state : {"absent", "enabled", "disabled", "deleted"}, grants : SUBSET Servers]

\* outdated: history, the password a login verified was changed meanwhile.
Handler == [pc : {"free", "verified", "patch", "revoke", "revokeAll", "drop", "call", "settings"},
            owner : Owners \cup {None}, server : Servers \cup {None}, outdated : BOOLEAN]
Free == [pc |-> "free", owner |-> None, server |-> None, outdated |-> FALSE]

IsFree(h) == handlers[h] = Free
At(h, pc) == handlers[h].pc = pc
Become(h, rec) == handlers' = [handlers EXCEPT ![h] = rec]
Goto(h, pc) == handlers' = [handlers EXCEPT ![h].pc = pc]

\* The mutex of configuration changes.
Unlocked == \A h \in Handlers : handlers[h].pc \notin {"revokeAll", "drop", "settings"}

-------------------------------------------------------------------------------
AccountInit ==
    /\ Init
    /\ accounts = [u \in Users |-> [state |-> "absent", grants |-> {}]]
    /\ configured = Servers
    /\ handlers = [h \in Handlers |-> Free]
    /\ ended = {} /\ excused = {} /\ halfway = {}

(* Logging in and out.                                                     *)

Verify(h, u) ==
    /\ IsFree(h)
    /\ u \in Users => accounts[u].state = "enabled"
    /\ Become(h, [Free EXCEPT !.pc = "verified", !.owner = u])
    /\ UNCHANGED <<vars, accounts, configured, ended, excused, halfway>>

Login(h) ==
    /\ At(h, "verified")
    /\ \E t \in Token :
          /\ OwnerOf(t) = handlers[h].owner
          /\ Issue(h, t)
          /\ ended' = IF handlers[h].outdated THEN ended \cup {t} ELSE ended
          /\ excused' = IF handlers[h].outdated THEN excused \cup {t} ELSE excused
    /\ Goto(h, "call")
    /\ UNCHANGED <<accounts, configured, halfway>>

\* Faulty: deletes the token without saving the map.
LogoutUnsaved(h, t) ==
    /\ IsFree(h) /\ Idle(h) /\ t \in tokens
    /\ tokens' = tokens \ {t}
    /\ UNCHANGED <<file, spent, calls, revoked, accountVars>>

Logout(h, t) ==
    /\ IsFree(h)
    /\ RevokeToken(h, t)
    /\ Goto(h, "call")
    /\ UNCHANGED <<accounts, configured, ended, excused, halfway>>

(* Administering users.                                                    *)

Create(h, u, grants) ==
    /\ IsFree(h)
    /\ accounts[u].state = "absent"
    /\ accounts' = [accounts EXCEPT ![u] = [state |-> "enabled", grants |-> grants]]
    /\ UNCHANGED <<vars, configured, handlers, ended, excused, halfway>>

Exists(u) == accounts[u].state \in {"enabled", "disabled"}

\* Everything of u that was made before is to end: its tokens, and the logins
\* that have verified the old credential.
CutOff(h, u, pc) ==
    /\ handlers' = [g \in Handlers |->
          IF g = h THEN [Free EXCEPT !.pc = pc, !.owner = u]
          ELSE IF handlers[g].pc = "verified" /\ handlers[g].owner = u
          THEN [handlers[g] EXCEPT !.outdated = TRUE]
          ELSE handlers[g]]
    /\ ended' = ended \cup {t \in spent : OwnerOf(t) = u}
    /\ excused' = {t \in excused : OwnerOf(t) # u}
    /\ halfway' = {t \in halfway : OwnerOf(t) # u}

\* An update may change several fields at once; one that disables the account or
\* changes the password also revokes, after the hidden libraries were saved.
Update(h, u, state, grants) ==
    /\ IsFree(h) /\ Exists(u)
    /\ accounts' = [accounts EXCEPT ![u] = [state |-> state, grants |-> grants]]
    /\ \/ CutOff(h, u, "patch")
       \/ /\ state \in {"enabled", accounts[u].state}
          /\ UNCHANGED <<handlers, ended, excused, halfway>>
    /\ UNCHANGED <<vars, configured>>

\* The hidden libraries could not be saved: the update fails, and what the user
\* store already holds stays changed.
PatchFails(h) ==
    /\ At(h, "patch")
    /\ halfway' = halfway \cup {t \in tokens : OwnerOf(t) = handlers[h].owner}
    /\ Become(h, Free)
    /\ UNCHANGED <<vars, accounts, configured, ended, excused>>

Delete(h, u) ==
    /\ IsFree(h) /\ Exists(u)
    /\ accounts' = [accounts EXCEPT ![u] = [state |-> "deleted", grants |-> {}]]
    /\ CutOff(h, u, "revoke")
    /\ UNCHANGED <<vars, configured>>

\* Faulty: revokes nothing of a user who is still enabled.
RevokeIfDisabled(h) ==
    LET u == handlers[h].owner IN
    /\ handlers[h].pc \in {"patch", "revoke"}
    /\ IF accounts[u].state # "enabled" /\ \E t \in tokens : OwnerOf(t) = u
       THEN RevokeTokensByUserID(h, u) /\ Goto(h, "call")
       ELSE UNCHANGED vars /\ Become(h, Free)
    /\ UNCHANGED <<accounts, configured, ended, excused, halfway>>

Revoke(h) ==
    LET u == handlers[h].owner IN
    /\ handlers[h].pc \in {"patch", "revoke"}
    /\ IF \E t \in tokens : OwnerOf(t) = u
       THEN RevokeTokensByUserID(h, u) /\ Goto(h, "call")
       ELSE UNCHANGED vars /\ Become(h, Free)
    /\ UNCHANGED <<accounts, configured, ended, excused, halfway>>

(* Changing the configuration.                                             *)

ChangeAdminPassword(h) ==
    /\ IsFree(h) /\ Unlocked
    /\ handlers' = [g \in Handlers |->
          IF g = h THEN [Free EXCEPT !.pc = "revokeAll"]
          ELSE IF handlers[g].pc = "verified" /\ handlers[g].owner = Admin
          THEN [handlers[g] EXCEPT !.outdated = TRUE]
          ELSE handlers[g]]
    /\ ended' = ended \cup spent /\ excused' = {} /\ halfway' = {}
    /\ UNCHANGED <<vars, accounts, configured>>

RevokeAll(h) ==
    /\ At(h, "revokeAll")
    /\ RevokeAllTokens(h)
    /\ Goto(h, "settings")
    /\ UNCHANGED <<accounts, configured, ended, excused, halfway>>

RemoveServer(h, s) ==
    /\ IsFree(h) /\ Unlocked /\ s \in configured
    /\ configured' = configured \ {s}
    /\ Become(h, [Free EXCEPT !.pc = "drop", !.server = s])
    /\ UNCHANGED <<vars, accounts, ended, excused, halfway>>

\* The grants for the removed server; a failed write is only logged.
RemoveServerGrants(h) ==
    LET s == handlers[h].server IN
    /\ At(h, "drop")
    /\ \/ accounts' = [u \in Users |-> [accounts[u] EXCEPT !.grants = @ \ {s}]]
       \/ UNCHANGED accounts
    /\ Become(h, Free)
    /\ UNCHANGED <<vars, configured, ended, excused, halfway>>

(* The calls of the token map go on; the process stops and starts.         *)

Saved(h) ==
    /\ Save(h)
    /\ Become(h, Free)
    /\ UNCHANGED <<accounts, configured, ended, excused, halfway>>

NotSaved(h) ==
    /\ SaveFails(h)
    /\ Become(h, IF calls[h].at = "saveIssue" THEN Free ELSE handlers[h])
    /\ UNCHANGED <<accounts, configured, ended, excused, halfway>>

Kept(h) ==
    /\ PutBack(h)
    /\ excused' = excused \cup calls[h].taken
    /\ Become(h, Free)
    /\ UNCHANGED <<accounts, configured, ended, halfway>>

StopAndStart ==
    /\ Restart
    /\ handlers' = [h \in Handlers |-> Free]
    /\ excused' = excused \cup {t \in file : \/ t \in Pending
                                             \/ \E h \in Handlers : At(h, "revokeAll")
                                             \/ \E h \in Handlers : handlers[h].pc \in {"patch", "revoke"}
                                                  /\ handlers[h].owner = OwnerOf(t)}
    /\ UNCHANGED <<accounts, configured, ended, halfway>>

ResetPassword ==
    /\ Reset
    /\ handlers' = [h \in Handlers |-> Free]
    /\ ended' = spent /\ excused' = {} /\ halfway' = {}
    /\ UNCHANGED <<accounts, configured>>

AccountNext ==
    \/ \E h \in Handlers :
          \/ \E u \in Owners : Verify(h, u)
          \/ Login(h)
          \/ \E t \in Token : Logout(h, t)
          \/ \E u \in Users, grants \in SUBSET Servers :
                \/ Create(h, u, grants)
                \/ \E state \in {"enabled", "disabled"} : Update(h, u, state, grants)
          \/ \E u \in Users : Delete(h, u)
          \/ PatchFails(h) \/ Revoke(h)
          \/ ChangeAdminPassword(h) \/ RevokeAll(h)
          \/ \E s \in Servers : RemoveServer(h, s)
          \/ RemoveServerGrants(h)
          \/ Saved(h) \/ NotSaved(h) \/ Kept(h)
    \/ StopAndStart
    \/ ResetPassword

AccountSpec == AccountInit /\ [][AccountNext]_allVars

-------------------------------------------------------------------------------
(* Properties.                                                             *)

\* Types; histories speak of issued tokens only, and grants of servers.
AccountTypeOK ==
    /\ TypeOK
    /\ accounts \in [Users -> Account]
    /\ configured \subseteq Servers
    /\ handlers \in [Handlers -> Handler]
    /\ ended \subseteq spent /\ excused \subseteq spent /\ halfway \subseteq spent

\* A handler is about to revoke t.
AboutToRevoke(t) ==
    \E h \in Handlers :
        \/ At(h, "revokeAll")
        \/ handlers[h].pc \in {"patch", "revoke"} /\ handlers[h].owner = OwnerOf(t)

\* A session does not outlive the account or the credential it came from: a token
\* that was cut off is gone, or a handler is about to revoke it.  Four reasons
\* excuse a token, until the next cut: its login had verified the old credential
\* before the change, its revocation could not be saved and was undone, the process
\* stopped between the change and the saved revocation, or the update failed
\* half-way.
CutOffSessionsEnd ==
    \A t \in ended \cap tokens : t \in excused \cup halfway \/ AboutToRevoke(t)

\* The handlers use the token map as its own specification allows.
UsesTokens == Spec
=================================================================================
