------------------------------ MODULE AuthManager ------------------------------
(***************************************************************************)
(* The proxy tokens (auth_manager.go): a map in memory and its copy in     *)
(* tokens.json, which the next start reads.                                *)
(*                                                                         *)
(* Issuing and revoking change the map in one critical section and save it *)
(* in a second one, which takes the snapshot and writes the file under one *)
(* lock; a revocation that could not be saved puts its tokens back in a    *)
(* third.  Handlers interleave between these, saves fail, and the process  *)
(* may stop anywhere; the file is replaced atomically.                     *)
(***************************************************************************)
EXTENDS Integers, FiniteSets

CONSTANTS
    Owners,     \* user IDs, the administrator's included
    Serials,    \* bound: tokens issued to one owner
    Handlers    \* bound: handlers at work at one time

\* A token is random and names its owner; it is issued once.
Token == Owners \X Serials
OwnerOf(t) == t[1]

VARIABLES
    tokens,     \* the tokens in memory
    file,       \* the tokens in tokens.json
    spent,      \* tokens issued so far
    calls,      \* calls[h]: where handler h is, and what it took out of the map
    revoked     \* history: tokens reported as revoked

vars == <<tokens, file, spent, calls, revoked>>

Stages == {"idle", "saveIssue", "saveRevoke", "putBack"}
Call == [at : Stages, taken : SUBSET Token]
NoCall == [at |-> "idle", taken |-> {}]

Idle(h) == calls[h].at = "idle"
Saving(h) == calls[h].at \in {"saveIssue", "saveRevoke"}
Enter(h, at, taken) == calls' = [calls EXCEPT ![h] = [at |-> at, taken |-> taken]]
Done(h) == calls' = [calls EXCEPT ![h] = NoCall]

\* Tokens a handler took out and may still put back.
Pending == UNION {calls[h].taken : h \in Handlers}

-------------------------------------------------------------------------------
Init ==
    /\ tokens = {} /\ file = {} /\ spent = {} /\ revoked = {}
    /\ calls = [h \in Handlers |-> NoCall]

\* Authenticate and AuthenticateUser, after the password was verified.
Issue(h, t) ==
    /\ Idle(h) /\ t \notin spent
    /\ tokens' = tokens \cup {t}
    /\ spent' = spent \cup {t}
    /\ Enter(h, "saveIssue", {})
    /\ UNCHANGED <<file, revoked>>

Take(h, taken) ==
    /\ tokens' = tokens \ taken
    /\ Enter(h, "saveRevoke", taken)
    /\ UNCHANGED <<file, spent, revoked>>

\* Faulty: does not look whether the token is there.
RevokeUnseen(h, t) ==
    /\ Idle(h) /\ t \in spent
    /\ Take(h, {t})

\* A logout.  A token that is not in the map is not revoked, and nothing is saved.
RevokeToken(h, t) ==
    /\ Idle(h) /\ t \in tokens
    /\ Take(h, {t})

\* A user was disabled or deleted, or got a new password.
RevokeTokensByUserID(h, u) ==
    LET theirs == {t \in tokens : OwnerOf(t) = u} IN
    /\ Idle(h) /\ theirs # {}
    /\ Take(h, theirs)

\* The administrator's password changed.
RevokeAllTokens(h) ==
    /\ Idle(h)
    /\ Take(h, tokens)

\* Faulty: merges into the file.
SaveMerged(h) ==
    /\ Saving(h)
    /\ file' = file \cup tokens
    /\ revoked' = revoked \cup calls[h].taken
    /\ Done(h)
    /\ UNCHANGED <<tokens, spent>>

Save(h) ==
    /\ Saving(h)
    /\ file' = tokens
    /\ revoked' = revoked \cup calls[h].taken
    /\ Done(h)
    /\ UNCHANGED <<tokens, spent>>

\* A login that could not be saved fails, but its token stays in memory.
SaveFails(h) ==
    /\ Saving(h)
    /\ IF calls[h].at = "saveRevoke" THEN Enter(h, "putBack", calls[h].taken) ELSE Done(h)
    /\ UNCHANGED <<tokens, file, spent, revoked>>

PutBack(h) ==
    /\ calls[h].at = "putBack"
    /\ tokens' = tokens \cup calls[h].taken
    /\ Done(h)
    /\ UNCHANGED <<file, spent, revoked>>

\* The process stops, in the middle of anything, and starts again.
Restart ==
    /\ tokens' = file
    /\ calls' = [h \in Handlers |-> NoCall]
    /\ UNCHANGED <<file, spent, revoked>>

\* The command that resets the administrator's password clears the file while
\* the process is stopped.
Reset ==
    /\ tokens' = {} /\ file' = {}
    /\ revoked' = spent
    /\ calls' = [h \in Handlers |-> NoCall]
    /\ UNCHANGED spent

Next ==
    \/ \E h \in Handlers :
          \/ \E t \in Token : Issue(h, t) \/ RevokeToken(h, t)
          \/ \E u \in Owners : RevokeTokensByUserID(h, u)
          \/ RevokeAllTokens(h)
          \/ Save(h) \/ SaveFails(h) \/ PutBack(h)
    \/ Restart
    \/ Reset

Spec == Init /\ [][Next]_vars

-------------------------------------------------------------------------------
(* Properties.                                                             *)

\* Types; only issued tokens are in memory, in the file or revoked.
TypeOK ==
    /\ tokens \subseteq spent /\ file \subseteq spent /\ revoked \subseteq spent
    /\ spent \subseteq Token
    /\ calls \in [Handlers -> Call]

\* A revocation that was reported as done is final: the token is never valid
\* again, not by another revocation that fails and puts its tokens back, not by a
\* login saved at the same time, and not by a restart.
RevokedStaysRevoked == revoked \cap (tokens \cup file) = {}

\* A restart revives nothing: whatever tokens.json holds is valid now, or is
\* being revoked by a handler that has not finished.
RestartRevivesNothing == file \subseteq tokens \cup Pending
===============================================================================
