--------------------------- MODULE MCAdministration ---------------------------
(* What an administrator changes, for TLC: the accounts and their tokens, and  *)
(* the configuration with its clients. They share no state, so a behaviour is  *)
(* about one of them and leaves the other as it is.                            *)
EXTENDS MCAccounts, MCAdminConfig

AdministrationInit ==
    AccountInit /\ ConfigInit /\ focus \in {"accounts", "bindings", "lists", "fields"}

AdministrationNext ==
    \/ focus = "accounts" /\ AccountNext /\ UNCHANGED mcConfigVars
    \/ focus # "accounts" /\ MCConfigNext /\ UNCHANGED allVars

AdministrationSpec == AdministrationInit /\ [][AdministrationNext]_<<allVars, mcConfigVars>>
===============================================================================
