------------------------------- MODULE MCAccounts -------------------------------
(* Instances of Accounts for TLC.                                          *)
EXTENDS Accounts, TLC

CONSTANTS u1, a1, h1, h2

OneUser == {u1}
OneServer == {a1}
TwoHandlers == {h1, h2}
UserAndAdmin == {u1, Admin}

=================================================================================
