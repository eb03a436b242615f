---------------------------- MODULE MCAccounts ----------------------------
(* Accounts with the configured administrator and two more accounts. *)
EXTENDS Accounts, TLC

Interchangeable == Permutations(Users \ {Config}) \cup Permutations(Requests)
===========================================================================
