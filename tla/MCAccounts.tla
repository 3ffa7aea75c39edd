---------------------------- MODULE MCAccounts ----------------------------
(* Small instances of Accounts for TLC. *)
EXTENDS Accounts, TLC

Symmetric == Permutations(Admins) \cup Permutations(Tokens)
              \cup Permutations(Reqs) \cup Permutations(Passwords)
===========================================================================
