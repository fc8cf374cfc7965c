---------------------------- MODULE MCImportFlow ----------------------------
(***************************************************************************)
(* ImportFlow with alike commands, accounts and messages.                  *)
(***************************************************************************)
EXTENDS ImportFlow, TLC

Symmetry == Permutations(Command) \cup Permutations(Account) \cup Permutations(Message)

=============================================================================
