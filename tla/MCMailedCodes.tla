---------------------------- MODULE MCMailedCodes ----------------------------
(***************************************************************************)
(* Small instances of MailedCodes.                                         *)
(***************************************************************************)
EXTENDS MailedCodes, TLC

SymRequests == Permutations(Requests)
=============================================================================
