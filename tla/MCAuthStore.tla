---------------------------- MODULE MCAuthStore ----------------------------
(***************************************************************************)
(* Small instances of AuthStore for TLC.  Identifiers and tokens come from *)
(* pools of model values that the store treats alike, so the pools are     *)
(* symmetric.                                                              *)
(***************************************************************************)
EXTENDS AuthStore, TLC

Pools ==
    Permutations(AccountIds) \cup Permutations(LoginTokens) \cup
    Permutations(SessionTokens) \cup Permutations(CeremonyTokens)
=============================================================================
