----------------------------- MODULE MCSessions -----------------------------
(***************************************************************************)
(* Constants for model-checking Sessions: three ticks are a second, so that*)
(* cutting a time to the second shows.                                     *)
(***************************************************************************)
EXTENDS Sessions, TLC

Symmetry == Permutations(LoginCalls) \cup Permutations(Requests)

=============================================================================
