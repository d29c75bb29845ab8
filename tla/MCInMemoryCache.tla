---------------------------- MODULE MCInMemoryCache ----------------------------
(***************************************************************************)
(* A small instance of InMemoryCache for TLC.                              *)
(***************************************************************************)
EXTENDS InMemoryCache, TLC

\* The id of one tenant ends with the other's, and joined without the ":" two
\* pairs of ids would be one string.
MCChars == {"a", "b", ":"}
MCUsers == {<<"a">>}
MCTenants == {<<"b">>, <<"a", "b">>}
MCKeyPrefix == <<"b", ":">>

CallerSymmetry == Permutations(Callers) \cup Permutations(Perms)
=============================================================================
