------------------------------ MODULE MCWatch ------------------------------
(***************************************************************************)
(* Small buckets for TLC.                                                  *)
(***************************************************************************)
EXTENDS Watch

\* An object at the root of the mount and one in a directory.
FlatKey == {<<"k">>, <<"a", "k">>}
\* Objects in two directories side by side, one of them two levels down.
WideKey == {<<"a", "b", "k">>, <<"c", "k">>}
\* An object two levels down.
DeepKey == {<<"a", "b", "k">>}

\* The flush goroutines are interchangeable.
FlusherSymmetry == Permutations(Flusher)
=============================================================================
