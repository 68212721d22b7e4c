---------------------------- MODULE MCNodePlugin ----------------------------
(***************************************************************************)
(* Small instances of the node plugin for TLC.                             *)
(***************************************************************************)
EXTENDS NodePlugin, TLC

CONSTANTS v1, v2, t1, t2, c1, c2

OneVolOf == t1 :> v1
TwoVolOf == t1 :> v1 @@ t2 :> v2
NoneAt == [c \in {} |-> t1]
OneAt == c1 :> t1
TwoAt == c1 :> t1 @@ c2 :> t2

SameAt == c1 :> t1 @@ c2 :> t1

\* The device numbers are interchangeable.
DevSymmetry == Permutations(Dev)
=============================================================================
