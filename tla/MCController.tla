---------------------------- MODULE MCController ----------------------------
(***************************************************************************)
(* Small instances of the controller for TLC.                              *)
(***************************************************************************)
EXTENDS Controller, TLC

CONSTANTS v1, v2, shared, cb

\* A bucket of its own, a prefix of a shared bucket, a COSI bucket whose PVC is
\* annotated and whose class takes its credentials (storageclass-cosi.yaml), and
\* one whose class has no secrets (handle mode, cosi.go).
Own  == [bucket |-> NoBucket, refs |-> TRUE, info |-> NoBucket, access |-> NoBucket]
Sub  == [bucket |-> shared, refs |-> TRUE, info |-> NoBucket, access |-> NoBucket]
Cosied == [bucket |-> NoBucket, refs |-> TRUE, info |-> cb, access |-> cb]
Handled == [bucket |-> NoBucket, refs |-> FALSE, info |-> NoBucket, access |-> cb]

\* Two volumes side by side that have nothing in common, two views of one COSI
\* bucket, and two that share a bucket.
OwnAndCosi == v1 :> Own @@ v2 :> Cosied
TwoViews == v1 :> Handled @@ v2 :> Cosied
TwoSubs == v1 :> Sub @@ v2 :> Sub
SmallClasses == {OwnAndCosi, TwoViews, TwoSubs}

\* What the theorems of ControllerProofs and ControllerRefines suppose is so here.
ASSUME Supposed == NamesApart /\ ListingsWhole /\ AnnotationHeard
=============================================================================
