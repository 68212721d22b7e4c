---------------------------- MODULE VolumeStore ----------------------------
(***************************************************************************)
(* What the driver promises of a volume's data, whatever requests are lost *)
(* and repeated: files are only added while the volume is there, they go   *)
(* only once its deletion was asked for, they have gone when it is said to *)
(* be deleted, and data lent to a volume (a COSI bucket) never goes.       *)
(***************************************************************************)
CONSTANTS
    Vol, File,
    Place,      \* where data can be
    Lent        \* the places that belong to somebody else

VARIABLES
    home,       \* where the data of each volume is: never changes
    phase,      \* of each volume
    data        \* the files of each place

vars == <<home, phase, data>>

Phase == {"none", "creating", "ready", "deleting", "gone"}

Become(v, from, to) ==
    phase[v] = from /\ phase' = [phase EXCEPT ![v] = to] /\ UNCHANGED <<home, data>>

AskCreate(v) == Become(v, "none", "creating")
Created(v)   == Become(v, "creating", "ready")
AskDelete(v) == Become(v, "ready", "deleting")

Write(v, f) ==
    /\ phase[v] = "ready"
    /\ data' = [data EXCEPT ![home[v]] = @ \cup {f}]
    /\ UNCHANGED <<home, phase>>

Erase(v, f) ==
    /\ phase[v] = "deleting" /\ home[v] \notin Lent
    /\ data' = [data EXCEPT ![home[v]] = @ \ {f}]
    /\ UNCHANGED <<home, phase>>

Deleted(v) ==
    /\ home[v] \in Lent \/ data[home[v]] = {}
    /\ Become(v, "deleting", "gone")

Init ==
    /\ home \in [Vol -> Place]
    /\ phase = [v \in Vol |-> "none"]
    /\ data = [p \in Place |-> {}]

Next ==
    \E v \in Vol :
       \/ AskCreate(v) \/ Created(v) \/ AskDelete(v) \/ Deleted(v)
       \/ \E f \in File : Write(v, f) \/ Erase(v, f)

Spec == Init /\ [][Next]_vars
=============================================================================
