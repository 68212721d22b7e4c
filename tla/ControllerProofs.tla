-------------------------- MODULE ControllerProofs --------------------------
(***************************************************************************)
(* Proofs about the controller, for any volumes, buckets, handlers and     *)
(* failures and any number of them.                                        *)
(***************************************************************************)
EXTENDS Controller, TLAPS

Label == CreateLabel \cup DeleteLabel \cup {"idle", "failed"}

\* The place that a volume's id names.
IdPlace(v) == IF class[v].bucket = NoBucket THEN <<v, NoPrefix>> ELSE <<class[v].bucket, v>>

\* What the operators on ids yield: they look at the parts, not at the class.
LEMMA IdNamesPlace ==
    ASSUME NEW v PROVE volumeIDToBucketPrefix(volumeID(v)) = IdPlace(v)
  <1>1. CASE class[v].bucket = NoBucket
    <2>1. DOMAIN <<v>> = {1}
      OBVIOUS
    <2> QED  BY <1>1, <2>1 DEF volumeIDToBucketPrefix, volumeID, IdPlace
  <1>2. CASE class[v].bucket # NoBucket
    <2>1. DOMAIN <<class[v].bucket, v>> # {1}
      <3>1. 2 \in DOMAIN <<class[v].bucket, v>>
        OBVIOUS
      <3> QED  BY <3>1
    <2> QED  BY <1>2, <2>1 DEF volumeIDToBucketPrefix, volumeID, IdPlace
  <1> QED  BY <1>1, <1>2

\* The parts of a place.
LEMMA IdPlaceType ==
    ASSUME TypeOK, NEW v \in Vol
    PROVE  /\ IdPlace(v) \in Place
           /\ IdPlace(v)[1] \in Bucket /\ IdPlace(v)[1] \notin CosiBucket
           /\ IdPlace(v)[2] \in {v, NoPrefix}
           /\ IdPlace(v)[2] = NoPrefix => IdPlace(v)[1] = v
           /\ IdPlace(v)[2] # NoPrefix => IdPlace(v)[1] \notin Vol
  BY StoreAssumption, ClassAssumption DEF TypeOK, Class, IdPlace, Place

(***************************************************************************)
(* Type correctness.                                                       *)
(***************************************************************************)
\* The part of TypeOK a handler's step can change.
HandlerTypeOK ==
    /\ buckets \subseteq Bucket /\ objects \subseteq Object
    /\ pc \in [Handler -> Label]
    /\ left \in [Handler -> SUBSET Object] /\ failed \in [Handler -> BOOLEAN]
    /\ faults \in 0..MaxFaults

\* A step of one handler leaves the others where they are.
Alone(h) ==
    \A g \in Handler \ {h} : pc'[g] = pc[g] /\ left'[g] = left[g] /\ failed'[g] = failed[g]

\* Failures are counted up to their bound.
LEMMA FaultType ==
    ASSUME faults \in 0..MaxFaults, NEW k, Fault(k) \/ UNCHANGED faults
    PROVE  faults' \in 0..MaxFaults
  BY StoreAssumption DEF Fault

\* The steps of CreateVolume.
LEMMA CreateType ==
    ASSUME HandlerTypeOK, NEW h \in Handler, job[h] \in Vol, class \in [Vol -> Class],
           CreateVolume(h)
    PROVE  HandlerTypeOK' /\ UNCHANGED job /\ Alone(h)
  <1> DEFINE v == job[h]
             b == IF class[v].bucket # NoBucket THEN class[v].bucket ELSE v
             n == IF class[v].bucket # NoBucket THEN v ELSE NoPrefix
  <1>a. /\ b \in Bucket /\ n \in Vol \cup {NoPrefix}
        /\ class[v].info # NoBucket => class[v].info \in Bucket
    BY StoreAssumption, ClassAssumption DEF Class
  <1> HIDE DEF b, n
  <1>1. CASE bucketAccessHandle(h)
    BY <1>1, FaultType DEF bucketAccessHandle, HandlerTypeOK, Goto, storeVars, Label, CreateLabel, Alone
  <1>2. CASE NewClientFromSecret(h, "cosi", "exists")
    BY <1>2, FaultType DEF NewClientFromSecret, NoClient, HandlerTypeOK, Goto, storeVars, Label, CreateLabel, Alone
  <1>3. CASE BucketExists(h, class[v].info, "created", "failed") \/ BucketExists(h, b, "prefix", "bucket")
    BY <1>3, FaultType DEF BucketExists, HandlerTypeOK, Goto, storeVars, Label, CreateLabel, Alone
  <1>4. CASE CreateBucket(h, b, "prefix")
    BY <1>4, <1>a, FaultType DEF CreateBucket, HandlerTypeOK, Goto, Label, CreateLabel, Alone
  <1>5. CASE CreatePrefix(h, b, n, "created")
    <2>1. [bucket |-> b, name |-> n, file |-> Marker] \in Object
      BY <1>a DEF Object
    <2> QED  BY <1>5, <2>1, FaultType DEF CreatePrefix, HandlerTypeOK, Goto, Label, CreateLabel, Alone
  <1> QED  BY <1>1, <1>2, <1>3, <1>4, <1>5 DEF CreateVolume, b, n

\* The steps of RemoveBucket and RemovePrefix.
LEMMA RemoveType ==
    ASSUME HandlerTypeOK, NEW h \in Handler, NEW b, NEW n,
           RemoveObjects(h, b, n) \/ RemoveBucketItself(h, b) \/ RemovePrefixItself(h, b)
    PROVE  HandlerTypeOK' /\ UNCHANGED job /\ Alone(h)
  <1>a. ListObjects(b, n) \subseteq Object
    BY DEF ListObjects, HandlerTypeOK
  <1>1. CASE removeObjects(h, b, n)
    BY <1>1, <1>a, FaultType
       DEF removeObjects, Listed, ListFault, HandlerTypeOK, Goto, storeVars, Label, DeleteLabel, Alone
  <1>2. CASE removeObjectsOneByOne(h, b, n)
    BY <1>2, <1>a, FaultType
       DEF removeObjectsOneByOne, Listed, ListFault, HandlerTypeOK, Goto, storeVars, Label, DeleteLabel, Alone
  <1>3. CASE RemoveListed(h, b)
    BY <1>3, FaultType DEF RemoveListed, HandlerTypeOK, Alone
  <1>4. CASE Removed(h)
    BY <1>4 DEF Removed, HandlerTypeOK, Goto, storeVars, Label, DeleteLabel, Alone
  <1>5. CASE RemovePrefixItself(h, b)
    BY <1>5, FaultType DEF RemovePrefixItself, HandlerTypeOK, Goto, storeVars, Label, DeleteLabel, Alone
  <1>6. CASE RemoveBucketItself(h, b)
    BY <1>6, FaultType DEF RemoveBucketItself, HandlerTypeOK, Goto, Label, DeleteLabel, Alone
  <1> QED  BY <1>1, <1>2, <1>3, <1>4, <1>5, <1>6 DEF RemoveObjects

\* The steps of DeleteVolume.
LEMMA DeleteType ==
    ASSUME HandlerTypeOK, NEW h \in Handler, DeleteVolume(h)
    PROVE  HandlerTypeOK' /\ UNCHANGED job /\ Alone(h)
  <1> DEFINE place == volumeIDToBucketPrefix(volumeID(job[h]))
  <1>1. CASE NewClientFromSecret(h, "deleted", "list")
    BY <1>1, FaultType DEF NewClientFromSecret, NoClient, HandlerTypeOK, Goto, storeVars, Label, DeleteLabel, Alone
  <1>2. CASE \/ RemoveObjects(h, place[1], NoPrefix) \/ RemoveObjects(h, place[1], place[2])
             \/ RemoveBucketItself(h, place[1]) \/ RemovePrefixItself(h, place[1])
    BY <1>2, RemoveType
  <1>3. CASE Goto(h, IF place[2] = NoPrefix THEN "deleted" ELSE "failed")
             /\ UNCHANGED <<storeVars, job, left, failed, faults>>
    BY <1>3 DEF HandlerTypeOK, Goto, storeVars, Label, DeleteLabel, Alone
  <1> QED  BY <1>1, <1>2, <1>3 DEF DeleteVolume, RemoveBucket, RemovePrefix

LEMMA HandlerType ==
    ASSUME TypeOK, NEW h \in Handler, HandlerStep(h), UNCHANGED class
    PROVE  TypeOK' /\ UNCHANGED job /\ Alone(h)
  <1>a. HandlerTypeOK /\ job[h] \in Vol /\ class \in [Vol -> Class]
    BY DEF TypeOK, HandlerTypeOK, HandlerStep, Label
  <1>1. HandlerTypeOK' /\ UNCHANGED job /\ Alone(h)
    BY <1>a, CreateType, DeleteType DEF HandlerStep
  <1>2. \A g \in Handler : pc'[g] # "idle" => job[g] \in Vol
    BY <1>1, <1>a DEF Alone, TypeOK
  <1> QED
    BY <1>1, <1>2 DEF TypeOK, HandlerTypeOK, Label, HandlerStep, provVars, cosiVars, nodeVars

\* The provisioner's steps, and the controller's restart.
LEMMA ProvisionerType ==
    ASSUME TypeOK, UNCHANGED class,
           \/ \E v \in Vol, h \in Handler : SendCreate(v, h) \/ SendDelete(v, h)
           \/ \E h \in Handler : Reply(h)
           \/ \E v \in Vol : Timeout(v)
           \/ Restart
    PROVE  TypeOK'
  <1>1. ASSUME NEW v \in Vol, NEW h \in Handler, SendCreate(v, h) PROVE TypeOK'
    BY <1>1 DEF SendCreate, SendRequest, Goto, TypeOK, CreateLabel, storeVars, cosiVars, nodeVars
  <1>2. ASSUME NEW v \in Vol, NEW h \in Handler, SendDelete(v, h) PROVE TypeOK'
    BY <1>2 DEF SendDelete, SendRequest, Goto, TypeOK, DeleteLabel, storeVars, cosiVars, nodeVars
  <1>3. ASSUME NEW h \in Handler, Reply(h) PROVE TypeOK'
    <2>1. job[h] \in Vol
      BY <1>3 DEF Reply, TypeOK
    <2> QED  BY <1>3, <2>1 DEF Reply, Goto, TypeOK, storeVars, provVars, cosiVars, nodeVars
  <1>4. ASSUME NEW v \in Vol, Timeout(v) PROVE TypeOK'
    <2>1. faults' \in 0..MaxFaults
      BY <1>4, FaultType DEF Timeout, TypeOK
    <2> QED  BY <1>4, <2>1 DEF Timeout, TypeOK, storeVars, handlerVars, cosiVars, nodeVars
  <1>5. CASE Restart
    <2>1. faults' \in 0..MaxFaults
      BY <1>5, FaultType DEF Restart, TypeOK
    <2> QED  BY <1>5, <2>1 DEF Restart, TypeOK, storeVars, cosiVars, nodeVars
  <1> QED  BY <1>1, <1>2, <1>3, <1>4, <1>5

\* NodeStageVolume mounts a place, or none.
LEMMA NodeType ==
    ASSUME TypeOK, UNCHANGED class, NEW v \in Vol,
           Stage(v) \/ NodeStageVolume(v) \/ Unstage(v) \/ \E f \in File : Write(v, f)
    PROVE  TypeOK'
  <1> USE DEF storeVars, handlerVars, provVars, cosiVars, nodeVars
  <1>a. \A b \in {class[v].info, class[v].access} :
           (IF b # NoBucket THEN <<b, NoPrefix>> ELSE volumeIDToBucketPrefix(volumeID(v))) \in Place
    BY IdNamesPlace, IdPlaceType, ClassAssumption DEF TypeOK, Class, Place
  <1>1. CASE Stage(v) \/ StageAgain(v) \/ Unstage(v)
    BY <1>1 DEF Stage, StageAgain, Unstage, NodeStep, TypeOK
  <1>2. CASE secretsForVolume(v)
    <2>1. faults' \in 0..MaxFaults
      BY <1>2, FaultType DEF secretsForVolume, NoClient, TypeOK
    <2>2. \/ UNCHANGED sawGranted
          \/ sawGranted' = [sawGranted EXCEPT ![v] = class[v].access \in granted]
      BY <1>2 DEF secretsForVolume
    <2>3. (class[v].access \in granted) \in BOOLEAN
      OBVIOUS
    <2>4. sawGranted \in [Vol -> BOOLEAN]
      BY DEF TypeOK
    <2>5. sawGranted' \in [Vol -> BOOLEAN]
      BY <2>2, <2>3, <2>4, Zenon
    <2>6. UNCHANGED <<storeVars, handlerVars, provVars, cosiVars>>
      BY <1>2 DEF secretsForVolume, NodeStep
    <2>7. /\ node' \in [Vol -> {"idle", "target", "claim", "secret", "retry"}]
          /\ mount' \in [Vol -> Place \cup {NoMount}]
      <3>1. node' \in [Vol -> {"idle", "target", "claim", "secret", "retry"}]
        BY <1>2 DEF secretsForVolume, NodeStep, TypeOK
      <3>2. UNCHANGED mount \/ volumeTarget(v, class[v].info)
        BY <1>2 DEF secretsForVolume
      <3> QED  BY <3>1, <3>2, <1>a DEF volumeTarget, TypeOK
    <2> QED  BY <2>1, <2>5, <2>6, <2>7 DEF TypeOK
  <1>3. CASE resolveCOSISecret(v)
    <2>1. faults' \in 0..MaxFaults
      BY <1>3, FaultType DEF resolveCOSISecret, TypeOK
    <2> QED  BY <1>3, <1>a, <2>1 DEF resolveCOSISecret, volumeTarget, NodeStep, TypeOK
  <1>4. ASSUME NEW f \in File, Write(v, f) PROVE TypeOK'
    <2>1. mount[v] \in Place
      BY <1>4 DEF Write, TypeOK
    <2>2. [bucket |-> mount[v][1], name |-> mount[v][2], file |-> f] \in Object
      BY <2>1 DEF Place, Object
    <2> QED  BY <1>4, <2>2 DEF Write, TypeOK
  <1> QED  BY <1>1, <1>2, <1>3, <1>4 DEF NodeStageVolume

\* The COSI controller's steps.
LEMMA CosiType ==
    ASSUME TypeOK, UNCHANGED class, NEW c \in CosiBucket, Cosi(c)
    PROVE  TypeOK'
  BY ClassAssumption DEF Cosi, MakeBucket, SetReady, WriteSecret, Grant, TypeOK,
     storeVars, handlerVars, provVars, cosiVars, nodeVars

LEMMA InitType == Init => TypeOK
  BY StoreAssumption, ClassAssumption DEF Init, TypeOK

LEMMA NextType == TypeOK /\ [Next]_<<class, vars>> => TypeOK'
  <1> SUFFICES ASSUME TypeOK, [Next]_<<class, vars>> PROVE TypeOK'
    OBVIOUS
  <1>1. CASE UNCHANGED <<class, vars>>
    BY <1>1 DEF vars, storeVars, handlerVars, provVars, cosiVars, nodeVars, TypeOK
  <1>2. CASE Next
    BY <1>2, HandlerType, ProvisionerType, NodeType, CosiType DEF Next
  <1> QED  BY <1>1, <1>2

\* Every variable keeps its type; a handler that works has a volume, and what is
\* mounted is a bucket, or a prefix in one.
THEOREM TypeCorrect == Spec => []TypeOK
  BY InitType, NextType, PTL DEF Spec

(***************************************************************************)
(* Which data a node mounts.                                               *)
(***************************************************************************)
\* The requests of a handler and the provisioner's view agree: a delete that is
\* under way, waited for or not, is one of a volume whose deletion was asked for,
\* and a create that is waited for one of a volume that is not ready yet.
PhaseInv ==
    \A h \in Handler :
       /\ pc[h] \in DeleteLabel => phase[job[h]] \in {"deleting", "gone"}
       /\ pc[h] \in CreateLabel /\ call[job[h]] = h => phase[job[h]] = "creating"

\* The credentials of the requests tell of the COSI bucket, if there is one.
Heard(v) == class[v].access # NoBucket => class[v].info # NoBucket

\* The steps of CreateVolume that have a client.
ClientLabel == {"cosi", "exists", "bucket", "prefix", "created"}

\* A volume that was created has the handle its PVC asks for, or needs none.
HandleInv ==
    /\ class \in Classes
    /\ \A v \in handle : class[v].access # NoBucket
    /\ \A h \in Handler :
         /\ pc[h] = "createdhandle" => class[job[h]].access # NoBucket
         /\ pc[h] = "client" => Heard(job[h]) \/ ~class[job[h]].refs
         /\ pc[h] \in ClientLabel => Heard(job[h])
    /\ \A v \in Vol : phase[v] \in {"ready", "deleting", "gone"} => v \in handle \/ Heard(v)

\* A node works for volumes that are ready, and knows of the COSI objects only
\* what is so.
NodeInv ==
    \A v \in Vol :
       /\ node[v] # "idle" \/ mount[v] # NoMount => phase[v] = "ready"
       /\ sawGranted[v] => class[v].access \in granted
       /\ node[v] \in {"claim", "secret"} => v \in handle
       /\ node[v] = "secret" => class[v].access \in ready \cap granted

MountInv == PhaseInv /\ HandleInv /\ NodeInv /\ MountsOwnData

\* How a handler moves: creating or deleting to the end, past the PVC without a
\* handle only if there is none or it could not be read, and on only with secrets.
LEMMA HandlerMoves ==
    ASSUME TypeOK, NEW h \in Handler, HandlerStep(h)
    PROVE  /\ pc'[h] \in CreateLabel => pc[h] \in CreateLabel
           /\ pc'[h] \in DeleteLabel => pc[h] \in DeleteLabel
           /\ pc'[h] = "createdhandle" => class[job[h]].access # NoBucket
           /\ pc'[h] = "client" => class[job[h]].access = NoBucket \/ "api" \in FaultKinds
           /\ pc'[h] \in ClientLabel =>
                pc[h] \in ClientLabel \/ (pc[h] = "client" /\ class[job[h]].refs)
  <1> USE DEF CreateLabel, DeleteLabel, ClientLabel
  <1>a. pc \in [Handler -> Label]
    BY DEF TypeOK, Label
  <1>1. CASE CreateVolume(h)
    BY <1>1, <1>a DEF CreateVolume, bucketAccessHandle, NewClientFromSecret, BucketExists,
       CreateBucket, CreatePrefix, Goto, Fault
  <1>2. CASE DeleteVolume(h)
    <2> DEFINE place == volumeIDToBucketPrefix(volumeID(job[h]))
    <2>1. ASSUME NEW n, RemoveObjects(h, place[1], n)
          PROVE  pc[h] \in DeleteLabel /\ pc'[h] \in DeleteLabel \cup {"failed"}
      BY <2>1, <1>a DEF RemoveObjects, removeObjects, removeObjectsOneByOne, RemoveListed, Removed,
         Listed, Goto
    <2>2. CASE RemoveBucketItself(h, place[1]) \/ RemovePrefixItself(h, place[1])
      BY <2>2, <1>a DEF RemoveBucketItself, RemovePrefixItself, Goto
    <2>3. CASE pc[h] = "delete" /\ NewClientFromSecret(h, "deleted", "list")
      BY <2>3, <1>a DEF NewClientFromSecret, Goto
    <2>4. CASE pc[h] = "missing" /\ Goto(h, IF place[2] = NoPrefix THEN "deleted" ELSE "failed")
      BY <2>4, <1>a DEF Goto
    <2> QED  BY <1>2, <2>1, <2>2, <2>3, <2>4 DEF DeleteVolume, RemoveBucket, RemovePrefix
  <1> QED  BY <1>1, <1>2 DEF HandlerStep

\* The handlers leave the provisioner's view, the nodes and the COSI objects alone.
LEMMA HandlerKeepsMounts ==
    ASSUME TypeOK, MountInv, AnnotationHeard, NEW h \in Handler, HandlerStep(h), UNCHANGED class
    PROVE  MountInv'
  <1>1. UNCHANGED <<job, phase, call, handle, ready, granted, secrets, node, sawGranted, mount, class>>
    BY HandlerType DEF HandlerStep, provVars, cosiVars, nodeVars
  <1>2. Alone(h) /\ job[h] \in Vol
    BY HandlerType DEF HandlerStep, TypeOK
  <1>3. PhaseInv'
    BY <1>1, <1>2, HandlerMoves DEF MountInv, PhaseInv, Alone
  <1>4. class[job[h]].access = NoBucket \/ "api" \in FaultKinds => Heard(job[h]) \/ ~class[job[h]].refs
    BY <1>2 DEF MountInv, HandleInv, AnnotationHeard, Heard
  <1>5. HandleInv'
    BY <1>1, <1>2, <1>4, HandlerMoves DEF MountInv, HandleInv, Heard, Alone
  <1>6. NodeInv' /\ MountsOwnData'
    BY <1>1 DEF MountInv, NodeInv, MountsOwnData, Home, volumeID
  <1> QED  BY <1>3, <1>5, <1>6 DEF MountInv

\* A request goes out, for a volume no node works for if it is a delete.
LEMMA SendKeepsMounts ==
    ASSUME TypeOK, MountInv, UNCHANGED class, NEW v \in Vol, NEW h \in Handler,
           SendCreate(v, h) \/ SendDelete(v, h)
    PROVE  MountInv'
  <1>1. PICK l \in {"handle", "delete"}, q \in {"creating", "deleting"} :
          /\ pc[h] = "idle" /\ pc' = [pc EXCEPT ![h] = l] /\ job' = [job EXCEPT ![h] = v]
          /\ call[v] = NoCall /\ call' = [call EXCEPT ![v] = h]
          /\ phase' = [phase EXCEPT ![v] = q]
          /\ l = "handle" => q = "creating" /\ phase[v] \in {"none", "creating"}
          /\ l = "delete" => /\ q = "deleting" /\ phase[v] \in {"ready", "deleting"}
                              /\ node[v] = "idle" /\ mount[v] = NoMount
    BY DEF SendCreate, SendDelete, SendRequest, Goto
  <1>2. UNCHANGED <<handle, ready, granted, secrets, node, sawGranted, mount, class>>
    BY DEF SendCreate, SendDelete, SendRequest, cosiVars, nodeVars
  <1>a. \A g \in Handler : pc[g] \in CreateLabel \cup DeleteLabel => job[g] \in Vol /\ g # h
    BY <1>1 DEF TypeOK, CreateLabel, DeleteLabel
  <1>b. /\ pc \in [Handler -> Label] /\ job \in [Handler -> Vol \cup {NoVol}]
        /\ call \in [Vol -> Handler \cup {NoCall}]
        /\ phase \in [Vol -> {"none", "creating", "ready", "deleting", "gone"}]
    BY DEF TypeOK, Label
  <1>3. PhaseInv'
    BY <1>1, <1>2, <1>a, <1>b DEF MountInv, PhaseInv, CreateLabel, DeleteLabel
  <1>4. HandleInv'
    BY <1>1, <1>2, <1>a, <1>b DEF MountInv, HandleInv, Heard, CreateLabel, ClientLabel
  <1>5. NodeInv' /\ MountsOwnData'
    BY <1>1, <1>2, <1>b DEF MountInv, NodeInv, MountsOwnData, Home, volumeID
  <1> QED  BY <1>3, <1>4, <1>5 DEF MountInv

\* The reply to a create makes a volume ready that was not, and to a delete ends
\* one that no node works for.
LEMMA ReplyKeepsMounts ==
    ASSUME TypeOK, MountInv, UNCHANGED class, NEW h \in Handler, Reply(h)
    PROVE  MountInv'
  <1> DEFINE v == job[h]
  <1>1. /\ v \in Vol /\ pc[h] \in {"created", "createdhandle", "deleted", "failed"}
        /\ pc' = [pc EXCEPT ![h] = "idle"] /\ job' = [job EXCEPT ![h] = NoVol]
        /\ UNCHANGED <<ready, granted, secrets, node, sawGranted, mount, class>>
    BY DEF Reply, Goto, TypeOK, cosiVars, nodeVars
  <1>b. /\ pc \in [Handler -> Label] /\ job \in [Handler -> Vol \cup {NoVol}]
        /\ call \in [Vol -> Handler \cup {NoCall}]
        /\ phase \in [Vol -> {"none", "creating", "ready", "deleting", "gone"}]
    BY DEF TypeOK, Label
  <1>c. \A g \in Handler : pc[g] \in CreateLabel \cup DeleteLabel => job[g] \in Vol
    BY DEF TypeOK, CreateLabel, DeleteLabel
  <1>d. NoCall \notin Handler
    BY ClassAssumption
  <1>2. \/ UNCHANGED <<phase, handle>>
        \/ pc[h] = "created" /\ phase[v] = "creating" /\ Heard(v)
           /\ phase' = [phase EXCEPT ![v] = "ready"] /\ UNCHANGED handle
        \/ pc[h] = "createdhandle" /\ phase[v] = "creating" /\ class[v].access # NoBucket
           /\ phase' = [phase EXCEPT ![v] = "ready"] /\ handle' = handle \cup {v}
        \/ pc[h] = "deleted" /\ phase[v] \in {"deleting", "gone"}
           /\ phase' = [phase EXCEPT ![v] = "gone"] /\ UNCHANGED handle
    <2>1. CASE call[v] # h
      BY <2>1 DEF Reply, provVars
    <2>2. CASE call[v] = h
      <3>1. /\ pc[h] \in {"created", "createdhandle"} => phase[v] = "creating"
            /\ pc[h] = "deleted" => phase[v] \in {"deleting", "gone"}
            /\ pc[h] = "created" => Heard(v)
            /\ pc[h] = "createdhandle" => class[v].access # NoBucket
        BY <2>2 DEF MountInv, PhaseInv, HandleInv, CreateLabel, DeleteLabel, ClientLabel
      <3>2. CASE pc[h] = "failed"
        <4>1. phase' = [phase EXCEPT ![v] = phase[v]] /\ handle' = handle
          BY <3>2, <2>2, Zenon DEF Reply
        <4> QED  BY <4>1, <1>b
      <3>3. CASE pc[h] = "deleted"
        BY <3>1, <3>3, <2>2, Zenon DEF Reply
      <3>4. CASE pc[h] \in {"created", "createdhandle"}
        BY <3>1, <3>4, <2>2, Zenon DEF Reply
      <3> QED  BY <1>1, <3>2, <3>3, <3>4
    <2> QED  BY <2>1, <2>2
  <1>3. call' = call \/ (call[v] = h /\ call' = [call EXCEPT ![v] = NoCall])
    BY DEF Reply, provVars
  <1>e. call[v] # h => UNCHANGED phase
    BY DEF Reply, provVars
  <1> HIDE DEF v
  <1>4. PhaseInv'
    BY <1>1, <1>2, <1>3, <1>b, <1>c, <1>d, <1>e DEF MountInv, PhaseInv, CreateLabel, DeleteLabel
  <1>5. HandleInv'
    BY <1>1, <1>2, <1>b, <1>c DEF MountInv, HandleInv, Heard, CreateLabel, ClientLabel
  <1>6. NodeInv' /\ MountsOwnData'
    BY <1>1, <1>2, <1>b DEF MountInv, NodeInv, MountsOwnData, Home, volumeID
  <1> QED  BY <1>4, <1>5, <1>6 DEF MountInv

\* A request that is given up, and the controller's restart.
LEMMA FailureKeepsMounts ==
    ASSUME TypeOK, MountInv, UNCHANGED class, Restart \/ \E v \in Vol : Timeout(v)
    PROVE  MountInv'
  <1>1. UNCHANGED <<phase, handle, ready, granted, secrets, node, sawGranted, mount, class>>
    BY DEF Restart, Timeout, cosiVars, nodeVars
  <1>2. NodeInv' /\ MountsOwnData'
    BY <1>1 DEF MountInv, NodeInv, MountsOwnData, Home, volumeID
  <1>3. CASE Restart
    BY <1>1, <1>2, <1>3 DEF Restart, MountInv, PhaseInv, HandleInv, Heard, CreateLabel, ClientLabel, DeleteLabel
  <1>4. ASSUME NEW v \in Vol, Timeout(v) PROVE MountInv'
    <2>1. UNCHANGED <<pc, job>> /\ call' = [call EXCEPT ![v] = NoCall]
      BY <1>4 DEF Timeout, handlerVars
    <2>2. \A w \in Vol : call'[w] \in {call[w], NoCall}
      BY <2>1 DEF TypeOK
    <2>3. \A g \in Handler : pc[g] \in CreateLabel => job[g] \in Vol /\ g # NoCall
      BY ClassAssumption DEF TypeOK, CreateLabel
    <2> QED
      BY <1>1, <1>2, <2>1, <2>2, <2>3 DEF MountInv, PhaseInv, HandleInv, Heard
  <1> QED  BY <1>3, <1>4

\* volumeTarget mounts where the volume's data belongs.
LEMMA TargetIsHome ==
    ASSUME TypeOK, NEW v \in Vol, NEW b, volumeTarget(v, b),
           \/ b = class[v].info /\ Heard(v)
           \/ b = class[v].access /\ b # NoBucket
    PROVE  mount' = [mount EXCEPT ![v] = Home(v)]
  <1>1. class[v] \in Class
    BY DEF TypeOK
  <1> QED  BY <1>1 DEF volumeTarget, Home, Heard, Class

\* The node's steps.
LEMMA NodeKeepsMounts ==
    ASSUME TypeOK, MountInv, UNCHANGED class, NEW v \in Vol,
           Stage(v) \/ NodeStageVolume(v) \/ Unstage(v) \/ \E f \in File : Write(v, f)
    PROVE  MountInv'
  <1>1. UNCHANGED <<pc, job, phase, call, handle, ready, granted, secrets, class>>
    BY DEF Stage, NodeStageVolume, secretsForVolume, resolveCOSISecret, StageAgain, NodeStep, Unstage,
       Write, handlerVars, provVars, cosiVars
  <1>2. PhaseInv' /\ HandleInv'
    BY <1>1 DEF MountInv, PhaseInv, HandleInv, Heard
  <1>3. UNCHANGED Home(v) /\ \A w \in Vol : UNCHANGED Home(w)
    BY <1>1 DEF Home, volumeID
  <1>a. /\ node \in [Vol -> {"idle", "target", "claim", "secret", "retry"}]
        /\ sawGranted \in [Vol -> BOOLEAN] /\ mount \in [Vol -> Place \cup {NoMount}]
    BY DEF TypeOK
  <1>4. CASE Stage(v) \/ Unstage(v) \/ StageAgain(v) \/ \E f \in File : Write(v, f)
    BY <1>1, <1>2, <1>3, <1>4, <1>a DEF Stage, Unstage, StageAgain, Write, NodeStep, nodeVars,
       MountInv, NodeInv, MountsOwnData
  <1>5. CASE secretsForVolume(v)
    <2>1. CASE v \notin handle /\ volumeTarget(v, class[v].info)
               /\ node[v] = "target" /\ node' = [node EXCEPT ![v] = "idle"] /\ UNCHANGED sawGranted
      <3>1. Heard(v) /\ phase[v] = "ready"
        BY <2>1 DEF MountInv, HandleInv, NodeInv
      <3>2. mount' = [mount EXCEPT ![v] = Home(v)]
        BY <2>1, <3>1, TargetIsHome
      <3> QED  BY <1>1, <1>2, <1>3, <1>a, <2>1, <3>1, <3>2 DEF MountInv, NodeInv, MountsOwnData
    <2>2. CASE v \in handle /\ UNCHANGED mount /\ node[v] = "target" /\ node' = [node EXCEPT ![v] = "claim"]
               /\ sawGranted' = [sawGranted EXCEPT ![v] = class[v].access \in granted]
      <3>1. \A w \in Vol : sawGranted'[w] => sawGranted[w] \/ (w = v /\ class[v].access \in granted)
        BY <1>a, <2>2, Zenon
      <3> QED  BY <1>1, <1>2, <1>3, <1>a, <2>2, <3>1 DEF MountInv, NodeInv, MountsOwnData
    <2>3. CASE UNCHANGED <<mount, sawGranted>> /\ node[v] = "target"
               /\ node' = [node EXCEPT ![v] = "retry"]
      BY <1>1, <1>2, <1>3, <1>a, <2>3 DEF MountInv, NodeInv, MountsOwnData
    <2> QED  BY <1>5, <2>1, <2>2, <2>3 DEF secretsForVolume, NodeStep
  <1>6. CASE resolveCOSISecret(v)
    <2>1. v \in handle /\ class[v].access # NoBucket /\ phase[v] = "ready"
      BY <1>6 DEF resolveCOSISecret, NodeStep, MountInv, NodeInv, HandleInv
    <2>2. CASE node[v] = "secret" /\ node' = [node EXCEPT ![v] = "idle"] /\ UNCHANGED sawGranted
               /\ volumeTarget(v, class[v].access)
      <3>1. mount' = [mount EXCEPT ![v] = Home(v)]
        BY <2>1, <2>2, TargetIsHome
      <3> QED  BY <1>1, <1>2, <1>3, <1>a, <2>1, <2>2, <3>1 DEF MountInv, NodeInv, MountsOwnData
    <2>3. CASE UNCHANGED <<mount, sawGranted>> /\ node[v] = "claim" /\ node' = [node EXCEPT ![v] = "secret"]
               /\ class[v].access \in ready /\ sawGranted[v]
      BY <1>1, <1>2, <1>3, <1>a, <2>1, <2>3 DEF MountInv, NodeInv, MountsOwnData
    <2>4. CASE UNCHANGED <<mount, sawGranted>> /\ node[v] # "idle" /\ node' = [node EXCEPT ![v] = "retry"]
      BY <1>1, <1>2, <1>3, <1>a, <2>1, <2>4 DEF MountInv, NodeInv, MountsOwnData
    <2> QED  BY <1>6, <2>2, <2>3, <2>4 DEF resolveCOSISecret, NodeStep
  <1> QED  BY <1>4, <1>5, <1>6 DEF NodeStageVolume

\* The COSI controller takes nothing back.
LEMMA CosiKeepsMounts ==
    ASSUME TypeOK, MountInv, UNCHANGED class, NEW c \in CosiBucket, Cosi(c)
    PROVE  MountInv'
  <1>1. /\ UNCHANGED <<pc, job, phase, call, handle, node, sawGranted, mount, class>>
        /\ ready \subseteq ready' /\ granted \subseteq granted'
    BY DEF Cosi, MakeBucket, SetReady, WriteSecret, Grant, handlerVars, provVars, nodeVars, cosiVars
  <1> QED  BY <1>1 DEF MountInv, PhaseInv, HandleInv, Heard, NodeInv, MountsOwnData, Home, volumeID

\* The invariant behind MountsOwnData holds, where the PVCs' annotations reach
\* the controller or the requests' credentials.
THEOREM MountInductive ==
    ASSUME AnnotationHeard PROVE Spec => []MountInv
  <1>1. Init => MountInv
    BY DEF Init, MountInv, PhaseInv, HandleInv, NodeInv, MountsOwnData, CreateLabel, DeleteLabel, ClientLabel
  <1>2. TypeOK /\ MountInv /\ [Next]_<<class, vars>> => MountInv'
    <2> SUFFICES ASSUME TypeOK, MountInv, [Next]_<<class, vars>> PROVE MountInv'
      OBVIOUS
    <2>1. CASE UNCHANGED <<class, vars>>
      BY <2>1 DEF vars, storeVars, handlerVars, provVars, cosiVars, nodeVars, MountInv, PhaseInv,
         HandleInv, Heard, NodeInv, MountsOwnData, Home, volumeID
    <2>2. CASE Next
      BY <2>2, HandlerKeepsMounts, SendKeepsMounts, ReplyKeepsMounts, FailureKeepsMounts,
         NodeKeepsMounts, CosiKeepsMounts DEF Next
    <2> QED  BY <2>1, <2>2
  <1> QED  BY <1>1, <1>2, TypeCorrect, PTL DEF Spec

\* A mount shows its volume's data, though the PVC may be unreadable when the
\* volume is made, and the COSI objects are read one after another while they are
\* written: with a handle, nothing is mounted before the access is granted.
THEOREM MountsOwn ==
    ASSUME AnnotationHeard PROVE Spec => []MountsOwnData
  <1>1. MountInv => MountsOwnData
    BY DEF MountInv
  <1> QED  BY <1>1, MountInductive, PTL
=============================================================================
