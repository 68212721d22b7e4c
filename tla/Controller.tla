----------------------------- MODULE Controller -----------------------------
(***************************************************************************)
(* The controller service and the way a node finds a volume's data:        *)
(* CreateVolume and DeleteVolume, the COSI bridge, and volumeTarget of     *)
(* NodeStage, with the provisioner, the kubelet, the pods and the COSI     *)
(* controller around them.                                                 *)
(*                                                                         *)
(* A volume lives in a bucket of its own, or under a prefix of a bucket    *)
(* its class names, or is a COSI bucket as a whole: one that the           *)
(* credentials of its requests name (BucketInfo), or the BucketAccess of   *)
(* its PVC's annotation (a handle, resolved when a node stages it).        *)
(***************************************************************************)
EXTENDS S3Client

CONSTANTS
    CosiBucket,   \* buckets of BucketClaims; each also stands for its BucketAccess
    NoBucket,
    Classes,      \* what the volumes of an instance may be
    NoCall, NoMount

\* bucket: the class parameter of that name; refs: requests come with secrets,
\* which a class in handle mode need not have; info: the bucket in their
\* BucketInfo; access: the BucketAccess that the PVC's annotation names.  A class
\* names no COSI bucket and no volume's, and annotation and secrets, if there
\* are both, agree (storageclass-cosi.yaml).
Class ==
    {c \in [bucket : (Bucket \ (Vol \cup CosiBucket)) \cup {NoBucket},
            refs   : BOOLEAN,
            info   : CosiBucket \cup {NoBucket},
            access : CosiBucket \cup {NoBucket}] :
       c.info # NoBucket => c.refs /\ c.access \in {c.info, NoBucket}}

ASSUME ClassAssumption ==
    /\ CosiBucket \subseteq Bucket \ Vol /\ NoBucket \notin Bucket
    /\ Classes \subseteq [Vol -> Class]
    /\ NoCall \notin Handler
    /\ NoMount \notin Bucket \X (Vol \cup {NoPrefix})

VARIABLES
    class,      \* of each volume: never changes
    phase,      \* of each volume, as the provisioner has it
    call,       \* the handler whose answer the provisioner waits for
    handle,     \* the volumes whose context carries a BucketAccess
    ready,      \* BucketClaim.status.bucketReady
    granted,    \* BucketAccess.status.accessGranted
    secrets,    \* the credentials Secrets there are
    node,       \* NodeStageVolume, as far as volumeTarget
    sawGranted, \* what it read of the BucketAccess
    mount       \* the bucket and prefix the volume's mount shows

provVars == <<phase, call, handle>>
cosiVars == <<ready, granted, secrets>>
nodeVars == <<node, sawGranted, mount>>
vars == <<storeVars, handlerVars, faults, provVars, cosiVars, nodeVars>>

\* path.Join(bucket, name), or the name alone, as the sequence of its parts.
volumeID(v) == IF class[v].bucket = NoBucket THEN <<v>> ELSE <<class[v].bucket, v>>

volumeIDToBucketPrefix(id) == IF DOMAIN id = {1} THEN <<id[1], NoPrefix>> ELSE <<id[1], id[2]>>

\* The secrets of a request make no client: they do not parse, or there are none,
\* and minio refuses the empty endpoint every time.
NoClient(v) == IF class[v].refs THEN Fault("secret") ELSE UNCHANGED faults

\* A step of NewClientFromSecret: a BucketInfo sets Config.Bucket.
NewClientFromSecret(h, cosi, plain) ==
    /\ \/ /\ class[job[h]].refs /\ UNCHANGED faults
          /\ Goto(h, IF class[job[h]].info # NoBucket THEN cosi ELSE plain)
       \/ Goto(h, "failed") /\ NoClient(job[h])
    /\ UNCHANGED <<storeVars, job, left, failed>>

(***************************************************************************)
(* CreateVolume.                                                           *)
(***************************************************************************)
\* A PVC that cannot be read counts as one without the annotation.
bucketAccessHandle(h) ==
    /\ pc[h] = "handle"
    /\ \/ class[job[h]].access # NoBucket /\ Goto(h, "createdhandle") /\ UNCHANGED faults
       \/ class[job[h]].access = NoBucket /\ Goto(h, "client") /\ UNCHANGED faults
       \/ class[job[h]].access # NoBucket /\ Goto(h, "client") /\ Fault("api")
    /\ UNCHANGED <<storeVars, job, left, failed>>

\* Mutant of CreateVolume: the bucket is made without a look whether it exists.
CreateVolumeBlind(h) ==
    LET v == job[h]
        bucketName == IF class[v].bucket # NoBucket THEN class[v].bucket ELSE v
        prefix == IF class[v].bucket # NoBucket THEN v ELSE NoPrefix
    IN
    \/ bucketAccessHandle(h)
    \/ pc[h] = "client" /\ NewClientFromSecret(h, "cosi", "bucket")
    \/ pc[h] = "cosi" /\ BucketExists(h, class[v].info, "created", "failed")
    \/ pc[h] = "bucket" /\ CreateBucket(h, bucketName, "prefix")
    \/ pc[h] = "prefix" /\ CreatePrefix(h, bucketName, prefix, "created")

CreateVolume(h) ==
    LET v == job[h]
        bucketName == IF class[v].bucket # NoBucket THEN class[v].bucket ELSE v
        prefix == IF class[v].bucket # NoBucket THEN v ELSE NoPrefix
    IN
    \/ bucketAccessHandle(h)
    \/ pc[h] = "client" /\ NewClientFromSecret(h, "cosi", "exists")
    \/ pc[h] = "cosi" /\ BucketExists(h, class[v].info, "created", "failed")
    \/ pc[h] = "exists" /\ BucketExists(h, bucketName, "prefix", "bucket")
    \/ pc[h] = "bucket" /\ CreateBucket(h, bucketName, "prefix")
    \/ pc[h] = "prefix" /\ CreatePrefix(h, bucketName, prefix, "created")

(***************************************************************************)
(* DeleteVolume, from the volume's id.                                     *)
(***************************************************************************)
\* A bucket that is gone is no error, for a volume that is the bucket.
DeleteVolume(h) ==
    LET place == volumeIDToBucketPrefix(volumeID(job[h])) IN
    \/ pc[h] = "delete" /\ NewClientFromSecret(h, "deleted", "list")
    \/ place[2] = NoPrefix /\ RemoveBucket(h, place[1])
    \/ place[2] # NoPrefix /\ RemovePrefix(h, place[1], place[2])
    \/ /\ pc[h] = "missing" /\ Goto(h, IF place[2] = NoPrefix THEN "deleted" ELSE "failed")
       /\ UNCHANGED <<storeVars, job, left, failed, faults>>

HandlerStep(h) ==
    /\ pc[h] # "idle"
    /\ CreateVolume(h) \/ DeleteVolume(h)
    /\ UNCHANGED <<provVars, cosiVars, nodeVars>>

(***************************************************************************)
(* The provisioner (external).  It has one request of a volume under way,  *)
(* gives up waiting after a time, and repeats what failed; the handler it  *)
(* gave up on goes on.                                                     *)
(***************************************************************************)
SendRequest(v, h, from, to, l) ==
    /\ phase[v] \in {from, to} /\ call[v] = NoCall
    /\ class[v].info # NoBucket => class[v].info \in secrets
    /\ pc[h] = "idle" /\ Goto(h, l)
    /\ job' = [job EXCEPT ![h] = v]
    /\ phase' = [phase EXCEPT ![v] = to]
    /\ call' = [call EXCEPT ![v] = h]
    /\ UNCHANGED <<storeVars, left, failed, faults, handle, cosiVars, nodeVars>>

SendCreate(v, h) == SendRequest(v, h, "none", "creating", "handle")

\* A volume is deleted once no node has it.
SendDelete(v, h) ==
    /\ node[v] = "idle" /\ mount[v] = NoMount
    /\ SendRequest(v, h, "ready", "deleting", "delete")

Reply(h) ==
    /\ pc[h] \in {"created", "createdhandle", "deleted", "failed"}
    /\ Goto(h, "idle") /\ job' = [job EXCEPT ![h] = NoVol]
    /\ LET v == job[h] IN
       IF call[v] # h THEN UNCHANGED provVars
       ELSE /\ call' = [call EXCEPT ![v] = NoCall]
            /\ phase' = [phase EXCEPT ![v] =
                           CASE pc[h] = "failed" -> @
                             [] pc[h] = "deleted" -> "gone"
                             [] OTHER -> "ready"]
            /\ handle' = IF pc[h] = "createdhandle" THEN handle \cup {v} ELSE handle
    /\ UNCHANGED <<storeVars, left, failed, faults, cosiVars, nodeVars>>

Timeout(v) ==
    /\ call[v] # NoCall /\ Fault("timeout")
    /\ call' = [call EXCEPT ![v] = NoCall]
    /\ UNCHANGED <<storeVars, handlerVars, phase, handle, cosiVars, nodeVars>>

\* The controller's process ends and starts again.
Restart ==
    /\ Fault("crash")
    /\ pc' = [h \in Handler |-> "idle"] /\ job' = [h \in Handler |-> NoVol]
    /\ left' = [h \in Handler |-> {}]
    /\ failed' = [h \in Handler |-> FALSE]
    /\ call' = [v \in Vol |-> NoCall]
    /\ UNCHANGED <<storeVars, phase, handle, cosiVars, nodeVars>>

(***************************************************************************)
(* NodeStageVolume, as far as it decides what is mounted.  The kubelet     *)
(* repeats it until it succeeds.                                           *)
(***************************************************************************)
NodeStep(v, from, to) ==
    /\ node[v] = from /\ node' = [node EXCEPT ![v] = to]
    /\ UNCHANGED <<storeVars, handlerVars, provVars, cosiVars>>

\* The secrets of the request are there, if the class has them.
Stage(v) ==
    /\ phase[v] = "ready" /\ call[v] = NoCall /\ mount[v] = NoMount
    /\ class[v].info # NoBucket => class[v].info \in secrets
    /\ NodeStep(v, "idle", "target")
    /\ UNCHANGED <<sawGranted, mount, faults>>

\* Mutant of volumeTarget: the bucket of the credentials is not asked for.
volumeTargetOfID(v, bucket) ==
    mount' = [mount EXCEPT ![v] = volumeIDToBucketPrefix(volumeID(v))]

\* Mutant of volumeTarget: the id is taken for the bucket.
volumeTargetRaw(v, bucket) ==
    mount' = [mount EXCEPT ![v] = IF bucket # NoBucket THEN <<bucket, NoPrefix>> ELSE volumeID(v)]

\* volumeTarget with Config.Bucket, and the mount it leads to.
volumeTarget(v, bucket) ==
    mount' = [mount EXCEPT ![v] = IF bucket # NoBucket THEN <<bucket, NoPrefix>>
                                  ELSE volumeIDToBucketPrefix(volumeID(v))]

\* secretsForVolume: the request's own, or those of the handle...
secretsForVolume(v) ==
    \/ v \notin handle /\ class[v].refs /\ NodeStep(v, "target", "idle")
       /\ volumeTarget(v, class[v].info) /\ UNCHANGED <<sawGranted, faults>>
    \/ v \notin handle /\ NodeStep(v, "target", "retry")
       /\ NoClient(v) /\ UNCHANGED <<sawGranted, mount>>
    \/ v \in handle /\ NodeStep(v, "target", "claim")
       /\ sawGranted' = [sawGranted EXCEPT ![v] = class[v].access \in granted]
       /\ UNCHANGED <<mount, faults>>
    \/ v \in handle /\ NodeStep(v, "target", "retry")
       /\ Fault("api") /\ UNCHANGED <<sawGranted, mount>>

\* ...after the BucketAccess the BucketClaim is read, and then the Secret.
resolveCOSISecret(v) ==
    \/ /\ class[v].access \in ready /\ sawGranted[v]
       /\ NodeStep(v, "claim", "secret") /\ UNCHANGED <<sawGranted, mount, faults>>
    \/ /\ ~(class[v].access \in ready /\ sawGranted[v])
       /\ NodeStep(v, "claim", "retry") /\ UNCHANGED <<sawGranted, mount, faults>>
    \/ /\ class[v].access \in secrets /\ NodeStep(v, "secret", "idle")
       /\ volumeTarget(v, class[v].access) /\ UNCHANGED <<sawGranted, faults>>
    \/ /\ class[v].access \notin secrets /\ NodeStep(v, "secret", "retry")
       /\ UNCHANGED <<sawGranted, mount, faults>>
    \/ /\ NodeStep(v, "claim", "retry") \/ NodeStep(v, "secret", "retry")
       /\ Fault("api") /\ UNCHANGED <<sawGranted, mount>>
    \/ /\ class[v].access \in secrets /\ NodeStep(v, "secret", "retry")
       /\ Fault("secret") /\ UNCHANGED <<sawGranted, mount>>

StageAgain(v) == NodeStep(v, "retry", "target") /\ UNCHANGED <<sawGranted, mount, faults>>

NodeStageVolume(v) == secretsForVolume(v) \/ resolveCOSISecret(v) \/ StageAgain(v)

\* A pod writes a file; the volume is unstaged.
Write(v, f) ==
    /\ mount[v] # NoMount /\ mount[v][1] \in buckets
    /\ objects' = objects \cup {[bucket |-> mount[v][1], name |-> mount[v][2], file |-> f]}
    /\ UNCHANGED <<buckets, handlerVars, faults, provVars, cosiVars, nodeVars>>

Unstage(v) ==
    /\ mount[v] # NoMount
    /\ mount' = [mount EXCEPT ![v] = NoMount]
    /\ UNCHANGED <<storeVars, handlerVars, faults, provVars, cosiVars, node, sawGranted>>

(***************************************************************************)
(* The COSI controller (external).                                         *)
(***************************************************************************)
MakeBucket(c) ==
    /\ c \notin buckets /\ buckets' = buckets \cup {c}
    /\ UNCHANGED <<objects, handlerVars, faults, provVars, cosiVars, nodeVars>>

SetReady(c) ==
    /\ c \in buckets \ ready /\ ready' = ready \cup {c}
    /\ UNCHANGED <<storeVars, handlerVars, faults, provVars, granted, secrets, nodeVars>>

\* A Secret of that name may be there from before.
WriteSecret(c) ==
    /\ c \notin secrets /\ secrets' = secrets \cup {c}
    /\ UNCHANGED <<storeVars, handlerVars, faults, provVars, ready, granted, nodeVars>>

Grant(c) ==
    /\ c \in ready \ granted /\ granted' = granted \cup {c}
    /\ UNCHANGED <<storeVars, handlerVars, faults, provVars, ready, secrets, nodeVars>>

\* The BucketClaims and BucketAccesses there are, are those of some volume.
Cosi(c) ==
    /\ \E v \in Vol : c \in {class[v].info, class[v].access}
    /\ MakeBucket(c) \/ SetReady(c) \/ WriteSecret(c) \/ Grant(c)

(***************************************************************************)
Init ==
    /\ class \in Classes
    /\ buckets = {} /\ objects = {}
    /\ pc = [h \in Handler |-> "idle"] /\ job = [h \in Handler |-> NoVol]
    /\ left = [h \in Handler |-> {}] /\ failed = [h \in Handler |-> FALSE]
    /\ faults = 0
    /\ phase = [v \in Vol |-> "none"] /\ call = [v \in Vol |-> NoCall] /\ handle = {}
    /\ ready = {} /\ granted = {} /\ secrets = {}
    /\ node = [v \in Vol |-> "idle"] /\ sawGranted = [v \in Vol |-> FALSE]
    /\ mount = [v \in Vol |-> NoMount]

Next ==
    /\ UNCHANGED class
    /\ \/ \E h \in Handler : HandlerStep(h) \/ Reply(h)
       \/ \E v \in Vol :
            \/ \E h \in Handler : SendCreate(v, h) \/ SendDelete(v, h)
            \/ Timeout(v) \/ Stage(v) \/ NodeStageVolume(v) \/ Unstage(v)
            \/ \E f \in File : Write(v, f)
       \/ \E c \in CosiBucket : Cosi(c)
       \/ Restart

SendAgain(v) ==
    /\ phase[v] \in {"creating", "deleting"} /\ call[v] = NoCall
    /\ \E h \in Handler : SendCreate(v, h) \/ SendDelete(v, h)

\* Goroutines run and calls return; the provisioner and the kubelet repeat a
\* request they began; the COSI controller does its work.
Fairness ==
    /\ \A h \in Handler : WF_vars(HandlerStep(h) \/ Reply(h))
    /\ \A v \in Vol :
         /\ WF_vars(SendAgain(v))
         /\ WF_vars(NodeStageVolume(v))
    /\ \A c \in CosiBucket : WF_vars(Cosi(c))

Spec == Init /\ [][Next]_<<class, vars>> /\ Fairness

(***************************************************************************)
(* Properties.                                                             *)
(***************************************************************************)
CreateLabel == {"handle", "client", "cosi", "exists", "bucket", "prefix", "created", "createdhandle"}
DeleteLabel == {"delete", "list", "remove", "listone", "removeone", "last", "missing", "deleted"}

Place == Bucket \X (Vol \cup {NoPrefix})

TypeOK ==
    /\ class \in [Vol -> Class]
    /\ buckets \subseteq Bucket /\ objects \subseteq Object
    /\ pc \in [Handler -> CreateLabel \cup DeleteLabel \cup {"idle", "failed"}]
    /\ job \in [Handler -> Vol \cup {NoVol}]
    /\ \A h \in Handler : pc[h] # "idle" => job[h] \in Vol
    /\ left \in [Handler -> SUBSET Object] /\ failed \in [Handler -> BOOLEAN]
    /\ faults \in 0..MaxFaults
    /\ phase \in [Vol -> {"none", "creating", "ready", "deleting", "gone"}]
    /\ call \in [Vol -> Handler \cup {NoCall}]
    /\ handle \subseteq Vol
    /\ ready \subseteq CosiBucket /\ granted \subseteq CosiBucket /\ secrets \subseteq CosiBucket
    /\ node \in [Vol -> {"idle", "target", "claim", "secret", "retry"}]
    /\ sawGranted \in [Vol -> BOOLEAN]
    /\ mount \in [Vol -> Place \cup {NoMount}]

\* Where the data of a volume belongs: the COSI bucket it is a view of, or the
\* place its id names.
Home(v) ==
    IF class[v].access # NoBucket THEN <<class[v].access, NoPrefix>>
    ELSE IF class[v].info # NoBucket THEN <<class[v].info, NoPrefix>>
    ELSE volumeIDToBucketPrefix(volumeID(v))

LentPlace == {p \in Place : p[1] \in CosiBucket}

FilesAt(p) == {f \in File : [bucket |-> p[1], name |-> p[2], file |-> f] \in objects}

Store == INSTANCE VolumeStore
    WITH Lent <- LentPlace, home <- [v \in Vol |-> Home(v)],
         data <- [p \in Place |-> FilesAt(p)]

\* The controller keeps VolumeStore's promise: no delete, retried, overtaken by
\* its own retry or gone on after a time-out, takes a file of another volume or
\* of a COSI bucket, and none that answers leaves a file behind.
KeepsPromise == Store!Spec

\* That rests on names none of which begins another, as those of a provisioner,
\* which have one length, and on listings of a prefix that do not end early
\* unnoticed...
NamesApart == \A n, m \in Vol : <<n, m>> \in Covers => n = m
ListingsWhole == "listprefix" \notin FaultKinds

\* ...and, as MountsOwnData does, on classes that bring the credentials of the
\* COSI bucket along (storageclass-cosi.yaml), or none at all, where a PVC may not
\* be readable.
AnnotationHeard ==
    \A k \in Classes : \A v \in Vol :
       k[v].access # NoBucket => k[v].info # NoBucket \/ ~k[v].refs \/ "api" \notin FaultKinds

\* A mount shows the data of its volume, never an empty bucket of that name: a
\* COSI volume the COSI bucket, even when CreateVolume could not read the PVC;
\* and with a handle not before the bucket is ready and the access granted.
MountsOwnData ==
    \A v \in Vol : mount[v] # NoMount =>
       /\ mount[v] = Home(v)
       /\ v \in handle => class[v].access \in ready \cap granted

\* What was asked for is done in the end, though requests fail, time out, run
\* twice side by side or die with the controller; all but the deletion of a
\* volume whose requests come without secrets, which fails every time.
Busy(v) ==
    \/ phase[v] = "creating"
    \/ phase[v] = "deleting" /\ class[v].refs
    \/ node[v] # "idle"
RequestsComplete == \A v \in Vol : Busy(v) ~> ~Busy(v)
=============================================================================
