------------------------- MODULE ControllerRefines -------------------------
(***************************************************************************)
(* The controller implements VolumeStore, for any volumes, buckets,        *)
(* handlers, classes and failures that NamesApart, ListingsWhole and       *)
(* AnnotationHeard allow.                                                  *)
(***************************************************************************)
EXTENDS ControllerProofs

\* The volume is no view of a COSI bucket: its data lives and dies with it.
Plain(v) == class[v].access = NoBucket /\ class[v].info = NoBucket

At(o) == <<o.bucket, o.name>>

\* An object lies in a bucket that exists, and a file in some volume's place.
StoreInv ==
    \A o \in objects :
       /\ o.bucket \in buckets
       /\ o.file \in File => \E v \in Vol : At(o) = Home(v)

RemoveLabel == {"list", "remove", "listone", "removeone", "last", "missing"}

\* What a handler is about to remove is the data of its own volume, and none that
\* is lent to it.
LeftOf(h) ==
    /\ pc[h] \notin {"remove", "removeone"} => left[h] = {} /\ failed[h] = FALSE
    /\ pc[h] \in RemoveLabel => class[job[h]].info = NoBucket
    /\ \A o \in left[h] : o.file \in File => Plain(job[h]) /\ At(o) = Home(job[h])

Emptied(v) == Plain(v) => \A o \in objects : o.file \in File => At(o) # Home(v)

\* A handler that has listed a prefix has all of its files before it, unless it
\* knows of a failure; so nothing is left when the delete ends.  A bucket is
\* looked at again by the store before it goes.
GoneOf(h) ==
    /\ /\ pc[h] \in {"remove", "removeone"} /\ failed[h] = FALSE
       /\ Plain(job[h]) /\ IdPlace(job[h])[2] # NoPrefix
       => \A o \in objects : o.file \in File /\ At(o) = Home(job[h]) => o \in left[h]
    /\ pc[h] = "last" /\ IdPlace(job[h])[2] # NoPrefix => Emptied(job[h])
    /\ pc[h] \in {"deleted", "missing"} => Emptied(job[h])

DataInv ==
    /\ StoreInv
    /\ \A h \in Handler : LeftOf(h) /\ GoneOf(h)
    /\ \A v \in Vol : phase[v] = "gone" => Emptied(v)

(***************************************************************************)
(* Where data is.                                                          *)
(***************************************************************************)
\* The data of a volume is where its id says, or in the COSI bucket it views.
LEMMA HomeType ==
    ASSUME TypeOK, NEW v \in Vol
    PROVE  /\ Home(v) \in Place
           /\ Plain(v) => Home(v) = IdPlace(v) /\ Home(v) \notin LentPlace
           /\ ~Plain(v) => Home(v) \in LentPlace /\ Home(v)[1] \in CosiBucket
  <1>1. class[v] \in Class
    BY DEF TypeOK
  <1>2. CASE Plain(v)
    BY <1>2, IdNamesPlace, IdPlaceType DEF Plain, Home, LentPlace
  <1>3. CASE ~Plain(v)
    <2>1. PICK c \in CosiBucket : Home(v) = <<c, NoPrefix>>
      BY <1>1, <1>3 DEF Plain, Home, Class
    <2>2. <<c, NoPrefix>> \in Place
      BY ClassAssumption DEF Place
    <2> QED  BY <1>3, <2>1, <2>2 DEF LentPlace
  <1> QED  BY <1>2, <1>3

\* No other volume's data is where a volume's own is.
LEMMA HomeApart ==
    ASSUME TypeOK, NEW v \in Vol, NEW w \in Vol, Plain(v), Home(w) = Home(v)
    PROVE  w = v
  <1>1. Home(v) = IdPlace(v) /\ IdPlace(v)[1] \notin CosiBucket
    BY HomeType, IdPlaceType
  <1>2. Plain(w)
    BY <1>1, HomeType
  <1>3. Home(w) = IdPlace(w)
    BY <1>2, HomeType
  <1> QED  BY <1>1, <1>3, StoreAssumption DEF IdPlace

\* A listing of the place a volume's id names has that volume's files only.
LEMMA ListedIsOwn ==
    ASSUME TypeOK, StoreInv, NamesApart, NEW v \in Vol,
           NEW o \in ListObjects(IdPlace(v)[1], IdPlace(v)[2]), o.file \in File
    PROVE  Plain(v) /\ At(o) = Home(v)
  <1>1. o \in objects /\ o.bucket = IdPlace(v)[1]
    BY DEF ListObjects
  <1>2. PICK w \in Vol : At(o) = Home(w)
    BY <1>1 DEF StoreInv
  <1>3. Home(w)[1] = IdPlace(v)[1] /\ Home(w)[2] = o.name
    BY <1>1, <1>2 DEF At
  <1>4. Plain(w) /\ Home(w) = IdPlace(w)
    BY <1>3, HomeType, IdPlaceType
  <1>5. w = v
    <2>1. CASE IdPlace(v)[2] = NoPrefix
      BY <2>1, <1>3, <1>4, IdPlaceType
    <2>2. CASE IdPlace(v)[2] # NoPrefix
      <3>1. IdPlace(v)[2] = v
        BY <2>2, IdPlaceType
      <3>2. o.name = v
        BY <2>2, <3>1, StoreAssumption DEF ListObjects, NamesApart
      <3> QED  BY <1>3, <1>4, <3>2, IdPlaceType, StoreAssumption
    <2> QED  BY <2>1, <2>2
  <1> QED  BY <1>2, <1>4, <1>5

\* A listing of it has all of them, and none if the bucket is not there.
LEMMA OwnIsListed ==
    ASSUME TypeOK, StoreInv, NEW v \in Vol, Plain(v),
           NEW o \in objects, o.file \in File, At(o) = Home(v)
    PROVE  /\ o \in ListObjects(IdPlace(v)[1], IdPlace(v)[2])
           /\ o.bucket = IdPlace(v)[1] /\ IdPlace(v)[1] \in buckets
  <1>1. At(o) = IdPlace(v)
    BY HomeType
  <1>2. o.bucket = IdPlace(v)[1] /\ o.name = IdPlace(v)[2]
    BY <1>1 DEF At
  <1> QED  BY <1>2 DEF ListObjects, StoreInv

(***************************************************************************)
(* Steps that add no file.                                                 *)
(***************************************************************************)
FilesShrink == \A o \in objects' : o.file \in File => o \in objects

LEMMA EmptiedStays ==
    ASSUME FilesShrink, UNCHANGED class, NEW v, Emptied(v)
    PROVE  Emptied(v)'
  BY DEF FilesShrink, Emptied, Plain, At, Home, volumeID

LEMMA OtherHandler ==
    ASSUME FilesShrink, UNCHANGED class, NEW g \in Handler, LeftOf(g), GoneOf(g),
           pc'[g] = pc[g], left'[g] = left[g], failed'[g] = failed[g], job'[g] = job[g]
    PROVE  LeftOf(g)' /\ GoneOf(g)'
  <1>1. LeftOf(g)'
    BY DEF LeftOf, Plain, At, Home, volumeID
  <1>2. Emptied(job[g]) => Emptied(job[g])'
    BY EmptiedStays
  <1>3. GoneOf(g)'
    BY <1>2 DEF GoneOf, FilesShrink, Plain, At, Home, volumeID, IdPlace, Emptied
  <1> QED  BY <1>1, <1>3

\* So the invariant follows from what becomes of the handler that moves.
LEMMA OneMoves ==
    ASSUME DataInv, FilesShrink, UNCHANGED <<class, phase, job>>, NEW h \in Handler, Alone(h),
           StoreInv', LeftOf(h)', GoneOf(h)'
    PROVE  DataInv'
  <1>1. \A g \in Handler : LeftOf(g)' /\ GoneOf(g)'
    BY OtherHandler DEF DataInv, Alone
  <1>2. \A v \in Vol : phase'[v] = "gone" => Emptied(v)'
    BY EmptiedStays DEF DataInv
  <1> QED  BY <1>1, <1>2 DEF DataInv

(***************************************************************************)
(* The handlers.                                                           *)
(***************************************************************************)
\* CreateVolume adds buckets and markers.
LEMMA CreateKeepsData ==
    ASSUME TypeOK, DataInv, NEW h \in Handler, HandlerStep(h), UNCHANGED class, CreateVolume(h)
    PROVE  DataInv' /\ FilesShrink
  <1>1. UNCHANGED <<job, phase>> /\ Alone(h)
    BY HandlerType DEF HandlerStep, provVars
  <1>a. pc \in [Handler -> Label]
    BY DEF TypeOK, Label
  <1>2. /\ pc[h] \in CreateLabel /\ pc'[h] \in CreateLabel \cup {"failed"}
        /\ UNCHANGED <<left, failed>>
        /\ buckets \subseteq buckets'
        /\ \A o \in objects' : o \in objects \/ (o.file = Marker /\ o.bucket \in buckets)
    BY <1>a DEF CreateVolume, bucketAccessHandle, NewClientFromSecret, BucketExists, CreateBucket,
       CreatePrefix, Goto, storeVars, CreateLabel
  <1>3. FilesShrink
    BY <1>2, StoreAssumption DEF FilesShrink
  <1>4. StoreInv'
    BY <1>2, <1>3 DEF DataInv, StoreInv, FilesShrink, At, Home, volumeID
  <1>5. left[h] = {} /\ failed[h] = FALSE
    BY <1>2 DEF DataInv, LeftOf, CreateLabel
  <1>6. LeftOf(h)' /\ GoneOf(h)'
    BY <1>2, <1>5 DEF LeftOf, GoneOf, CreateLabel, RemoveLabel
  <1> QED  BY <1>1, <1>3, <1>4, <1>6, OneMoves

\* The listings of RemoveBucket and RemovePrefix: they are whole, or the listing of
\* a bucket, or of one that is gone.
LEMMA ListKeepsData ==
    ASSUME TypeOK, DataInv, NamesApart, ListingsWhole, NEW h \in Handler, UNCHANGED class,
           job[h] \in Vol,
           \/ removeObjects(h, IdPlace(job[h])[1], IdPlace(job[h])[2])
           \/ removeObjectsOneByOne(h, IdPlace(job[h])[1], IdPlace(job[h])[2])
    PROVE  StoreInv' /\ FilesShrink /\ LeftOf(h)' /\ GoneOf(h)'
  <1> DEFINE v == job[h]
             b == IdPlace(v)[1]
             n == IdPlace(v)[2]
  <1>a. pc \in [Handler -> Label] /\ left \in [Handler -> SUBSET Object]
    BY DEF TypeOK, Label
  <1>1. /\ UNCHANGED <<buckets, objects, job, failed>>
        /\ pc[h] \in {"list", "listone"}
        /\ class[v].info = NoBucket /\ left[h] = {} /\ failed[h] = FALSE
    BY DEF removeObjects, removeObjectsOneByOne, storeVars, DataInv, LeftOf, RemoveLabel
  <1>2. StoreInv' /\ FilesShrink
    BY <1>1 DEF DataInv, StoreInv, FilesShrink, At, Home, volumeID
  <1>3. \/ /\ pc'[h] \in {"remove", "removeone"} /\ left'[h] \subseteq ListObjects(b, n)
           /\ b \notin buckets \/ n = NoPrefix \/ left'[h] = ListObjects(b, n)
        \/ pc'[h] \in {"listone", "failed"} /\ left'[h] = {}
        \/ pc'[h] = "missing" /\ left'[h] = {} /\ b \notin buckets
    <2>1. b \in buckets /\ n # NoPrefix => ~ListFault(n)
      BY DEF ListFault, Fault, ListingsWhole
    <2>2. CASE removeObjects(h, b, n)
      BY <2>1, <2>2, <1>a, <1>1 DEF removeObjects, Listed, Goto
    <2>3. CASE removeObjectsOneByOne(h, b, n)
      BY <2>1, <2>3, <1>a, <1>1 DEF removeObjectsOneByOne, Listed, Goto
    <2> QED  BY <2>2, <2>3
  <1>4. \A o \in ListObjects(b, n) : o.file \in File => Plain(v) /\ At(o) = Home(v)
    BY ListedIsOwn DEF DataInv
  <1>5. Plain(v) => \A o \in objects : o.file \in File /\ At(o) = Home(v) =>
                        o \in ListObjects(b, n) /\ b \in buckets
    BY OwnIsListed DEF DataInv
  <1>6. UNCHANGED <<Home(v), IdPlace(v), Plain(v)>> /\ v' = v
    BY <1>1 DEF Home, volumeID, IdPlace, Plain
  <1> HIDE DEF b, n
  <1>7. LeftOf(h)'
    <2>1. \A o \in left'[h] : o.file \in File => Plain(v) /\ At(o) = Home(v)
      BY <1>3, <1>4
    <2>2. pc'[h] \notin {"remove", "removeone"} => left'[h] = {}
      BY <1>3
    <2> QED  BY <1>1, <1>6, <2>1, <2>2 DEF LeftOf, At, Plain
  <1>8. GoneOf(h)'
    <2>1. pc'[h] = "missing" => Emptied(v)'
      BY <1>1, <1>3, <1>5, <1>6 DEF Emptied, At
    <2>2. pc'[h] \notin {"last", "deleted"}
      BY <1>3
    <2>3. pc'[h] \in {"remove", "removeone"} /\ Plain(v) /\ n # NoPrefix =>
            \A o \in objects : o.file \in File /\ At(o) = Home(v) => o \in left'[h]
      BY <1>3, <1>5
    <2> QED  BY <1>1, <1>6, <2>1, <2>2, <2>3 DEF GoneOf, At, n, Emptied
  <1> QED  BY <1>2, <1>7, <1>8

\* The removal of one object: it is the volume's, and the handler knows if it failed.
LEMMA RemoveKeepsData ==
    ASSUME TypeOK, DataInv, NEW h \in Handler, UNCHANGED class, job[h] \in Vol,
           NEW b, RemoveListed(h, b)
    PROVE  StoreInv' /\ FilesShrink /\ LeftOf(h)' /\ GoneOf(h)'
  <1>1. PICK x \in left[h] :
          /\ left' = [left EXCEPT ![h] = @ \ {x}]
          /\ \/ objects' = objects \ {x} /\ UNCHANGED failed
             \/ failed' = [failed EXCEPT ![h] = TRUE] /\ UNCHANGED objects
    BY DEF RemoveListed
  <1>2. UNCHANGED <<buckets, pc, job>> /\ pc[h] \in {"remove", "removeone"}
    BY DEF RemoveListed
  <1>3. FilesShrink
    BY <1>1 DEF FilesShrink
  <1>4. StoreInv'
    BY <1>1, <1>2 DEF DataInv, StoreInv, At, Home, volumeID
  <1>5. /\ left'[h] = left[h] \ {x}
        /\ \/ objects' = objects \ {x} /\ failed'[h] = failed[h]
           \/ failed'[h] = TRUE
    BY <1>1 DEF TypeOK
  <1>6. LeftOf(h)'
    BY <1>2, <1>5 DEF DataInv, LeftOf, Plain, At, Home, volumeID
  <1>7. GoneOf(h)'
    BY <1>2, <1>5 DEF DataInv, GoneOf, Plain, At, Home, volumeID, IdPlace
  <1> QED  BY <1>3, <1>4, <1>6, <1>7

\* The other steps of DeleteVolume change no object.
LEMMA RestKeepsData ==
    ASSUME TypeOK, DataInv, NEW h \in Handler, UNCHANGED class, job[h] \in Vol,
           \/ Removed(h)
           \/ IdPlace(job[h])[2] # NoPrefix /\ RemovePrefixItself(h, IdPlace(job[h])[1])
           \/ IdPlace(job[h])[2] = NoPrefix /\ RemoveBucketItself(h, IdPlace(job[h])[1])
           \/ pc[h] = "delete" /\ NewClientFromSecret(h, "deleted", "list")
           \/ /\ pc[h] = "missing"
              /\ Goto(h, IF IdPlace(job[h])[2] = NoPrefix THEN "deleted" ELSE "failed")
              /\ UNCHANGED <<storeVars, job, left, failed, faults>>
    PROVE  StoreInv' /\ FilesShrink /\ LeftOf(h)' /\ GoneOf(h)'
  <1> DEFINE v == job[h]
             b == IdPlace(v)[1]
  <1>a. pc \in [Handler -> Label] /\ failed \in [Handler -> BOOLEAN]
    BY DEF TypeOK, Label
  <1>1. UNCHANGED <<objects, job, left>>
    BY DEF Removed, RemovePrefixItself, RemoveBucketItself, NewClientFromSecret, storeVars
  <1>2. FilesShrink
    BY <1>1 DEF FilesShrink
  <1>3. UNCHANGED <<Home(v), IdPlace(v), Plain(v)>> /\ v' = v /\ (Emptied(v) => Emptied(v)')
    BY <1>1, <1>2, EmptiedStays DEF Home, volumeID, IdPlace, Plain
  <1>4. b \notin buckets \/ (~\E o \in objects : o.bucket = b) => Emptied(v)
    BY OwnIsListed DEF Emptied, DataInv
  <1>5. LeftOf(h) /\ GoneOf(h) /\ StoreInv
    BY DEF DataInv
  <1>6. CASE Removed(h)
    <2>1. left[h] = {} /\ failed'[h] = FALSE /\ UNCHANGED <<buckets, objects>>
      BY <1>6, <1>a DEF Removed, storeVars
    <2>2. /\ pc[h] \in {"remove", "removeone"}
          /\ pc'[h] = IF ~failed[h] THEN "last" ELSE IF pc[h] = "remove" THEN "listone" ELSE "failed"
      BY <1>6, <1>a DEF Removed, Goto
    <2>3. pc'[h] \in {"last", "listone", "failed"} /\ (pc'[h] = "last" => failed[h] = FALSE)
      BY <1>a, <2>2
    <2>4. pc'[h] = "last" /\ IdPlace(v)[2] # NoPrefix => Emptied(v)
      BY <1>5, <2>1, <2>2, <2>3 DEF GoneOf, Emptied
    <2>5. StoreInv'
      BY <1>5, <2>1 DEF StoreInv, At, Home, volumeID
    <2>6. LeftOf(h)'
      BY <1>1, <1>3, <1>5, <2>1, <2>2, <2>3 DEF LeftOf, RemoveLabel
    <2>7. GoneOf(h)'
      BY <1>1, <1>3, <2>3, <2>4 DEF GoneOf
    <2> QED  BY <1>2, <2>5, <2>6, <2>7
  <1>7. CASE ~Removed(h)
    <2>1. /\ pc[h] \in {"last", "missing", "delete"} /\ left[h] = {} /\ failed[h] = FALSE
          /\ UNCHANGED failed
      BY <1>5, <1>7 DEF RemovePrefixItself, RemoveBucketItself, NewClientFromSecret, LeftOf
    <2>2. /\ pc'[h] \in {"deleted", "missing", "failed", "list"}
          /\ pc'[h] = "list" => class[v].info = NoBucket
          /\ pc'[h] = "missing" => class[v].info = NoBucket
      BY <1>5, <1>7, <1>a DEF RemovePrefixItself, RemoveBucketItself, NewClientFromSecret, Goto,
         LeftOf, RemoveLabel
    <2>3. pc'[h] \in {"deleted", "missing"} => Emptied(v)
      <3>1. CASE IdPlace(v)[2] # NoPrefix /\ RemovePrefixItself(h, b)
        BY <1>5, <3>1 DEF GoneOf, RemovePrefixItself
      <3>2. CASE RemoveBucketItself(h, b)
        BY <1>4, <1>a, <3>2 DEF RemoveBucketItself, Goto
      <3>3. CASE pc[h] = "delete" /\ NewClientFromSecret(h, "deleted", "list")
        BY <1>a, <3>3 DEF NewClientFromSecret, Goto, Emptied, Plain
      <3>4. CASE pc[h] = "missing"
        BY <1>5, <3>4 DEF GoneOf
      <3> QED  BY <1>7, <3>1, <3>2, <3>3, <3>4
    <2>4. StoreInv'
      <3>1. \/ buckets' = buckets
            \/ (~\E o \in objects : o.bucket = b) /\ buckets' = buckets \ {b}
        BY <1>7 DEF RemovePrefixItself, RemoveBucketItself, NewClientFromSecret, storeVars
      <3> QED  BY <1>1, <1>5, <3>1 DEF StoreInv, At, Home, volumeID
    <2>5. LeftOf(h)'
      BY <1>1, <1>3, <2>1, <2>2 DEF LeftOf, RemoveLabel
    <2>6. GoneOf(h)'
      BY <1>1, <1>3, <2>2, <2>3 DEF GoneOf
    <2> QED  BY <1>2, <2>4, <2>5, <2>6
  <1> QED  BY <1>6, <1>7

\* DeleteVolume, with the place that the volume's id names.
LEMMA DeleteKeepsData ==
    ASSUME TypeOK, DataInv, NamesApart, ListingsWhole, NEW h \in Handler, HandlerStep(h),
           UNCHANGED class, DeleteVolume(h)
    PROVE  DataInv' /\ FilesShrink
  <1>1. UNCHANGED <<job, phase>> /\ Alone(h) /\ job[h] \in Vol
    BY HandlerType DEF HandlerStep, provVars, TypeOK
  <1>2. volumeIDToBucketPrefix(volumeID(job[h])) = IdPlace(job[h])
    BY IdNamesPlace
  <1>3. StoreInv' /\ FilesShrink /\ LeftOf(h)' /\ GoneOf(h)'
    BY <1>1, <1>2, ListKeepsData, RemoveKeepsData, RestKeepsData
       DEF DeleteVolume, RemoveBucket, RemovePrefix, RemoveObjects
  <1> QED  BY <1>1, <1>3, OneMoves

(***************************************************************************)
(* The provisioner, the nodes and the COSI controller.                     *)
(***************************************************************************)
\* A handler with nothing to remove.
Quiet(h) == pc'[h] \in {"idle", "handle", "delete"} /\ left'[h] = {} /\ failed'[h] = FALSE

\* Steps of which the store sees nothing.
LEMMA StoreUntouched ==
    ASSUME DataInv, UNCHANGED <<class, buckets, objects>>,
           \A g \in Handler :
              \/ Quiet(g)
              \/ UNCHANGED <<pc[g], left[g], failed[g], job[g]>>,
           \A v \in Vol : phase'[v] = "gone" => phase[v] = "gone" \/ Emptied(v)
    PROVE  DataInv' /\ FilesShrink
  <1>1. FilesShrink /\ StoreInv'
    BY DEF DataInv, StoreInv, FilesShrink, At, Home, volumeID
  <1>2. \A g \in Handler : LeftOf(g)' /\ GoneOf(g)'
    <2> TAKE g \in Handler
    <2>1. CASE Quiet(g)
      BY <2>1 DEF Quiet, LeftOf, GoneOf, RemoveLabel
    <2>2. CASE UNCHANGED <<pc[g], left[g], failed[g], job[g]>>
      BY <1>1, <2>2, OtherHandler DEF DataInv
    <2> QED  BY <2>1, <2>2
  <1>3. \A v \in Vol : phase'[v] = "gone" => Emptied(v)'
    BY <1>1, EmptiedStays DEF DataInv
  <1> QED  BY <1>1, <1>2, <1>3 DEF DataInv

LEMMA SendKeepsData ==
    ASSUME TypeOK, DataInv, UNCHANGED class, NEW v \in Vol, NEW h \in Handler,
           SendCreate(v, h) \/ SendDelete(v, h)
    PROVE  DataInv' /\ FilesShrink
  <1>1. PICK l \in {"handle", "delete"}, q \in {"creating", "deleting"} :
          /\ pc[h] = "idle" /\ pc' = [pc EXCEPT ![h] = l] /\ job' = [job EXCEPT ![h] = v]
          /\ phase' = [phase EXCEPT ![v] = q]
    BY DEF SendCreate, SendDelete, SendRequest, Goto
  <1>2. UNCHANGED <<buckets, objects, left, failed>>
    BY DEF SendCreate, SendDelete, SendRequest, storeVars
  <1>a. /\ pc \in [Handler -> Label] /\ job \in [Handler -> Vol \cup {NoVol}]
        /\ phase \in [Vol -> {"none", "creating", "ready", "deleting", "gone"}]
    BY DEF TypeOK, Label
  <1>3. Quiet(h)
    BY <1>1, <1>2, <1>a DEF DataInv, LeftOf, Quiet
  <1>4. \A g \in Handler : Quiet(g) \/ UNCHANGED <<pc[g], left[g], failed[g], job[g]>>
    BY <1>1, <1>2, <1>3, <1>a
  <1>5. \A w \in Vol : phase'[w] = "gone" => phase[w] = "gone"
    BY <1>1, <1>a
  <1> QED  BY <1>2, <1>4, <1>5, StoreUntouched

\* What the provisioner makes of a reply.
LEMMA ReplyMoves ==
    ASSUME TypeOK, MountInv, UNCHANGED class, NEW h \in Handler, Reply(h)
    PROVE  /\ job[h] \in Vol
           /\ \/ UNCHANGED phase
              \/ phase[job[h]] = "creating" /\ phase' = [phase EXCEPT ![job[h]] = "ready"]
              \/ /\ pc[h] = "deleted" /\ phase[job[h]] \in {"deleting", "gone"}
                 /\ phase' = [phase EXCEPT ![job[h]] = "gone"]
  <1> DEFINE v == job[h]
  <1>1. v \in Vol /\ pc[h] \in {"created", "createdhandle", "deleted", "failed"}
    BY DEF Reply, TypeOK
  <1>2. phase \in [Vol -> {"none", "creating", "ready", "deleting", "gone"}]
    BY DEF TypeOK
  <1>3. CASE call[v] # h
    BY <1>1, <1>3 DEF Reply, provVars
  <1>4. CASE call[v] = h
    <2>1. /\ pc[h] \in {"created", "createdhandle"} => phase[v] = "creating"
          /\ pc[h] = "deleted" => phase[v] \in {"deleting", "gone"}
      BY <1>4 DEF MountInv, PhaseInv, CreateLabel, DeleteLabel
    <2>2. CASE pc[h] = "failed"
      <3>1. phase' = [phase EXCEPT ![v] = phase[v]]
        BY <2>2, <1>4, Zenon DEF Reply
      <3> QED  BY <1>1, <1>2, <3>1
    <2>3. CASE pc[h] = "deleted"
      BY <1>1, <2>1, <2>3, <1>4, Zenon DEF Reply
    <2>4. CASE pc[h] \in {"created", "createdhandle"}
      BY <1>1, <2>1, <2>4, <1>4, Zenon DEF Reply
    <2> QED  BY <1>1, <2>2, <2>3, <2>4
  <1> QED  BY <1>3, <1>4

LEMMA ReplyKeepsData ==
    ASSUME TypeOK, MountInv, DataInv, UNCHANGED class, NEW h \in Handler, Reply(h)
    PROVE  DataInv' /\ FilesShrink
  <1>1. /\ pc[h] \in {"created", "createdhandle", "deleted", "failed"}
        /\ pc' = [pc EXCEPT ![h] = "idle"] /\ job' = [job EXCEPT ![h] = NoVol]
        /\ UNCHANGED <<buckets, objects, left, failed>>
    BY DEF Reply, Goto, storeVars
  <1>a. /\ pc \in [Handler -> Label] /\ job \in [Handler -> Vol \cup {NoVol}]
        /\ phase \in [Vol -> {"none", "creating", "ready", "deleting", "gone"}]
    BY DEF TypeOK, Label
  <1>2. Quiet(h)
    BY <1>1, <1>a DEF DataInv, LeftOf, Quiet
  <1>3. \A g \in Handler : Quiet(g) \/ UNCHANGED <<pc[g], left[g], failed[g], job[g]>>
    BY <1>1, <1>2, <1>a
  <1>4. pc[h] = "deleted" => Emptied(job[h])
    BY DEF DataInv, GoneOf
  <1>5. \A w \in Vol : phase'[w] = "gone" => phase[w] = "gone" \/ Emptied(w)
    BY <1>4, <1>a, ReplyMoves
  <1> QED  BY <1>1, <1>3, <1>5, StoreUntouched

\* A request given up, a restart, NodeStage and NodeUnstage, the COSI controller.
LEMMA OthersKeepData ==
    ASSUME TypeOK, DataInv, UNCHANGED class,
           \/ Restart
           \/ \E v \in Vol : Timeout(v) \/ Stage(v) \/ NodeStageVolume(v) \/ Unstage(v)
           \/ \E c \in CosiBucket : Cosi(c)
    PROVE  DataInv' /\ UNCHANGED <<objects, phase>>
  <1>1. UNCHANGED <<objects, phase>>
    BY DEF Restart, Timeout, Stage, NodeStageVolume, secretsForVolume, resolveCOSISecret, StageAgain,
       NodeStep, Unstage, Cosi, MakeBucket, SetReady, WriteSecret, Grant, storeVars, provVars
  <1>2. CASE Restart
    <2>1. \A g \in Handler : Quiet(g)
      BY <1>2 DEF Restart, Quiet
    <2>2. UNCHANGED <<buckets, objects>>
      BY <1>2 DEF Restart, storeVars
    <2> QED  BY <1>1, <2>1, <2>2, StoreUntouched
  <1>3. CASE \E v \in Vol : Timeout(v) \/ Stage(v) \/ NodeStageVolume(v) \/ Unstage(v)
    <2>1. UNCHANGED <<buckets, objects, pc, job, left, failed>>
      BY <1>3 DEF Timeout, Stage, NodeStageVolume, secretsForVolume, resolveCOSISecret, StageAgain,
         NodeStep, Unstage, storeVars, handlerVars
    <2> QED  BY <1>1, <2>1, StoreUntouched
  <1>4. CASE \E c \in CosiBucket : Cosi(c)
    <2>1. UNCHANGED <<objects, pc, job, left, failed>> /\ buckets \subseteq buckets'
      BY <1>4 DEF Cosi, MakeBucket, SetReady, WriteSecret, Grant, storeVars, handlerVars
    <2>2. FilesShrink /\ StoreInv'
      BY <2>1 DEF DataInv, StoreInv, FilesShrink, At, Home, volumeID
    <2>3. \A g \in Handler : LeftOf(g)' /\ GoneOf(g)'
      BY <2>1, <2>2, OtherHandler DEF DataInv
    <2>4. \A v \in Vol : phase'[v] = "gone" => Emptied(v)'
      BY <1>1, <2>2, EmptiedStays DEF DataInv
    <2> QED  BY <1>1, <2>2, <2>3, <2>4 DEF DataInv
  <1> QED  BY <1>2, <1>3, <1>4

\* A pod writes where its volume's data is, which nobody deletes.
LEMMA WriteKeepsData ==
    ASSUME TypeOK, MountInv, DataInv, UNCHANGED class, NEW v \in Vol, NEW f \in File, Write(v, f)
    PROVE  /\ DataInv' /\ phase[v] = "ready"
           /\ objects' = objects \cup {[bucket |-> Home(v)[1], name |-> Home(v)[2], file |-> f]}
  <1> DEFINE x == [bucket |-> Home(v)[1], name |-> Home(v)[2], file |-> f]
  <1>1. mount[v] = Home(v) /\ phase[v] = "ready" /\ Home(v)[1] \in buckets
    BY DEF Write, MountInv, NodeInv, MountsOwnData
  <1>2. objects' = objects \cup {x} /\ UNCHANGED <<buckets, pc, job, left, failed, phase>>
    BY <1>1 DEF Write, handlerVars, provVars
  <1>3. At(x) = Home(v)
    BY HomeType DEF At, Place
  <1>4. \A w \in Vol : UNCHANGED <<Home(w), IdPlace(w), Plain(w)>>
    BY DEF Home, volumeID, IdPlace, Plain
  <1>5. \A w \in Vol : Plain(w) /\ phase[w] # "ready" => At(x) # Home(w)
    BY <1>1, <1>3, HomeApart
  <1>6. \A w \in Vol : phase[w] # "ready" /\ Emptied(w) => Emptied(w)'
    BY <1>2, <1>4, <1>5 DEF Emptied, At
  <1>b. x.bucket = Home(v)[1]
    OBVIOUS
  <1> HIDE DEF x
  <1>7. StoreInv'
    <2>1. \A o \in objects' : o.bucket \in buckets'
      BY <1>1, <1>2, <1>b DEF DataInv, StoreInv
    <2>2. \A o \in objects' : o.file \in File => \E w \in Vol : At(o) = Home(w)
      BY <1>2, <1>3 DEF DataInv, StoreInv
    <2> QED  BY <1>4, <2>1, <2>2 DEF StoreInv, At
  <1>8. ASSUME NEW h \in Handler PROVE LeftOf(h)' /\ GoneOf(h)'
    <2>1. LeftOf(h) /\ GoneOf(h)
      BY DEF DataInv
    <2>2. LeftOf(h)'
      BY <1>2, <2>1 DEF LeftOf, Plain, At, Home, volumeID
    <2>3. CASE pc[h] \in DeleteLabel
      <3>1. job[h] \in Vol /\ phase[job[h]] # "ready"
        BY <2>3 DEF MountInv, PhaseInv, TypeOK, DeleteLabel
      <3>2. Plain(job[h]) => At(x) # Home(job[h])
        BY <1>5, <3>1
      <3>3. Emptied(job[h]) => Emptied(job[h])'
        BY <1>2, <1>6, <3>1 DEF Emptied
      <3>4. UNCHANGED <<Home(job[h]), IdPlace(job[h]), Plain(job[h])>> /\ job'[h] = job[h]
        BY <1>2, <1>4, <3>1
      <3> QED  BY <1>2, <2>1, <2>2, <3>2, <3>3, <3>4 DEF GoneOf, At
    <2>4. CASE pc[h] \notin DeleteLabel
      BY <1>2, <2>2, <2>4 DEF GoneOf, DeleteLabel
    <2> QED  BY <2>3, <2>4
  <1>9. \A w \in Vol : phase'[w] = "gone" => Emptied(w)'
    BY <1>2, <1>6 DEF DataInv
  <1> QED  BY <1>1, <1>2, <1>7, <1>8, <1>9 DEF DataInv, x

\* The invariant of the deletes: what a handler removes, on its way or gone on
\* after its request was given up, are files of the volume whose deletion was
\* asked for, and a delete that answers has left none.
THEOREM DataInductive ==
    ASSUME NamesApart, ListingsWhole, AnnotationHeard PROVE Spec => []DataInv
  <1>1. Init => DataInv
    BY DEF Init, DataInv, StoreInv, LeftOf, GoneOf, RemoveLabel
  <1>2. TypeOK /\ MountInv /\ DataInv /\ [Next]_<<class, vars>> => DataInv'
    <2> SUFFICES ASSUME TypeOK, MountInv, DataInv, [Next]_<<class, vars>> PROVE DataInv'
      OBVIOUS
    <2>1. CASE UNCHANGED <<class, vars>>
      <3>1. UNCHANGED <<class, buckets, objects, pc, left, failed, job, phase>>
        BY <2>1 DEF vars, storeVars, handlerVars, provVars
      <3> QED  BY <3>1, StoreUntouched
    <2>2. CASE Next
      <3>1. ASSUME NEW h \in Handler, HandlerStep(h), UNCHANGED class PROVE DataInv'
        BY <3>1, CreateKeepsData, DeleteKeepsData DEF HandlerStep
      <3> QED
        BY <2>2, <3>1, SendKeepsData, ReplyKeepsData, OthersKeepData, WriteKeepsData DEF Next
    <2> QED  BY <2>1, <2>2
  <1> QED  BY <1>1, <1>2, TypeCorrect, MountInductive, PTL DEF Spec

(***************************************************************************)
(* The refinement, step by step.                                           *)
(***************************************************************************)
FilesSame == \A p \in Place : FilesAt(p)' = FilesAt(p)

LEMMA HomeStays ==
    ASSUME UNCHANGED class
    PROVE  [v \in Vol |-> Home(v)]' = [v \in Vol |-> Home(v)]
  BY DEF Home, volumeID

LEMMA Stutters ==
    ASSUME UNCHANGED <<class, phase>>, FilesSame
    PROVE  UNCHANGED Store!vars
  <1>1. [p \in Place |-> FilesAt(p)]' = [p \in Place |-> FilesAt(p)]
    BY DEF FilesSame
  <1> QED  BY <1>1, HomeStays DEF Store!vars

\* A volume's phase changes, and nothing else.
LEMMA PhaseMoves ==
    ASSUME TypeOK, UNCHANGED <<class, objects>>, NEW v \in Vol, NEW a, NEW z,
           phase[v] = a, phase' = [phase EXCEPT ![v] = z]
    PROVE  Store!Become(v, a, z)
  <1>1. [p \in Place |-> FilesAt(p)]' = [p \in Place |-> FilesAt(p)]
    BY DEF FilesAt
  <1> QED  BY <1>1, HomeStays DEF Store!Become

\* The files of a place, after an object came or went.
LEMMA FilesAfter ==
    ASSUME NEW p \in Place, NEW f \in File, NEW q \in Place
    PROVE  LET x == [bucket |-> p[1], name |-> p[2], file |-> f] IN
           /\ objects' = objects \cup {x} =>
                FilesAt(q)' = IF q = p THEN FilesAt(q) \cup {f} ELSE FilesAt(q)
           /\ objects' = objects \ {x} =>
                FilesAt(q)' = IF q = p THEN FilesAt(q) \ {f} ELSE FilesAt(q)
  <1> DEFINE rec(r, g) == [bucket |-> r[1], name |-> r[2], file |-> g]
  <1>1. \A g \in File : rec(q, g) = rec(p, f) <=> q = p /\ g = f
    <2>1. ASSUME NEW g \in File, rec(q, g) = rec(p, f) PROVE q = p /\ g = f
      <3>1. /\ rec(q, g).bucket = rec(p, f).bucket /\ rec(q, g).name = rec(p, f).name
            /\ rec(q, g).file = rec(p, f).file
        BY <2>1
      <3>2. q[1] = p[1] /\ q[2] = p[2] /\ g = f
        BY <3>1
      <3> QED  BY <3>2 DEF Place
    <2> QED  BY <2>1
  <1>2. FilesAt(q) = {g \in File : rec(q, g) \in objects}
    BY DEF FilesAt
  <1>3. FilesAt(q)' = {g \in File : rec(q, g) \in objects'}
    BY DEF FilesAt
  <1> HIDE DEF rec
  <1>4. /\ objects' = objects \cup {rec(p, f)} =>
             FilesAt(q)' = IF q = p THEN FilesAt(q) \cup {f} ELSE FilesAt(q)
        /\ objects' = objects \ {rec(p, f)} =>
             FilesAt(q)' = IF q = p THEN FilesAt(q) \ {f} ELSE FilesAt(q)
    BY <1>1, <1>2, <1>3
  <1> QED  BY <1>4 DEF rec

\* A handler's step is a stutter, or takes a file of a volume that is to go.
LEMMA HandlerRefines ==
    ASSUME TypeOK, MountInv, DataInv, NamesApart, ListingsWhole, UNCHANGED class,
           NEW h \in Handler, HandlerStep(h)
    PROVE  Store!Next \/ UNCHANGED Store!vars
  <1> DEFINE v == job[h]
  <1>1. UNCHANGED phase /\ v \in Vol
    BY DEF HandlerStep, provVars, TypeOK
  <1>2. \/ \A o \in Object : o.file \in File => (o \in objects' <=> o \in objects)
        \/ \E x \in left[h] : objects' = objects \ {x} /\ pc[h] \in {"remove", "removeone"}
    <2>1. CASE CreateVolume(h)
      <3>1. objects' = objects \/ \E b, n : objects' = objects \cup {[bucket |-> b, name |-> n, file |-> Marker]}
        BY <2>1 DEF CreateVolume, bucketAccessHandle, NewClientFromSecret, BucketExists, CreateBucket,
           CreatePrefix, storeVars
      <3> QED  BY <3>1, StoreAssumption
    <2>2. CASE DeleteVolume(h)
      BY <2>2 DEF DeleteVolume, RemoveBucket, RemovePrefix, RemoveObjects, removeObjects,
         removeObjectsOneByOne, RemoveListed, Removed, RemoveBucketItself, RemovePrefixItself,
         NewClientFromSecret, storeVars
    <2> QED  BY <2>1, <2>2 DEF HandlerStep
  <1>3. CASE \A o \in Object : o.file \in File => (o \in objects' <=> o \in objects)
    <2>1. \A p \in Place, f \in File : [bucket |-> p[1], name |-> p[2], file |-> f] \in Object
      BY DEF Place, Object
    <2>2. FilesSame
      BY <1>3, <2>1 DEF FilesSame, FilesAt
    <2> QED  BY <1>1, <2>2, Stutters
  <1>4. ASSUME NEW x \in left[h], objects' = objects \ {x}, pc[h] \in {"remove", "removeone"}
        PROVE  Store!Next \/ UNCHANGED Store!vars
    <2>1. x \in Object
      BY DEF TypeOK
    <2>2. CASE x.file \notin File \/ x \notin objects
      <3>1. \A p \in Place, f \in File : [bucket |-> p[1], name |-> p[2], file |-> f] = x => x \notin objects
        BY <2>2
      <3>2. FilesSame
        BY <1>4, <3>1 DEF FilesSame, FilesAt
      <3> QED  BY <1>1, <3>2, Stutters
    <2>3. CASE x.file \in File /\ x \in objects
      <3>1. Plain(v) /\ At(x) = Home(v)
        BY <2>3 DEF DataInv, LeftOf
      <3>2. phase[v] = "deleting"
        <4>1. phase[v] \in {"deleting", "gone"}
          BY <1>4 DEF MountInv, PhaseInv, DeleteLabel
        <4>2. phase[v] # "gone"
          BY <1>1, <2>3, <3>1 DEF DataInv, Emptied
        <4> QED  BY <4>1, <4>2
      <3>3. Home(v) \in Place /\ Home(v) \notin LentPlace
        BY <1>1, <3>1, HomeType
      <3>4. x = [bucket |-> Home(v)[1], name |-> Home(v)[2], file |-> x.file]
        BY <2>1, <3>1 DEF At, Object
      <3>5. \A q \in Place : FilesAt(q)' = IF q = Home(v) THEN FilesAt(q) \ {x.file} ELSE FilesAt(q)
        BY <1>4, <2>3, <3>3, <3>4, FilesAfter
      <3>6. Store!Erase(v, x.file)
        <4> DEFINE data == [p \in Place |-> FilesAt(p)]
        <4>1. data' = [data EXCEPT ![Home(v)] = @ \ {x.file}]
          BY <3>3, <3>5
        <4>2. [w \in Vol |-> Home(w)][v] = Home(v)
          BY <1>1
        <4> QED  BY <1>1, <3>2, <3>3, <4>1, <4>2, HomeStays DEF Store!Erase
      <3> QED  BY <1>1, <2>3, <3>6 DEF Store!Next
    <2> QED  BY <2>2, <2>3
  <1> QED  BY <1>2, <1>3, <1>4

\* A request that goes out asks for a volume or its end, or asks again.
LEMMA SendRefines ==
    ASSUME TypeOK, UNCHANGED class, NEW v \in Vol, NEW h \in Handler,
           SendCreate(v, h) \/ SendDelete(v, h)
    PROVE  Store!Next \/ UNCHANGED Store!vars
  <1>1. UNCHANGED <<class, objects>> /\ phase \in [Vol -> {"none", "creating", "ready", "deleting", "gone"}]
    BY DEF SendCreate, SendDelete, SendRequest, storeVars, TypeOK
  <1>2. ASSUME UNCHANGED phase PROVE UNCHANGED Store!vars
    BY <1>1, <1>2, Stutters DEF FilesSame, FilesAt
  <1>3. CASE SendCreate(v, h)
    <2>1. phase[v] \in {"none", "creating"} /\ phase' = [phase EXCEPT ![v] = "creating"]
      BY <1>3 DEF SendCreate, SendRequest
    <2>2. CASE phase[v] = "creating"
      BY <1>1, <1>2, <2>1, <2>2
    <2>3. CASE phase[v] = "none"
      BY <1>1, <2>1, <2>3, PhaseMoves DEF Store!Next, Store!AskCreate
    <2> QED  BY <2>1, <2>2, <2>3
  <1>4. CASE SendDelete(v, h)
    <2>1. phase[v] \in {"ready", "deleting"} /\ phase' = [phase EXCEPT ![v] = "deleting"]
      BY <1>4 DEF SendDelete, SendRequest
    <2>2. CASE phase[v] = "deleting"
      BY <1>1, <1>2, <2>1, <2>2
    <2>3. CASE phase[v] = "ready"
      BY <1>1, <2>1, <2>3, PhaseMoves DEF Store!Next, Store!AskDelete
    <2> QED  BY <2>1, <2>2, <2>3
  <1> QED  BY <1>3, <1>4

\* A reply makes a volume ready, or ends one that has no file left, or is not
\* waited for any more.
LEMMA ReplyRefines ==
    ASSUME TypeOK, MountInv, DataInv, UNCHANGED class, NEW h \in Handler, Reply(h)
    PROVE  Store!Next \/ UNCHANGED Store!vars
  <1> DEFINE v == job[h]
  <1>1. UNCHANGED <<class, objects>> /\ phase \in [Vol -> {"none", "creating", "ready", "deleting", "gone"}]
    BY DEF Reply, storeVars, TypeOK
  <1>2. v \in Vol
    BY ReplyMoves
  <1>3. CASE UNCHANGED phase
    BY <1>1, <1>3, Stutters DEF FilesSame, FilesAt
  <1>4. CASE phase[v] = "creating" /\ phase' = [phase EXCEPT ![v] = "ready"]
    BY <1>1, <1>2, <1>4, PhaseMoves DEF Store!Next, Store!Created
  <1>5. CASE pc[h] = "deleted" /\ phase[v] = "deleting" /\ phase' = [phase EXCEPT ![v] = "gone"]
    <2>1. Store!Become(v, "deleting", "gone")
      BY <1>1, <1>2, <1>5, PhaseMoves
    <2>2. Home(v) \in LentPlace \/ FilesAt(Home(v)) = {}
      <3>1. CASE ~Plain(v)
        BY <1>2, <3>1, HomeType
      <3>2. CASE Plain(v)
        <4>1. \A o \in objects : o.file \in File => At(o) # Home(v)
          BY <1>5, <3>2 DEF DataInv, GoneOf, Emptied
        <4>2. \A f \in File : At([bucket |-> Home(v)[1], name |-> Home(v)[2], file |-> f]) = Home(v)
          BY <1>2, HomeType DEF At, Place
        <4> QED  BY <4>1, <4>2 DEF FilesAt
      <3> QED  BY <3>1, <3>2
    <2>3. Store!Deleted(v)
      BY <1>2, <2>1, <2>2, HomeType DEF Store!Deleted
    <2> QED  BY <1>2, <2>3 DEF Store!Next
  <1>6. CASE phase[v] = "gone" /\ phase' = [phase EXCEPT ![v] = "gone"]
    <2>1. UNCHANGED phase
      BY <1>1, <1>6
    <2> QED  BY <1>1, <2>1, Stutters DEF FilesSame, FilesAt
  <1> QED  BY <1>3, <1>4, <1>5, <1>6, ReplyMoves

\* A pod's write is one to the data of a volume that is ready.
LEMMA WriteRefines ==
    ASSUME TypeOK, MountInv, DataInv, UNCHANGED class, NEW v \in Vol, NEW f \in File, Write(v, f)
    PROVE  Store!Next
  <1> DEFINE data == [p \in Place |-> FilesAt(p)]
  <1>1. phase[v] = "ready" /\ UNCHANGED phase
    BY WriteKeepsData DEF Write, provVars
  <1>2. Home(v) \in Place
    BY HomeType
  <1>3. \A q \in Place : FilesAt(q)' = IF q = Home(v) THEN FilesAt(q) \cup {f} ELSE FilesAt(q)
    BY <1>2, WriteKeepsData, FilesAfter
  <1>4. data' = [data EXCEPT ![Home(v)] = @ \cup {f}]
    BY <1>2, <1>3
  <1>5. [w \in Vol |-> Home(w)][v] = Home(v)
    OBVIOUS
  <1>6. Store!Write(v, f)
    BY <1>1, <1>4, <1>5, HomeStays DEF Store!Write
  <1> QED  BY <1>6 DEF Store!Next

LEMMA InitRefines == Init => Store!Init
  <1> SUFFICES ASSUME Init PROVE Store!Init
    OBVIOUS
  <1>1. \A v \in Vol : Home(v) \in Place
    BY InitType, HomeType
  <1>2. \A p \in Place : FilesAt(p) = {}
    BY DEF Init, FilesAt
  <1> QED  BY <1>1, <1>2 DEF Init, Store!Init

\* The controller keeps the promise of VolumeStore.
THEOREM KeepsVolumeData ==
    ASSUME NamesApart, ListingsWhole, AnnotationHeard PROVE Spec => KeepsPromise
  <1>1. TypeOK /\ MountInv /\ DataInv /\ [Next]_<<class, vars>> => [Store!Next]_Store!vars
    <2> SUFFICES ASSUME TypeOK, MountInv, DataInv, [Next]_<<class, vars>>
                 PROVE  Store!Next \/ UNCHANGED Store!vars
      OBVIOUS
    <2>1. ASSUME UNCHANGED <<class, objects, phase>> PROVE UNCHANGED Store!vars
      BY <2>1, Stutters DEF FilesSame, FilesAt
    <2>2. CASE UNCHANGED <<class, vars>>
      BY <2>1, <2>2 DEF vars, storeVars, provVars
    <2>3. CASE Next
      BY <2>1, <2>3, HandlerRefines, SendRefines, ReplyRefines, WriteRefines, OthersKeepData DEF Next
    <2> QED  BY <2>2, <2>3
  <1> QED
    BY <1>1, InitRefines, TypeCorrect, MountInductive, DataInductive, PTL
       DEF Spec, KeepsPromise, Store!Spec
=============================================================================
