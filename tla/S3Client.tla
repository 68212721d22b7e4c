------------------------------ MODULE S3Client ------------------------------
(***************************************************************************)
(* The object store (external) and the calls s3Client makes on it for the  *)
(* controller: one step per request to the store.  A handler runs with a   *)
(* context of its own (context.Background()): nothing interrupts it but    *)
(* the end of the process.                                                 *)
(***************************************************************************)
EXTENDS Naturals

CONSTANTS
    Vol,        \* volume names, after sanitizeVolumeID
    Handler,    \* the goroutines of CreateVolume and DeleteVolume requests
    Bucket,     \* bucket names; a volume's name is one of them
    File,       \* what pods write into a volume
    Marker,     \* the empty object CreatePrefix makes
    NoPrefix,   \* the empty prefix
    NoVol,
    Covers,     \* <<n, m>>: the name n begins with the name m
    FaultKinds, \* the failures that may happen...
    MaxFaults   \* ...and how many of them, in all

ASSUME StoreAssumption ==
    /\ Vol \subseteq Bucket
    /\ NoPrefix \notin Vol /\ NoVol \notin Vol /\ Marker \notin File
    /\ Covers \subseteq Vol \X Vol
    /\ MaxFaults \in Nat

VARIABLES
    buckets,    \* the buckets there are
    objects,    \* the objects there are
    pc, job,    \* where a handler is, and the volume it works for
    left,       \* the objects it has listed and not yet tried to remove
    failed,     \* a removal failed
    faults      \* failures so far

storeVars == <<buckets, objects>>
handlerVars == <<pc, job, left, failed>>

\* An object's key is its volume's prefix (if there is one) and the file.
Object == [bucket : Bucket, name : Vol \cup {NoPrefix}, file : File \cup {Marker}]

Goto(h, l) == pc' = [pc EXCEPT ![h] = l]

\* A failure the environment may cause, counted so that outages end.
Fault(k) == k \in FaultKinds /\ faults < MaxFaults /\ faults' = faults + 1

\* Mutant of ListObjects: the prefix is not passed on.
ListAllObjects(b, n) == {o \in objects : o.bucket = b}

\* ListObjects with a prefix, which need not end where a name ends.
ListObjects(b, n) ==
    {o \in objects : o.bucket = b /\ (n = NoPrefix \/ o.name = n \/ <<o.name, n>> \in Covers)}

(***************************************************************************)
(* Calls of CreateVolume.  A call that fails ends the RPC: "failed".       *)
(***************************************************************************)
BucketExists(h, b, yes, no) ==
    /\ \/ Goto(h, IF b \in buckets THEN yes ELSE no) /\ UNCHANGED faults
       \/ Goto(h, "failed") /\ Fault("call")
    /\ UNCHANGED <<storeVars, job, left, failed>>

\* MakeBucket refuses a bucket that exists.
CreateBucket(h, b, next) ==
    /\ \/ /\ b \notin buckets /\ buckets' = buckets \cup {b}
          /\ Goto(h, next) /\ UNCHANGED faults
       \/ /\ IF b \in buckets THEN UNCHANGED faults ELSE Fault("call")
          /\ Goto(h, "failed") /\ UNCHANGED buckets
    /\ UNCHANGED <<objects, job, left, failed>>

CreatePrefix(h, b, n, next) ==
    /\ \/ n = NoPrefix /\ Goto(h, next) /\ UNCHANGED <<objects, faults>>
       \/ /\ n # NoPrefix /\ b \in buckets
          /\ objects' = objects \cup {[bucket |-> b, name |-> n, file |-> Marker]}
          /\ Goto(h, next) /\ UNCHANGED faults
       \/ /\ n # NoPrefix
          /\ IF b \notin buckets THEN UNCHANGED faults ELSE Fault("call")
          /\ Goto(h, "failed") /\ UNCHANGED objects
    /\ UNCHANGED <<buckets, job, left, failed>>

(***************************************************************************)
(* RemovePrefix and RemoveBucket: removeObjects, which lists the objects   *)
(* and removes them in batches; if that fails removeObjectsOneByOne, which *)
(* lists them again and removes them in parallel; if either succeeds, the  *)
(* prefix or the bucket itself.  Objects are removed in any order.         *)
(***************************************************************************)
\* The listing of a bucket, or of a prefix of one, fails.
ListFault(n) == Fault(IF n = NoPrefix THEN "list" ELSE "listprefix")

Listed(h, S, next) == left' = [left EXCEPT ![h] = S] /\ Goto(h, next)

\* The listing goroutine stores its error in listErr, which is read once, right
\* after the goroutine was started: an error that comes later is a listing that
\* ends early.  removeObjects reads it before it takes an object from the
\* (unbuffered) channel, so an error after the first object is never seen.
removeObjects(h, b, n) ==
    /\ pc[h] = "list"
    /\ \/ b \in buckets /\ Listed(h, ListObjects(b, n), "remove") /\ UNCHANGED faults
       \/ /\ IF b \notin buckets THEN UNCHANGED faults ELSE ListFault(n)
          /\ \/ \E S \in SUBSET ListObjects(b, n) : Listed(h, S, "remove")
             \/ Goto(h, "listone") /\ UNCHANGED left
    /\ UNCHANGED <<storeVars, job, failed>>

\* Here the channel has room for objects, and the error may be seen after some.
\* It is returned as it is: DeleteVolume knows the one of a missing bucket.
removeObjectsOneByOne(h, b, n) ==
    /\ pc[h] = "listone"
    /\ \/ b \in buckets /\ Listed(h, ListObjects(b, n), "removeone") /\ UNCHANGED faults
       \/ /\ IF b \notin buckets THEN UNCHANGED faults ELSE ListFault(n)
          /\ \/ \E S \in SUBSET ListObjects(b, n) : Listed(h, S, "removeone")
             \/ Goto(h, IF b \notin buckets THEN "missing" ELSE "failed") /\ UNCHANGED left
    /\ UNCHANGED <<storeVars, job, failed>>

RemoveListed(h, b) ==
    /\ pc[h] \in {"remove", "removeone"}
    /\ \E o \in left[h] :
         /\ left' = [left EXCEPT ![h] = @ \ {o}]
         /\ \/ /\ b \in buckets /\ objects' = objects \ {o} /\ UNCHANGED <<failed, faults>>
            \/ /\ IF b \notin buckets THEN UNCHANGED faults ELSE Fault("remove")
               /\ failed' = [failed EXCEPT ![h] = TRUE] /\ UNCHANGED objects
    /\ UNCHANGED <<buckets, pc, job>>

Removed(h) ==
    /\ pc[h] \in {"remove", "removeone"} /\ left[h] = {}
    /\ Goto(h, IF ~failed[h] THEN "last" ELSE IF pc[h] = "remove" THEN "listone" ELSE "failed")
    /\ failed' = [failed EXCEPT ![h] = FALSE]
    /\ UNCHANGED <<storeVars, job, left, faults>>

\* The object named like the prefix: no volume has one, so the call changes
\* nothing, but it fails if there is no bucket.
RemovePrefixItself(h, b) ==
    /\ pc[h] = "last"
    /\ \/ b \in buckets /\ Goto(h, "deleted") /\ UNCHANGED faults
       \/ b \notin buckets /\ Goto(h, "missing") /\ UNCHANGED faults
       \/ b \in buckets /\ Goto(h, "failed") /\ Fault("call")
    /\ UNCHANGED <<storeVars, job, left, failed>>

\* The store removes no bucket that has objects.
RemoveBucketItself(h, b) ==
    LET empty == ~\E o \in objects : o.bucket = b IN
    /\ pc[h] = "last"
    /\ \/ /\ b \in buckets /\ empty
          /\ buckets' = buckets \ {b} /\ Goto(h, "deleted") /\ UNCHANGED faults
       \/ b \notin buckets /\ Goto(h, "missing") /\ UNCHANGED <<buckets, faults>>
       \/ b \in buckets /\ ~empty /\ Goto(h, "failed") /\ UNCHANGED <<buckets, faults>>
       \/ b \in buckets /\ Goto(h, "failed") /\ Fault("call") /\ UNCHANGED buckets
    /\ UNCHANGED <<objects, job, left, failed>>

RemoveObjects(h, b, n) ==
    removeObjects(h, b, n) \/ removeObjectsOneByOne(h, b, n) \/ RemoveListed(h, b) \/ Removed(h)

RemovePrefix(h, b, n) == RemoveObjects(h, b, n) \/ RemovePrefixItself(h, b)

RemoveBucket(h, b) == RemoveObjects(h, b, NoPrefix) \/ RemoveBucketItself(h, b)
=============================================================================
