----------------------------- MODULE NodeServer -----------------------------
(***************************************************************************)
(* The CSI node service: NodeStageVolume, NodePublishVolume,               *)
(* NodeUnpublishVolume and NodeUnstageVolume, one step per system call,    *)
(* command or locked section.  The handler of a request runs in the        *)
(* process of the path the request is about.  A failing step ends the RPC  *)
(* with an error: the process is idle again and the kubelet may retry.     *)
(***************************************************************************)
EXTENDS Graft

\* The steps NodeStage and NodePublish share, then the ones of one RPC alone.
ReviveLabel == {"probe", "device", "check", "detach", "mount", "record", "watch", "mark"}
StageLabel == ReviveLabel \cup GraftLabel \cup {"again", "ensure", "ok"}
PublishLabel == ReviveLabel \cup GraftLabel \cup {"tcheck", "tdetach", "bind", "trecord", "ok"}
UnpublishLabel == {"ucheck", "umount", "urmdir", "uforget", "uok"}
UnstageLabel == {"find", "unit", "stopped", "fumount", "stopwatch", "forget", "uok"}

VolumeOf(p) == IF p \in Vol THEN p ELSE VolOf[p]

Step(p, from, to) == pc[p] = from /\ Goto(p, to)

\* deadMountDevice: the statfs, then, if the mount is dead, the mountinfo.
DeadMountProbe(p) ==
    /\ pc[p] = "probe"
    /\ Goto(p, IF mountDead(VolumeOf(p)) THEN "device" ELSE "check")
    /\ UNCHANGED <<kernelVars, recordVars, watches, faults, kubeVars, dev, graftVars>>

DeadMountDevice(p) ==
    /\ Step(p, "device", "check")
    /\ dev' = [dev EXCEPT ![p] = mountDevice(VolumeOf(p))]
    /\ UNCHANGED <<kernelVars, recordVars, watches, faults, kubeVars, graftVars>>

\* checkMount up to the detach of a dead endpoint, which is the next step: the
\* directory is made if missing, and the process goes to the label given for a
\* path that is not mounted, dead, or mounted.
checkMount(p, path, notMnt, dead, isMnt) ==
    /\ dirs' = dirs \cup {path}
    /\ Goto(p, IF path \notin dirs \/ ~Mounted(path) THEN notMnt
               ELSE IF mountDead(path) THEN dead ELSE isMnt)
    /\ UNCHANGED <<mnt, live, serves, unitVars, held>>

CheckStaging(p) ==
    /\ pc[p] = "check"
    /\ checkMount(p, VolumeOf(p), "mount", "detach", IF p \in Vol THEN "again" ELSE "tcheck")
    /\ UNCHANGED <<recordVars, watches, faults, kubeVars, dev, graftVars>>

DetachStaging(p) ==
    /\ Step(p, "detach", "mount")
    /\ lazyUnmount(VolumeOf(p))
    /\ UNCHANGED <<recordVars, watches, faults, kubeVars, dev, graftVars>>

MountStaging(p) ==
    /\ \/ Step(p, "mount", "record") /\ MountOk(VolumeOf(p)) /\ UNCHANGED dev
       \/ /\ Step(p, "mount", "idle") /\ MountFails(VolumeOf(p))
          /\ dev' = [dev EXCEPT ![p] = NoDev]
    /\ UNCHANGED <<recordVars, watches, kubeVars, graftVars>>

RecordStaging(p) ==
    /\ Step(p, "record", "watch")
    /\ recordStage(VolumeOf(p))
    /\ UNCHANGED <<kernelVars, watches, faults, kubeVars, dev, graftVars>>

\* Mutant of WatchStaging: no watch is started.
WatchStagingNot(p) ==
    /\ Step(p, "watch", "mark")
    /\ UNCHANGED <<kernelVars, recordVars, watches, faults, kubeVars, dev, graftVars>>

WatchStaging(p) ==
    /\ Step(p, "watch", "mark")
    /\ startWatch(VolumeOf(p))
    /\ UNCHANGED <<kernelVars, recordVars, faults, kubeVars, dev, graftVars>>

MarkStaging(p) ==
    /\ Step(p, "mark", "graft")
    /\ markDead(VolumeOf(p), dev[p])
    /\ dev' = [dev EXCEPT ![p] = NoDev]
    /\ UNCHANGED <<kernelVars, watches, faults, kubeVars, graftVars>>

\* NodeStageVolume of a volume that is mounted already.
RecordAgain(v) ==
    /\ Step(v, "again", "ensure")
    /\ recordStage(v)
    /\ dev' = [dev EXCEPT ![v] = NoDev]
    /\ UNCHANGED <<kernelVars, watches, faults, kubeVars, graftVars>>

EnsureAgain(v) ==
    /\ Step(v, "ensure", "ok")
    /\ ensureWatch(v)
    /\ UNCHANGED <<kernelVars, recordVars, faults, kubeVars, dev, graftVars>>

\* NodePublishVolume's target: a mounted one is taken as published, and not
\* recorded.
CheckTarget(t) ==
    /\ pc[t] = "tcheck"
    /\ checkMount(t, t, "bind", "tdetach", "ok")
    /\ dev' = [dev EXCEPT ![t] = NoDev]
    /\ UNCHANGED <<recordVars, watches, faults, kubeVars, graftVars>>

DetachTarget(t) ==
    /\ Step(t, "tdetach", "bind")
    /\ lazyUnmount(t)
    /\ UNCHANGED <<recordVars, watches, faults, kubeVars, dev, graftVars>>

BindTarget(t) ==
    /\ \/ Step(t, "bind", "trecord") /\ BindOk(VolOf[t], t)
       \/ Step(t, "bind", "idle") /\ BindFails(VolOf[t], t)
    /\ UNCHANGED <<recordVars, watches, kubeVars, dev, graftVars>>

RecordTarget(t) ==
    /\ Step(t, "trecord", "ok")
    /\ recordPublish(VolOf[t], t)
    /\ UNCHANGED <<kernelVars, watches, faults, kubeVars, dev, graftVars>>

\* NodeUnpublishVolume: mount.CleanupMountPoint (external), then the record.
CleanupCheck(t) ==
    /\ pc[t] = "ucheck"
    /\ Goto(t, IF t \notin dirs THEN "uforget" ELSE IF Mounted(t) THEN "umount" ELSE "urmdir")
    /\ UNCHANGED <<kernelVars, recordVars, watches, faults, kubeVars, dev, graftVars>>

CleanupUnmount(t) ==
    /\ \/ /\ Step(t, "umount", "urmdir") /\ Mounted(t)
          /\ SetMounts([mnt EXCEPT ![t] = Pop(@)])
          /\ UNCHANGED faults
       \/ /\ Step(t, "umount", "idle")
          /\ IF Mounted(t) THEN Fault("busy") ELSE UNCHANGED faults
          /\ UNCHANGED <<mnt, live, held>>
    /\ UNCHANGED <<dirs, serves, unitVars, recordVars, watches, kubeVars, dev, graftVars>>

\* Mutant of CleanupRemove: the target directory stays.
CleanupKeep(t) ==
    /\ \/ Step(t, "urmdir", "uforget") /\ ~Mounted(t)
       \/ Step(t, "urmdir", "idle") /\ Mounted(t)
    /\ UNCHANGED <<kernelVars, recordVars, watches, faults, kubeVars, dev, graftVars>>

\* The directory goes, unless a mount covers it (again).
CleanupRemove(t) ==
    /\ \/ Step(t, "urmdir", "uforget") /\ ~Mounted(t) /\ dirs' = dirs \ {t}
       \/ Step(t, "urmdir", "idle") /\ Mounted(t) /\ UNCHANGED dirs
    /\ UNCHANGED <<mnt, live, serves, unitVars, held, recordVars, watches, faults, kubeVars, dev, graftVars>>

ForgetTarget(t) ==
    /\ Step(t, "uforget", "uok")
    /\ forgetPublish(VolOf[t], t)
    /\ UNCHANGED <<kernelVars, watches, faults, kubeVars, dev, graftVars>>

\* NodeUnstageVolume.  FindFuseMountProcess looks for a mounter of the staging
\* path.  A plugin without hostPID (the Helm chart) does not see the units'.
FindMounter(v) ==
    /\ \/ Step(v, "find", "fumount") /\ Daemons(v) # {}
       \/ Step(v, "find", "unit") /\ Daemons(v) \cap direct = {}
    /\ UNCHANGED <<kernelVars, recordVars, watches, faults, kubeVars, dev, graftVars>>

\* Without a mounter in sight: a unit that does not run counts as unmounted (and
\* the staging path is left as it is), one that does is stopped; FuseUnmount
\* is tried when systemd cannot be reached.
SystemdUnmount(v) ==
    /\ \/ /\ Step(v, "unit", "stopped") /\ (unitActive(v) \/ unitStopping(v))
          /\ live' = live \ (Daemons(v) \ direct)
       \/ Step(v, "unit", "stopwatch") /\ ~unitActive(v) /\ ~unitStopping(v) /\ UNCHANGED live
       \/ Step(v, "unit", "fumount") /\ UNCHANGED live
    /\ UNCHANGED <<mnt, dirs, serves, unitVars, held, recordVars, watches, faults, kubeVars, dev, graftVars>>

\* StopUnit's job is done when ExecStopPost is.
UnitStopped(v) ==
    /\ Step(v, "stopped", "stopwatch") /\ ~unitStopping(v)
    /\ UNCHANGED <<kernelVars, recordVars, watches, faults, kubeVars, dev, graftVars>>

\* FuseUnmount; NodeUnstageVolume drops its error.
UnmountStaging(v) ==
    /\ Step(v, "fumount", "stopwatch")
    /\ \/ lazyUnmount(v) /\ UNCHANGED faults
       \/ Mounted(v) /\ Fault("busy") /\ UNCHANGED kernelVars
    /\ UNCHANGED <<recordVars, watches, kubeVars, dev, graftVars>>

\* forgetStage: stopWatch, then, under the lock again, the record.
ForgetWatch(v) ==
    /\ Step(v, "stopwatch", "forget")
    /\ stopWatch(v)
    /\ UNCHANGED <<kernelVars, recordVars, faults, kubeVars, dev, graftVars>>

ForgetStaging(v) ==
    /\ Step(v, "forget", "uok")
    /\ deleteStage(v)
    /\ UNCHANGED <<kernelVars, watches, faults, kubeVars, dev, graftVars>>

Revive(p) ==
    \/ DeadMountProbe(p) \/ DeadMountDevice(p) \/ CheckStaging(p) \/ DetachStaging(p)
    \/ MountStaging(p) \/ RecordStaging(p) \/ WatchStaging(p) \/ MarkStaging(p)
    \/ graftHolders(p) /\ UNCHANGED kubeVars

NodeStageVolume(v) == Revive(v) \/ RecordAgain(v) \/ EnsureAgain(v)

NodePublishVolume(t) ==
    Revive(t) \/ CheckTarget(t) \/ DetachTarget(t) \/ BindTarget(t) \/ RecordTarget(t)

NodeUnpublishVolume(t) ==
    CleanupCheck(t) \/ CleanupUnmount(t) \/ CleanupRemove(t) \/ ForgetTarget(t)

NodeUnstageVolume(v) ==
    \/ FindMounter(v) \/ SystemdUnmount(v) \/ UnitStopped(v) \/ UnmountStaging(v)
    \/ ForgetWatch(v) \/ ForgetStaging(v)
=============================================================================
