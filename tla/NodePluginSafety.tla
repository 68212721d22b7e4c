-------------------------- MODULE NodePluginSafety --------------------------
(***************************************************************************)
(* The safety of the node plugin's records and publishes, for any volumes, *)
(* targets, containers, devices and failures.  None of the three properties *)
(* is inductive: what the kubelet believes of a path has to be tied to     *)
(* where the handler of that path is, and the properties follow.           *)
(***************************************************************************)
EXTENDS NodePluginProofs

\* What is mounted at a target is mounted on a directory, and an unpublished
\* target has none: NodeUnpublish removed it, and only a NodePublish of the
\* target, which the kubelet counts, makes it again.
TargetInv(t) ==
    /\ Mounted(t) => t \in dirs
    /\ kpub[t] = "no" => t \notin dirs /\ pc[t] = "idle"
    /\ pc[t] \in {"uforget", "uok"} => t \notin dirs
    /\ pc[t] \in PublishLabel => kpub[t] = "publishing"
    /\ pc[t] \in UnpublishLabel => kpub[t] = "unpublishing"

\* A volume is known from the moment its handler recorded it, and only its own
\* NodeUnstage ends that.
KnownLabel == GraftLabel \cup {"watch", "mark", "ensure", "ok"}

KnownInv(v) ==
    /\ kst[v] = "staged" => v \in mem.known
    /\ pc[v] \in KnownLabel => v \in mem.known
    /\ pc[v] \in StageLabel => kst[v] = "staging"
    /\ pc[v] \in UnstageLabel => kst[v] = "unstaging"

\* A volume has a watch from the moment its handler started one, and only its
\* own NodeUnstage, or a restart, ends that.
WatchedLabel == GraftLabel \cup {"mark", "ok"}

WatchedInv(v) ==
    /\ pc[v] \in WatchedLabel => v \in watches
    /\ kst[v] = "staged" => v \in watches \/ NotYetEnsured(v)

SafetyInv ==
    /\ disk = mem
    /\ \A t \in Target : TargetInv(t)
    /\ \A v \in Vol : KnownInv(v) /\ WatchedInv(v)

(***************************************************************************)
(* What the steps leave alone.                                             *)
(***************************************************************************)
\* A step of graftHolders moves mounts of containers and dead devices only.
LEMMA GraftFrame ==
    ASSUME TypeOK, NEW p \in Proc, graftHolders(p)
    PROVE  /\ UNCHANGED <<mnt, dirs, watches>>
           /\ mem'.known = mem.known
           /\ disk = mem => disk' = mem'
           /\ pc[p] \in GraftLabel
           /\ pc'[p] \in GraftLabel \cup {AfterGraft(p)}
  <1>a. /\ \A l : Goto(p, l) => pc'[p] = l
        /\ mem \in Records
    BY DEF Goto, TypeOK, PcTypeOK, StateTypeOK, RecordTypeOK
  <1>1. CASE GraftSnapshot(p) \/ GraftProbe(p) \/ GraftScan(p) \/ GraftScanned(p)
    BY <1>1, <1>a
       DEF GraftSnapshot, GraftProbe, GraftScan, GraftScanned, GraftLabel, kernelVars, recordVars
  <1>2. CASE GraftHolder(p)
    <2>1. UNCHANGED <<mnt, dirs>>
      BY <1>2 DEF GraftHolder, HelperGrafts, HelperFails, SetHeld, kernelVars
    <2> QED  BY <1>2, <2>1 DEF GraftHolder, GraftLabel, recordVars
  <1>3. CASE GraftDone(p)
    BY <1>3, <1>a DEF GraftDone, GraftLabel, persist, Records, kernelVars
  <1> QED  BY <1>1, <1>2, <1>3 DEF graftHolders

\* What the records and the watches keep, for every volume of a set.
Keeps(S) ==
    /\ disk = mem => disk' = mem'
    /\ S \cap mem.known \subseteq mem'.known
    /\ S \cap watches \subseteq watches'

\* The steps of NodeStage and NodePublish that revive a staging mount.
LEMMA ReviveFrame ==
    ASSUME TypeOK, NEW p \in Path, Revive(p)
    PROVE  /\ Keeps(Vol)
           /\ \A t \in Target : mnt'[t] = mnt[t] /\ (t \in dirs' <=> t \in dirs)
           /\ pc[p] \in ReviveLabel \cup GraftLabel
           /\ \/ pc'[p] \in ReviveLabel \cup GraftLabel \cup {"idle", AfterGraft(p)}
              \/ pc'[p] = IF p \in Vol THEN "again" ELSE "tcheck"
  <1>a. /\ \A l : Goto(p, l) => pc'[p] = l
        /\ mem \in Records
        /\ p \in Proc /\ VolumeOf(p) \in Vol
        /\ \A t \in Target : t # VolumeOf(p)
        /\ mnt \in [Path -> Seq(Dev \cup {Bare})]
        /\ \A t \in Target : t \in Path
    BY NodeAssumption
       DEF Goto, TypeOK, PcTypeOK, StateTypeOK, KernelTypeOK, RecordTypeOK, Proc, Path, VolumeOf
  <1>1. CASE DeadMountProbe(p) \/ DeadMountDevice(p)
    BY <1>1, <1>a DEF DeadMountProbe, DeadMountDevice, Step, Keeps, ReviveLabel, kernelVars, recordVars
  <1>2. CASE CheckStaging(p)
    BY <1>2, <1>a DEF CheckStaging, checkMount, Keeps, ReviveLabel, recordVars
  <1>3. CASE DetachStaging(p)
    BY <1>3, <1>a DEF DetachStaging, Step, lazyUnmount, Detach, SetMounts, Keeps, ReviveLabel, recordVars
  <1>4. CASE MountStaging(p)
    <2>1. \A t \in Target : mnt'[t] = mnt[t] /\ (t \in dirs' <=> t \in dirs)
      BY <1>4, <1>a, MountType DEF MountStaging, TypeOK, StateTypeOK
    <2> QED  BY <1>4, <1>a, <2>1 DEF MountStaging, Step, Keeps, ReviveLabel, recordVars
  <1>5. CASE RecordStaging(p)
    BY <1>5, <1>a DEF RecordStaging, Step, recordStage, persist, Records, Keeps, ReviveLabel, kernelVars
  <1>6. CASE WatchStaging(p)
    BY <1>6, <1>a DEF WatchStaging, Step, startWatch, Keeps, ReviveLabel, kernelVars, recordVars
  <1>7. CASE MarkStaging(p)
    BY <1>7, <1>a DEF MarkStaging, Step, markDead, persist, Records, Keeps, ReviveLabel, GraftLabel,
                      kernelVars, recordVars
  <1>8. CASE graftHolders(p)
    BY <1>8, <1>a, GraftFrame DEF Keeps
  <1> QED  BY <1>1, <1>2, <1>3, <1>4, <1>5, <1>6, <1>7, <1>8 DEF Revive

\* A handler leaves what is known of other volumes and the mounts and the
\* directories of other targets alone, and does not change the kubelet's mind.
LEMMA HandlerFrame ==
    ASSUME TypeOK, NEW p \in Path, HandlerOf(p)
    PROVE  /\ Keeps(Vol \ {p})
           /\ \A t \in Target \ {p} : mnt'[t] = mnt[t] /\ (t \in dirs' <=> t \in dirs)
           /\ \A q \in Proc \ {p} : pc'[q] = pc[q]
           /\ UNCHANGED <<kubeVars, supVars>>
  <1>a. /\ mem \in Records
        /\ mnt \in [Path -> Seq(Dev \cup {Bare})]
        /\ \A t \in Target : t \in Path /\ t \notin Vol
    BY NodeAssumption DEF TypeOK, StateTypeOK, KernelTypeOK, RecordTypeOK, Path
  <1>b. \A q \in Proc \ {p} : pc'[q] = pc[q]
    BY HandlerMoves DEF TypeOK
  <1>c. UNCHANGED kubeVars
    BY DEF HandlerOf, NodeStageVolume, NodeUnstageVolume, NodePublishVolume, NodeUnpublishVolume,
           Revive, DeadMountProbe, DeadMountDevice, CheckStaging, DetachStaging, MountStaging,
           RecordStaging, WatchStaging, MarkStaging, RecordAgain, EnsureAgain, CheckTarget,
           DetachTarget, BindTarget, RecordTarget, CleanupCheck, CleanupUnmount, CleanupRemove,
           ForgetTarget, FindMounter, SystemdUnmount, UnitStopped, UnmountStaging, ForgetWatch, ForgetStaging
  <1> DEFINE Rest == /\ Keeps(Vol \ {p})
                     /\ \A t \in Target \ {p} : mnt'[t] = mnt[t] /\ (t \in dirs' <=> t \in dirs)
  <1>d. SUFFICES Rest
    BY <1>b, <1>c DEF HandlerOf
  <1>0. CASE Revive(p)
    BY <1>0, ReviveFrame DEF Keeps
  <1>1. CASE p \in Vol /\ (RecordAgain(p) \/ EnsureAgain(p))
    BY <1>1, <1>a DEF RecordAgain, EnsureAgain, recordStage, ensureWatch, startWatch, persist, Records,
                      Keeps, kernelVars, recordVars
  <1>2. CASE p \in Target /\ (CheckTarget(p) \/ DetachTarget(p) \/ BindTarget(p))
    <2>1. CASE CheckTarget(p)
      BY <2>1, <1>a DEF CheckTarget, checkMount, Keeps, recordVars
    <2>2. CASE DetachTarget(p)
      BY <2>2, <1>a DEF DetachTarget, lazyUnmount, Detach, SetMounts, Keeps, recordVars
    <2>3. CASE BindTarget(p)
      BY <2>3, <1>a DEF BindTarget, BindOk, BindFails, SetMounts, Keeps, kernelVars, recordVars
    <2> QED  BY <1>2, <2>1, <2>2, <2>3
  <1>3. CASE p \in Target /\ (RecordTarget(p) \/ ForgetTarget(p))
    BY <1>3, <1>a DEF RecordTarget, ForgetTarget, recordPublish, forgetPublish, persist, Records,
                      Keeps, kernelVars, recordVars
  <1>4. CASE p \in Target /\ (CleanupCheck(p) \/ CleanupUnmount(p) \/ CleanupRemove(p))
    BY <1>4, <1>a DEF CleanupCheck, CleanupUnmount, CleanupRemove, SetMounts, Keeps, kernelVars, recordVars
  <1>5. CASE p \in Vol /\ (FindMounter(p) \/ SystemdUnmount(p) \/ UnitStopped(p) \/ UnmountStaging(p))
    BY <1>5, <1>a DEF FindMounter, SystemdUnmount, UnitStopped, UnmountStaging, lazyUnmount, Detach, SetMounts, Keeps, kernelVars, recordVars
  <1>6. CASE p \in Vol /\ (ForgetWatch(p) \/ ForgetStaging(p))
    <2>1. CASE ForgetWatch(p)
      BY <2>1, <1>a DEF ForgetWatch, stopWatch, Keeps, kernelVars, recordVars
    <2>2. CASE ForgetStaging(p)
      <3>1. mem'.known = mem.known \ {p} /\ disk' = mem'
        BY <2>2, <1>a DEF ForgetStaging, deleteStage, persist, Records
      <3> QED  BY <2>2, <3>1 DEF ForgetStaging, Keeps, kernelVars
    <2> QED  BY <1>6, <2>1, <2>2
  <1> QED  BY <1>0, <1>1, <1>2, <1>3, <1>4, <1>5, <1>6
           DEF HandlerOf, NodeStageVolume, NodeUnstageVolume, NodePublishVolume, NodeUnpublishVolume

\* The supervisor forgets no volume and ends no watch, makes and removes no
\* directory, and mounts on directories only.
LEMMA RunFrame ==
    ASSUME TypeOK, run
    PROVE  /\ Keeps(Vol)
           /\ \A t \in Target : Mounted(t)' => Mounted(t) \/ t \in dirs
           /\ \A q \in Path : pc'[q] = pc[q]
           /\ UNCHANGED <<dirs, kubeVars>>
  <1>a. /\ mem \in Records
        /\ mnt \in [Path -> Seq(Dev \cup {Bare})]
        /\ cur \in Vol \cup {NoVol} /\ st \subseteq Target
        /\ pc[Sup] \in HealLabel => cur \in Vol
        /\ \A t \in Target : t \in Path /\ t \notin Vol
    BY NodeAssumption DEF TypeOK, StateTypeOK, KernelTypeOK, RecordTypeOK, SupTypeOK, CurTypeOK, Path
  <1>b. ASSUME NEW l, Goto(Sup, l) \/ UNCHANGED pc
        PROVE  \A q \in Path : pc'[q] = pc[q]
    BY <1>b, NodeAssumption DEF Goto, TypeOK, PcTypeOK, Proc
  <1>1. CASE ScanOwnMounts \/ KnownStages \/ AdoptStage \/ KnownHandles
    BY <1>1, <1>b DEF ScanOwnMounts, KnownStages, AdoptStage, KnownHandles, Advance, Stay, Keeps, Mounted,
                      kernelVars, recordVars, kubeVars
  <1>2. CASE WatchIds \/ Snapshot \/ CheckVolume \/ Grafted \/ Tick
    BY <1>2, <1>b DEF WatchIds, Snapshot, CheckVolume, Grafted, Tick, Advance, Stay, Keeps, Mounted,
                      kernelVars, recordVars, kubeVars
  <1>3. CASE EnsureWatch \/ HealWatch \/ HealDevice
    BY <1>3, <1>b DEF EnsureWatch, HealWatch, HealDevice, ensureWatch, startWatch, Advance, Stay, Keeps,
                      Mounted, kernelVars, recordVars, kubeVars
  <1>4. CASE AdoptRecord
    <2>1. mem'.known = mem.known \cup {cur} /\ disk' = mem'
      BY <1>4, <1>a DEF AdoptRecord, recordStage, persist, Records
    <2> QED  BY <1>4, <1>b, <2>1 DEF AdoptRecord, Advance, Keeps, Mounted, kernelVars, kubeVars
  <1>5. CASE AdoptPublish
    <2>1. mem'.known = mem.known /\ (disk = mem => disk' = mem')
      BY <1>5, <1>a DEF AdoptPublish, recordPublish, persist, Records, recordVars
    <2> QED  BY <1>5, <1>b, <2>1 DEF AdoptPublish, Advance, Stay, Keeps, Mounted, kernelVars, kubeVars
  <1>6. CASE HealMark
    <2>1. mem'.known = mem.known /\ (disk = mem => disk' = mem')
      BY <1>6, <1>a DEF HealMark, markDead, persist, Records, recordVars
    <2> QED  BY <1>6, <1>b, <2>1 DEF HealMark, Advance, Keeps, Mounted, kernelVars, kubeVars
  <1>7. CASE HealUnbind \/ HealUnstage
    <2>1. \A t \in Target : Mounted(t)' => Mounted(t)
      BY <1>7, <1>a DEF HealUnbind, HealUnstage, lazyUnmount, Detach, SetMounts, Mounted, kernelVars
    <2> QED  BY <1>7, <1>b, <2>1 DEF HealUnbind, HealUnstage, lazyUnmount, Detach, Advance, Stay, Keeps,
                                     kernelVars, recordVars, kubeVars
  <1>8. CASE HealMount
    <2>1. dirs' = dirs /\ \A t \in Target : mnt'[t] = mnt[t]
      BY <1>8, <1>a, MountType DEF HealMount, Advance, HealLabel, TypeOK, StateTypeOK
    <2> QED  BY <1>8, <1>b, <2>1 DEF HealMount, Advance, Keeps, Mounted, recordVars, kubeVars
  <1>9. CASE HealBind
    <2>1. \A t \in Target : Mounted(t)' => Mounted(t) \/ t \in dirs
      BY <1>9, <1>a DEF HealBind, BindOk, BindFails, SetMounts, Mounted, kernelVars
    <2> QED  BY <1>9, <1>b, <2>1 DEF HealBind, BindOk, BindFails, Advance, Stay, Keeps,
                                     kernelVars, recordVars, kubeVars
  <1>10. CASE graftHolders(Sup) /\ UNCHANGED <<kubeVars, supVars>>
    <2>1. \A q \in Path : pc'[q] = pc[q]
      BY <1>10, <1>b DEF graftHolders, GraftSnapshot, GraftProbe, GraftScan, GraftHolder, GraftScanned,
                         GraftDone
    <2> QED  BY <1>10, <2>1, GraftFrame DEF Keeps, Mounted, Proc
  <1> QED  BY <1>1, <1>2, <1>3, <1>4, <1>5, <1>6, <1>7, <1>8, <1>9, <1>10
           DEF run, discover, ensureWatches, heal

\* The first ensureWatches after a start comes to every volume that is known.
LEMMA FirstEnsure ==
    ASSUME TypeOK, run, NEW v \in Vol, v \in mem.known, NotYetEnsured(v)
    PROVE  v \in watches' \/ NotYetEnsured(v)'
  <1>a. \A l : Goto(Sup, l) => pc'[Sup] = l
    BY DEF Goto, TypeOK, PcTypeOK, Proc
  <1>b. ticks = 0 /\ pc[Sup] \in DiscoverLabel \cup {"ids", "ensure"}
    BY DEF NotYetEnsured
  <1>1. CASE discover
    BY <1>1, <1>a, <1>b DEF discover, ScanOwnMounts, KnownStages, AdoptStage, AdoptRecord, KnownHandles,
                            AdoptPublish, Advance, Stay, NotYetEnsured, DiscoverLabel
  <1>2. CASE WatchIds
    BY <1>2, <1>a, <1>b DEF WatchIds, Advance, NotYetEnsured
  <1>3. CASE EnsureWatch
    BY <1>3, <1>a, <1>b DEF EnsureWatch, ensureWatch, startWatch, Advance, Stay, NotYetEnsured, DiscoverLabel
  <1>4. CASE ~discover /\ ~ensureWatches
    <2>1. pc[Sup] \notin DiscoverLabel \cup {"ids", "ensure"}
      BY <1>4 DEF run, Snapshot, CheckVolume, heal, HealDevice, HealUnbind, HealUnstage, HealMount, HealWatch,
                  HealBind, HealMark, graftHolders, GraftSnapshot, GraftProbe, GraftScan, GraftHolder,
                  GraftScanned, GraftDone, Grafted, Tick, Advance, Stay, DiscoverLabel
    <2> QED  BY <1>b, <2>1
  <1> QED  BY <1>1, <1>2, <1>3, <1>4 DEF ensureWatches

(***************************************************************************)
(* The invariant is inductive.                                             *)
(***************************************************************************)
\* The handler of a target: NodePublish makes the directory it binds on,
\* NodeUnpublish removes it before it answers.
LEMMA TargetHandler ==
    ASSUME TypeOK, NEW t \in Target, TargetInv(t), HandlerOf(t)
    PROVE  TargetInv(t)'
  <1>a. /\ \A l : Goto(t, l) => pc'[t] = l
        /\ t \in Path /\ t \notin Vol
        /\ mnt \in [Path -> Seq(Dev \cup {Bare})]
    BY NodeAssumption DEF Goto, TypeOK, PcTypeOK, StateTypeOK, KernelTypeOK, Proc, Path
  <1>b. kpub' = kpub
    BY <1>a, HandlerFrame DEF kubeVars
  <1>1. CASE Revive(t)
    <2>1. /\ mnt'[t] = mnt[t] /\ (t \in dirs' <=> t \in dirs)
          /\ pc[t] \in PublishLabel
          /\ pc'[t] \in PublishLabel \cup {"idle"}
      BY <1>1, <1>a, ReviveFrame DEF AfterGraft, PublishLabel
    <2>2. kpub[t] = "publishing"
      BY <2>1 DEF TargetInv
    <2>3. pc'[t] \notin UnpublishLabel
      BY <2>1 DEF PublishLabel, UnpublishLabel, ReviveLabel, GraftLabel
    <2> QED  BY <1>b, <2>1, <2>2, <2>3 DEF TargetInv, Mounted, UnpublishLabel
  <1>2. CASE CheckTarget(t) \/ DetachTarget(t) \/ BindTarget(t) \/ RecordTarget(t)
    <2>1. kpub[t] = "publishing"
      BY <1>2 DEF CheckTarget, DetachTarget, BindTarget, RecordTarget, Step, TargetInv, PublishLabel
    <2>2. pc'[t] \in {"bind", "tdetach", "ok", "trecord", "idle"}
      BY <1>2, <1>a DEF CheckTarget, DetachTarget, BindTarget, RecordTarget, Step, checkMount
    <2>3. Mounted(t)' => t \in dirs'
      <3>1. CASE CheckTarget(t)
        BY <3>1 DEF CheckTarget, checkMount, TargetInv
      <3>2. CASE DetachTarget(t)
        BY <3>2, <1>a DEF DetachTarget, lazyUnmount, Detach, SetMounts, TargetInv, Mounted
      <3>3. CASE BindTarget(t) \/ RecordTarget(t)
        BY <3>3, <1>a DEF BindTarget, RecordTarget, BindOk, BindFails, TargetInv, Mounted, kernelVars
      <3> QED  BY <1>2, <3>1, <3>2, <3>3
    <2> QED  BY <1>b, <2>1, <2>2, <2>3 DEF TargetInv, PublishLabel, UnpublishLabel
  <1>3. CASE NodeUnpublishVolume(t)
    <2>1. kpub[t] = "unpublishing"
      BY <1>3 DEF NodeUnpublishVolume, CleanupCheck, CleanupUnmount, CleanupRemove, ForgetTarget, Step,
                  TargetInv, UnpublishLabel
    <2>2. /\ pc'[t] \in UnpublishLabel \cup {"idle"}
          /\ pc'[t] \in {"uforget", "uok"} => t \notin dirs'
          /\ Mounted(t)' => t \in dirs'
      <3>1. CASE CleanupCheck(t)
        BY <3>1, <1>a DEF CleanupCheck, TargetInv, UnpublishLabel, Mounted, kernelVars
      <3>2. CASE CleanupUnmount(t)
        BY <3>2, <1>a DEF CleanupUnmount, Step, SetMounts, TargetInv, UnpublishLabel, Mounted
      <3>3. CASE CleanupRemove(t)
        BY <3>3, <1>a DEF CleanupRemove, Step, TargetInv, UnpublishLabel, Mounted
      <3>4. CASE ForgetTarget(t)
        BY <3>4, <1>a DEF ForgetTarget, Step, TargetInv, UnpublishLabel, Mounted, kernelVars
      <3> QED  BY <1>3, <3>1, <3>2, <3>3, <3>4 DEF NodeUnpublishVolume
    <2>3. pc'[t] \notin PublishLabel
      BY <2>2 DEF PublishLabel, UnpublishLabel, ReviveLabel, GraftLabel
    <2> QED  BY <1>b, <2>1, <2>2, <2>3 DEF TargetInv
  <1> QED  BY <1>a, <1>1, <1>2, <1>3 DEF HandlerOf, NodePublishVolume

\* The handler of a volume: it records before it starts the watch, and it
\* starts the watch before it answers.
LEMMA VolumeHandler ==
    ASSUME TypeOK, NEW v \in Vol, KnownInv(v), WatchedInv(v), HandlerOf(v)
    PROVE  KnownInv(v)' /\ WatchedInv(v)'
  <1>a. /\ \A l : Goto(v, l) => pc'[v] = l
        /\ v \in Path /\ v \notin Target /\ VolumeOf(v) = v
        /\ mem \in Records
    BY NodeAssumption DEF Goto, TypeOK, PcTypeOK, StateTypeOK, RecordTypeOK, Proc, Path, VolumeOf
  <1>b. kst' = kst
    BY <1>a, HandlerFrame DEF kubeVars
  <1>1. CASE Revive(v)
    <2>1. Keeps(Vol) /\ pc[v] \in StageLabel /\ pc'[v] \in StageLabel \cup {"idle"}
      BY <1>1, <1>a, ReviveFrame DEF AfterGraft, StageLabel
    <2>2. kst[v] = "staging" /\ pc'[v] \notin UnstageLabel
      BY <2>1 DEF KnownInv, StageLabel, UnstageLabel, ReviveLabel, GraftLabel
    <2>3. /\ pc'[v] \in KnownLabel => v \in mem'.known
          /\ pc'[v] \in WatchedLabel => v \in watches'
      <3>1. CASE DeadMountProbe(v) \/ DeadMountDevice(v) \/ CheckStaging(v) \/ DetachStaging(v)
        BY <3>1, <1>a DEF DeadMountProbe, DeadMountDevice, CheckStaging, DetachStaging, checkMount, Step,
                          KnownLabel, WatchedLabel, GraftLabel
      <3>2. CASE MountStaging(v)
        BY <3>2, <1>a DEF MountStaging, Step, KnownLabel, WatchedLabel, GraftLabel
      <3>3. CASE RecordStaging(v)
        BY <3>3, <1>a DEF RecordStaging, Step, recordStage, persist, Records, WatchedLabel, GraftLabel
      <3>4. CASE WatchStaging(v)
        BY <3>4, <1>a DEF WatchStaging, Step, startWatch, KnownInv, KnownLabel, recordVars
      <3>5. CASE MarkStaging(v)
        BY <3>5, <2>1 DEF MarkStaging, Step, Keeps, KnownInv, WatchedInv, KnownLabel, WatchedLabel
      <3>6. CASE graftHolders(v)
        <4>1. pc[v] \in GraftLabel
          BY <3>6, GraftFrame DEF Proc, Path
        <4> QED  BY <2>1, <4>1 DEF Keeps, KnownInv, WatchedInv, KnownLabel, WatchedLabel
      <3> QED  BY <1>1, <3>1, <3>2, <3>3, <3>4, <3>5, <3>6 DEF Revive
    <2> QED  BY <1>b, <2>1, <2>2, <2>3 DEF KnownInv, WatchedInv
  <1>2. CASE RecordAgain(v) \/ EnsureAgain(v)
    <2>1. kst[v] = "staging"
      BY <1>2 DEF RecordAgain, EnsureAgain, Step, KnownInv, StageLabel
    <2>2. pc'[v] \in {"ensure", "ok"}
      BY <1>2, <1>a DEF RecordAgain, EnsureAgain, Step
    <2>3. v \in mem'.known /\ (pc'[v] = "ok" => v \in watches')
      BY <1>2, <1>a DEF RecordAgain, EnsureAgain, Step, recordStage, ensureWatch, startWatch, persist, Records,
                        KnownInv, KnownLabel, recordVars
    <2> QED  BY <1>b, <2>1, <2>2, <2>3
             DEF KnownInv, WatchedInv, StageLabel, UnstageLabel, WatchedLabel, GraftLabel
  <1>3. CASE NodeUnstageVolume(v)
    <2>1. kst[v] = "unstaging"
      BY <1>3 DEF NodeUnstageVolume, FindMounter, SystemdUnmount, UnitStopped, UnmountStaging, ForgetWatch, ForgetStaging, Step,
                  KnownInv, UnstageLabel
    <2>2. pc'[v] \in UnstageLabel
      BY <1>3, <1>a DEF NodeUnstageVolume, FindMounter, SystemdUnmount, UnitStopped, UnmountStaging, ForgetWatch, ForgetStaging, Step,
                        UnstageLabel
    <2>3. pc'[v] \notin StageLabel \cup KnownLabel \cup WatchedLabel
      BY <2>2 DEF UnstageLabel, StageLabel, ReviveLabel, GraftLabel, KnownLabel, WatchedLabel
    <2> QED  BY <1>b, <2>1, <2>3 DEF KnownInv, WatchedInv
  <1> QED  BY <1>a, <1>1, <1>2, <1>3 DEF HandlerOf, NodeStageVolume

\* What the kubelet learns from a reply, the handler had brought about.
LEMMA KubeletSafety ==
    ASSUME TypeOK, SafetyInv, kubelet
    PROVE  SafetyInv'
  <1>a. /\ UNCHANGED <<mem, disk, watches, sv, ticks>>
        /\ kst \in [Vol -> StageState] /\ kpub \in [Target -> PublishState]
        /\ \A p \in Path : p \in Proc /\ p # Sup
        /\ Vol \cap Target = {} /\ Path = Vol \cup Target
    BY NodeAssumption DEF kubelet, TypeOK, StateTypeOK, recordVars, supVars, Path, Proc
  <1>b. ASSUME NEW p \in Path, NEW l, Goto(p, l)
        PROVE  pc'[p] = l /\ (\A q \in Proc \ {p} : pc'[q] = pc[q]) /\ pc'[Sup] = pc[Sup]
    BY <1>b, <1>a DEF Goto, TypeOK, PcTypeOK, Proc
  \* A volume, or a target, that the step does not touch.
  <1>c. ASSUME NEW w \in Vol, pc'[w] = pc[w], kst'[w] = kst[w], pc'[Sup] = pc[Sup]
        PROVE  KnownInv(w)' /\ WatchedInv(w)'
    BY <1>a, <1>c DEF SafetyInv, KnownInv, WatchedInv, NotYetEnsured
  <1>d. ASSUME NEW u \in Target, pc'[u] = pc[u], kpub'[u] = kpub[u], mnt' = mnt, u \in dirs' <=> u \in dirs
        PROVE  TargetInv(u)'
    BY <1>d DEF SafetyInv, TargetInv, Mounted
  <1>1. ASSUME NEW v \in Vol, SendStage(v) \/ SendUnstage(v)
        PROVE  SafetyInv'
    <2>1. PICK l \in {"probe", "find"} :
            /\ Goto(v, l)
            /\ kst' = [kst EXCEPT ![v] = IF l = "probe" THEN "staging" ELSE "unstaging"]
      BY <1>1 DEF SendStage, SendUnstage
    <2>2. /\ mnt' = mnt /\ kpub' = kpub
          /\ \A u \in Target : u \in dirs' <=> u \in dirs
      BY <1>1, <1>a DEF SendStage, SendUnstage, kernelVars
    <2>3. KnownInv(v)' /\ WatchedInv(v)'
      BY <1>a, <1>b, <2>1 DEF KnownInv, WatchedInv, KnownLabel, WatchedLabel, StageLabel, UnstageLabel,
                              ReviveLabel, GraftLabel
    <2>4. \A w \in Vol \ {v} : KnownInv(w)' /\ WatchedInv(w)'
      BY <1>a, <1>b, <1>c, <2>1
    <2>5. \A u \in Target : TargetInv(u)'
      BY <1>a, <1>b, <1>d, <2>1, <2>2
    <2> QED  BY <1>a, <2>3, <2>4, <2>5 DEF SafetyInv
  <1>2. ASSUME NEW v \in Vol, ReplyVolume(v)
        PROVE  SafetyInv'
    <2>1. KnownInv(v)' /\ WatchedInv(v)'
      <3>1. /\ pc'[v] = "idle"
            /\ kst'[v] = "staged" => pc[v] = "ok"
        BY <1>2, <1>a, <1>b DEF ReplyVolume, Step
      <3>2. kst'[v] = "staged" => v \in mem.known /\ v \in watches
        BY <3>1 DEF SafetyInv, KnownInv, WatchedInv, KnownLabel, WatchedLabel
      <3> QED  BY <1>a, <3>1, <3>2 DEF KnownInv, WatchedInv, KnownLabel, WatchedLabel, StageLabel,
                                       UnstageLabel, ReviveLabel, GraftLabel
    <2>2. \A w \in Vol \ {v} : KnownInv(w)' /\ WatchedInv(w)'
      BY <1>2, <1>a, <1>b, <1>c DEF ReplyVolume, Step
    <2>3. \A u \in Target : TargetInv(u)'
      BY <1>2, <1>a, <1>b, <1>d DEF ReplyVolume, Step, kernelVars
    <2> QED  BY <1>a, <2>1, <2>2, <2>3 DEF SafetyInv
  <1>3. ASSUME NEW t \in Target, SendPublish(t) \/ SendUnpublish(t)
        PROVE  SafetyInv'
    <2>1. PICK l \in {"probe", "ucheck"} :
            /\ Goto(t, l)
            /\ kpub' = [kpub EXCEPT ![t] = IF l = "probe" THEN "publishing" ELSE "unpublishing"]
      BY <1>3 DEF SendPublish, SendUnpublish
    <2>2. UNCHANGED <<mnt, dirs, kst>>
      BY <1>3 DEF SendPublish, SendUnpublish, kernelVars
    <2>3. TargetInv(t)'
      BY <1>a, <1>b, <2>1, <2>2 DEF SafetyInv, TargetInv, Mounted, PublishLabel, UnpublishLabel, ReviveLabel,
                                    GraftLabel
    <2>4. \A u \in Target \ {t} : TargetInv(u)'
      BY <1>a, <1>b, <1>d, <2>1, <2>2
    <2>5. \A w \in Vol : KnownInv(w)' /\ WatchedInv(w)'
      BY <1>a, <1>b, <1>c, <2>1, <2>2
    <2> QED  BY <1>a, <2>3, <2>4, <2>5 DEF SafetyInv
  <1>4. ASSUME NEW t \in Target, ReplyTarget(t)
        PROVE  SafetyInv'
    <2>1. TargetInv(t)'
      <3>1. /\ pc'[t] = "idle"
            /\ kpub'[t] = "no" => pc[t] = "uok"
        BY <1>4, <1>a, <1>b DEF ReplyTarget, Step
      <3>2. kpub'[t] = "no" => t \notin dirs
        BY <3>1 DEF SafetyInv, TargetInv
      <3> QED  BY <1>4, <3>1, <3>2 DEF ReplyTarget, SafetyInv, TargetInv, Mounted, PublishLabel, UnpublishLabel,
                                       ReviveLabel, GraftLabel, kernelVars
    <2>2. \A u \in Target \ {t} : TargetInv(u)'
      BY <1>4, <1>a, <1>b, <1>d DEF ReplyTarget, Step, kernelVars
    <2>3. \A w \in Vol : KnownInv(w)' /\ WatchedInv(w)'
      BY <1>4, <1>a, <1>b, <1>c DEF ReplyTarget, Step
    <2> QED  BY <1>a, <2>1, <2>2, <2>3 DEF SafetyInv
  <1>5. CASE \/ \E v \in Vol : RemoveStageDir(v)
             \/ \E c \in Container : StartContainer(c) \/ StopContainer(c)
    <2>1. /\ UNCHANGED <<mnt, pc, kst, kpub>>
          /\ \A u \in Target : u \in dirs' <=> u \in dirs
      BY <1>5, <1>a DEF RemoveStageDir, StartContainer, StopContainer, SetHeld, kubeVars
    <2> QED  BY <1>a, <1>c, <1>d, <2>1 DEF SafetyInv
  <1> QED  BY <1>1, <1>2, <1>3, <1>4, <1>5 DEF kubelet

\* Nothing is staged or published when the first plugin starts.
LEMMA InitSafety == Init => SafetyInv
  <1> SUFFICES ASSUME Init PROVE SafetyInv
    OBVIOUS
  <1>1. \A p \in Path : p \in Proc /\ p # Sup
    BY NodeAssumption DEF Path, Proc
  <1>2. \A t \in Target : TargetInv(t)
    BY <1>1 DEF Init, StateInit, TargetInv, Mounted, Path, PublishLabel, UnpublishLabel, ReviveLabel, GraftLabel
  <1>3. \A v \in Vol : KnownInv(v) /\ WatchedInv(v)
    BY <1>1 DEF Init, StateInit, KnownInv, WatchedInv, Path, KnownLabel, WatchedLabel, StageLabel, UnstageLabel,
                ReviveLabel, GraftLabel
  <1> QED  BY <1>2, <1>3 DEF Init, StateInit, SafetyInv

\* No step of the handlers, the supervisor or the environment breaks it.
LEMMA NextSafety == TypeOK /\ SafetyInv /\ [Next]_vars => SafetyInv'
  <1> SUFFICES ASSUME TypeOK, SafetyInv, [Next]_vars PROVE SafetyInv'
    OBVIOUS
  <1>a. /\ \A p \in Path : p \in Proc /\ p # Sup
        /\ Vol \cap Target = {} /\ Path = Vol \cup Target /\ Sup \in Proc
    BY NodeAssumption DEF Path, Proc
  <1>1. ASSUME NEW p \in Path, HandlerOf(p)
        PROVE  SafetyInv'
    <2>1. \A t \in Target : TargetInv(t)'
      <3>1. ASSUME NEW t \in Target, t # p
            PROVE  TargetInv(t)'
        BY <1>1, <1>a, <3>1, HandlerFrame DEF SafetyInv, TargetInv, Mounted, kubeVars
      <3>2. p \in Target => TargetInv(p)'
        BY <1>1, TargetHandler DEF SafetyInv
      <3> QED  BY <3>1, <3>2
    <2>2. \A v \in Vol : KnownInv(v)' /\ WatchedInv(v)'
      <3>1. ASSUME NEW v \in Vol, v # p
            PROVE  KnownInv(v)' /\ WatchedInv(v)'
        BY <1>1, <1>a, <3>1, HandlerFrame
           DEF SafetyInv, KnownInv, WatchedInv, NotYetEnsured, Keeps, kubeVars, supVars
      <3>2. p \in Vol => KnownInv(p)' /\ WatchedInv(p)'
        BY <1>1, VolumeHandler DEF SafetyInv
      <3> QED  BY <3>1, <3>2
    <2>3. disk' = mem'
      BY <1>1, HandlerFrame DEF SafetyInv, Keeps
    <2> QED  BY <2>1, <2>2, <2>3 DEF SafetyInv
  <1>2. CASE run
    <2>1. \A t \in Target : TargetInv(t)'
      BY <1>2, <1>a, RunFrame DEF SafetyInv, TargetInv, kubeVars
    <2>2. ASSUME NEW v \in Vol PROVE KnownInv(v)' /\ WatchedInv(v)'
      <3>1. pc'[v] = pc[v] /\ kst' = kst /\ Keeps(Vol)
        BY <1>2, <1>a, RunFrame DEF kubeVars
      <3>2. kst[v] = "staged" => v \in watches' \/ NotYetEnsured(v)'
        BY <1>2, <3>1, FirstEnsure DEF SafetyInv, KnownInv, WatchedInv, Keeps
      <3> QED  BY <3>1, <3>2 DEF SafetyInv, KnownInv, WatchedInv, Keeps
    <2>3. disk' = mem'
      BY <1>2, RunFrame DEF SafetyInv, Keeps
    <2> QED  BY <2>1, <2>2, <2>3 DEF SafetyInv
  <1>3. CASE kubelet
    BY <1>3, KubeletSafety
  <1>4. CASE MounterDies
    BY <1>4 DEF MounterDies, SafetyInv, TargetInv, KnownInv, WatchedInv, NotYetEnsured, Mounted, recordVars,
                kubeVars, procVars, supVars
  <1>7. CASE ExecStopPost
    <2>1. PICK v \in Vol : Detach(v)
      BY <1>7 DEF ExecStopPost
    <2>2. dirs' = dirs /\ \A t \in Target : mnt'[t] = mnt[t]
      BY <2>1, NodeAssumption DEF Detach, SetMounts, Path, TypeOK, StateTypeOK, KernelTypeOK
    <2> QED  BY <1>7, <2>2 DEF ExecStopPost, SafetyInv, TargetInv, KnownInv, WatchedInv, NotYetEnsured, Mounted,
                               recordVars, kubeVars, procVars, supVars
  <1>5. CASE CrashRestart
    <2>1. /\ \A p \in Path : pc'[p] = "idle"
          /\ pc'[Sup] = "scan" /\ ticks' = 0 /\ mem' = disk
          /\ UNCHANGED <<mnt, dirs, disk, kst, kpub>>
      BY <1>5, <1>a DEF CrashRestart, kubeVars
    <2>2. \A t \in Target : TargetInv(t)'
      BY <1>a, <2>1 DEF SafetyInv, TargetInv, Mounted, PublishLabel, UnpublishLabel, ReviveLabel, GraftLabel
    <2>3. \A v \in Vol : KnownInv(v)' /\ WatchedInv(v)'
      BY <1>a, <2>1 DEF SafetyInv, KnownInv, WatchedInv, NotYetEnsured, DiscoverLabel, KnownLabel, WatchedLabel,
                        StageLabel, UnstageLabel, ReviveLabel, GraftLabel
    <2> QED  BY <2>1, <2>2, <2>3 DEF SafetyInv
  <1>6. CASE UNCHANGED vars
    BY <1>6 DEF vars, procVars, SafetyInv, TargetInv, KnownInv, WatchedInv, NotYetEnsured, Mounted, kernelVars,
                recordVars, kubeVars, supVars
  <1> QED  BY <1>1, <1>2, <1>3, <1>4, <1>5, <1>6, <1>7 DEF Next

\* The invariant the three properties below follow from: records, watches and
\* target directories agree with what the kubelet was told, at every step.
THEOREM SafetyInductive == Spec => [](TypeOK /\ SafetyInv)
  <1>1. Init => TypeOK /\ SafetyInv
    BY InitType, InitSafety
  <1>2. (TypeOK /\ SafetyInv) /\ [Next]_vars => (TypeOK /\ SafetyInv)'
    BY NextType, NextSafety
  <1> QED  BY <1>1, <1>2, PTL DEF Spec

(***************************************************************************)
(* The properties.                                                         *)
(***************************************************************************)
\* NodeUnpublish's answer holds for good: whatever heal, its stale copies of
\* the records and the restarts do, nothing gets mounted at the target again
\* before the next NodePublish.
THEOREM UnpublishSafe == Spec => []UnpublishedStaysUnmounted
  <1>1. SafetyInv => UnpublishedStaysUnmounted
    BY DEF SafetyInv, TargetInv, UnpublishedStaysUnmounted
  <1> QED  BY <1>1, SafetyInductive, PTL

\* At whatever moment the plugin is killed, the state file names every volume
\* the kubelet was told is staged.
THEOREM RestartSafe == Spec => []KnownAfterRestart
  <1>1. SafetyInv => KnownAfterRestart
    BY DEF SafetyInv, KnownInv, KnownAfterRestart
  <1> QED  BY <1>1, SafetyInductive, PTL

\* A staged volume is watched, but for the start of the supervisor.
THEOREM WatchSafe == Spec => []StagedIsWatched
  <1>1. SafetyInv => StagedIsWatched
    BY DEF SafetyInv, WatchedInv, StagedIsWatched
  <1> QED  BY <1>1, SafetyInductive, PTL
=============================================================================
