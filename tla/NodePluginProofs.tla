-------------------------- MODULE NodePluginProofs --------------------------
(***************************************************************************)
(* Proofs about the node plugin, for any volumes, targets, containers,     *)
(* devices, failures and number of them.                                   *)
(***************************************************************************)
EXTENDS NodePlugin, SequenceTheorems, TLAPS

(***************************************************************************)
(* Typing of the operators on the mount table and on the records.          *)
(***************************************************************************)
\* Detaching the visible mount leaves a stack of mounts.
LEMMA PopType ==
    ASSUME NEW S, NEW s \in Seq(S), s # << >>
    PROVE  Pop(s) \in Seq(S)
  <1>1. Len(s) \in Nat /\ Len(s) # 0
    BY EmptySeq
  <1>2. \A i \in 1..(Len(s) - 1) : s[i] \in S
    BY <1>1
  <1> QED  BY <1>1, <1>2, SubSeqProperties DEF Pop

\* What is visible at a staging path is a FUSE mount, if anything.
LEMMA TopType ==
    ASSUME KernelTypeOK, NEW p \in Path, Mounted(p)
    PROVE  /\ Top(p) \in Dev \cup {Bare}
           /\ p \in Vol => Top(p) \in Dev
  <1>1. mnt[p] \in Seq(Dev \cup {Bare}) /\ mnt[p] # << >>
    BY DEF KernelTypeOK, Mounted
  <1>2. Len(mnt[p]) \in 1..Len(mnt[p])
    BY <1>1, EmptySeq
  <1>3. p \in Vol => mnt[p] \in Seq(Dev)
    BY DEF KernelTypeOK
  <1> QED  BY <1>1, <1>2, <1>3 DEF Top

\* A bind shows a device or the plain directory.
LEMMA SourceType ==
    ASSUME KernelTypeOK, NEW p \in Path
    PROVE  Source(p) \in Dev \cup {Bare}
  BY TopType DEF Source

\* A detach keeps the mount table well-formed, on any path.
LEMMA DetachType ==
    ASSUME KernelTypeOK, NEW p, Detach(p), loaded' \subseteq loaded, UNCHANGED <<direct, fallbacks>>
    PROVE  KernelTypeOK'
  <1>1. CASE ~Mounted(p)
    BY <1>1 DEF Detach, KernelTypeOK
  <1>2. CASE Mounted(p) /\ p \in Path
    <2>1. Pop(mnt[p]) \in Seq(Dev \cup {Bare})
      BY <1>2, PopType DEF KernelTypeOK, Mounted
    <2>2. p \in Vol => Pop(mnt[p]) \in Seq(Dev)
      BY <1>2, PopType DEF KernelTypeOK, Mounted
    <2> QED  BY <1>2, <2>1, <2>2 DEF Detach, SetMounts, KernelTypeOK, Path
  <1>3. CASE Mounted(p) /\ p \notin Path
    BY <1>3 DEF Detach, SetMounts, KernelTypeOK, Path
  <1> QED  BY <1>1, <1>2, <1>3

\* So does lazyUnmount.
LEMMA LazyUnmountType ==
    ASSUME KernelTypeOK, NEW p, lazyUnmount(p)
    PROVE  KernelTypeOK'
  BY DetachType DEF lazyUnmount, unitVars

\* So does the umount of CleanupMountPoint.
LEMMA UnmountType ==
    ASSUME KernelTypeOK, NEW p \in Path, UNCHANGED <<dirs, serves, unitVars>>,
           \/ Mounted(p) /\ SetMounts([mnt EXCEPT ![p] = Pop(@)])
           \/ UNCHANGED <<mnt, live, held>>
    PROVE  KernelTypeOK'
  <1>1. CASE UNCHANGED <<mnt, live, held>>
    BY <1>1 DEF KernelTypeOK, unitVars
  <1>2. CASE Mounted(p) /\ SetMounts([mnt EXCEPT ![p] = Pop(@)])
    BY <1>2, LazyUnmountType DEF lazyUnmount, Detach
  <1> QED  BY <1>1, <1>2

\* mount --bind onto a target keeps the mount table well-formed.
LEMMA BindType ==
    ASSUME KernelTypeOK, NEW v \in Vol, NEW t \in Target, BindOk(v, t) \/ BindFails(v, t)
    PROVE  KernelTypeOK'
  <1>1. CASE BindFails(v, t)
    BY <1>1 DEF BindFails, KernelTypeOK, kernelVars, unitVars
  <1>2. CASE BindOk(v, t)
    <2>1. Source(v) \in Dev \cup {Bare}
      BY SourceType DEF Path
    <2>2. t \in Path /\ t \notin Vol
      BY NodeAssumption DEF Path
    <2>3. Append(mnt[t], Source(v)) \in Seq(Dev \cup {Bare})
      BY <2>1, <2>2 DEF KernelTypeOK
    <2> QED  BY <1>2, <2>2, <2>3 DEF BindOk, SetMounts, KernelTypeOK, unitVars, Path
  <1> QED  BY <1>1, <1>2

\* A mounter that starts keeps the mount table well-formed, and leaves the
\* targets and the directories alone.
LEMMA StartMounterType ==
    ASSUME KernelTypeOK, NEW v \in Vol, NEW u, StartMounter(v, u),
           loaded' \subseteq UnitVol, fallbacks' \in [UnitVol -> Nat]
    PROVE  KernelTypeOK' /\ dirs' = dirs /\ \A t \in Target : mnt'[t] = mnt[t]
  <1>1. PICK d \in Dev : /\ mnt' = [mnt EXCEPT ![v] = Append(@, d)]
                         /\ live' = live \cup {d}
                         /\ serves' = [serves EXCEPT ![d] = v]
                         /\ direct' = IF u THEN direct \cup {d} ELSE direct \ {d}
    BY DEF StartMounter
  <1>2. v \in Path /\ Append(mnt[v], d) \in Seq(Dev) /\ Append(mnt[v], d) \in Seq(Dev \cup {Bare})
    BY DEF KernelTypeOK, Path
  <1>3. \A t \in Target : t \in Path /\ t # v
    BY NodeAssumption DEF Path
  <1>4. dirs' = dirs /\ held' = held
    BY DEF StartMounter
  <1>5. direct' \subseteq Dev
    BY <1>1 DEF KernelTypeOK
  <1>6. KernelTypeOK'
    BY <1>1, <1>2, <1>4, <1>5 DEF KernelTypeOK, Path
  <1> QED  BY <1>1, <1>3, <1>4, <1>6 DEF KernelTypeOK

\* So does mountStaged, whether it succeeds or not.
LEMMA MountType ==
    ASSUME KernelTypeOK, NEW v \in Vol, MountOk(v) \/ MountFails(v)
    PROVE  KernelTypeOK' /\ dirs' = dirs /\ \A t \in Target : mnt'[t] = mnt[t]
  <1>a. loaded \subseteq UnitVol /\ fallbacks \in [UnitVol -> Nat]
    BY DEF KernelTypeOK
  <1>1. CASE MountDirect(v)
    BY <1>a, <1>1, StartMounterType DEF MountDirect
  <1>2. CASE StartTransientUnit(v)
    <2>1. loaded' \subseteq UnitVol /\ fallbacks' \in [UnitVol -> Nat]
      BY <1>a, <1>2 DEF StartTransientUnit
    <2> QED  BY <1>2, <2>1, StartMounterType DEF StartTransientUnit
  <1>3. CASE MountFallback(v)
    <2>1. loaded' \subseteq UnitVol /\ fallbacks' \in [UnitVol -> Nat]
      BY <1>a, <1>3 DEF MountFallback
    <2> QED  BY <1>3, <2>1, StartMounterType DEF MountFallback
  <1>4. CASE UNCHANGED kernelVars
    BY <1>4 DEF KernelTypeOK, kernelVars, unitVars
  <1> QED  BY <1>1, <1>2, <1>3, <1>4 DEF MountOk, MountFails

\* The failures stay within their bound.
LEMMA FaultType ==
    ASSUME faults \in 0..MaxFaults, NEW k, Fault(k)
    PROVE  faults' \in 0..MaxFaults
  BY NodeAssumption DEF Fault

\* mountStaged counts at most one failure.
LEMMA MountFaultType ==
    ASSUME faults \in 0..MaxFaults, NEW v, MountOk(v) \/ MountFails(v)
    PROVE  faults' \in 0..MaxFaults
  BY FaultType DEF MountOk, MountFails, MountFallback

\* So does a container that starts, stops or gets a graft.
LEMMA HeldType ==
    ASSUME KernelTypeOK, NEW c \in Container, NEW x \in Held,
           SetHeld([held EXCEPT ![c] = x]), UNCHANGED <<dirs, serves, unitVars>>
    PROVE  KernelTypeOK'
  BY DEF SetHeld, KernelTypeOK, unitVars

\* persist writes what is in memory.
LEMMA PersistType ==
    ASSUME NEW m \in Records, persist(m)
    PROVE  RecordTypeOK'
  BY DEF persist, RecordTypeOK

\* recordStage and forgetStage keep the records well-formed.
LEMMA StageRecordType ==
    ASSUME RecordTypeOK, NEW v \in Vol, recordStage(v) \/ deleteStage(v)
    PROVE  RecordTypeOK'
  <1>1. CASE recordStage(v)
    BY <1>1, PersistType DEF recordStage, RecordTypeOK, Records
  <1>2. CASE deleteStage(v)
    BY <1>2, PersistType DEF deleteStage, RecordTypeOK, Records
  <1> QED  BY <1>1, <1>2

\* recordPublish and forgetPublish keep the records well-formed.
LEMMA PublishRecordType ==
    ASSUME RecordTypeOK, NEW v \in Vol, NEW t \in Target,
           recordPublish(v, t) \/ forgetPublish(v, t)
    PROVE  RecordTypeOK'
  <1>1. CASE recordPublish(v, t)
    BY <1>1, PersistType DEF recordPublish, RecordTypeOK, Records, recordVars
  <1>2. CASE forgetPublish(v, t)
    BY <1>2, PersistType DEF forgetPublish, RecordTypeOK, Records, recordVars
  <1> QED  BY <1>1, <1>2

\* markDead keeps the records well-formed: no device is marked as "".
LEMMA DeadRecordType ==
    ASSUME RecordTypeOK, NEW v \in Vol, NEW d \in Dev \cup {NoDev}, markDead(v, d)
    PROVE  RecordTypeOK'
  BY PersistType DEF markDead, RecordTypeOK, Records, recordVars

(***************************************************************************)
(* Typing of the processes: the part of the state that the steps of a      *)
(* handler, of the supervisor and of graftHolders share.                   *)
(***************************************************************************)
SharedTypeOK ==
    /\ KernelTypeOK /\ RecordTypeOK /\ GraftTypeOK /\ PcTypeOK
    /\ watches \subseteq Vol
    /\ faults \in 0..MaxFaults

\* A process that moves goes to one of its own labels; the others stay.
LEMMA GotoType ==
    ASSUME PcTypeOK, NEW p \in Proc, NEW l \in LabelOf(p), Goto(p, l)
    PROVE  PcTypeOK' /\ pc'[p] = l /\ \A q \in Proc \ {p} : pc'[q] = pc[q]
  <1>1. l \in UNION {LabelOf(q) : q \in Proc}
    OBVIOUS
  <1>2. pc' = [pc EXCEPT ![p] = l]
    BY DEF Goto
  <1>3. pc' \in [Proc -> UNION {LabelOf(q) : q \in Proc}]
    BY <1>1, <1>2 DEF PcTypeOK
  <1>4. \A q \in Proc : pc'[q] = IF q = p THEN l ELSE pc[q]
    BY <1>2 DEF PcTypeOK
  <1>5. \A q \in Proc : pc'[q] \in LabelOf(q)
    BY <1>4 DEF PcTypeOK
  <1>6. PcTypeOK'
    BY <1>3, <1>5 DEF PcTypeOK, LabelOf
  <1> QED  BY <1>4, <1>6

\* The labels each process may go to.
LEMMA Labels ==
    /\ \A p \in Proc : GraftLabel \cup {AfterGraft(p)} \subseteq LabelOf(p)
    /\ \A p \in Path : ReviveLabel \cup {"idle", "ok", "uok"} \subseteq LabelOf(p)
    /\ \A v \in Vol : {"again", "ensure", "find", "unit", "stopped", "fumount", "stopwatch", "forget"} \subseteq LabelOf(v)
    /\ \A t \in Target : {"tcheck", "tdetach", "bind", "trecord", "ucheck", "umount",
                           "urmdir", "uforget"} \subseteq LabelOf(t)
    /\ LabelOf(Sup) = SupLabel
  BY NodeAssumption
     DEF LabelOf, AfterGraft, Proc, Path, StageLabel, UnstageLabel, PublishLabel,
         UnpublishLabel, SupLabel, ReviveLabel

\* graftHolders keeps the types, whoever runs it.
LEMMA GraftType ==
    ASSUME SharedTypeOK, NEW p \in Proc, graftHolders(p)
    PROVE  SharedTypeOK'
  <1>a. /\ {"gprobe", "gscan", "gheal", "gdone", AfterGraft(p)} \subseteq LabelOf(p)
        /\ KernelTypeOK /\ RecordTypeOK /\ GraftTypeOK /\ PcTypeOK
        /\ watches \subseteq Vol
        /\ faults \in 0..MaxFaults
    BY Labels DEF GraftLabel, SharedTypeOK
  <1>1. CASE GraftSnapshot(p)
    <2>1. PICK f \in DeadStages :
            IF f = NoStage
            THEN Goto(p, AfterGraft(p)) /\ UNCHANGED graftVars
            ELSE /\ gstage' = [gstage EXCEPT ![p] = f]
                 /\ gleft' = [gleft EXCEPT ![p] = {d \in Dev : f[d] # NoVol}]
                 /\ Goto(p, "gprobe")
                 /\ UNCHANGED <<gkeep, ghold>>
      BY <1>1 DEF GraftSnapshot
    <2>2. PcTypeOK'
      BY <1>a, <2>1, GotoType
    <2>3. f \in [Dev -> Vol \cup {NoVol}]
      BY DEF DeadStages
    <2>4. GraftTypeOK'
      <3>1. CASE f = NoStage
        BY <1>a, <1>1, <2>1, <3>1 DEF GraftSnapshot, GraftTypeOK, graftVars
      <3>2. CASE f # NoStage
        <4>1. gstage' \in [Proc -> [Dev -> Vol \cup {NoVol}]]
          BY <1>a, <2>1, <2>3, <3>2 DEF GraftTypeOK
        <4>2. gleft' \in [Proc -> SUBSET Dev]
          BY <1>a, <2>1, <3>2 DEF GraftTypeOK
        <4> QED  BY <1>a, <1>1, <2>1, <3>2, <4>1, <4>2 DEF GraftSnapshot, GraftTypeOK
      <3> QED  BY <3>1, <3>2
    <2> QED  BY <1>a, <1>1, <2>2, <2>4
             DEF GraftSnapshot, SharedTypeOK, KernelTypeOK, RecordTypeOK, kernelVars, unitVars, recordVars
  <1>2. CASE GraftProbe(p)
    <2>1. PcTypeOK'
      <3>1. CASE UNCHANGED pc
        BY <1>a, <3>1 DEF PcTypeOK, LabelOf
      <3>2. CASE Goto(p, "gscan")
        BY <1>a, <3>2, GotoType
      <3> QED  BY <1>2, <3>1, <3>2 DEF GraftProbe
    <2>2. GraftTypeOK'
      <3>1. gleft' \in [Proc -> SUBSET Dev] /\ gkeep' \in [Proc -> SUBSET Dev]
        <4>1. CASE UNCHANGED <<gleft, gkeep>>
          BY <1>a, <4>1 DEF GraftTypeOK
        <4>2. ASSUME NEW d \in gleft[p],
                     gleft' = [gleft EXCEPT ![p] = @ \ {d}],
                     gkeep' = [gkeep EXCEPT ![p] =
                                 IF mountDead(gstage[p][d]) THEN @ \cup {d} ELSE @]
              PROVE  gleft' \in [Proc -> SUBSET Dev] /\ gkeep' \in [Proc -> SUBSET Dev]
          BY <1>a, <4>2 DEF GraftTypeOK
        <4> QED  BY <1>2, <4>1, <4>2 DEF GraftProbe
      <3> QED  BY <1>a, <1>2, <3>1 DEF GraftProbe, GraftTypeOK
    <2> QED  BY <1>a, <1>2, <2>1, <2>2
             DEF GraftProbe, SharedTypeOK, KernelTypeOK, RecordTypeOK, kernelVars, unitVars, recordVars
  <1>3. CASE GraftScan(p)
    <2>1. PcTypeOK'
      BY <1>a, <1>3, GotoType DEF GraftScan
    <2>2. GraftTypeOK'
      BY <1>a, <1>3 DEF GraftScan, GraftTypeOK, findHolders
    <2> QED  BY <1>a, <1>3, <2>1, <2>2
             DEF GraftScan, SharedTypeOK, KernelTypeOK, RecordTypeOK, kernelVars, unitVars, recordVars
  <1>4. CASE GraftHolder(p)
    <2>1. PcTypeOK'
      BY <1>a, <1>4 DEF GraftHolder, PcTypeOK, LabelOf
    <2>2. PICK h \in ghold[p] :
            /\ ghold' = [ghold EXCEPT ![p] = @ \ {h}]
            /\ \/ h[2] \in gkeep[p] /\ UNCHANGED <<kernelVars, faults, gkeep>>
               \/ /\ HelperGrafts(h[1], gstage[p][h[2]])
                  /\ UNCHANGED gkeep
               \/ /\ HelperFails(h[1], gstage[p][h[2]])
                  /\ gkeep' = [gkeep EXCEPT ![p] = @ \cup {h[2]}]
      BY <1>4 DEF GraftHolder
    <2>3. h[1] \in Container /\ h[2] \in Dev
      BY <1>a DEF GraftTypeOK
    <2>4. GraftTypeOK'
      BY <1>a, <1>4, <2>2, <2>3 DEF GraftHolder, GraftTypeOK
    <2>5. KernelTypeOK' /\ faults' \in 0..MaxFaults
      <3>1. CASE UNCHANGED <<kernelVars, faults>>
        BY <1>a, <3>1 DEF KernelTypeOK, kernelVars, unitVars
      <3>2. CASE HelperGrafts(h[1], gstage[p][h[2]])
        <4>1. gstage[p][h[2]] \in Path
          BY <1>a, <3>2 DEF HelperGrafts, KernelTypeOK
        <4>2. Source(gstage[p][h[2]]) \in Held
          BY <1>a, <4>1, SourceType DEF Held
        <4> QED  BY <1>a, <2>3, <3>2, <4>2, HeldType DEF HelperGrafts
      <3>3. CASE HelperFails(h[1], gstage[p][h[2]])
        <4>1. "lost" \in Held
          BY DEF Held
        <4>2. CASE UNCHANGED kernelVars
          BY <1>a, <3>3, <4>2, FaultType DEF HelperFails, KernelTypeOK, kernelVars, unitVars
        <4>3. CASE /\ Fault("detached")
                   /\ SetHeld([held EXCEPT ![h[1]] = "lost"])
                   /\ UNCHANGED <<dirs, serves, unitVars>>
          BY <1>a, <2>3, <4>1, <4>3, HeldType, FaultType
        <4> QED  BY <3>3, <4>2, <4>3 DEF HelperFails
      <3> QED  BY <2>2, <3>1, <3>2, <3>3
    <2> QED  BY <1>a, <1>4, <2>1, <2>4, <2>5
             DEF GraftHolder, SharedTypeOK, RecordTypeOK, recordVars
  <1>5. CASE GraftScanned(p)
    <2>1. PcTypeOK'
      BY <1>a, <1>5, GotoType DEF GraftScanned
    <2> QED  BY <1>a, <1>5, <2>1
             DEF GraftScanned, SharedTypeOK, KernelTypeOK, RecordTypeOK, GraftTypeOK,
                 kernelVars, unitVars, recordVars, graftVars
  <1>6. CASE GraftDone(p)
    <2>1. PcTypeOK'
      BY <1>a, <1>6, GotoType DEF GraftDone
    <2>2. RecordTypeOK'
      BY <1>a, <1>6, PersistType DEF GraftDone, RecordTypeOK, Records
    <2>3. GraftTypeOK'
      BY <1>a, <1>6 DEF GraftDone, GraftTypeOK, NoStage
    <2> QED  BY <1>a, <1>6, <2>1, <2>2, <2>3
             DEF GraftDone, SharedTypeOK, KernelTypeOK, kernelVars, unitVars
  <1> QED  BY <1>1, <1>2, <1>3, <1>4, <1>5, <1>6 DEF graftHolders

\* The steps NodeStage and NodePublish share keep the types.
LEMMA ReviveType ==
    ASSUME SharedTypeOK, NEW p \in Path, Revive(p)
    PROVE  SharedTypeOK'
  <1>a. /\ KernelTypeOK /\ RecordTypeOK /\ GraftTypeOK /\ PcTypeOK
        /\ watches \subseteq Vol
        /\ faults \in 0..MaxFaults
        /\ p \in Proc /\ VolumeOf(p) \in Vol
        /\ \A q \in Proc : dev[q] \in Dev \cup {NoDev}
        /\ ReviveLabel \cup {"idle", "graft"} \subseteq LabelOf(p)
        /\ p \in Vol => "again" \in LabelOf(p)
        /\ p \notin Vol => "tcheck" \in LabelOf(p)
    BY NodeAssumption, Labels DEF SharedTypeOK, GraftTypeOK, Proc, Path, VolumeOf, GraftLabel
  <1>1. CASE DeadMountProbe(p)
    <2>1. PcTypeOK'
      BY <1>a, <1>1, GotoType DEF DeadMountProbe, Step, ReviveLabel
    <2> QED  BY <1>a, <1>1, <2>1
             DEF SharedTypeOK, DeadMountProbe, KernelTypeOK, kernelVars, unitVars, RecordTypeOK, recordVars, GraftTypeOK, graftVars
  <1>2. CASE DeadMountDevice(p)
    <2>1. PcTypeOK'
      BY <1>a, <1>2, GotoType DEF DeadMountDevice, Step, ReviveLabel
    <2>2. GraftTypeOK'
      BY <1>a, <1>2, TopType DEF DeadMountDevice, mountDevice, GraftTypeOK, graftVars, Path
    <2> QED  BY <1>a, <1>2, <2>1, <2>2
             DEF SharedTypeOK, DeadMountDevice, KernelTypeOK, kernelVars, unitVars, RecordTypeOK, recordVars
  <1>3. CASE CheckStaging(p)
    <2>1. PcTypeOK'
      BY <1>a, <1>3, GotoType DEF CheckStaging, Step, checkMount, ReviveLabel
    <2>2. KernelTypeOK'
      BY <1>a, <1>3 DEF CheckStaging, checkMount, KernelTypeOK, unitVars, Path
    <2> QED  BY <1>a, <1>3, <2>1, <2>2
             DEF SharedTypeOK, CheckStaging, RecordTypeOK, recordVars, GraftTypeOK, graftVars
  <1>4. CASE DetachStaging(p)
    <2>1. PcTypeOK'
      BY <1>a, <1>4, GotoType DEF DetachStaging, Step, ReviveLabel
    <2>2. KernelTypeOK'
      BY <1>a, <1>4, LazyUnmountType DEF DetachStaging
    <2> QED  BY <1>a, <1>4, <2>1, <2>2
             DEF SharedTypeOK, DetachStaging, RecordTypeOK, recordVars, GraftTypeOK, graftVars
  <1>5. CASE MountStaging(p)
    <2>1. PcTypeOK'
      BY <1>a, <1>5, GotoType DEF MountStaging, Step, ReviveLabel
    <2>2. KernelTypeOK'
      BY <1>a, <1>5, MountType DEF MountStaging
    <2>3. GraftTypeOK'
      BY <1>a, <1>5 DEF MountStaging, GraftTypeOK, graftVars
    <2>4. faults' \in 0..MaxFaults
      BY <1>a, <1>5, MountFaultType DEF MountStaging
    <2> QED  BY <1>a, <1>5, <2>1, <2>2, <2>3, <2>4
             DEF SharedTypeOK, MountStaging, RecordTypeOK, recordVars
  <1>6. CASE RecordStaging(p)
    <2>1. PcTypeOK'
      BY <1>a, <1>6, GotoType DEF RecordStaging, Step, ReviveLabel
    <2>2. RecordTypeOK'
      BY <1>a, <1>6, StageRecordType DEF RecordStaging
    <2> QED  BY <1>a, <1>6, <2>1, <2>2
             DEF SharedTypeOK, RecordStaging, KernelTypeOK, kernelVars, unitVars, GraftTypeOK, graftVars
  <1>7. CASE WatchStaging(p)
    <2>1. PcTypeOK'
      BY <1>a, <1>7, GotoType DEF WatchStaging, Step, ReviveLabel
    <2> QED  BY <1>a, <1>7, <2>1
             DEF SharedTypeOK, WatchStaging, startWatch, KernelTypeOK, kernelVars, unitVars, RecordTypeOK, recordVars, GraftTypeOK, graftVars
  <1>8. CASE MarkStaging(p)
    <2>1. PcTypeOK'
      BY <1>a, <1>8, GotoType DEF MarkStaging, Step, ReviveLabel
    <2>2. RecordTypeOK'
      BY <1>a, <1>8, DeadRecordType DEF MarkStaging
    <2>3. GraftTypeOK'
      BY <1>a, <1>8 DEF MarkStaging, GraftTypeOK, graftVars
    <2> QED  BY <1>a, <1>8, <2>1, <2>2, <2>3
             DEF SharedTypeOK, MarkStaging, KernelTypeOK, kernelVars, unitVars
  <1>9. CASE graftHolders(p)
    BY <1>a, <1>9, GraftType
  <1> QED  BY <1>1, <1>2, <1>3, <1>4, <1>5, <1>6, <1>7, <1>8, <1>9 DEF Revive

\* Every step of an RPC handler keeps the types.
LEMMA HandlerType ==
    ASSUME SharedTypeOK, NEW p \in Path, HandlerOf(p)
    PROVE  SharedTypeOK'
  <1>a. /\ KernelTypeOK /\ RecordTypeOK /\ GraftTypeOK /\ PcTypeOK
        /\ watches \subseteq Vol
        /\ faults \in 0..MaxFaults
        /\ p \in Proc /\ {"idle", "ok", "uok"} \subseteq LabelOf(p)
        /\ p \in Target => VolOf[p] \in Vol
        /\ p \in Vol => {"again", "ensure", "find", "unit", "stopped", "fumount", "stopwatch", "forget"} \subseteq LabelOf(p)
        /\ p \in Target => {"tcheck", "tdetach", "bind", "trecord", "ucheck", "umount",
                            "urmdir", "uforget"} \subseteq LabelOf(p)
    BY NodeAssumption, Labels DEF SharedTypeOK, Proc, Path
  <1>0. CASE Revive(p)
    BY <1>0, ReviveType
  <1>1. CASE p \in Vol /\ RecordAgain(p)
    <2>1. PcTypeOK'
      BY <1>a, <1>1, GotoType DEF RecordAgain, Step
    <2>2. RecordTypeOK'
      BY <1>a, <1>1, StageRecordType DEF RecordAgain
    <2>3. GraftTypeOK'
      BY <1>a, <1>1 DEF RecordAgain, GraftTypeOK, graftVars
    <2> QED  BY <1>a, <1>1, <2>1, <2>2, <2>3
             DEF SharedTypeOK, RecordAgain, KernelTypeOK, kernelVars, unitVars
  <1>2. CASE p \in Vol /\ EnsureAgain(p)
    <2>1. PcTypeOK'
      BY <1>a, <1>2, GotoType DEF EnsureAgain, Step
    <2> QED  BY <1>a, <1>2, <2>1
             DEF SharedTypeOK, EnsureAgain, ensureWatch, startWatch, KernelTypeOK, kernelVars, unitVars, RecordTypeOK, recordVars, GraftTypeOK, graftVars
  <1>3. CASE p \in Target /\ CheckTarget(p)
    <2>1. PcTypeOK'
      BY <1>a, <1>3, GotoType DEF CheckTarget, Step, checkMount
    <2>2. KernelTypeOK'
      BY <1>a, <1>3 DEF CheckTarget, checkMount, KernelTypeOK, unitVars, Path
    <2>3. GraftTypeOK'
      BY <1>a, <1>3 DEF CheckTarget, GraftTypeOK, graftVars
    <2> QED  BY <1>a, <1>3, <2>1, <2>2, <2>3
             DEF SharedTypeOK, CheckTarget, RecordTypeOK, recordVars
  <1>4. CASE p \in Target /\ DetachTarget(p)
    <2>1. PcTypeOK'
      BY <1>a, <1>4, GotoType DEF DetachTarget, Step
    <2>2. KernelTypeOK'
      BY <1>a, <1>4, LazyUnmountType DEF DetachTarget
    <2> QED  BY <1>a, <1>4, <2>1, <2>2
             DEF SharedTypeOK, DetachTarget, RecordTypeOK, recordVars, GraftTypeOK, graftVars
  <1>5. CASE p \in Target /\ BindTarget(p)
    <2>1. PcTypeOK'
      BY <1>a, <1>5, GotoType DEF BindTarget, Step
    <2>2. KernelTypeOK'
      BY <1>a, <1>5, BindType DEF BindTarget
    <2>3. faults' \in 0..MaxFaults
      BY <1>a, <1>5, FaultType DEF BindTarget, BindOk, BindFails
    <2> QED  BY <1>a, <1>5, <2>1, <2>2, <2>3
             DEF SharedTypeOK, BindTarget, RecordTypeOK, recordVars, GraftTypeOK, graftVars
  <1>6. CASE p \in Target /\ RecordTarget(p)
    <2>1. PcTypeOK'
      BY <1>a, <1>6, GotoType DEF RecordTarget, Step
    <2>2. RecordTypeOK'
      BY <1>a, <1>6, PublishRecordType DEF RecordTarget
    <2> QED  BY <1>a, <1>6, <2>1, <2>2
             DEF SharedTypeOK, RecordTarget, KernelTypeOK, kernelVars, unitVars, GraftTypeOK, graftVars
  <1>7. CASE p \in Target /\ CleanupCheck(p)
    <2>1. PcTypeOK'
      BY <1>a, <1>7, GotoType DEF CleanupCheck, Step
    <2> QED  BY <1>a, <1>7, <2>1
             DEF SharedTypeOK, CleanupCheck, KernelTypeOK, kernelVars, unitVars, RecordTypeOK, recordVars, GraftTypeOK, graftVars
  <1>8. CASE p \in Target /\ CleanupUnmount(p)
    <2>1. PcTypeOK'
      BY <1>a, <1>8, GotoType DEF CleanupUnmount, Step
    <2>2. KernelTypeOK'
      BY <1>a, <1>8, UnmountType DEF CleanupUnmount
    <2>3. faults' \in 0..MaxFaults
      BY <1>a, <1>8, FaultType DEF CleanupUnmount, Step
    <2> QED  BY <1>a, <1>8, <2>1, <2>2, <2>3
             DEF SharedTypeOK, CleanupUnmount, RecordTypeOK, recordVars, GraftTypeOK, graftVars
  <1>9. CASE p \in Target /\ CleanupRemove(p)
    <2>1. PcTypeOK'
      BY <1>a, <1>9, GotoType DEF CleanupRemove, Step
    <2>2. KernelTypeOK'
      BY <1>a, <1>9 DEF CleanupRemove, KernelTypeOK, unitVars
    <2> QED  BY <1>a, <1>9, <2>1, <2>2
             DEF SharedTypeOK, CleanupRemove, RecordTypeOK, recordVars, GraftTypeOK, graftVars
  <1>10. CASE p \in Target /\ ForgetTarget(p)
    <2>1. PcTypeOK'
      BY <1>a, <1>10, GotoType DEF ForgetTarget, Step
    <2>2. RecordTypeOK'
      BY <1>a, <1>10, PublishRecordType DEF ForgetTarget
    <2> QED  BY <1>a, <1>10, <2>1, <2>2
             DEF SharedTypeOK, ForgetTarget, KernelTypeOK, kernelVars, unitVars, GraftTypeOK, graftVars
  <1>11. CASE p \in Vol /\ FindMounter(p)
    <2>1. PcTypeOK'
      BY <1>a, <1>11, GotoType DEF FindMounter, Step
    <2> QED  BY <1>a, <1>11, <2>1
             DEF SharedTypeOK, FindMounter, KernelTypeOK, kernelVars, unitVars, RecordTypeOK, recordVars, GraftTypeOK, graftVars
  <1>12. CASE p \in Vol /\ UnmountStaging(p)
    <2>1. PcTypeOK'
      BY <1>a, <1>12, GotoType DEF UnmountStaging, Step
    <2>2. KernelTypeOK'
      BY <1>a, <1>12, LazyUnmountType DEF UnmountStaging, KernelTypeOK, kernelVars, unitVars
    <2>3. faults' \in 0..MaxFaults
      BY <1>a, <1>12, FaultType DEF UnmountStaging, lazyUnmount
    <2> QED  BY <1>a, <1>12, <2>1, <2>2, <2>3
             DEF SharedTypeOK, UnmountStaging, RecordTypeOK, recordVars, GraftTypeOK, graftVars
  <1>15. CASE p \in Vol /\ (SystemdUnmount(p) \/ UnitStopped(p))
    <2>1. PcTypeOK'
      BY <1>a, <1>15, GotoType DEF SystemdUnmount, UnitStopped, Step
    <2>2. KernelTypeOK'
      BY <1>a, <1>15 DEF SystemdUnmount, UnitStopped, KernelTypeOK, kernelVars, unitVars
    <2> QED  BY <1>a, <1>15, <2>1, <2>2
             DEF SharedTypeOK, SystemdUnmount, UnitStopped, RecordTypeOK, recordVars, GraftTypeOK, graftVars
  <1>13. CASE p \in Vol /\ ForgetWatch(p)
    <2>1. PcTypeOK'
      BY <1>a, <1>13, GotoType DEF ForgetWatch, Step
    <2> QED  BY <1>a, <1>13, <2>1
             DEF SharedTypeOK, ForgetWatch, stopWatch, KernelTypeOK, kernelVars, unitVars, RecordTypeOK, recordVars, GraftTypeOK, graftVars
  <1>14. CASE p \in Vol /\ ForgetStaging(p)
    <2>1. PcTypeOK'
      BY <1>a, <1>14, GotoType DEF ForgetStaging, Step
    <2>2. RecordTypeOK'
      BY <1>a, <1>14, StageRecordType DEF ForgetStaging
    <2> QED  BY <1>a, <1>14, <2>1, <2>2
             DEF SharedTypeOK, ForgetStaging, KernelTypeOK, kernelVars, unitVars, GraftTypeOK, graftVars
  <1> QED  BY <1>0, <1>1, <1>2, <1>3, <1>4, <1>5, <1>6, <1>7, <1>8, <1>9, <1>10, <1>11,
              <1>12, <1>13, <1>14, <1>15
           DEF HandlerOf, NodeStageVolume, NodePublishVolume, NodeUnpublishVolume, NodeUnstageVolume

\* Every step of the supervisor keeps the types, and has a volume to heal or to
\* adopt where it heals or adopts one.
LEMMA RunType ==
    ASSUME SharedTypeOK, SupTypeOK, CurTypeOK, run
    PROVE  SharedTypeOK' /\ SupTypeOK' /\ CurTypeOK' /\ UNCHANGED kubeVars
  <1> DEFINE Loop == {"scan", "known", "adopt", "adoptrec", "handles", "adoptpub", "ids", "ensure",
                      "snapshot", "check", "hdevice", "hunbind", "hunstage", "hmount", "hwatch",
                      "hbind", "hmark", "graft", "grafted", "tick"}
             Busy == {"adoptrec", "hdevice", "hunbind", "hunstage", "hmount", "hwatch", "hbind", "hmark"}
  <1>a. /\ KernelTypeOK /\ RecordTypeOK /\ GraftTypeOK /\ PcTypeOK
        /\ watches \subseteq Vol
        /\ faults \in 0..MaxFaults
        /\ Sup \in Proc
        /\ dev[Sup] \in Dev \cup {NoDev}
        /\ mem.known \subseteq Vol /\ mem.pubs \in [Vol -> SUBSET Target]
        /\ \A t \in Target : VolOf[t] \in Vol
        /\ Loop \subseteq LabelOf(Sup)
    BY NodeAssumption, Labels
       DEF SharedTypeOK, GraftTypeOK, RecordTypeOK, Records, Proc, SupLabel, DiscoverLabel, HealLabel, GraftLabel
  <1>b. HealLabel \cup {"adoptrec"} = Busy
    BY DEF HealLabel
  <1>c. /\ found \subseteq Path /\ sv \subseteq Vol /\ st \subseteq Target
        /\ cur \in Vol \cup {NoVol} /\ snap \in [Vol -> SUBSET Target] /\ ticks \in 0..DiscoverEvery
        /\ pc[Sup] \in Busy => cur \in Vol
    BY <1>b DEF SupTypeOK, CurTypeOK
  <1>1. CASE ScanOwnMounts
    <2>1. PcTypeOK'
      BY <1>a, <1>1, GotoType DEF ScanOwnMounts, Advance, Stay, PcTypeOK, LabelOf
    <2>2. SupTypeOK'
      BY <1>a, <1>c, <1>1, DiscoverAssumption DEF ScanOwnMounts, Advance, Stay, SupTypeOK, supVars, Path
    <2>3. CurTypeOK'
      BY <1>a, <1>b, <1>c, <1>1, GotoType DEF ScanOwnMounts, Advance, Stay, CurTypeOK, supVars
    <2> QED  BY <1>a, <1>1, <2>1, <2>2, <2>3
             DEF SharedTypeOK, ScanOwnMounts, KernelTypeOK, kernelVars, unitVars, RecordTypeOK, recordVars, GraftTypeOK, graftVars, kubeVars
  <1>2. CASE KnownStages
    <2>1. PcTypeOK'
      BY <1>a, <1>2, GotoType DEF KnownStages, Advance, Stay, PcTypeOK, LabelOf
    <2>2. SupTypeOK'
      BY <1>a, <1>c, <1>2, DiscoverAssumption DEF KnownStages, Advance, Stay, SupTypeOK, supVars, Path
    <2>3. CurTypeOK'
      BY <1>a, <1>b, <1>c, <1>2, GotoType DEF KnownStages, Advance, Stay, CurTypeOK, supVars
    <2> QED  BY <1>a, <1>2, <2>1, <2>2, <2>3
             DEF SharedTypeOK, KnownStages, KernelTypeOK, kernelVars, unitVars, RecordTypeOK, recordVars, GraftTypeOK, graftVars, kubeVars
  <1>3. CASE AdoptStage
    <2>1. PcTypeOK'
      BY <1>a, <1>3, GotoType DEF AdoptStage, Advance, Stay, PcTypeOK, LabelOf
    <2>2. faults' \in 0..MaxFaults
      BY <1>a, <1>3, FaultType DEF AdoptStage, Advance
    <2>3. SupTypeOK'
      BY <1>a, <1>c, <1>3, DiscoverAssumption DEF AdoptStage, Advance, Stay, SupTypeOK, supVars, Path
    <2>4. CurTypeOK'
      BY <1>a, <1>b, <1>c, <1>3, GotoType DEF AdoptStage, Advance, Stay, CurTypeOK, supVars
    <2> QED  BY <1>a, <1>3, <2>1, <2>2, <2>3, <2>4
             DEF SharedTypeOK, AdoptStage, KernelTypeOK, kernelVars, unitVars, RecordTypeOK, recordVars, GraftTypeOK, graftVars, kubeVars
  <1>4. CASE AdoptRecord
    <2>1. PcTypeOK'
      BY <1>a, <1>4, GotoType DEF AdoptRecord, Advance, Stay, PcTypeOK, LabelOf
    <2>2. RecordTypeOK'
      BY <1>a, <1>4, <1>c, StageRecordType DEF AdoptRecord, Advance
    <2>3. SupTypeOK'
      BY <1>a, <1>c, <1>4, DiscoverAssumption DEF AdoptRecord, Advance, Stay, SupTypeOK, supVars, Path
    <2>4. CurTypeOK'
      BY <1>a, <1>b, <1>c, <1>4, GotoType DEF AdoptRecord, Advance, Stay, CurTypeOK, supVars
    <2> QED  BY <1>a, <1>4, <2>1, <2>2, <2>3, <2>4
             DEF SharedTypeOK, AdoptRecord, KernelTypeOK, kernelVars, unitVars, GraftTypeOK, graftVars, kubeVars
  <1>5. CASE KnownHandles
    <2>1. PcTypeOK'
      BY <1>a, <1>5, GotoType DEF KnownHandles, Advance, Stay, PcTypeOK, LabelOf
    <2>2. SupTypeOK'
      BY <1>a, <1>c, <1>5, DiscoverAssumption DEF KnownHandles, Advance, Stay, SupTypeOK, supVars, Path
    <2>3. CurTypeOK'
      BY <1>a, <1>b, <1>c, <1>5, GotoType DEF KnownHandles, Advance, Stay, CurTypeOK, supVars
    <2> QED  BY <1>a, <1>5, <2>1, <2>2, <2>3
             DEF SharedTypeOK, KnownHandles, KernelTypeOK, kernelVars, unitVars, RecordTypeOK, recordVars, GraftTypeOK, graftVars, kubeVars
  <1>6. CASE AdoptPublish
    <2>1. PcTypeOK'
      BY <1>a, <1>6, GotoType DEF AdoptPublish, Advance, Stay, PcTypeOK, LabelOf
    <2>2. RecordTypeOK'
      BY <1>a, <1>6, <1>c, PublishRecordType DEF AdoptPublish, RecordTypeOK, recordVars
    <2>3. SupTypeOK'
      BY <1>a, <1>c, <1>6, DiscoverAssumption DEF AdoptPublish, Advance, Stay, SupTypeOK, supVars, Path
    <2>4. CurTypeOK'
      BY <1>a, <1>b, <1>c, <1>6, GotoType DEF AdoptPublish, Advance, Stay, CurTypeOK, supVars
    <2> QED  BY <1>a, <1>6, <2>1, <2>2, <2>3, <2>4
             DEF SharedTypeOK, AdoptPublish, KernelTypeOK, kernelVars, unitVars, GraftTypeOK, graftVars, kubeVars
  <1>7. CASE WatchIds
    <2>1. PcTypeOK'
      BY <1>a, <1>7, GotoType DEF WatchIds, Advance, Stay, PcTypeOK, LabelOf
    <2>2. SupTypeOK'
      BY <1>a, <1>c, <1>7, DiscoverAssumption DEF WatchIds, Advance, Stay, SupTypeOK, supVars, Path
    <2>3. CurTypeOK'
      BY <1>a, <1>b, <1>c, <1>7, GotoType DEF WatchIds, Advance, Stay, CurTypeOK, supVars
    <2> QED  BY <1>a, <1>7, <2>1, <2>2, <2>3
             DEF SharedTypeOK, WatchIds, KernelTypeOK, kernelVars, unitVars, RecordTypeOK, recordVars, GraftTypeOK, graftVars, kubeVars
  <1>8. CASE EnsureWatch
    <2>1. PcTypeOK'
      BY <1>a, <1>8, GotoType DEF EnsureWatch, Advance, Stay, PcTypeOK, LabelOf
    <2>2. SupTypeOK'
      BY <1>a, <1>c, <1>8, DiscoverAssumption DEF EnsureWatch, Advance, Stay, SupTypeOK, supVars, Path
    <2>3. CurTypeOK'
      BY <1>a, <1>b, <1>c, <1>8, GotoType DEF EnsureWatch, Advance, Stay, CurTypeOK, supVars
    <2> QED  BY <1>a, <1>8, <2>1, <2>2, <2>3
             DEF SharedTypeOK, EnsureWatch, ensureWatch, startWatch, KernelTypeOK, kernelVars, unitVars, RecordTypeOK, recordVars, GraftTypeOK, graftVars, kubeVars
  <1>9. CASE Snapshot
    <2>1. PcTypeOK'
      BY <1>a, <1>9, GotoType DEF Snapshot, Advance, Stay, PcTypeOK, LabelOf
    <2>2. SupTypeOK'
      BY <1>a, <1>c, <1>9, DiscoverAssumption DEF Snapshot, Advance, Stay, SupTypeOK, supVars, Path
    <2>3. CurTypeOK'
      BY <1>a, <1>b, <1>c, <1>9, GotoType DEF Snapshot, Advance, Stay, CurTypeOK, supVars
    <2> QED  BY <1>a, <1>9, <2>1, <2>2, <2>3
             DEF SharedTypeOK, Snapshot, KernelTypeOK, kernelVars, unitVars, RecordTypeOK, recordVars, GraftTypeOK, graftVars, kubeVars
  <1>10. CASE CheckVolume
    <2>1. PcTypeOK'
      BY <1>a, <1>10, GotoType DEF CheckVolume, Advance, Stay, PcTypeOK, LabelOf
    <2>2. SupTypeOK'
      BY <1>a, <1>c, <1>10, DiscoverAssumption DEF CheckVolume, Advance, Stay, SupTypeOK, supVars, Path
    <2>3. CurTypeOK'
      BY <1>a, <1>b, <1>c, <1>10, GotoType DEF CheckVolume, Advance, Stay, CurTypeOK, supVars
    <2> QED  BY <1>a, <1>10, <2>1, <2>2, <2>3
             DEF SharedTypeOK, CheckVolume, KernelTypeOK, kernelVars, unitVars, RecordTypeOK, recordVars, GraftTypeOK, graftVars, kubeVars
  <1>11. CASE HealDevice
    <2>1. PcTypeOK'
      BY <1>a, <1>11, GotoType DEF HealDevice, Advance, Stay, PcTypeOK, LabelOf
    <2>2. GraftTypeOK'
      BY <1>a, <1>11, <1>c, TopType DEF HealDevice, Advance, mountDevice, GraftTypeOK, graftVars, Path
    <2>3. SupTypeOK'
      BY <1>a, <1>c, <1>11, DiscoverAssumption DEF HealDevice, Advance, Stay, SupTypeOK, supVars, Path
    <2>4. CurTypeOK'
      BY <1>a, <1>b, <1>c, <1>11, GotoType DEF HealDevice, Advance, Stay, CurTypeOK, supVars
    <2> QED  BY <1>a, <1>11, <2>1, <2>2, <2>3, <2>4
             DEF SharedTypeOK, HealDevice, KernelTypeOK, kernelVars, unitVars, RecordTypeOK, recordVars, kubeVars
  <1>12. CASE HealUnbind
    <2>1. PcTypeOK'
      BY <1>a, <1>12, GotoType DEF HealUnbind, Advance, Stay, PcTypeOK, LabelOf
    <2>2. KernelTypeOK'
      BY <1>a, <1>12, LazyUnmountType DEF HealUnbind, KernelTypeOK, kernelVars, unitVars
    <2>3. SupTypeOK'
      BY <1>a, <1>c, <1>12, DiscoverAssumption DEF HealUnbind, Advance, Stay, SupTypeOK, supVars, Path
    <2>4. CurTypeOK'
      BY <1>a, <1>b, <1>c, <1>12, GotoType DEF HealUnbind, Advance, Stay, CurTypeOK, supVars
    <2> QED  BY <1>a, <1>12, <2>1, <2>2, <2>3, <2>4
             DEF SharedTypeOK, HealUnbind, RecordTypeOK, recordVars, GraftTypeOK, graftVars, kubeVars
  <1>13. CASE HealUnstage
    <2>1. PcTypeOK'
      BY <1>a, <1>13, GotoType DEF HealUnstage, Advance, Stay, PcTypeOK, LabelOf
    <2>2. KernelTypeOK'
      BY <1>a, <1>13, LazyUnmountType DEF HealUnstage
    <2>3. SupTypeOK'
      BY <1>a, <1>c, <1>13, DiscoverAssumption DEF HealUnstage, Advance, Stay, SupTypeOK, supVars, Path
    <2>4. CurTypeOK'
      BY <1>a, <1>b, <1>c, <1>13, GotoType DEF HealUnstage, Advance, Stay, CurTypeOK, supVars
    <2> QED  BY <1>a, <1>13, <2>1, <2>2, <2>3, <2>4
             DEF SharedTypeOK, HealUnstage, RecordTypeOK, recordVars, GraftTypeOK, graftVars, kubeVars
  <1>14. CASE HealMount
    <2>1. PcTypeOK'
      BY <1>a, <1>14, GotoType DEF HealMount, Advance, Stay, PcTypeOK, LabelOf
    <2>2. KernelTypeOK'
      BY <1>a, <1>14, <1>c, MountType DEF HealMount, Advance
    <2>3. GraftTypeOK'
      BY <1>a, <1>14 DEF HealMount, GraftTypeOK, graftVars
    <2>4. faults' \in 0..MaxFaults
      BY <1>a, <1>14, MountFaultType DEF HealMount
    <2>5. SupTypeOK'
      BY <1>a, <1>c, <1>14, DiscoverAssumption DEF HealMount, Advance, Stay, SupTypeOK, supVars, Path
    <2>6. CurTypeOK'
      BY <1>a, <1>b, <1>c, <1>14, GotoType DEF HealMount, Advance, Stay, CurTypeOK, supVars
    <2> QED  BY <1>a, <1>14, <2>1, <2>2, <2>3, <2>4, <2>5, <2>6
             DEF SharedTypeOK, HealMount, RecordTypeOK, recordVars, kubeVars
  <1>15. CASE HealWatch
    <2>1. PcTypeOK'
      BY <1>a, <1>15, GotoType DEF HealWatch, Advance, Stay, PcTypeOK, LabelOf
    <2>2. SupTypeOK'
      BY <1>a, <1>c, <1>15, DiscoverAssumption DEF HealWatch, Advance, Stay, SupTypeOK, supVars, Path
    <2>3. CurTypeOK'
      BY <1>a, <1>b, <1>c, <1>15, GotoType DEF HealWatch, Advance, Stay, CurTypeOK, supVars
    <2> QED  BY <1>a, <1>15, <2>1, <2>2, <2>3
             DEF SharedTypeOK, HealWatch, startWatch, KernelTypeOK, kernelVars, unitVars, RecordTypeOK, recordVars, GraftTypeOK, graftVars, kubeVars
  <1>16. CASE HealBind
    <2>1. PcTypeOK'
      BY <1>a, <1>16, GotoType DEF HealBind, Advance, Stay, PcTypeOK, LabelOf
    <2>2. KernelTypeOK'
      BY <1>a, <1>16, <1>c, BindType DEF HealBind, Stay, KernelTypeOK, kernelVars, unitVars
    <2>3. faults' \in 0..MaxFaults
      BY <1>a, <1>16, FaultType DEF HealBind, BindOk, BindFails
    <2>4. SupTypeOK'
      BY <1>a, <1>c, <1>16, DiscoverAssumption DEF HealBind, Advance, Stay, SupTypeOK, supVars, Path
    <2>5. CurTypeOK'
      BY <1>a, <1>b, <1>c, <1>16, GotoType DEF HealBind, Advance, Stay, CurTypeOK, supVars
    <2> QED  BY <1>a, <1>16, <2>1, <2>2, <2>3, <2>4, <2>5
             DEF SharedTypeOK, HealBind, RecordTypeOK, recordVars, GraftTypeOK, graftVars, kubeVars
  <1>17. CASE HealMark
    <2>1. PcTypeOK'
      BY <1>a, <1>17, GotoType DEF HealMark, Advance, Stay, PcTypeOK, LabelOf
    <2>2. RecordTypeOK'
      BY <1>a, <1>17, <1>c, DeadRecordType DEF HealMark, Advance
    <2>3. GraftTypeOK'
      BY <1>a, <1>17 DEF HealMark, GraftTypeOK, graftVars
    <2>4. SupTypeOK'
      BY <1>a, <1>c, <1>17, DiscoverAssumption DEF HealMark, Advance, Stay, SupTypeOK, supVars, Path
    <2>5. CurTypeOK'
      BY <1>a, <1>b, <1>c, <1>17, GotoType DEF HealMark, Advance, Stay, CurTypeOK, supVars
    <2> QED  BY <1>a, <1>17, <2>1, <2>2, <2>3, <2>4, <2>5
             DEF SharedTypeOK, HealMark, KernelTypeOK, kernelVars, unitVars, kubeVars
  <1>18. CASE Grafted
    <2>1. PcTypeOK'
      BY <1>a, <1>18, GotoType DEF Grafted, Advance, Stay, PcTypeOK, LabelOf
    <2>2. SupTypeOK'
      BY <1>a, <1>c, <1>18, DiscoverAssumption DEF Grafted, Advance, Stay, SupTypeOK, supVars, Path
    <2>3. CurTypeOK'
      BY <1>a, <1>b, <1>c, <1>18, GotoType DEF Grafted, Advance, Stay, CurTypeOK, supVars
    <2> QED  BY <1>a, <1>18, <2>1, <2>2, <2>3
             DEF SharedTypeOK, Grafted, KernelTypeOK, kernelVars, unitVars, RecordTypeOK, recordVars, GraftTypeOK, graftVars, kubeVars
  <1>19. CASE Tick
    <2>1. PcTypeOK'
      BY <1>a, <1>19, GotoType DEF Tick, Advance, Stay, PcTypeOK, LabelOf
    <2>2. SupTypeOK'
      BY <1>a, <1>c, <1>19, DiscoverAssumption DEF Tick, Advance, Stay, SupTypeOK, supVars, Path
    <2>3. CurTypeOK'
      BY <1>a, <1>b, <1>c, <1>19, GotoType DEF Tick, Advance, Stay, CurTypeOK, supVars
    <2> QED  BY <1>a, <1>19, <2>1, <2>2, <2>3
             DEF SharedTypeOK, Tick, KernelTypeOK, kernelVars, unitVars, RecordTypeOK, recordVars, GraftTypeOK, graftVars, kubeVars
  <1>20. CASE graftHolders(Sup) /\ UNCHANGED <<kubeVars, supVars>>
    <2>1. SharedTypeOK'
      BY <1>a, <1>20, GraftType
    <2>2. SupTypeOK'
      BY <1>20 DEF SupTypeOK, supVars
    <2>3. pc'[Sup] \notin Busy
      BY <1>a, <1>20, GotoType, Labels, NodeAssumption
         DEF graftHolders, GraftSnapshot, GraftProbe, GraftScan, GraftHolder, GraftScanned, GraftDone,
             AfterGraft, Path, GraftLabel
    <2> QED  BY <1>b, <1>20, <2>1, <2>2, <2>3 DEF CurTypeOK
  <1> QED  BY <1>1, <1>2, <1>3, <1>4, <1>5, <1>6, <1>7, <1>8, <1>9, <1>10, <1>11, <1>12, <1>13,
              <1>14, <1>15, <1>16, <1>17, <1>18, <1>19, <1>20
           DEF run, discover, ensureWatches, heal

\* The kubelet and the containers keep the types.
LEMMA KubeletType ==
    ASSUME TypeOK, kubelet
    PROVE  TypeOK'
  <1>a. /\ KernelTypeOK /\ RecordTypeOK /\ GraftTypeOK /\ PcTypeOK
        /\ watches \subseteq Vol /\ faults \in 0..MaxFaults
        /\ kst \in [Vol -> StageState] /\ kpub \in [Target -> PublishState]
        /\ SupTypeOK /\ CurTypeOK
        /\ \A c \in Container : At[c] \in Path
    BY NodeAssumption DEF TypeOK, StateTypeOK, Path
  <1>b. \A p \in Path : /\ p \in Proc /\ p # Sup
                        /\ {"idle", "probe"} \subseteq LabelOf(p)
    BY Labels, NodeAssumption DEF Path, Proc, ReviveLabel
  <1>c. UNCHANGED <<recordVars, watches, faults, dev, graftVars, supVars>>
    BY DEF kubelet
  <1>d. RecordTypeOK' /\ GraftTypeOK' /\ SupTypeOK' /\ watches' \subseteq Vol /\ faults' \in 0..MaxFaults
    BY <1>a, <1>c DEF RecordTypeOK, GraftTypeOK, SupTypeOK, recordVars, graftVars, supVars
  <1> DEFINE Rest == /\ KernelTypeOK' /\ PcTypeOK'
                     /\ kst' \in [Vol -> StageState] /\ kpub' \in [Target -> PublishState]
                     /\ pc'[Sup] = pc[Sup]
  <1>e. SUFFICES Rest
    BY <1>a, <1>c, <1>d DEF TypeOK, StateTypeOK, CurTypeOK, supVars
  <1>1. ASSUME NEW v \in Vol, SendStage(v)
        PROVE  Rest
    <2>1. PcTypeOK' /\ pc'[Sup] = pc[Sup]
      BY <1>a, <1>b, <1>1, GotoType DEF SendStage, Path, Proc
    <2>2. KernelTypeOK'
      BY <1>a, <1>1 DEF SendStage, KernelTypeOK, unitVars, Path
    <2> QED  BY <1>a, <1>1, <2>1, <2>2 DEF SendStage, StageState
  <1>2. ASSUME NEW v \in Vol, SendUnstage(v)
        PROVE  Rest
    <2>1. PcTypeOK' /\ pc'[Sup] = pc[Sup]
      BY <1>a, <1>b, <1>2, GotoType, Labels DEF SendUnstage, Step, Path, Proc
    <2> QED  BY <1>a, <1>2, <2>1 DEF SendUnstage, StageState, PublishState, KernelTypeOK, kernelVars, unitVars
  <1>3. ASSUME NEW v \in Vol, ReplyVolume(v)
        PROVE  Rest
    <2>1. PcTypeOK' /\ pc'[Sup] = pc[Sup]
      BY <1>a, <1>b, <1>3, GotoType, Labels DEF ReplyVolume, Step, Path, Proc
    <2> QED  BY <1>a, <1>3, <2>1 DEF ReplyVolume, StageState, PublishState, KernelTypeOK, kernelVars, unitVars
  <1>4. ASSUME NEW v \in Vol, RemoveStageDir(v)
        PROVE  Rest
    BY <1>a, <1>4 DEF RemoveStageDir, KernelTypeOK, unitVars, PcTypeOK, LabelOf, kubeVars
  <1>5. ASSUME NEW t \in Target, SendPublish(t)
        PROVE  Rest
    <2>1. PcTypeOK' /\ pc'[Sup] = pc[Sup]
      BY <1>a, <1>b, <1>5, GotoType, Labels DEF SendPublish, Step, Path, Proc
    <2> QED  BY <1>a, <1>5, <2>1 DEF SendPublish, StageState, PublishState, KernelTypeOK, kernelVars, unitVars
  <1>6. ASSUME NEW t \in Target, SendUnpublish(t)
        PROVE  Rest
    <2>1. PcTypeOK' /\ pc'[Sup] = pc[Sup]
      BY <1>a, <1>b, <1>6, GotoType, Labels DEF SendUnpublish, Step, Path, Proc
    <2> QED  BY <1>a, <1>6, <2>1 DEF SendUnpublish, StageState, PublishState, KernelTypeOK, kernelVars, unitVars
  <1>7. ASSUME NEW t \in Target, ReplyTarget(t)
        PROVE  Rest
    <2>1. PcTypeOK' /\ pc'[Sup] = pc[Sup]
      BY <1>a, <1>b, <1>7, GotoType, Labels DEF ReplyTarget, Step, Path, Proc
    <2> QED  BY <1>a, <1>7, <2>1 DEF ReplyTarget, StageState, PublishState, KernelTypeOK, kernelVars, unitVars
  <1>8. ASSUME NEW c \in Container, StartContainer(c) \/ StopContainer(c)
        PROVE  Rest
    <2>1. Source(At[c]) \in Held /\ "exited" \in Held
      BY <1>a, SourceType DEF Held
    <2>2. KernelTypeOK'
      BY <1>a, <1>8, <2>1, HeldType DEF StartContainer, StopContainer
    <2> QED  BY <1>a, <1>8, <2>2 DEF StartContainer, StopContainer, PcTypeOK, LabelOf, kubeVars
  <1> QED  BY <1>1, <1>2, <1>3, <1>4, <1>5, <1>6, <1>7, <1>8 DEF kubelet

\* So do a mounter that dies, a unit that ends and a plugin that restarts.
LEMMA FailureType ==
    ASSUME TypeOK, MounterDies \/ ExecStopPost \/ CrashRestart
    PROVE  TypeOK'
  <1>1. CASE MounterDies
    BY <1>1, FaultType
       DEF MounterDies, TypeOK, StateTypeOK, KernelTypeOK, unitVars, RecordTypeOK, GraftTypeOK, SupTypeOK,
           CurTypeOK, PcTypeOK, LabelOf, recordVars, kubeVars, procVars, graftVars, supVars
  <1>2. CASE CrashRestart
    <2>1. KernelTypeOK' /\ RecordTypeOK' /\ watches' \subseteq Vol /\ faults' \in 0..MaxFaults
          /\ kst' \in [Vol -> StageState] /\ kpub' \in [Target -> PublishState]
      BY <1>2, FaultType DEF CrashRestart, TypeOK, StateTypeOK, KernelTypeOK, unitVars, RecordTypeOK, kubeVars
    <2>2. GraftTypeOK'
      BY <1>2 DEF CrashRestart, GraftTypeOK, NoStage
    <2>3. SupTypeOK'
      BY <1>2, DiscoverAssumption DEF CrashRestart, SupTypeOK, NoRecords
    <2>0. pc' = [p \in Proc |-> IF p = Sup THEN "scan" ELSE "idle"]
      BY <1>2 DEF CrashRestart
    <2>4. \A p \in Proc : pc'[p] \in LabelOf(p)
      BY <2>0, NodeAssumption, Labels DEF Proc, SupLabel, DiscoverLabel
    <2>5. PcTypeOK' /\ CurTypeOK'
      BY <2>0, <2>4 DEF PcTypeOK, CurTypeOK, LabelOf, HealLabel, Proc
    <2> QED  BY <2>1, <2>2, <2>3, <2>5 DEF TypeOK, StateTypeOK
  <1>3. CASE ExecStopPost
    <2>1. KernelTypeOK'
      <3>1. PICK v \in Vol : Detach(v) /\ loaded' = loaded \ {v}
        BY <1>3 DEF ExecStopPost
      <3> QED  BY <1>3, <3>1, DetachType DEF ExecStopPost, TypeOK, StateTypeOK
    <2> QED  BY <1>3, <2>1
             DEF ExecStopPost, TypeOK, StateTypeOK, RecordTypeOK, GraftTypeOK, SupTypeOK,
                 CurTypeOK, PcTypeOK, LabelOf, recordVars, kubeVars, procVars, graftVars, supVars
  <1> QED  BY <1>1, <1>2, <1>3

\* A step of the handler of a path moves no other process.
LEMMA HandlerMoves ==
    ASSUME PcTypeOK, NEW p \in Path, HandlerOf(p)
    PROVE  \A q \in Proc \ {p} : pc'[q] = pc[q]
  <1> DEFINE Moves == \A q \in Proc \ {p} : pc'[q] = pc[q]
  <1>1. ASSUME NEW l, Goto(p, l) PROVE Moves
    BY <1>1 DEF Goto, PcTypeOK
  <1>2. CASE graftHolders(p)
    BY <1>1, <1>2 DEF graftHolders, GraftSnapshot, GraftProbe, GraftScan, GraftHolder, GraftScanned, GraftDone
  <1>3. CASE Revive(p) /\ ~graftHolders(p)
    <2>1. CASE DeadMountProbe(p) \/ DeadMountDevice(p) \/ DetachStaging(p) \/ RecordStaging(p)
      BY <1>1, <2>1 DEF DeadMountProbe, DeadMountDevice, DetachStaging, RecordStaging, Step
    <2>2. CASE WatchStaging(p) \/ MarkStaging(p) \/ MountStaging(p)
      BY <1>1, <2>2 DEF WatchStaging, MarkStaging, MountStaging, Step
    <2>3. CASE CheckStaging(p)
      BY <1>1, <2>3 DEF CheckStaging, checkMount
    <2> QED  BY <1>3, <2>1, <2>2, <2>3 DEF Revive
  <1>4. CASE ~Revive(p)
    BY <1>1, <1>4 DEF HandlerOf, NodeStageVolume, NodeUnstageVolume, NodePublishVolume, NodeUnpublishVolume,
           RecordAgain, EnsureAgain, CheckTarget, DetachTarget, BindTarget, RecordTarget,
           CleanupCheck, CleanupUnmount, CleanupRemove, ForgetTarget, FindMounter, SystemdUnmount, UnitStopped,
           UnmountStaging, ForgetWatch, ForgetStaging, Step, checkMount
  <1> QED  BY <1>2, <1>3, <1>4

\* The first plugin starts with well-formed, empty records.
LEMMA InitType == Init => TypeOK
  <1> SUFFICES ASSUME Init PROVE TypeOK
    OBVIOUS
  <1>1. KernelTypeOK
    <2>1. << >> \in Seq(Dev) /\ << >> \in Seq(Dev \cup {Bare})
      OBVIOUS
    <2>2. /\ mnt \in [Path -> Seq(Dev \cup {Bare})]
          /\ \A v \in Vol : mnt[v] \in Seq(Dev)
      BY <2>1 DEF Init, StateInit, Path
    <2>3. held \in [Container -> Held]
      BY DEF Init, StateInit, Held
    <2> QED  BY <2>2, <2>3 DEF Init, StateInit, KernelTypeOK
  <1>2. StateTypeOK
    BY <1>1, NodeAssumption
       DEF Init, StateInit, StateTypeOK, RecordTypeOK, Records, NoRecords, StageState, PublishState
  <1>3. GraftTypeOK /\ SupTypeOK
    BY DiscoverAssumption DEF Init, GraftInit, SupInit, GraftTypeOK, SupTypeOK, NoStage, NoRecords
  <1>4. \A p \in Proc : pc[p] \in LabelOf(p)
    BY NodeAssumption, Labels DEF Init, Proc, SupLabel, DiscoverLabel
  <1>5. PcTypeOK /\ CurTypeOK
    BY <1>4 DEF Init, PcTypeOK, CurTypeOK, HealLabel, Proc
  <1> QED  BY <1>2, <1>3, <1>5 DEF TypeOK

\* Every step keeps the types.
LEMMA NextType == TypeOK /\ [Next]_vars => TypeOK'
  <1> SUFFICES ASSUME TypeOK, [Next]_vars PROVE TypeOK'
    OBVIOUS
  <1>a. SharedTypeOK /\ SupTypeOK /\ CurTypeOK /\ kst \in [Vol -> StageState] /\ kpub \in [Target -> PublishState]
    BY DEF TypeOK, StateTypeOK, SharedTypeOK
  <1>1. ASSUME NEW p \in Path, HandlerOf(p)
        PROVE  TypeOK'
    <2>1. SharedTypeOK'
      BY <1>a, <1>1, HandlerType
    <2>2. SupTypeOK'
      BY <1>a, <1>1 DEF HandlerOf, SupTypeOK, supVars
    <2>3. UNCHANGED kubeVars /\ UNCHANGED supVars
      BY <1>1 DEF HandlerOf, NodeStageVolume, NodeUnstageVolume, NodePublishVolume, NodeUnpublishVolume,
           Revive, DeadMountProbe, DeadMountDevice, CheckStaging, DetachStaging, MountStaging,
           RecordStaging, WatchStaging, MarkStaging, RecordAgain, EnsureAgain, CheckTarget,
           DetachTarget, BindTarget, RecordTarget, CleanupCheck, CleanupUnmount, CleanupRemove,
           ForgetTarget, FindMounter, SystemdUnmount, UnitStopped, UnmountStaging, ForgetWatch, ForgetStaging
    <2>4. pc'[Sup] = pc[Sup]
      BY <1>a, <1>1, HandlerMoves, NodeAssumption DEF SharedTypeOK, Proc, Path
    <2> QED  BY <1>a, <2>1, <2>2, <2>3, <2>4 DEF TypeOK, StateTypeOK, SharedTypeOK, CurTypeOK, kubeVars, supVars
  <1>2. CASE run
    BY <1>a, <1>2, RunType DEF TypeOK, StateTypeOK, SharedTypeOK, kubeVars
  <1>3. CASE kubelet
    BY <1>3, KubeletType
  <1>4. CASE MounterDies \/ ExecStopPost \/ CrashRestart
    BY <1>4, FailureType
  <1>5. CASE UNCHANGED vars
    BY <1>5 DEF vars, procVars, TypeOK, StateTypeOK, KernelTypeOK, RecordTypeOK, GraftTypeOK, SupTypeOK,
         CurTypeOK, PcTypeOK, LabelOf, kernelVars, unitVars, recordVars, kubeVars, graftVars, supVars
  <1> QED  BY <1>1, <1>2, <1>3, <1>4, <1>5 DEF Next

\* Every variable keeps its type: no RPC, round of the supervisor, retry or
\* restart leaves the records, the mount table or a process outside its domain.
THEOREM TypeCorrect == Spec => []TypeOK
  BY InitType, NextType, PTL DEF Spec
=============================================================================
