------------------------- MODULE NodePluginForgets -------------------------
(***************************************************************************)
(* What graftHolders forgets when the supervisor is the only one to call   *)
(* it, for any volumes, targets, containers, devices and failures.  With a *)
(* second caller, or a unit whose ExecStopPost takes a corpse away, it     *)
(* forgets too much.                                                       *)
(***************************************************************************)
EXTENDS NodePluginSafety

\* No RPC runs, and no mounter is in a unit.
Alone == Rpcs = {} /\ UnitVol = {}

\* There is a device number for the mount of every volume.
EnoughDevices == \E f \in [Vol -> Dev] : \A v, w \in Vol : f[v] = f[w] => v = w

IdleInv ==
    /\ \A p \in Path : pc[p] = "idle"
    /\ disk = mem /\ mem.known = Vol

\* Copied or not, the publishes of a volume are its own.
ListInv ==
    /\ \A v \in Vol : mem.pubs[v] \cup snap[v] \subseteq TargetsOf(v)
    /\ pc[Sup] \in HealLabel \ {"hdevice"} => st \subseteq TargetsOf(cur)

\* A live mount at a target is the visible one of the staging path, and heal
\* takes that one away only when it is dead.
Shows(t) == Entries(mnt, t) \cap live

BoundInv ==
    /\ \A t \in Target : \A e \in Shows(t) : mountDevice(VolOf[t]) = e
    /\ pc[Sup] \in {"hdevice", "hunbind", "hunstage"} => mountDevice(cur) \notin live
    /\ pc[Sup] = "hmount" => \A t \in TargetsOf(cur) : Shows(t) = {}

\* All dead devices are in graftHolders' copy.  A container with one of them is
\* on its list, or got it since, with a mount that is at a staging path.
HolderInv ==
    /\ pc[Sup] \in {"gprobe", "gscan", "gheal", "gdone"} =>
         \A v \in Vol : \A d \in mem.dead[v] : gstage[Sup][d] # NoVol
    /\ pc[Sup] \in {"gheal", "gdone"} =>
         \A c \in Container : \A d \in Dev :
           held[c] = d /\ gstage[Sup][d] # NoVol /\ d \notin gkeep[Sup] =>
             <<c, d>> \in ghold[Sup] \/ \E w \in Vol : mountDevice(w) = d
    /\ pc[Sup] = "gheal" => \A c \in Container : \A d \in Dev :
                              <<c, d>> \in ghold[Sup] => gstage[Sup][d] # NoVol
    /\ pc[Sup] = "gdone" => ghold[Sup] = {}

ForgetInv == IdleInv /\ ListInv /\ BoundInv /\ HolderInv

(***************************************************************************)
(* The mounts of a path.                                                   *)
(***************************************************************************)
LEMMA PopEntries ==
    ASSUME KernelTypeOK, NEW p \in Path, lazyUnmount(p)
    PROVE  /\ \A q \in Path : q # p => mnt'[q] = mnt[q]
           /\ Entries(mnt', p) \subseteq Entries(mnt, p)
           /\ live' \subseteq live
  <1>1. CASE ~Mounted(p)
    BY <1>1 DEF lazyUnmount, Detach
  <1>2. CASE Mounted(p)
    <2>1. mnt[p] \in Seq(Dev \cup {Bare}) /\ mnt[p] # << >>
      BY <1>2 DEF KernelTypeOK, Mounted
    <2>2. Len(mnt[p]) \in Nat /\ Len(mnt[p]) # 0
      BY <2>1, EmptySeq
    <2>3. mnt'[p] = Pop(mnt[p]) /\ (\A q \in Path : q # p => mnt'[q] = mnt[q]) /\ live' \subseteq live
      BY <1>2 DEF lazyUnmount, Detach, SetMounts, KernelTypeOK
    <2>4. /\ Len(Pop(mnt[p])) = Len(mnt[p]) - 1
          /\ \A i \in 1..(Len(mnt[p]) - 1) : Pop(mnt[p])[i] = mnt[p][i]
      BY <2>1, <2>2 DEF Pop
    <2>5. \A i \in 1..(Len(mnt[p]) - 1) : i \in 1..Len(mnt[p])
      BY <2>2
    <2> QED  BY <2>3, <2>4, <2>5 DEF Entries
  <1> QED  BY <1>1, <1>2

LEMMA BindEntries ==
    ASSUME KernelTypeOK, NEW v \in Vol, NEW t \in Target, BindOk(v, t)
    PROVE  /\ \A q \in Path : q # t => mnt'[q] = mnt[q]
           /\ Entries(mnt', t) \subseteq Entries(mnt, t) \cup {Source(v)}
           /\ live' \subseteq live
  <1>1. t \in Path /\ mnt[t] \in Seq(Dev \cup {Bare}) /\ Source(v) \in Dev \cup {Bare}
    BY SourceType DEF KernelTypeOK, Path
  <1>2. /\ mnt'[t] = Append(mnt[t], Source(v)) /\ live' \subseteq live
        /\ \A q \in Path : q # t => mnt'[q] = mnt[q]
    BY <1>1 DEF BindOk, SetMounts, KernelTypeOK
  <1>3. /\ Len(Append(mnt[t], Source(v))) = Len(mnt[t]) + 1
        /\ \A i \in 1..(Len(mnt[t]) + 1) :
             Append(mnt[t], Source(v))[i] = IF i = Len(mnt[t]) + 1 THEN Source(v) ELSE mnt[t][i]
    BY <1>1, AppendProperties
  <1>4. \A i \in 1..(Len(mnt[t]) + 1) : i = Len(mnt[t]) + 1 \/ i \in 1..Len(mnt[t])
    BY <1>1
  <1> QED  BY <1>2, <1>3, <1>4 DEF Entries

\* A new mounter's device is at no target.
LEMMA MountEntries ==
    ASSUME KernelTypeOK, NEW v \in Vol, MountOk(v) \/ MountFails(v)
    PROVE  /\ \A q \in Path : q # v => mnt'[q] = mnt[q]
           /\ \A t \in Target : Entries(mnt', t) = Entries(mnt, t)
           /\ \A t \in Target : \A e \in Entries(mnt, t) : e \in live' => e \in live
  <1>1. (\E u \in BOOLEAN : StartMounter(v, u)) \/ UNCHANGED kernelVars
    BY DEF MountOk, MountFails, MountDirect, StartTransientUnit, MountFallback
  <1>a. \A t \in Target : t \in Path /\ t # v
    BY NodeAssumption DEF Path
  <1>2. CASE UNCHANGED kernelVars
    BY <1>2 DEF kernelVars, Entries
  <1>3. ASSUME NEW u \in BOOLEAN, StartMounter(v, u)
        PROVE  /\ \A q \in Path : q # v => mnt'[q] = mnt[q]
               /\ \A t \in Target : Entries(mnt', t) = Entries(mnt, t)
               /\ \A t \in Target : \A e \in Entries(mnt, t) : e \in live' => e \in live
    <2>1. PICK d \in Dev \ InUse(mnt, held) :
            mnt' = [mnt EXCEPT ![v] = Append(@, d)] /\ live' = live \cup {d}
      BY <1>3 DEF StartMounter
    <2>2. \A q \in Path : q # v => mnt'[q] = mnt[q]
      BY <2>1 DEF KernelTypeOK
    <2>3. \A t \in Target : d \notin Entries(mnt, t)
      BY <1>a, <2>1 DEF InUse
    <2> QED  BY <1>a, <2>1, <2>2, <2>3 DEF Entries
  <1> QED  BY <1>1, <1>2, <1>3

\* Steps that leave the staging paths alone and mount nothing alive.
LEMMA BoundFrame ==
    ASSUME BoundInv, \A v \in Vol : mnt'[v] = mnt[v],
           \A t \in Target : Entries(mnt', t) \subseteq Entries(mnt, t), live' \subseteq live,
           \/ pc'[Sup] = pc[Sup] /\ cur' = cur /\ CurTypeOK
           \/ pc'[Sup] \notin {"hdevice", "hunbind", "hunstage", "hmount"}
    PROVE  BoundInv'
  <1>1. \A t \in Target : Shows(t)' \subseteq Shows(t)
    BY DEF Shows, Entries
  <1>2. \A v \in Vol : UNCHANGED mountDevice(v)
    BY DEF mountDevice, Mounted, Top
  <1>3. \A t \in Target : VolOf[t] \in Vol
    BY NodeAssumption
  <1>4. \A v : TargetsOf(v) \subseteq Target
    BY DEF TargetsOf
  <1>5. \A t \in Target : \A e \in Shows(t)' : mountDevice(VolOf[t])' = e
    BY <1>1, <1>2, <1>3 DEF BoundInv
  <1>6. CASE pc'[Sup] \notin {"hdevice", "hunbind", "hunstage", "hmount"}
    BY <1>5, <1>6 DEF BoundInv
  <1>7. CASE pc'[Sup] = pc[Sup] /\ cur' = cur /\ CurTypeOK
    <2>1. pc'[Sup] \in {"hdevice", "hunbind", "hunstage"} => mountDevice(cur)' \notin live'
      BY <1>2, <1>7 DEF BoundInv, CurTypeOK, HealLabel, mountDevice, Mounted, Top
    <2>2. pc'[Sup] = "hmount" => \A t \in TargetsOf(cur') : Shows(t)' = {}
      BY <1>1, <1>4, <1>7 DEF BoundInv
    <2> QED  BY <1>5, <2>1, <2>2 DEF BoundInv, TargetsOf
  <1> QED  BY <1>6, <1>7

(***************************************************************************)
(* The supervisor's steps.                                                 *)
(***************************************************************************)
LEMMA RunIdle ==
    ASSUME TypeOK, IdleInv, run
    PROVE  IdleInv'
  <1>1. \A p \in Path : pc'[p] = pc[p]
    BY RunFrame
  <1>2. disk' = mem' /\ Vol \subseteq mem'.known
    BY RunFrame DEF Keeps, IdleInv
  <1>3. mem'.known \subseteq Vol
    BY NextType DEF TypeOK, StateTypeOK, RecordTypeOK, Records, Next
  <1> QED  BY <1>1, <1>2, <1>3 DEF IdleInv

LEMMA RunList ==
    ASSUME TypeOK, ListInv, run
    PROVE  ListInv'
  <1>a. /\ mem \in Records /\ st \subseteq Target /\ cur \in Vol \cup {NoVol}
        /\ pc[Sup] \in HealLabel => cur \in Vol
    BY DEF TypeOK, StateTypeOK, RecordTypeOK, SupTypeOK, CurTypeOK
  <1>b. \A l : Goto(Sup, l) => pc'[Sup] = l
    BY DEF Goto, TypeOK, PcTypeOK, Proc
  <1>c. \A t \in Target : VolOf[t] \in Vol /\ t \in TargetsOf(VolOf[t])
    BY NodeAssumption DEF TargetsOf
  <1>1. \A v \in Vol : mem'.pubs[v] \subseteq TargetsOf(v)
    <2>1. CASE AdoptPublish
      <3>1. CASE UNCHANGED mem
        BY <3>1 DEF ListInv
      <3>2. ASSUME NEW t \in st, recordPublish(VolOf[t], t), ~UNCHANGED mem
            PROVE  \A v \in Vol : mem'.pubs[v] \subseteq TargetsOf(v)
        <4>1. /\ mem'.pubs[VolOf[t]] = mem.pubs[VolOf[t]] \cup {t}
              /\ \A v \in Vol : v # VolOf[t] => mem'.pubs[v] = mem.pubs[v]
          BY <1>a, <1>c, <3>2 DEF recordPublish, persist, Records, recordVars
        <4> QED  BY <1>a, <1>c, <4>1 DEF ListInv
      <3> QED  BY <2>1, <3>1, <3>2 DEF AdoptPublish, recordVars
    <2>2. CASE mem'.pubs = mem.pubs
      BY <2>2 DEF ListInv
    <2>3. CASE AdoptRecord \/ HealMark \/ GraftDone(Sup)
      <3>1. mem'.pubs = mem.pubs
        BY <1>a, <2>3 DEF AdoptRecord, recordStage, HealMark, markDead, GraftDone, persist, Records, recordVars
      <3> QED  BY <2>2, <3>1
    <2> QED
      BY <2>1, <2>2, <2>3
         DEF run, discover, ScanOwnMounts, KnownStages, AdoptStage, KnownHandles, ensureWatches, WatchIds,
             EnsureWatch, Snapshot, CheckVolume, heal, HealDevice, HealUnbind, HealUnstage, HealMount, HealWatch,
             HealBind, graftHolders, GraftSnapshot, GraftProbe, GraftScan, GraftHolder, GraftScanned,
             Grafted, Tick, recordVars
  <1>2. \A v \in Vol : snap'[v] \subseteq TargetsOf(v)
    <2>1. snap' = snap \/ snap' = mem.pubs
      BY DEF run, discover, ScanOwnMounts, KnownStages, AdoptStage, AdoptRecord, KnownHandles, AdoptPublish,
             ensureWatches, WatchIds, EnsureWatch, Snapshot, CheckVolume, heal, HealDevice, HealUnbind,
             HealUnstage, HealMount, HealWatch, HealBind, HealMark, Grafted, Tick, supVars
    <2> QED  BY <2>1 DEF ListInv
  <1>3. pc'[Sup] \in HealLabel \ {"hdevice"} => st' \subseteq TargetsOf(cur')
    <2>1. CASE HealDevice \/ HealWatch
      <3>1. pc[Sup] \in HealLabel /\ st' = snap[cur] /\ cur' = cur
        BY <2>1 DEF HealDevice, HealWatch, Advance, HealLabel
      <3> QED  BY <1>a, <3>1 DEF ListInv
    <2>2. CASE HealUnbind \/ HealUnstage \/ HealBind
      <3>1. pc[Sup] \in HealLabel \ {"hdevice"} /\ st' \subseteq st /\ cur' = cur
        BY <2>2 DEF HealUnbind, HealUnstage, HealBind, Advance, Stay, HealLabel, supVars
      <3> QED  BY <3>1 DEF ListInv
    <2>3. CASE HealMount
      <3>1. /\ pc[Sup] \in HealLabel \ {"hdevice"} /\ st' = st
            /\ cur' = cur \/ pc'[Sup] = "check"
        BY <1>b, <2>3 DEF HealMount, Advance, HealLabel
      <3> QED  BY <3>1 DEF ListInv, HealLabel
    <2>4. CASE CheckVolume
      BY <1>b, <2>4 DEF CheckVolume, Advance, Stay, HealLabel
    <2>5. CASE graftHolders(Sup)
      BY <2>5, GraftFrame DEF Proc, GraftLabel, HealLabel, AfterGraft
    <2>6. CASE discover \/ ensureWatches \/ Snapshot \/ HealMark \/ Grafted \/ Tick
      BY <1>b, <2>6
         DEF discover, ScanOwnMounts, KnownStages, AdoptStage, AdoptRecord, KnownHandles, AdoptPublish,
             ensureWatches, WatchIds, EnsureWatch, Snapshot, HealMark, Grafted, Tick, Advance, Stay, HealLabel
    <2> QED  BY <2>1, <2>2, <2>3, <2>4, <2>5, <2>6 DEF run, heal
  <1> QED  BY <1>1, <1>2, <1>3 DEF ListInv, TargetsOf

LEMMA RunBound ==
    ASSUME TypeOK, ListInv, BoundInv, run
    PROVE  BoundInv'
  <1>a. /\ KernelTypeOK /\ CurTypeOK /\ st \subseteq Target
        /\ pc[Sup] \in HealLabel => cur \in Vol
        /\ \A t \in Target : t \in Path /\ t \notin Vol /\ VolOf[t] \in Vol
        /\ \A v \in Vol : v \in Path /\ v \notin Target
        /\ Bare \notin live
    BY NodeAssumption DEF TypeOK, StateTypeOK, SupTypeOK, CurTypeOK, Path, KernelTypeOK, Bare
  <1>b. \A l : Goto(Sup, l) => pc'[Sup] = l
    BY DEF Goto, TypeOK, PcTypeOK, Proc
  <1>c. UNCHANGED mnt => \A t \in Target : Entries(mnt', t) = Entries(mnt, t)
    BY DEF Entries
  <1> DEFINE Front4 == {"hdevice", "hunbind", "hunstage", "hmount"}
  <1>1. CASE CheckVolume
    <2>1. UNCHANGED <<mnt, live>>
      BY <1>1 DEF CheckVolume, kernelVars
    <2>2. CASE pc'[Sup] \notin Front4
      BY <1>c, <2>1, <2>2, BoundFrame
    <2>3. CASE pc'[Sup] \in Front4
      <3>1. pc'[Sup] = "hdevice" /\ cur' \in Vol /\ mountDead(cur')
        BY <1>1, <1>b, <2>3 DEF CheckVolume, Advance, Stay, TypeOK, SupTypeOK
      <3>2. mountDevice(cur)' \notin live'
        BY <2>1, <3>1 DEF mountDead, mountDevice, Mounted, Top
      <3>3. \A t \in Target : \A e \in Shows(t)' : mountDevice(VolOf[t])' = e
        BY <2>1 DEF BoundInv, Shows, Entries, mountDevice, Mounted, Top
      <3> QED  BY <3>1, <3>2, <3>3 DEF BoundInv
    <2> QED  BY <2>2, <2>3
  <1>2. CASE HealDevice
    <2>1. UNCHANGED <<mnt, live, cur>> /\ pc[Sup] = "hdevice" /\ pc'[Sup] = "hunbind"
      BY <1>2, <1>b DEF HealDevice, Advance, kernelVars
    <2> QED  BY <2>1 DEF BoundInv, Shows, Entries, mountDevice, Mounted, Top
  <1>3. CASE HealUnbind
    <2>1. \/ UNCHANGED <<mnt, live>>
          \/ \E t \in st : lazyUnmount(t)
      BY <1>3 DEF HealUnbind, kernelVars
    <2>2. /\ \A v \in Vol : mnt'[v] = mnt[v]
          /\ \A t \in Target : Entries(mnt', t) \subseteq Entries(mnt, t)
          /\ live' \subseteq live
      <3>1. CASE UNCHANGED <<mnt, live>>
        BY <1>c, <3>1
      <3>2. ASSUME NEW u \in st, lazyUnmount(u)
            PROVE  /\ \A v \in Vol : mnt'[v] = mnt[v]
                   /\ \A t \in Target : Entries(mnt', t) \subseteq Entries(mnt, t)
                   /\ live' \subseteq live
        <4>1. u \in Target /\ u \in Path
          BY <1>a
        <4>2. /\ \A q \in Path : q # u => mnt'[q] = mnt[q]
              /\ Entries(mnt', u) \subseteq Entries(mnt, u)
              /\ live' \subseteq live
          BY <1>a, <3>2, <4>1, PopEntries
        <4>3. \A t \in Target : t # u => Entries(mnt', t) = Entries(mnt, t)
          BY <1>a, <4>2 DEF Entries
        <4> QED  BY <1>a, <4>1, <4>2, <4>3
      <3> QED  BY <2>1, <3>1, <3>2
    <2>3. /\ pc[Sup] = "hunbind" /\ pc'[Sup] \in {"hunbind", "hunstage"} /\ cur' = cur
      BY <1>3, <1>b DEF HealUnbind, Advance, Stay
    <2>4. \A t \in Target : Shows(t)' \subseteq Shows(t)
      BY <2>2 DEF Shows, Entries
    <2>5. cur \in Vol /\ \A v \in Vol : UNCHANGED mountDevice(v)
      BY <1>a, <2>2, <2>3 DEF mountDevice, Mounted, Top, HealLabel
    <2>6. \A t \in Target : \A e \in Shows(t)' : mountDevice(VolOf[t])' = e
      BY <1>a, <2>4, <2>5 DEF BoundInv
    <2>7. mountDevice(cur)' \notin live'
      BY <2>2, <2>3, <2>5 DEF BoundInv, mountDevice, Mounted, Top
    <2> QED  BY <2>3, <2>6, <2>7 DEF BoundInv
  <1>4. CASE HealUnstage
    <2>1. lazyUnmount(cur) /\ cur' = cur /\ pc[Sup] = "hunstage" /\ pc'[Sup] = "hmount"
      BY <1>4, <1>b DEF HealUnstage, Advance, supVars
    <2>2. cur \in Vol /\ cur \in Path
      BY <1>a, <2>1 DEF HealLabel
    <2>3. (\A q \in Path : q # cur => mnt'[q] = mnt[q]) /\ live' \subseteq live
      BY <1>a, <2>1, <2>2, PopEntries
    <2>4. \A t \in Target : Shows(t)' \subseteq Shows(t)
      BY <1>a, <2>2, <2>3 DEF Shows, Entries
    <2>5. \A t \in TargetsOf(cur) : Shows(t) = {}
      <3>1. ASSUME NEW t \in TargetsOf(cur), NEW e \in Shows(t) PROVE FALSE
        <4>1. mountDevice(cur) = e /\ e \in live
          BY <3>1 DEF BoundInv, TargetsOf, Shows
        <4> QED  BY <2>1, <4>1 DEF BoundInv
      <3> QED  BY <3>1
    <2>6. ASSUME NEW t \in Target, NEW e \in Shows(t)' PROVE mountDevice(VolOf[t])' = e
      <3>1. VolOf[t] # cur
        BY <2>4, <2>5 DEF TargetsOf
      <3>2. mountDevice(VolOf[t])' = mountDevice(VolOf[t])
        BY <1>a, <2>3, <3>1 DEF mountDevice, Mounted, Top
      <3> QED  BY <2>4, <3>2 DEF BoundInv
    <2>7. \A t \in TargetsOf(cur) : Shows(t)' = {}
      BY <2>4, <2>5 DEF TargetsOf
    <2> QED  BY <2>1, <2>6, <2>7 DEF BoundInv, TargetsOf
  <1>5. CASE HealMount
    <2>1. /\ MountOk(cur) \/ MountFails(cur)
          /\ pc[Sup] = "hmount" /\ pc'[Sup] \in {"hwatch", "check"}
      BY <1>5, <1>b DEF HealMount, Advance
    <2>2. cur \in Vol
      BY <1>a, <2>1 DEF HealLabel
    <2>3. /\ \A q \in Path : q # cur => mnt'[q] = mnt[q]
          /\ \A t \in Target : Shows(t)' \subseteq Shows(t)
      BY <1>a, <2>1, <2>2, MountEntries DEF Shows, Entries
    <2>4. ASSUME NEW t \in Target, NEW e \in Shows(t)' PROVE mountDevice(VolOf[t])' = e
      <3>1. VolOf[t] # cur
        BY <2>1, <2>3 DEF BoundInv, TargetsOf
      <3>2. mountDevice(VolOf[t])' = mountDevice(VolOf[t])
        BY <1>a, <2>3, <3>1 DEF mountDevice, Mounted, Top
      <3> QED  BY <2>3, <3>2 DEF BoundInv
    <2> QED  BY <2>1, <2>4 DEF BoundInv
  <1>6. CASE HealBind
    <2>1. /\ pc[Sup] = "hbind" /\ pc'[Sup] \in {"hbind", "hmark"}
          /\ \/ UNCHANGED <<mnt, live>>
             \/ \E t \in st : BindOk(cur, t)
      BY <1>6, <1>b DEF HealBind, Advance, Stay, BindFails, kernelVars
    <2>2. CASE UNCHANGED <<mnt, live>>
      BY <1>c, <2>1, <2>2, BoundFrame
    <2>3. ASSUME NEW u \in st, BindOk(cur, u) PROVE BoundInv'
      <3>1. cur \in Vol /\ u \in Target /\ VolOf[u] = cur
        BY <1>a, <2>1 DEF ListInv, HealLabel, TargetsOf
      <3>2. /\ \A q \in Path : q # u => mnt'[q] = mnt[q]
            /\ Entries(mnt', u) \subseteq Entries(mnt, u) \cup {Source(cur)}
            /\ live' \subseteq live
        BY <1>a, <2>3, <3>1, BindEntries
      <3>3. \A v \in Vol : UNCHANGED mountDevice(v)
        BY <1>a, <3>1, <3>2 DEF mountDevice, Mounted, Top
      <3>4. ASSUME NEW t \in Target, NEW e \in Shows(t)' PROVE mountDevice(VolOf[t]) = e
        <4>1. CASE e \in Shows(t)
          BY <4>1 DEF BoundInv
        <4>2. CASE e \notin Shows(t)
          <5>1. t = u
            BY <1>a, <3>2, <4>2 DEF Shows, Entries
          <5>2. e = Source(cur) /\ e \in live
            BY <3>2, <4>2, <5>1 DEF Shows, Entries
          <5> QED  BY <1>a, <3>1, <5>1, <5>2 DEF Source, mountDevice
        <4> QED  BY <4>1, <4>2
      <3> QED  BY <1>a, <2>1, <3>3, <3>4 DEF BoundInv
    <2> QED  BY <2>1, <2>2, <2>3
  <1>7. CASE graftHolders(Sup)
    <2>1. UNCHANGED mnt /\ live' \subseteq live
      <3>1. CASE GraftHolder(Sup)
        BY <3>1 DEF GraftHolder, HelperGrafts, HelperFails, SetHeld, kernelVars
      <3> QED  BY <1>7, <3>1 DEF graftHolders, GraftSnapshot, GraftProbe, GraftScan, GraftScanned, GraftDone,
                              kernelVars
    <2>2. pc'[Sup] \notin Front4
      BY <1>7, GraftFrame, NodeAssumption DEF Proc, GraftLabel, AfterGraft, Path
    <2> QED  BY <1>c, <2>1, <2>2, BoundFrame
  <1>8. CASE discover \/ ensureWatches \/ Snapshot \/ HealWatch \/ HealMark \/ Grafted \/ Tick
    <2>1. UNCHANGED <<mnt, live>>
      BY <1>8 DEF discover, ScanOwnMounts, KnownStages, AdoptStage, AdoptRecord, KnownHandles, AdoptPublish,
                  ensureWatches, WatchIds, EnsureWatch, Snapshot, HealWatch, HealMark, Grafted, Tick, kernelVars
    <2>2. pc'[Sup] \notin Front4
      BY <1>8, <1>b
         DEF discover, ScanOwnMounts, KnownStages, AdoptStage, AdoptRecord, KnownHandles, AdoptPublish,
             ensureWatches, WatchIds, EnsureWatch, Snapshot, HealWatch, HealMark, Grafted, Tick, Advance, Stay
    <2> QED  BY <1>c, <2>1, <2>2, BoundFrame
  <1> QED  BY <1>1, <1>2, <1>3, <1>4, <1>5, <1>6, <1>7, <1>8 DEF run, heal

\* The rounds of graftHolders.
LEMMA GraftHolders ==
    ASSUME TypeOK, IdleInv, HolderInv, graftHolders(Sup)
    PROVE  HolderInv'
  <1>a. /\ KernelTypeOK /\ GraftTypeOK /\ mem \in Records /\ mem.known = Vol
        /\ Sup \in Proc /\ AfterGraft(Sup) = "grafted"
    BY NodeAssumption DEF TypeOK, StateTypeOK, RecordTypeOK, IdleInv, Proc, Path, AfterGraft
  <1>b. \A l : Goto(Sup, l) => pc'[Sup] = l
    BY DEF Goto, TypeOK, PcTypeOK, Proc
  <1>1. CASE GraftSnapshot(Sup)
    <2>1. PICK f \in DeadStages : IF f = NoStage THEN Goto(Sup, AfterGraft(Sup))
                                  ELSE gstage' = [gstage EXCEPT ![Sup] = f] /\ Goto(Sup, "gprobe")
      BY <1>1 DEF GraftSnapshot
    <2>2. CASE f = NoStage
      BY <1>a, <1>b, <2>1, <2>2 DEF HolderInv
    <2>3. CASE f # NoStage
      <3>1. pc'[Sup] = "gprobe" /\ gstage'[Sup] = f /\ mem' = mem
        BY <1>1, <1>a, <1>b, <2>1, <2>3 DEF GraftSnapshot, GraftTypeOK, recordVars
      <3>2. ASSUME NEW v \in Vol, NEW d \in mem.dead[v] PROVE f[d] # NoVol
        <4>1. d \in Dev /\ v \in {w \in mem.known : d \in mem.dead[w]}
          BY <1>a DEF Records
        <4>2. f[d] \in {w \in mem.known : d \in mem.dead[w]}
          BY <4>1 DEF DeadStages
        <4> QED  BY <1>a, <4>2, NodeAssumption
      <3> QED  BY <3>1, <3>2 DEF HolderInv
    <2> QED  BY <2>2, <2>3
  <1>2. CASE GraftProbe(Sup)
    <2>1. /\ pc[Sup] = "gprobe" /\ pc'[Sup] \in {"gprobe", "gscan"} /\ UNCHANGED <<mem, gstage>>
      BY <1>2, <1>b DEF GraftProbe, recordVars
    <2> QED  BY <2>1 DEF HolderInv
  <1>3. CASE GraftScan(Sup)
    <2>1. /\ pc[Sup] = "gscan" /\ pc'[Sup] = "gheal" /\ UNCHANGED <<mem, held, gstage>>
          /\ ghold'[Sup] = findHolders(Sup)
      BY <1>3, <1>a, <1>b DEF GraftScan, GraftTypeOK, recordVars, kernelVars
    <2>2. ASSUME NEW c \in Container, NEW d \in Dev, held[c] = d, gstage[Sup][d] # NoVol
          PROVE  <<c, d>> \in findHolders(Sup)
      BY <2>2 DEF findHolders
    <2>3. \A c \in Container : \A d \in Dev : <<c, d>> \in findHolders(Sup) => gstage[Sup][d] # NoVol
      BY DEF findHolders
    <2> QED  BY <2>1, <2>2, <2>3 DEF HolderInv
  <1>4. CASE GraftHolder(Sup)
    <2>1. pc[Sup] = "gheal" /\ UNCHANGED <<pc, mem, gstage, mnt>>
      BY <1>4 DEF GraftHolder, HelperGrafts, HelperFails, SetHeld, recordVars, kernelVars
    <2>2. PICK h \in ghold[Sup] :
            /\ ghold' = [ghold EXCEPT ![Sup] = @ \ {h}]
            /\ \/ h[2] \in gkeep[Sup] /\ UNCHANGED <<kernelVars, gkeep>>
               \/ /\ held' = [held EXCEPT ![h[1]] = Source(gstage[Sup][h[2]])]
                  /\ h[2] \notin gkeep[Sup] /\ gstage[Sup][h[2]] \in dirs /\ UNCHANGED gkeep
               \/ /\ held' = held \/ held' = [held EXCEPT ![h[1]] = "lost"]
                  /\ gkeep' = [gkeep EXCEPT ![Sup] = @ \cup {h[2]}]
      BY <1>4 DEF GraftHolder, HelperGrafts, HelperFails, SetHeld, kernelVars
    <2>3. PICK a \in Container, b \in Dev : h = <<a, b>>
      BY <1>a DEF GraftTypeOK
    <2>4. ghold'[Sup] = ghold[Sup] \ {<<a, b>>}
      BY <1>a, <2>2, <2>3 DEF GraftTypeOK
    <2>5. \A w \in Vol : UNCHANGED mountDevice(w)
      BY <2>1 DEF mountDevice, Mounted, Top
    <2>6. SUFFICES ASSUME NEW c \in Container, NEW d \in Dev, held'[c] = d,
                          gstage[Sup][d] # NoVol, d \notin gkeep'[Sup]
                   PROVE  <<c, d>> \in ghold'[Sup] \/ \E w \in Vol : mountDevice(w) = d
      BY <2>1, <2>4, <2>5 DEF HolderInv
    <2>7. CASE held'[c] = held[c] /\ d \notin gkeep[Sup]
      <3>1. <<c, d>> \in ghold[Sup] \/ \E w \in Vol : mountDevice(w) = d
        BY <2>1, <2>6, <2>7 DEF HolderInv
      <3>2. CASE <<c, d>> # <<a, b>>
        BY <2>4, <3>1, <3>2
      <3>3. CASE c = a /\ d = b
        <4>1. b \notin gkeep'[Sup] /\ b \notin gkeep[Sup]
          BY <2>6, <2>7, <3>3
        <4>2. held' = [held EXCEPT ![a] = Source(gstage[Sup][b])]
          BY <1>a, <2>2, <2>3, <4>1 DEF GraftTypeOK
        <4>3. held'[a] = Source(gstage[Sup][b])
          BY <1>a, <4>2 DEF KernelTypeOK
        <4>4. gstage[Sup][b] \in Vol
          BY <1>a, <2>6, <3>3 DEF GraftTypeOK
        <4>5. Bare \notin Dev
          BY NodeAssumption DEF Bare
        <4> QED  BY <2>6, <3>3, <4>3, <4>4, <4>5 DEF Source, mountDevice
      <3> QED  BY <3>2, <3>3
    <2>8. CASE d \in gkeep[Sup]
      BY <1>a, <2>2, <2>6, <2>8 DEF GraftTypeOK
    <2>9. CASE held'[c] # held[c] /\ d \notin gkeep[Sup]
      <3>1. c = a /\ (held'[a] = Source(gstage[Sup][b]) \/ held'[a] = "lost")
        BY <1>a, <2>2, <2>3, <2>9 DEF KernelTypeOK, kernelVars
      <3>2. "lost" \notin Dev /\ Bare \notin Dev
        BY NodeAssumption DEF Bare
      <3>3. d = Source(gstage[Sup][b])
        BY <2>6, <3>1, <3>2
      <3>4. gstage[Sup][b] \in Vol
        BY <1>a, <2>1, <2>2, <2>3 DEF HolderInv, GraftTypeOK
      <3> QED  BY <3>2, <3>3, <3>4 DEF Source, mountDevice
    <2> QED  BY <2>7, <2>8, <2>9
  <1>5. CASE GraftScanned(Sup)
    <2>1. /\ pc[Sup] = "gheal" /\ pc'[Sup] = "gdone" /\ ghold[Sup] = {}
          /\ UNCHANGED <<mem, gstage, gkeep, ghold, held, mnt>>
      BY <1>5, <1>b DEF GraftScanned, graftVars, recordVars, kernelVars
    <2> QED  BY <2>1 DEF HolderInv, mountDevice, Mounted, Top
  <1>6. CASE GraftDone(Sup)
    BY <1>6, <1>a, <1>b DEF GraftDone, HolderInv
  <1> QED  BY <1>1, <1>2, <1>3, <1>4, <1>5, <1>6 DEF graftHolders

\* Every other step of the supervisor is outside graftHolders.
LEMMA RunHolder ==
    ASSUME TypeOK, IdleInv, HolderInv, run
    PROVE  HolderInv'
  <1>a. \A l : Goto(Sup, l) => pc'[Sup] = l
    BY DEF Goto, TypeOK, PcTypeOK, Proc
  <1>1. CASE graftHolders(Sup)
    BY <1>1, GraftHolders
  <1>2. CASE ~graftHolders(Sup)
    <2>1. pc'[Sup] \notin {"gprobe", "gscan", "gheal", "gdone"}
      <3>1. CASE discover \/ ensureWatches \/ Snapshot \/ CheckVolume \/ Grafted \/ Tick
        BY <1>a, <3>1
           DEF discover, ScanOwnMounts, KnownStages, AdoptStage, AdoptRecord, KnownHandles, AdoptPublish,
               ensureWatches, WatchIds, EnsureWatch, Snapshot, CheckVolume, Grafted, Tick, Advance, Stay
      <3>2. CASE heal
        BY <1>a, <3>2 DEF heal, HealDevice, HealUnbind, HealUnstage, HealMount, HealWatch, HealBind, HealMark,
                          Advance, Stay
      <3> QED  BY <1>2, <3>1, <3>2 DEF run
    <2> QED  BY <2>1 DEF HolderInv
  <1> QED  BY <1>1, <1>2

(***************************************************************************)
(* The environment.                                                        *)
(***************************************************************************)
LEMMA NoHandler ==
    ASSUME NEW p \in Path, pc[p] = "idle"
    PROVE  ~HandlerOf(p)
  <1>1. ~Revive(p)
    BY DEF Revive, DeadMountProbe, DeadMountDevice, CheckStaging, DetachStaging, MountStaging, RecordStaging,
           WatchStaging, MarkStaging, graftHolders, GraftSnapshot, GraftProbe, GraftScan, GraftHolder,
           GraftScanned, GraftDone, Step
  <1> QED
    BY <1>1 DEF HandlerOf, NodeStageVolume, NodeUnstageVolume, NodePublishVolume, NodeUnpublishVolume,
           RecordAgain, EnsureAgain, CheckTarget, DetachTarget, BindTarget, RecordTarget,
           CleanupCheck, CleanupUnmount, CleanupRemove, ForgetTarget, FindMounter, SystemdUnmount, UnitStopped,
           UnmountStaging, ForgetWatch, ForgetStaging, Step

\* Mounters die and directories go: what is in use stays where it is.
LEMMA StillForget ==
    ASSUME TypeOK, ForgetInv, live' \subseteq live,
           UNCHANGED <<mnt, held, mem, disk, pc, gstage, gkeep, ghold, st, cur, snap>>
    PROVE  ForgetInv'
  <1>1. IdleInv' /\ ListInv'
    BY DEF ForgetInv, IdleInv, ListInv, TargetsOf
  <1>2. BoundInv'
    BY BoundFrame DEF ForgetInv, TypeOK, Entries
  <1>3. HolderInv'
    BY DEF ForgetInv, HolderInv, mountDevice, Mounted, Top
  <1> QED  BY <1>1, <1>2, <1>3 DEF ForgetInv

\* A container that starts captures a live mount, which is at a staging path.
LEMMA ContainerForget ==
    ASSUME TypeOK, ForgetInv, NEW a \in Container, StartContainer(a) \/ StopContainer(a),
           UNCHANGED <<mem, disk, gstage, gkeep, ghold, st, cur, snap>>
    PROVE  ForgetInv'
  <1>a. KernelTypeOK /\ At[a] \in Target /\ At[a] \in Path /\ VolOf[At[a]] \in Vol
    BY NodeAssumption DEF TypeOK, StateTypeOK, Path
  <1>1. /\ UNCHANGED <<mnt, pc>> /\ live' \subseteq live
        /\ \A c \in Container : c # a => held'[c] = held[c]
    BY <1>a DEF StartContainer, StopContainer, SetHeld, KernelTypeOK
  <1>2. ASSUME NEW d \in Dev, held'[a] = d PROVE mountDevice(VolOf[At[a]]) = d
    <2>1. "exited" \notin Dev /\ Bare \notin Dev
      BY NodeAssumption DEF Bare
    <2>2. StartContainer(a) /\ held'[a] = Source(At[a])
      BY <1>a, <1>2, <2>1 DEF StartContainer, StopContainer, SetHeld, KernelTypeOK
    <2>3. Mounted(At[a]) /\ Top(At[a]) = d /\ d \in live
      BY <1>2, <2>1, <2>2 DEF StartContainer, Source, mountDead
    <2>4. d \in Entries(mnt, At[a])
      <3>1. mnt[At[a]] \in Seq(Dev \cup {Bare}) /\ mnt[At[a]] # << >>
        BY <1>a, <2>3 DEF KernelTypeOK, Mounted
      <3>2. Len(mnt[At[a]]) \in 1..Len(mnt[At[a]])
        BY <3>1, EmptySeq
      <3> QED  BY <2>3, <3>2 DEF Top, Entries
    <2> QED  BY <1>a, <2>3, <2>4 DEF ForgetInv, BoundInv, Shows
  <1>3. IdleInv' /\ ListInv'
    BY <1>1 DEF ForgetInv, IdleInv, ListInv, TargetsOf
  <1>4. BoundInv'
    BY <1>1, BoundFrame DEF ForgetInv, TypeOK, Entries
  <1>5. HolderInv'
    <2>1. \A w \in Vol : UNCHANGED mountDevice(w)
      BY <1>1 DEF mountDevice, Mounted, Top
    <2>2. ASSUME pc[Sup] \in {"gheal", "gdone"}, NEW c \in Container, NEW d \in Dev, held'[c] = d,
                 gstage[Sup][d] # NoVol, d \notin gkeep[Sup]
          PROVE  <<c, d>> \in ghold[Sup] \/ \E w \in Vol : mountDevice(w) = d
      BY <1>1, <1>2, <1>a, <2>2 DEF ForgetInv, HolderInv
    <2> QED  BY <1>1, <2>1, <2>2 DEF ForgetInv, HolderInv
  <1> QED  BY <1>3, <1>4, <1>5 DEF ForgetInv

LEMMA CrashForget ==
    ASSUME TypeOK, ForgetInv, CrashRestart
    PROVE  ForgetInv'
  <1>1. /\ \A p \in Path : pc'[p] = "idle"
        /\ pc'[Sup] = "scan" /\ mem' = mem /\ disk' = mem' /\ mnt' = mnt /\ live' \subseteq live
        /\ snap' = [v \in Vol |-> {}]
    BY NodeAssumption DEF CrashRestart, ForgetInv, IdleInv, Proc, NoRecords
  <1>2. IdleInv' /\ ListInv'
    BY <1>1 DEF ForgetInv, IdleInv, ListInv, TargetsOf, HealLabel
  <1>3. BoundInv'
    BY <1>1, BoundFrame DEF ForgetInv, Entries
  <1>4. HolderInv'
    BY <1>1 DEF HolderInv
  <1> QED  BY <1>2, <1>3, <1>4 DEF ForgetInv

LEMMA NextForget == Alone /\ TypeOK /\ ForgetInv /\ [Next]_vars => ForgetInv'
  <1> SUFFICES ASSUME Alone, TypeOK, ForgetInv, [Next]_vars PROVE ForgetInv'
    OBVIOUS
  <1> USE DEF kernelVars, recordVars, graftVars, supVars, procVars
  <1>a. \A p \in Path : pc[p] = "idle"
    BY DEF ForgetInv, IdleInv
  <1>1. ASSUME NEW p \in Path, HandlerOf(p) PROVE ForgetInv'
    BY <1>1, <1>a, NoHandler
  <1>2. CASE run
    BY <1>2, RunIdle, RunList, RunBound, RunHolder DEF ForgetInv
  <1>3. CASE kubelet
    <2>1. ASSUME NEW v \in Vol, SendStage(v) \/ SendUnstage(v) \/ ReplyVolume(v) PROVE ForgetInv'
      BY <1>a, <2>1 DEF Alone, SendStage, SendUnstage, ReplyVolume, Step, Path
    <2>2. ASSUME NEW t \in Target, SendPublish(t) \/ SendUnpublish(t) \/ ReplyTarget(t) PROVE ForgetInv'
      BY <1>a, <2>2 DEF Alone, SendPublish, SendUnpublish, ReplyTarget, Step, Path
    <2>3. ASSUME NEW v \in Vol, RemoveStageDir(v) PROVE ForgetInv'
      BY <1>3, <2>3, StillForget DEF kubelet, RemoveStageDir
    <2>4. ASSUME NEW c \in Container, StartContainer(c) \/ StopContainer(c) PROVE ForgetInv'
      BY <1>3, <2>4, ContainerForget DEF kubelet
    <2> QED  BY <1>3, <2>1, <2>2, <2>3, <2>4 DEF kubelet
  <1>4. CASE MounterDies
    BY <1>4, StillForget DEF MounterDies
  <1>5. CASE ExecStopPost
    BY <1>5 DEF ExecStopPost, unitStopping, Alone, TypeOK, StateTypeOK, KernelTypeOK
  <1>6. CASE CrashRestart
    BY <1>6, CrashForget
  <1>7. CASE UNCHANGED vars
    BY <1>7, StillForget DEF vars
  <1> QED  BY <1>1, <1>2, <1>3, <1>4, <1>5, <1>6, <1>7 DEF Next

(***************************************************************************)
(* The start, and the result.                                              *)
(***************************************************************************)
LEMMA StagedForget == EnoughDevices /\ StagedInit => TypeOK /\ ForgetInv
  <1> SUFFICES ASSUME EnoughDevices, StagedInit PROVE TypeOK /\ ForgetInv
    OBVIOUS
  <1> DEFINE m == CHOOSE f \in [Vol -> Dev] : \A v, w \in Vol : f[v] = f[w] => v = w
  <1>1. m \in [Vol -> Dev]
    BY DEF EnoughDevices
  <1>2. /\ mnt = [p \in Path |-> <<m[VolumeOf(p)]>>]
        /\ live \subseteq {m[v] : v \in Vol}
        /\ direct \subseteq {m[v] : v \in Vol}
        /\ serves = [d \in Dev |-> IF \E v \in Vol : m[v] = d
                                   THEN CHOOSE v \in Vol : m[v] = d ELSE NoVol]
    BY DEF StagedInit
  <1>a. /\ dirs = Path /\ held = [c \in Container |-> "notstarted"]
        /\ watches = Vol /\ kst = [v \in Vol |-> "staged"] /\ kpub = [t \in Target |-> "published"]
        /\ loaded = UnitVol /\ fallbacks = [v \in UnitVol |-> 0]
        /\ faults = 0 /\ GraftInit /\ SupInit
    BY DEF StagedInit
  <1> HIDE DEF m
  <1>3. \A p \in Path : VolumeOf(p) \in Vol /\ (p \in Vol => VolumeOf(p) = p) /\ m[VolumeOf(p)] \in Dev
    BY <1>1, NodeAssumption DEF VolumeOf, Path
  <1>4. KernelTypeOK
    <2>1. /\ mnt \in [Path -> Seq(Dev \cup {Bare})]
          /\ \A v \in Vol : mnt[v] \in Seq(Dev)
      BY <1>2, <1>3 DEF Path
    <2>2. serves \in [Dev -> Vol \cup {NoVol}]
      BY <1>2
    <2>3. held \in [Container -> Held] /\ dirs \subseteq Path /\ live \subseteq Dev
      BY <1>1, <1>2, <1>a DEF Held
    <2>4. loaded \subseteq UnitVol /\ direct \subseteq Dev /\ fallbacks \in [UnitVol -> Nat]
      BY <1>1, <1>2, <1>a
    <2> QED  BY <2>1, <2>2, <2>3, <2>4 DEF KernelTypeOK
  <1>5. /\ mem.known = Vol /\ \A v \in Vol : mem.pubs[v] = TargetsOf(v) /\ mem.dead[v] = {}
        /\ mem \in Records /\ disk = mem
    BY DEF StagedInit, NoRecords, Records, TargetsOf
  <1>6. StateTypeOK
    BY <1>4, <1>5, <1>a, NodeAssumption DEF StateTypeOK, RecordTypeOK, StageState, PublishState
  <1>7. GraftTypeOK /\ SupTypeOK
    BY <1>a, DiscoverAssumption DEF GraftInit, SupInit, GraftTypeOK, SupTypeOK, NoStage, NoRecords
  <1>8. pc[Sup] = "scan" /\ \A p \in Path : pc[p] = "idle"
    BY NodeAssumption DEF StagedInit, Proc
  <1>9. \A p \in Proc : pc[p] \in LabelOf(p)
    BY NodeAssumption, Labels DEF StagedInit, Proc, SupLabel, DiscoverLabel
  <1>10. PcTypeOK /\ CurTypeOK
    BY <1>9 DEF StagedInit, PcTypeOK, CurTypeOK, HealLabel, Proc
  <1>11. TypeOK
    BY <1>6, <1>7, <1>10 DEF TypeOK
  <1>12. IdleInv /\ ListInv /\ HolderInv
    BY <1>5, <1>8 DEF StagedInit, SupInit, NoRecords, IdleInv, ListInv, HolderInv, HealLabel
  <1>13. BoundInv
    <2>1. ASSUME NEW t \in Target, NEW e \in Shows(t) PROVE mountDevice(VolOf[t]) = e
      <3>1. t \in Path /\ VolOf[t] \in Path /\ VolumeOf(t) = VolOf[t] /\ VolumeOf(VolOf[t]) = VolOf[t]
        BY NodeAssumption DEF Path, VolumeOf
      <3>2. mnt[t] = <<m[VolOf[t]]>> /\ mnt[VolOf[t]] = <<m[VolOf[t]]>>
        BY <1>2, <3>1
      <3>3. e = m[VolOf[t]]
        BY <2>1, <3>2 DEF Shows, Entries
      <3> QED  BY <3>2, <3>3 DEF mountDevice, Mounted, Top
    <2> QED  BY <1>8, <2>1 DEF BoundInv
  <1> QED  BY <1>11, <1>12, <1>13 DEF ForgetInv

\* The only step that forgets a dead device is graftHolders' last.
LEMMA Releases == Alone /\ TypeOK /\ ForgetInv /\ [Next]_vars => [ReleasedFirst]_vars
  <1> SUFFICES ASSUME Alone, TypeOK, ForgetInv, Next PROVE ReleasedFirst
    OBVIOUS
  <1> USE DEF recordVars
  <1>a. mem \in Records /\ mem.known = Vol /\ disk = mem /\ \A p \in Path : pc[p] = "idle"
    BY DEF TypeOK, StateTypeOK, RecordTypeOK, ForgetInv, IdleInv
  <1>b. mem'.known = Vol
    BY NextForget DEF ForgetInv, IdleInv
  <1>1. CASE \A v \in Vol : mem.dead[v] \subseteq mem'.dead[v]
    BY <1>1, <1>b DEF ReleasedFirst
  <1>2. CASE GraftDone(Sup)
    <2>1. SUFFICES ASSUME NEW v \in Vol, NEW d \in mem.dead[v] \ mem'.dead[v], NEW c \in Container,
                          held'[c] = d
                   PROVE  \E w \in mem'.known : mountDevice(w)' = d
      BY <1>b DEF ReleasedFirst
    <2>2. pc[Sup] = "gdone" /\ UNCHANGED <<held, mnt>>
      BY <1>2 DEF GraftDone, kernelVars
    <2>3. d \in Dev /\ d \notin gkeep[Sup]
      BY <1>2, <1>a DEF GraftDone, persist, Records
    <2>4. \E w \in Vol : mountDevice(w) = d
      BY <2>1, <2>2, <2>3 DEF ForgetInv, HolderInv
    <2> QED  BY <1>b, <2>2, <2>4 DEF mountDevice, Mounted, Top
  <1>3. CASE UNCHANGED mem
    BY <1>1, <1>3
  <1>4. ASSUME NEW p \in Path, HandlerOf(p) PROVE ReleasedFirst
    BY <1>4, <1>a, NoHandler
  <1>5. CASE AdoptRecord \/ AdoptPublish \/ HealMark
    <2>1. \A v \in Vol : mem.dead[v] \subseteq mem'.dead[v]
      <3>1. CASE AdoptRecord \/ AdoptPublish
        <4>1. mem'.dead = mem.dead
          BY <1>a, <3>1 DEF AdoptRecord, recordStage, AdoptPublish, recordPublish, persist, Records
        <4> QED  BY <4>1
      <3>2. CASE HealMark
        BY <1>a, <3>2 DEF HealMark, markDead, persist, Records
      <3> QED  BY <1>5, <3>1, <3>2
    <2> QED  BY <1>1, <2>1
  <1>6. CASE run
    BY <1>2, <1>3, <1>5, <1>6
       DEF run, discover, ScanOwnMounts, KnownStages, AdoptStage, KnownHandles, ensureWatches, WatchIds,
           EnsureWatch, Snapshot, CheckVolume, heal, HealDevice, HealUnbind, HealUnstage, HealMount, HealWatch,
           HealBind, graftHolders, GraftSnapshot, GraftProbe, GraftScan, GraftHolder, GraftScanned, Grafted, Tick
  <1>7. CASE kubelet \/ MounterDies \/ ExecStopPost \/ CrashRestart
    BY <1>3, <1>7, <1>a DEF kubelet, MounterDies, ExecStopPost, CrashRestart
  <1> QED  BY <1>4, <1>6, <1>7 DEF Next

\* The supervisor alone, from a node where everything is staged and published:
\* whatever dies, crashes or fails, and however containers start and stop in
\* between, graftHolders forgets a dead device only when no container is left
\* with the corpse, or it is at a staging path that the next round looks at.
THEOREM HoldersReleased ==
    ASSUME Alone, EnoughDevices
    PROVE  StagedSpec => ForgottenIsReleased
  <1>1. StagedInit => TypeOK /\ ForgetInv
    BY StagedForget
  <1>2. TypeOK /\ ForgetInv /\ [Next]_vars => TypeOK' /\ ForgetInv' /\ [ReleasedFirst]_vars
    BY NextType, NextForget, Releases
  <1> QED  BY <1>1, <1>2, PTL DEF StagedSpec, ForgottenIsReleased
=============================================================================
