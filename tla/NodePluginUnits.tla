-------------------------- MODULE NodePluginUnits --------------------------
(***************************************************************************)
(* The mounts of systemd units, for any volumes, devices and failures.     *)
(* UnitMountsOnce alone is not inductive: a mount at the staging path has  *)
(* to be tied to the unit, loaded or not, that the next mounter meets.     *)
(***************************************************************************)
EXTENDS NodePluginProofs

Loaded(v) == IF v \in loaded THEN 1 ELSE 0

\* The loaded unit accounts for one mount at the staging path, each fallback for
\* one more.  Without a fallback the daemons are the unit's own: one of them,
\* and none once systemd has collected the unit.
UnitOnce(v) ==
    /\ Len(mnt[v]) <= fallbacks[v] + Loaded(v)
    /\ fallbacks[v] = 0 =>
         /\ \A d, e \in Daemons(v) : d = e
         /\ Daemons(v) \cap direct = {}
         /\ v \notin loaded => Daemons(v) = {}

UnitInv == \A v \in UnitVol : UnitOnce(v)

\* A step that starts no mounter and ends no unit: daemons only end, and a
\* staging path loses its visible mount at most.
Calm ==
    /\ UNCHANGED <<serves, unitVars>>
    /\ live' \subseteq live
    /\ \A v \in Vol : mnt'[v] = mnt[v] \/ (Mounted(v) /\ mnt'[v] = Pop(mnt[v]))

\* mountStaged brings a mounter up.
Starts(v) ==
    \/ MountDirect(v)
    \/ StartTransientUnit(v)
    \/ MountFallback(v)

Quiet == Calm \/ \E v \in Vol : Starts(v)

\* A detached mount makes a stack shorter.
LEMMA PopLength ==
    ASSUME NEW S, NEW s \in Seq(S), s # << >>
    PROVE  Len(Pop(s)) = Len(s) - 1 /\ Len(s) \in Nat
  <1>1. Len(s) \in Nat /\ Len(s) # 0
    BY EmptySeq
  <1> DEFINE n == Len(s) - 1
  <1>2. n \in Int /\ 1 \in Int /\ \A i \in 1..n : s[i] \in S
    BY <1>1
  <1>3. Len(SubSeq(s, 1, n)) = IF 1 <= n THEN n - 1 + 1 ELSE 0
    <2> HIDE DEF n
    <2> QED  BY <1>2, SubSeqProperties
  <1>4. Pop(s) = SubSeq(s, 1, n) /\ n \in Nat
    <2>1. n \in Nat
      BY <1>1
    <2> QED  BY <2>1 DEF Pop
  <1>5. Len(Pop(s)) = n
    <2> HIDE DEF n
    <2> QED  BY <1>3, <1>4
  <1> QED  BY <1>1, <1>5

\* umount2 of a path is calm.
LEMMA LazyUnmountCalm ==
    ASSUME KernelTypeOK, NEW p \in Path, lazyUnmount(p)
    PROVE  Calm
  BY DEF lazyUnmount, Detach, SetMounts, KernelTypeOK, Calm, Path

\* So is a bind at a target, made or failed.
LEMMA BindCalm ==
    ASSUME KernelTypeOK, NEW v \in Vol, NEW t \in Target, BindOk(v, t) \/ BindFails(v, t)
    PROVE  Calm
  BY NodeAssumption DEF BindOk, BindFails, SetMounts, KernelTypeOK, kernelVars, Calm, Path

\* So is every step of graftHolders.
LEMMA GraftCalm ==
    ASSUME NEW p \in Proc, graftHolders(p)
    PROVE  Calm
  <1>1. CASE GraftSnapshot(p) \/ GraftProbe(p) \/ GraftScan(p) \/ GraftScanned(p) \/ GraftDone(p)
    BY <1>1 DEF GraftSnapshot, GraftProbe, GraftScan, GraftScanned, GraftDone, kernelVars, Calm
  <1>2. CASE GraftHolder(p)
    BY <1>2 DEF GraftHolder, HelperGrafts, HelperFails, SetHeld, kernelVars, Calm
  <1> QED  BY <1>1, <1>2 DEF graftHolders

\* mountStaged starts one mounter or none.
LEMMA MountQuiet ==
    ASSUME NEW v \in Vol, MountOk(v) \/ MountFails(v)
    PROVE  Quiet
  BY DEF MountOk, MountFails, kernelVars, Quiet, Calm, Starts

\* The handlers of the RPCs start a mounter only through mountStaged.
LEMMA HandlerQuiet ==
    ASSUME TypeOK, NEW p \in Path, HandlerOf(p)
    PROVE  Quiet
  <1>a. /\ KernelTypeOK
        /\ VolumeOf(p) \in Vol /\ VolumeOf(p) \in Path
        /\ p \in Target => VolOf[p] \in Vol
        /\ p \in Proc
        /\ UNCHANGED kernelVars => Calm
    BY NodeAssumption DEF TypeOK, StateTypeOK, VolumeOf, Path, Proc, kernelVars, Calm
  <1>1. CASE MountStaging(p)
    BY <1>1, <1>a, MountQuiet DEF MountStaging
  <1>2. CASE DetachStaging(p) \/ (p \in Target /\ DetachTarget(p)) \/ (p \in Vol /\ UnmountStaging(p))
    BY <1>2, <1>a, LazyUnmountCalm DEF DetachStaging, DetachTarget, UnmountStaging, Quiet
  <1>3. CASE p \in Target /\ (BindTarget(p) \/ CleanupUnmount(p))
    <2>1. CASE BindTarget(p)
      BY <1>3, <2>1, <1>a, BindCalm DEF BindTarget, Quiet
    <2>2. CASE CleanupUnmount(p)
      BY <1>3, <2>2, <1>a, NodeAssumption DEF CleanupUnmount, SetMounts, KernelTypeOK, Calm, Quiet, Path
    <2> QED  BY <1>3, <2>1, <2>2
  <1>4. CASE graftHolders(p)
    BY <1>4, <1>a, GraftCalm DEF Quiet
  <1>5. CASE CheckStaging(p) \/ CheckTarget(p) \/ CleanupRemove(p) \/ SystemdUnmount(p)
    BY <1>5 DEF CheckStaging, CheckTarget, CleanupRemove, SystemdUnmount, checkMount, Calm, Quiet
  <1>6. CASE UNCHANGED kernelVars
    BY <1>6, <1>a DEF Quiet
  <1> QED
    BY <1>1, <1>2, <1>3, <1>4, <1>5, <1>6
       DEF HandlerOf, NodeStageVolume, NodeUnstageVolume, NodePublishVolume, NodeUnpublishVolume, Revive,
           DeadMountProbe, DeadMountDevice, RecordStaging, WatchStaging, MarkStaging, RecordAgain, EnsureAgain,
           RecordTarget, CleanupCheck, ForgetTarget, FindMounter, UnitStopped, ForgetWatch, ForgetStaging

\* So does the supervisor.
LEMMA RunQuiet ==
    ASSUME TypeOK, run
    PROVE  Quiet
  <1>a. /\ KernelTypeOK
        /\ st \subseteq Target
        /\ pc[Sup] \in HealLabel => cur \in Vol
        /\ \A t \in Target : t \in Path
        /\ UNCHANGED kernelVars => Calm
    BY DEF TypeOK, StateTypeOK, SupTypeOK, CurTypeOK, Path, kernelVars, Calm
  <1>1. CASE HealMount
    BY <1>1, <1>a, MountQuiet DEF HealMount, Advance, HealLabel
  <1>2. CASE HealUnbind
    BY <1>2, <1>a, LazyUnmountCalm DEF HealUnbind, Quiet
  <1>3. CASE HealUnstage
    <2>1. cur \in Path
      BY <1>3, <1>a DEF HealUnstage, Advance, HealLabel, Path
    <2> QED  BY <1>3, <1>a, <2>1, LazyUnmountCalm DEF HealUnstage, Quiet
  <1>4. CASE HealBind
    <2>1. cur \in Vol
      BY <1>4, <1>a DEF HealBind, Advance, Stay, HealLabel
    <2> QED  BY <1>4, <1>a, <2>1, BindCalm DEF HealBind, Quiet
  <1>5. CASE graftHolders(Sup)
    BY <1>5, GraftCalm DEF Quiet, Proc
  <1>6. CASE UNCHANGED kernelVars
    BY <1>6, <1>a DEF Quiet
  <1> QED
    BY <1>1, <1>2, <1>3, <1>4, <1>5, <1>6
       DEF run, discover, ScanOwnMounts, KnownStages, AdoptStage, AdoptRecord, KnownHandles, AdoptPublish,
           ensureWatches, WatchIds, EnsureWatch, Snapshot, CheckVolume, heal, HealDevice, HealWatch, HealMark,
           Grafted, Tick

\* The kubelet and the containers start none, nor do the failures.
LEMMA EnvironmentCalm ==
    ASSUME TypeOK, kubelet \/ MounterDies \/ CrashRestart
    PROVE  Calm
  <1>1. CASE kubelet
    <2>1. CASE \E v \in Vol : SendStage(v) \/ SendUnstage(v) \/ ReplyVolume(v) \/ RemoveStageDir(v)
      BY <2>1 DEF SendStage, SendUnstage, ReplyVolume, RemoveStageDir, kernelVars, Calm
    <2>2. CASE \E t \in Target : SendPublish(t) \/ SendUnpublish(t) \/ ReplyTarget(t)
      BY <2>2 DEF SendPublish, SendUnpublish, ReplyTarget, kernelVars, Calm
    <2>3. CASE \E c \in Container : StartContainer(c) \/ StopContainer(c)
      BY <2>3 DEF StartContainer, StopContainer, SetHeld, Calm
    <2> QED  BY <1>1, <2>1, <2>2, <2>3 DEF kubelet
  <1>2. CASE MounterDies \/ CrashRestart
    BY <1>2 DEF MounterDies, CrashRestart, Calm
  <1> QED  BY <1>1, <1>2

\* A staging path that loses its visible mount carries no more than before.
LEMMA CalmKeeps ==
    ASSUME TypeOK, UnitInv, Calm
    PROVE  UnitInv'
  <1> SUFFICES ASSUME NEW v \in UnitVol PROVE UnitOnce(v)'
    BY DEF UnitInv, Calm, unitVars
  <1>1. v \in Vol /\ mnt[v] \in Seq(Dev) /\ fallbacks[v] \in Nat
    BY NodeAssumption DEF TypeOK, StateTypeOK, KernelTypeOK
  <1>2. UnitOnce(v) /\ Daemons(v)' \subseteq Daemons(v) /\ UNCHANGED unitVars
    BY DEF UnitInv, Daemons, Calm
  <1>3. Len(mnt'[v]) <= fallbacks[v] + Loaded(v)
    <2>1. CASE mnt'[v] = mnt[v]
      BY <1>2, <2>1 DEF UnitOnce
    <2>2. CASE Mounted(v) /\ mnt'[v] = Pop(mnt[v])
      BY <1>1, <1>2, <2>2, PopLength DEF UnitOnce, Loaded, Mounted
    <2> QED  BY <1>1, <2>1, <2>2 DEF Calm
  <1> QED  BY <1>2, <1>3 DEF UnitOnce, Loaded, unitVars

\* A mounter leaves the other volumes as they are: its device shows none of them.
LEMMA OthersKeep ==
    ASSUME TypeOK, UnitInv, NEW w \in Vol, NEW u \in BOOLEAN, StartMounter(w, u),
           NEW v \in UnitVol, v # w, Loaded(v)' = Loaded(v), fallbacks'[v] = fallbacks[v]
    PROVE  UnitOnce(v)'
  <1>1. PICK n \in Dev : /\ mnt' = [mnt EXCEPT ![w] = Append(@, n)]
                         /\ live' = live \cup {n}
                         /\ serves' = [serves EXCEPT ![n] = w]
                         /\ direct' = IF u THEN direct \cup {n} ELSE direct \ {n}
    BY DEF StartMounter
  <1>2. /\ v \in Path /\ mnt \in [Path -> Seq(Dev \cup {Bare})]
        /\ serves \in [Dev -> Vol \cup {NoVol}] /\ live \subseteq Dev
        /\ UnitOnce(v)
    BY NodeAssumption DEF TypeOK, StateTypeOK, KernelTypeOK, Path, UnitInv
  <1>3. mnt'[v] = mnt[v] /\ (v \in loaded' <=> v \in loaded)
    BY <1>1, <1>2 DEF Loaded
  <1>4. Daemons(v)' \subseteq Daemons(v) /\ n \notin Daemons(v)'
    BY <1>1, <1>2 DEF Daemons
  <1>5. (Daemons(v) \cap direct)' \subseteq Daemons(v) \cap direct
    BY <1>1, <1>4
  <1> QED  BY <1>2, <1>3, <1>4, <1>5 DEF UnitOnce

\* A mounter adds one mount.
LEMMA StartsOne ==
    ASSUME TypeOK, NEW v \in UnitVol, NEW u \in BOOLEAN, StartMounter(v, u)
    PROVE  Len(mnt'[v]) = Len(mnt[v]) + 1 /\ Len(mnt[v]) \in Nat /\ fallbacks[v] \in Nat
  <1>1. PICK n \in Dev : mnt' = [mnt EXCEPT ![v] = Append(@, n)]
    BY DEF StartMounter
  <1>2. /\ v \in Path /\ mnt[v] \in Seq(Dev) /\ mnt \in [Path -> Seq(Dev \cup {Bare})]
        /\ fallbacks[v] \in Nat
    BY NodeAssumption DEF TypeOK, StateTypeOK, KernelTypeOK, Path
  <1>3. mnt'[v] = Append(mnt[v], n)
    BY <1>1, <1>2
  <1> QED  BY <1>2, <1>3

\* The first daemon of a unit's volume, when it runs in the unit, is its only one.
LEMMA FirstDaemon ==
    ASSUME TypeOK, NEW v \in UnitVol, StartMounter(v, FALSE), Daemons(v) = {}
    PROVE  (\A d, e \in Daemons(v)' : d = e) /\ (Daemons(v) \cap direct)' = {}
  <1>1. PICK n \in Dev : /\ live' = live \cup {n}
                         /\ serves' = [serves EXCEPT ![n] = v]
                         /\ direct' = direct \ {n}
    BY DEF StartMounter
  <1>2. serves \in [Dev -> Vol \cup {NoVol}] /\ live \subseteq Dev
    BY DEF TypeOK, StateTypeOK, KernelTypeOK
  <1>3. Daemons(v)' \subseteq {n}
    BY <1>1, <1>2 DEF Daemons
  <1> QED  BY <1>1, <1>3

\* A unit starts when none is loaded, a fallback is counted, and a volume that
\* has no unit is none of the theorem's business.
LEMMA StartsKeep ==
    ASSUME TypeOK, UnitInv, NEW w \in Vol, Starts(w)
    PROVE  UnitInv'
  <1> SUFFICES ASSUME NEW v \in UnitVol PROVE UnitOnce(v)'
    BY DEF UnitInv
  <1>a. UnitOnce(v) /\ fallbacks \in [UnitVol -> Nat]
    BY DEF UnitInv, TypeOK, StateTypeOK, KernelTypeOK
  <1>1. CASE v # w
    <2>1. PICK u \in BOOLEAN : StartMounter(w, u)
      BY DEF Starts, MountDirect, StartTransientUnit, MountFallback
    <2>2. Loaded(v)' = Loaded(v) /\ fallbacks'[v] = fallbacks[v]
      BY <1>1, <1>a DEF Starts, MountDirect, StartTransientUnit, MountFallback, Loaded
    <2> QED  BY <1>1, <2>1, <2>2, OthersKeep
  <1>2. CASE v = w /\ StartTransientUnit(v)
    <2>1. v \notin loaded /\ v \in loaded' /\ fallbacks'[v] = fallbacks[v] /\ StartMounter(v, FALSE)
      BY <1>2 DEF StartTransientUnit
    <2>2. Len(mnt'[v]) = Len(mnt[v]) + 1 /\ Len(mnt[v]) \in Nat /\ fallbacks[v] \in Nat
      BY <2>1, StartsOne
    <2>3. Len(mnt'[v]) <= fallbacks'[v] + Loaded(v)'
      BY <1>a, <2>1, <2>2 DEF UnitOnce, Loaded
    <2>4. ASSUME fallbacks'[v] = 0
          PROVE  (\A d, e \in Daemons(v)' : d = e) /\ (Daemons(v) \cap direct)' = {}
      <3>1. Daemons(v) = {}
        BY <1>a, <2>1, <2>4 DEF UnitOnce
      <3> QED  BY <2>1, <3>1, FirstDaemon
    <2> QED  BY <2>1, <2>3, <2>4 DEF UnitOnce
  <1>3. CASE v = w /\ MountFallback(v)
    <2>1. UNCHANGED loaded /\ fallbacks'[v] = fallbacks[v] + 1 /\ StartMounter(v, TRUE)
      BY <1>3, <1>a DEF MountFallback
    <2>2. Len(mnt'[v]) = Len(mnt[v]) + 1 /\ Len(mnt[v]) \in Nat /\ fallbacks[v] \in Nat
      BY <2>1, StartsOne
    <2> QED  BY <1>a, <2>1, <2>2 DEF UnitOnce, Loaded
  <1> QED  BY <1>1, <1>2, <1>3 DEF Starts, MountDirect

\* A unit is collected once its daemon has ended; its ExecStopPost takes one
\* mount off the staging path, unless none is left there.
LEMMA ExecStopPostKeeps ==
    ASSUME TypeOK, UnitInv, ExecStopPost
    PROVE  UnitInv'
  <1> SUFFICES ASSUME NEW v \in UnitVol PROVE UnitOnce(v)'
    BY DEF UnitInv, ExecStopPost
  <1>1. PICK w \in Vol : unitStopping(w) /\ Detach(w) /\ loaded' = loaded \ {w}
    BY DEF ExecStopPost
  <1>2. /\ UnitOnce(v) /\ UNCHANGED <<direct, fallbacks, serves>>
        /\ v \in Vol /\ mnt[v] \in Seq(Dev) /\ fallbacks[v] \in Nat
        /\ mnt \in [Path -> Seq(Dev \cup {Bare})] /\ v \in Path
    BY <1>1, NodeAssumption DEF UnitInv, ExecStopPost, Detach, TypeOK, StateTypeOK, KernelTypeOK, Path
  <1>3. Daemons(v)' \subseteq Daemons(v)
    BY <1>1 DEF Detach, SetMounts, Daemons
  <1>4. CASE v # w
    <2>1. mnt'[v] = mnt[v] /\ (v \in loaded' <=> v \in loaded)
      BY <1>1, <1>2, <1>4 DEF Detach, SetMounts
    <2> QED  BY <1>2, <1>3, <2>1 DEF UnitOnce, Loaded
  <1>5. CASE v = w
    <2>1. v \in loaded /\ v \notin loaded' /\ Daemons(v) \ direct = {}
      BY <1>1, <1>5 DEF unitStopping
    <2>2. Len(mnt'[v]) <= fallbacks'[v]
      <3>1. CASE Mounted(v)
        <4>1. mnt'[v] = Pop(mnt[v])
          BY <1>1, <1>2, <1>5, <3>1 DEF Detach, SetMounts
        <4> QED  BY <1>2, <2>1, <3>1, <4>1, PopLength DEF UnitOnce, Loaded, Mounted
      <3>2. CASE ~Mounted(v)
        <4>1. mnt'[v] = << >>
          BY <1>1, <1>5, <3>2 DEF Detach, Mounted
        <4> QED  BY <1>2, <4>1
      <3> QED  BY <3>1, <3>2
    <2>3. fallbacks'[v] = 0 => Daemons(v)' = {} /\ (Daemons(v) \cap direct)' = {}
      BY <1>2, <1>3, <2>1 DEF UnitOnce
    <2>4. Len(mnt'[v]) <= fallbacks'[v] + Loaded(v)'
      BY <1>2, <2>1, <2>2 DEF Loaded
    <2> QED  BY <2>3, <2>4 DEF UnitOnce
  <1> QED  BY <1>4, <1>5

\* The unit of a volume runs one daemon, and its staging path shows one mount,
\* however the handlers, heal, deaths and restarts interleave; every time systemd
\* does not answer Mount's call may add one mount, and no other failure does.
THEOREM UnitsMountOnce == Spec => []UnitMountsOnce
  <1>1. Init => UnitInv
    <2> SUFFICES ASSUME Init, NEW v \in UnitVol PROVE UnitOnce(v)
      BY DEF UnitInv
    <2>1. mnt[v] = << >> /\ live = {} /\ loaded = {} /\ fallbacks[v] = 0
      BY NodeAssumption DEF Init, StateInit, Path
    <2> QED  BY <2>1 DEF UnitOnce, Loaded, Daemons
  <1>2. TypeOK /\ UnitInv /\ [Next]_vars => UnitInv'
    <2> SUFFICES ASSUME TypeOK, UnitInv, [Next]_vars PROVE UnitInv'
      OBVIOUS
    <2>1. CASE ExecStopPost
      BY <2>1, ExecStopPostKeeps
    <2>2. UNCHANGED vars => Quiet
      BY DEF vars, kernelVars, Calm, Quiet
    <2>3. Quiet \/ ExecStopPost
      BY <2>2, HandlerQuiet, RunQuiet, EnvironmentCalm DEF Next, Quiet
    <2> QED  BY <2>1, <2>3, CalmKeeps, StartsKeep DEF Quiet
  <1>3. TypeOK /\ UnitInv => UnitMountsOnce
    <2> SUFFICES ASSUME TypeOK, UnitInv, NEW v \in UnitVol
                 PROVE  /\ Len(mnt[v]) <= 1 + fallbacks[v]
                        /\ fallbacks[v] = 0 => \A d, e \in Daemons(v) : d = e
      BY DEF UnitMountsOnce
    <2>1. fallbacks[v] \in Nat /\ Len(mnt[v]) \in Nat /\ UnitOnce(v)
      BY NodeAssumption DEF UnitInv, TypeOK, StateTypeOK, KernelTypeOK
    <2> QED  BY <2>1 DEF UnitOnce, Loaded
  <1> QED  BY <1>1, <1>2, <1>3, TypeCorrect, PTL DEF Spec
=============================================================================
