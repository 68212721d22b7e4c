----------------------------- MODULE NodePlugin -----------------------------
(***************************************************************************)
(* The node plugin in its environment: the RPC handlers and the supervisor *)
(* share the mount table and the records; the kubelet sends requests and   *)
(* retries them, containers start and stop, mounters die, and the plugin   *)
(* itself crashes and restarts, which kills the mounters in its container. *)
(***************************************************************************)
EXTENDS NodeServer, Supervisor

CONSTANT Rpcs  \* the RPCs the kubelet sends in an instance

ASSUME RpcAssumption == Rpcs \subseteq {"stage", "publish", "unpublish", "unstage"}

procVars == <<pc, dev, graftVars>>
vars == <<kernelVars, recordVars, watches, kubeVars, faults, procVars, supVars>>

(***************************************************************************)
(* The kubelet (external): operations that mount serialise per volume;     *)
(* targets of one volume may be unpublished side by side.  It repeats what *)
(* failed, and sends NodeStage and NodePublish again after its own         *)
(* restarts.  A container is stopped before its target is unpublished.     *)
(***************************************************************************)
TargetsOf(v) == {t \in Target : VolOf[t] = v}
IdleVolume(v) == pc[v] = "idle" /\ \A t \in TargetsOf(v) : pc[t] = "idle"
Running(c) == held[c] \notin {"notstarted", "exited"}

\* The orchestrator makes the staging directory, or leaves it to the plugin.
SendStage(v) ==
    /\ "stage" \in Rpcs /\ IdleVolume(v)
    /\ kst' = [kst EXCEPT ![v] = "staging"]
    /\ \/ UNCHANGED dirs
       \/ v \notin dirs /\ dirs' = dirs \cup {v}
    /\ Goto(v, "probe")
    /\ UNCHANGED <<mnt, live, serves, unitVars, held, kpub>>

SendPublish(t) ==
    /\ "publish" \in Rpcs /\ IdleVolume(VolOf[t])
    /\ kst[VolOf[t]] = "staged" /\ kpub[t] # "unpublishing"
    /\ kpub' = [kpub EXCEPT ![t] = "publishing"]
    /\ Goto(t, "probe")
    /\ UNCHANGED <<kernelVars, kst>>

SendUnpublish(t) ==
    /\ "unpublish" \in Rpcs
    /\ pc[VolOf[t]] = "idle" /\ \A u \in TargetsOf(VolOf[t]) : pc[u] \notin PublishLabel
    /\ pc[t] = "idle" /\ kpub[t] # "no"
    /\ \A c \in Container : At[c] = t => ~Running(c)
    /\ kpub' = [kpub EXCEPT ![t] = "unpublishing"]
    /\ Goto(t, "ucheck")
    /\ UNCHANGED <<kernelVars, kst>>

SendUnstage(v) ==
    /\ "unstage" \in Rpcs /\ IdleVolume(v) /\ kst[v] # "unstaged"
    /\ \A t \in TargetsOf(v) : kpub[t] = "no"
    /\ kst' = [kst EXCEPT ![v] = "unstaging"]
    /\ Goto(v, "find")
    /\ UNCHANGED <<kernelVars, kpub>>

\* A successful reply reaches the kubelet.
ReplyVolume(v) ==
    /\ \/ Step(v, "ok", "idle") /\ kst' = [kst EXCEPT ![v] = "staged"]
       \/ Step(v, "uok", "idle") /\ kst' = [kst EXCEPT ![v] = "unstaged"]
    /\ UNCHANGED <<kernelVars, kpub>>

ReplyTarget(t) ==
    /\ \/ Step(t, "ok", "idle") /\ kpub' = [kpub EXCEPT ![t] = "published"]
       \/ Step(t, "uok", "idle") /\ kpub' = [kpub EXCEPT ![t] = "no"]
    /\ UNCHANGED <<kernelVars, kst>>

\* After NodeUnstage the kubelet removes the staging directory.
RemoveStageDir(v) ==
    /\ kst[v] = "unstaged" /\ v \in dirs /\ ~Mounted(v)
    /\ dirs' = dirs \ {v}
    /\ UNCHANGED <<mnt, live, serves, unitVars, held, pc, kubeVars>>

\* A container captures what its target shows when it starts; the runtime
\* refuses to start one on a dead endpoint.
StartContainer(c) ==
    /\ held[c] = "notstarted" /\ kpub[At[c]] = "published"
    /\ At[c] \in dirs /\ ~mountDead(At[c])
    /\ SetHeld([held EXCEPT ![c] = Source(At[c])])
    /\ UNCHANGED <<dirs, serves, unitVars, pc, kubeVars>>

StopContainer(c) ==
    /\ Running(c)
    /\ SetHeld([held EXCEPT ![c] = "exited"])
    /\ UNCHANGED <<dirs, serves, unitVars, pc, kubeVars>>

kubelet ==
    /\ \/ \E v \in Vol : SendStage(v) \/ SendUnstage(v) \/ ReplyVolume(v) \/ RemoveStageDir(v)
       \/ \E t \in Target : SendPublish(t) \/ SendUnpublish(t) \/ ReplyTarget(t)
       \/ \E c \in Container : StartContainer(c) \/ StopContainer(c)
    /\ UNCHANGED <<recordVars, watches, faults, dev, graftVars, supVars>>

(***************************************************************************)
(* Failures.                                                               *)
(***************************************************************************)
MounterDies ==
    /\ \E d \in live : live' = live \ {d}
    /\ Fault("die")
    /\ UNCHANGED <<mnt, dirs, serves, unitVars, held, recordVars, watches, kubeVars, procVars, supVars>>

\* systemd runs the ExecStopPost of a unit whose daemon ended (external), and
\* collects the unit: umount takes whatever the staging path shows by then.
ExecStopPost ==
    /\ \E v \in Vol : unitStopping(v) /\ Detach(v) /\ loaded' = loaded \ {v}
    /\ UNCHANGED <<direct, fallbacks, recordVars, watches, kubeVars, faults, procVars, supVars>>

\* The plugin's container ends and a new one starts: the mounters die with it
\* (--no-systemd) or live on in their systemd units, newSupervisor loads the
\* state file, the requests in flight get no answer.
CrashRestart ==
    /\ Fault("crash")
    /\ live' = live \ direct
    /\ mem' = disk
    /\ watches' = {}
    /\ pc' = [p \in Proc |-> IF p = Sup THEN "scan" ELSE "idle"]
    /\ dev' = [p \in Proc |-> NoDev]
    /\ gstage' = [p \in Proc |-> NoStage]
    /\ gleft' = [p \in Proc |-> {}]
    /\ gkeep' = [p \in Proc |-> {}]
    /\ ghold' = [p \in Proc |-> {}]
    /\ found' = {} /\ sv' = {} /\ st' = {} /\ cur' = NoVol
    /\ snap' = NoRecords.pubs /\ ticks' = 0
    /\ UNCHANGED <<mnt, dirs, serves, unitVars, held, disk, kubeVars>>

(***************************************************************************)
Init ==
    /\ StateInit /\ GraftInit /\ SupInit
    /\ pc = [p \in Proc |-> IF p = Sup THEN "scan" ELSE "idle"]

\* A step of the handler of the path p.
HandlerOf(p) ==
    /\ \/ p \in Vol /\ (NodeStageVolume(p) \/ NodeUnstageVolume(p))
       \/ p \in Target /\ (NodePublishVolume(p) \/ NodeUnpublishVolume(p))
    /\ UNCHANGED supVars

Next ==
    \/ \E p \in Path : HandlerOf(p)
    \/ run
    \/ kubelet
    \/ MounterDies
    \/ ExecStopPost
    \/ CrashRestart

\* Goroutines are scheduled and system calls return, systemd ends a unit within
\* its TimeoutStopSec; the kubelet, the containers and the failures owe nothing.
Fairness ==
    /\ WF_vars(run)
    /\ WF_vars(ExecStopPost)
    /\ \A p \in Path : WF_vars(HandlerOf(p))

Spec == Init /\ [][Next]_vars /\ Fairness

\* The state NodeStage and NodePublish leave behind for every target, for the
\* instances in which the kubelet sends nothing more: each volume has a mount
\* of its own (any devices will do, they are interchangeable), the mounters of
\* some units may have died since, and the supervisor has just started.
StagedInit ==
    /\ LET m == CHOOSE f \in [Vol -> Dev] : \A v, w \in Vol : f[v] = f[w] => v = w
       IN
         /\ mnt = [p \in Path |-> <<m[VolumeOf(p)]>>]
         /\ \E gone \in SUBSET UnitVol : live = {m[v] : v \in Vol \ gone}
         /\ serves = [d \in Dev |-> IF \E v \in Vol : m[v] = d
                                    THEN CHOOSE v \in Vol : m[v] = d ELSE NoVol]
         /\ direct = {m[v] : v \in Vol \ UnitVol}
    /\ loaded = UnitVol
    /\ fallbacks = [v \in UnitVol |-> 0]
    /\ dirs = Path
    /\ held = [c \in Container |-> "notstarted"]
    /\ mem = [NoRecords EXCEPT !.known = Vol, !.pubs = [v \in Vol |-> TargetsOf(v)]]
    /\ disk = mem
    /\ watches = Vol
    /\ kst = [v \in Vol |-> "staged"]
    /\ kpub = [t \in Target |-> "published"]
    /\ faults = 0
    /\ GraftInit /\ SupInit
    /\ pc = [p \in Proc |-> IF p = Sup THEN "scan" ELSE "idle"]

StagedSpec == StagedInit /\ [][Next]_vars /\ Fairness

(***************************************************************************)
(* Properties.                                                             *)
(***************************************************************************)
LabelOf(p) ==
    IF p \in Vol THEN StageLabel \cup UnstageLabel \cup {"idle"}
    ELSE IF p \in Target THEN PublishLabel \cup UnpublishLabel \cup {"idle"}
    ELSE SupLabel

PcTypeOK ==
    /\ pc \in [Proc -> UNION {LabelOf(p) : p \in Proc}]
    /\ \A p \in Proc : pc[p] \in LabelOf(p)

TypeOK ==
    StateTypeOK /\ GraftTypeOK /\ SupTypeOK /\ CurTypeOK /\ PcTypeOK

\* Once NodeUnpublish has answered, nothing is mounted at the target, even if
\* heal re-binds the publishes of a copy of the records taken before: no bind
\* of heal's can outlive the removal of the target directory.
UnpublishedStaysUnmounted == \A t \in Target : kpub[t] = "no" => ~Mounted(t)

\* A volume the kubelet was told is staged is in the state file: whatever
\* moment the plugin restarts at, the supervisor that comes up covers it.
KnownAfterRestart == \A v \in Vol : kst[v] = "staged" => v \in disk.known

\* A staged volume has a watch, except while a restarted plugin has not yet
\* come to it in its first ensureWatches.
NotYetEnsured(v) ==
    /\ ticks = 0
    /\ \/ pc[Sup] \in DiscoverLabel \cup {"ids"}
       \/ pc[Sup] = "ensure" /\ v \in sv
StagedIsWatched ==
    \A v \in Vol : kst[v] = "staged" => v \in watches \/ NotYetEnsured(v)

\* graftHolders forgets a dead device of a volume only when no container holds
\* the corpse any more: a container that has the device mounted has a new mount
\* of that number, alive, or dead at a staging path where checkAll will see it.
ReleasedFirst ==
    \A v \in mem'.known : \A d \in mem.dead[v] \ mem'.dead[v] :
       \A c \in Container :
         held'[c] = d => d \in live' \/ \E w \in mem'.known : mountDevice(w)' = d
ForgottenIsReleased == [][ReleasedFirst]_vars

\* Outages end: from some time on every known volume is mounted, every recorded
\* target shows that mount and nothing else, and no container holds a dead one.
Recovered ==
    /\ \A v \in mem.known :
         /\ Mounted(v) /\ Top(v) \in live
         /\ \A t \in mem.pubs[v] : mnt[t] = <<Top(v)>>
    /\ \A c \in Container : held[c] \in Dev => held[c] \in live
RecoversForGood == <>[]Recovered

\* A published target that shows a FUSE mount gets into the records, even if
\* NodePublish found it mounted and left it out: discover finds it.
Unrecorded(t) ==
    /\ kpub[t] = "published" /\ Entries(mnt, t) \cap Dev # {}
    /\ t \notin disk.pubs[VolOf[t]]
PublishGetsRecorded == \A t \in Target : Unrecorded(t) ~> ~Unrecorded(t)

\* However NodeStage, NodePublish's revive and heal meet at a volume of a systemd
\* unit, and across deaths and restarts, its staging path carries at most one
\* mount, which one daemon serves: the second mounter finds the unit active, or
\* stopping.
\* Only systemd not answering lets mounts pile up, one for each such fallback.
UnitMountsOnce ==
    \A v \in UnitVol :
       /\ Len(mnt[v]) <= 1 + fallbacks[v]
       /\ fallbacks[v] = 0 => \A d, e \in Daemons(v) : d = e

\* A container sees the volume of its own target, whatever was grafted.
OwnVolumeOnly ==
    \A c \in Container : held[c] \in Dev => serves[held[c]] = VolOf[At[c]]

\* NodeUnstage has unmounted the staging path when it says so.
UnstagedIsUnmounted == \A v \in Vol : kst[v] = "unstaged" => ~Mounted(v)
=============================================================================
