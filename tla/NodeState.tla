----------------------------- MODULE NodeState -----------------------------
(***************************************************************************)
(* The state the node plugin works on: the node's mount table and what the *)
(* running containers captured of it (external: the kernel), and the       *)
(* supervisor's records, in memory and in supervisor-state.json.  The      *)
(* other modules of the node plugin read and change it through the         *)
(* operators below, one per function of the code or per system call.       *)
(*                                                                         *)
(* Every system call, every command the plugin runs and every section under *)
(* supervisor.mu is one atomic step; the processes interleave between them.*)
(***************************************************************************)
EXTENDS Naturals, Sequences

CONSTANTS
    Vol,        \* volume ids; a volume also stands for its staging path
    Target,     \* publish target paths
    VolOf,      \* the volume that is published at a target
    Container,  \* container instances: each starts at most once
    At,         \* the target a container mounts
    Dev,        \* device numbers (major:minor), which the kernel reuses
    UnitVol,    \* the volumes whose geesefs runs in a systemd unit of the host;
                \* the mounters of the others run in the plugin's container
    Sup,        \* the supervisor's process
    NoVol, NoDev,
    FaultKinds, \* the failures that may happen in an instance...
    MaxFaults   \* ...and how many of them, in all

Path == Vol \cup Target

\* The RPC handlers, one per path (a staging path serves NodeStage and
\* NodeUnstage, a target path NodePublish and NodeUnpublish), and the
\* supervisor's loop.
Proc == Path \cup {Sup}

\* What is found at a path, or what a container captured, when it is no FUSE
\* mount: the plain directory underneath.
Bare == "bare"

ASSUME NodeAssumption ==
    /\ Vol \cap Target = {}
    /\ Sup \notin Path
    /\ VolOf \in [Target -> Vol]
    /\ At \in [Container -> Target]
    /\ UnitVol \subseteq Vol
    /\ NoVol \notin Vol
    /\ NoDev \notin Dev
    /\ {"bare", "notstarted", "lost", "exited"} \cap Dev = {}
    /\ MaxFaults \in Nat

VARIABLES
    mnt,        \* the mount stack of each path, the visible mount last
    dirs,       \* the paths that exist as directories
    live,       \* the devices whose FUSE daemon runs
    serves,     \* the volume the FUSE filesystem of a device shows
    held,       \* what a container has mounted
    loaded,     \* the volumes whose unit systemd has loaded
    direct,     \* the devices whose daemon was started in the plugin's container
    fallbacks,  \* history: how often the mounter of a unit's volume was started
                \* in the container because systemd did not answer
    mem,        \* supervisor.vols
    disk,       \* supervisor-state.json
    watches,    \* supervisor.watches: the volumes that have a watch
    kst,        \* what the kubelet believes of a volume's staging
    kpub,       \* what the kubelet believes of a target
    faults      \* failures so far

unitVars == <<loaded, direct, fallbacks>>
kernelVars == <<mnt, dirs, live, serves, held, unitVars>>
recordVars == <<mem, disk>>
kubeVars == <<kst, kpub>>

StageState == {"unstaged", "staging", "staged", "unstaging"}
PublishState == {"no", "publishing", "published", "unpublishing"}

(***************************************************************************)
(* The kernel's mounts (external).                                         *)
(***************************************************************************)
Held == Dev \cup {Bare, "notstarted", "lost", "exited"}

Mounted(p) == mnt[p] # << >>
Top(p) == mnt[p][Len(mnt[p])]
\* The device of the visible mount, "" (NoDev) if there is none: mountDevice.
mountDevice(p) == IF Mounted(p) THEN Top(p) ELSE NoDev
\* statfs of the path answers ENOTCONN: mountDead's "dead".
mountDead(p) == p \in dirs /\ Mounted(p) /\ Top(p) \in Dev \ live

\* What a bind or a clone of the path yields: its visible mount, or the plain
\* directory when nothing is mounted there.
Source(p) == IF Mounted(p) THEN Top(p) ELSE Bare

Entries(m, p) == {m[p][i] : i \in 1..Len(m[p])}
\* The devices some mount of the node or of a container refers to.
InUse(m, h) == {d \in Dev : \/ \E p \in Path : d \in Entries(m, p)
                            \/ \E c \in Container : h[c] = d}

\* A FUSE daemon ends once its last mount is gone.
SetMounts(m) == mnt' = m /\ live' = live \cap InUse(m, held) /\ UNCHANGED held
SetHeld(h)   == held' = h /\ live' = live \cap InUse(mnt, h) /\ UNCHANGED mnt

Pop(s) == SubSeq(s, 1, Len(s) - 1)

\* umount -l, or umount2(path, MNT_DETACH): the visible mount, if there is one,
\* leaves the table.
Detach(p) ==
    /\ IF Mounted(p) THEN SetMounts([mnt EXCEPT ![p] = Pop(@)])
                     ELSE UNCHANGED <<mnt, live, held>>
    /\ UNCHANGED <<dirs, serves>>

\* The errors lazyUnmount meets on a path that is no mount are ignored.
lazyUnmount(p) == Detach(p) /\ UNCHANGED unitVars

\* A failure the environment may cause, counted so that outages end.
Fault(k) == k \in FaultKinds /\ faults < MaxFaults /\ faults' = faults + 1

\* mount --bind <staging path> <target>, when it succeeds.
BindOk(v, t) ==
    /\ v \in dirs /\ t \in dirs
    /\ SetMounts([mnt EXCEPT ![t] = Append(@, Source(v))])
    /\ UNCHANGED <<dirs, serves, unitVars, faults>>

\* The same, when it fails: a path is missing, the source is a dead endpoint
\* (mount(8) may or may not stat it), or for a reason of its own.
BindFails(v, t) ==
    /\ \/ (v \notin dirs \/ t \notin dirs \/ mountDead(v)) /\ UNCHANGED faults
       \/ v \in dirs /\ t \in dirs /\ Fault("bind")
    /\ UNCHANGED kernelVars

(***************************************************************************)
(* The mounters.  The unit geesefs-<volume>.service is active while its    *)
(* daemon runs, and then stopping, still loaded, until its ExecStopPost is *)
(* through, whoever took the dead mount off the staging path before.       *)
(***************************************************************************)
Daemons(v) == {d \in live : serves[d] = v}
unitActive(v) == v \in loaded /\ Daemons(v) \ direct # {}
unitStopping(v) == v \in loaded /\ Daemons(v) \ direct = {}

\* A daemon starts, in the plugin's container or not, and its mount covers the
\* staging path.  The kernel gives the new superblock any device number that is
\* not in use.
StartMounter(v, inContainer) ==
    /\ v \in dirs
    /\ \E d \in Dev \ InUse(mnt, held) :
         /\ mnt' = [mnt EXCEPT ![v] = Append(@, d)]
         /\ live' = live \cup {d}
         /\ serves' = [serves EXCEPT ![d] = v]
         /\ direct' = IF inContainer THEN direct \cup {d} ELSE direct \ {d}
    /\ UNCHANGED <<dirs, held>>

MountDirect(v) == v \notin UnitVol /\ StartMounter(v, TRUE) /\ UNCHANGED <<loaded, fallbacks>>

\* StartTransientUnit: systemd refuses a unit whose name is loaded.
StartTransientUnit(v) ==
    /\ v \in UnitVol \ loaded
    /\ StartMounter(v, FALSE)
    /\ loaded' = loaded \cup {v}
    /\ UNCHANGED fallbacks

\* systemd.New fails: the mounter is started in the container, whatever the unit
\* does.
MountFallback(v) ==
    /\ v \in UnitVol /\ Fault("dbus")
    /\ StartMounter(v, TRUE)
    /\ fallbacks' = [fallbacks EXCEPT ![v] = @ + 1]
    /\ UNCHANGED loaded

\* The path is a mount, and stat of it answers.
waitForMount(p) == Mounted(p) /\ ~mountDead(p)

\* Mutant of MountOk: a unit that cannot be started, because it is stopping, is
\* mounted in the container as well.
MountOkAnyway(v) ==
    \/ (MountDirect(v) \/ StartTransientUnit(v)) /\ UNCHANGED faults
    \/ MountFallback(v)
    \/ unitActive(v) /\ waitForMount(v) /\ UNCHANGED <<kernelVars, faults>>
    \/ unitStopping(v) /\ StartMounter(v, TRUE) /\ UNCHANGED <<loaded, fallbacks, faults>>

\* mountStaged succeeds.  A unit that is active already is not started again:
\* waitForMount answers for the mount that is there.
MountOk(v) ==
    \/ (MountDirect(v) \/ StartTransientUnit(v)) /\ UNCHANGED faults
    \/ MountFallback(v)
    \/ unitActive(v) /\ waitForMount(v) /\ UNCHANGED <<kernelVars, faults>>

\* mountStaged fails: there is no directory to mount on, a unit is active whose
\* mount left the staging path (waitForMount times out) or has not stopped yet;
\* credentials do not resolve or the endpoint does not answer; or the daemon
\* mounts too late for waitForMount.
MountFails(v) ==
    \/ /\ v \notin dirs \/ (unitActive(v) /\ ~waitForMount(v)) \/ unitStopping(v)
       /\ UNCHANGED <<kernelVars, faults>>
    \/ v \in dirs /\ Fault("mount") /\ UNCHANGED kernelVars
    \/ (MountDirect(v) \/ StartTransientUnit(v)) /\ Fault("late")
    \/ MountFallback(v)

(***************************************************************************)
(* The supervisor's records.  Each operator is one section under mu; every *)
(* one persists what it changed before it lets the lock go.                *)
(***************************************************************************)
Records == [known : SUBSET Vol,
            pubs  : [Vol -> SUBSET Target],
            dead  : [Vol -> SUBSET Dev]]

NoRecords == [known |-> {}, pubs |-> [v \in Vol |-> {}], dead |-> [v \in Vol |-> {}]]

\* The temporary file is renamed over the state file: it holds the old
\* records or the new ones, never a part of them.
persist(m) == mem' = m /\ disk' = m

\* Mutant of recordStage: the record is not persisted.
recordStageUnsaved(v) == mem' = [mem EXCEPT !.known = @ \cup {v}] /\ UNCHANGED disk

\* The new record keeps the publishes and the dead devices of the old one.
recordStage(v) == persist([mem EXCEPT !.known = @ \cup {v}])

\* An unknown volume has neither publishes nor dead devices.
deleteStage(v) ==
    persist([mem EXCEPT !.known = @ \ {v}, !.pubs[v] = {}, !.dead[v] = {}])

recordPublish(v, t) ==
    IF v \in mem.known THEN persist([mem EXCEPT !.pubs[v] = @ \cup {t}])
                       ELSE UNCHANGED recordVars

forgetPublish(v, t) ==
    IF v \in mem.known THEN persist([mem EXCEPT !.pubs[v] = @ \ {t}])
                       ELSE UNCHANGED recordVars

\* Mutant of markDead: the empty device is marked too.
markDeadAny(v, d) ==
    IF v \in mem.known THEN persist([mem EXCEPT !.dead[v] = @ \cup {d}])
                       ELSE UNCHANGED recordVars

markDead(v, d) ==
    IF d # NoDev /\ v \in mem.known
    THEN persist([mem EXCEPT !.dead[v] = @ \cup {d}])
    ELSE UNCHANGED recordVars

\* startWatch and ensureWatch give a known volume a watch.  They differ in what
\* becomes of one that runs already, which is Watch's business, not this one's.
startWatch(v) == watches' = watches \cup ({v} \cap mem.known)
ensureWatch(v) == startWatch(v)
stopWatch(v) == watches' = watches \ {v}

(***************************************************************************)
\* Only a target can show a plain directory through a bind.
KernelTypeOK ==
    /\ mnt \in [Path -> Seq(Dev \cup {Bare})]
    /\ \A v \in Vol : mnt[v] \in Seq(Dev)
    /\ dirs \subseteq Path
    /\ live \subseteq Dev
    /\ serves \in [Dev -> Vol \cup {NoVol}]
    /\ held \in [Container -> Held]
    /\ loaded \subseteq UnitVol
    /\ direct \subseteq Dev
    /\ fallbacks \in [UnitVol -> Nat]

RecordTypeOK == mem \in Records /\ disk \in Records

StateTypeOK ==
    /\ KernelTypeOK /\ RecordTypeOK
    /\ watches \subseteq Vol
    /\ kst \in [Vol -> StageState]
    /\ kpub \in [Target -> PublishState]
    /\ faults \in 0..MaxFaults

StateInit ==
    /\ mnt = [p \in Path |-> << >>]
    /\ dirs = {}
    /\ live = {}
    /\ serves = [d \in Dev |-> NoVol]
    /\ held = [c \in Container |-> "notstarted"]
    /\ loaded = {} /\ direct = {}
    /\ fallbacks = [v \in UnitVol |-> 0]
    /\ mem = NoRecords
    /\ disk = NoRecords
    /\ watches = {}
    /\ kst = [v \in Vol |-> "unstaged"]
    /\ kpub = [t \in Target |-> "no"]
    /\ faults = 0
=============================================================================
