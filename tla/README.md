# A TLA+ verification of csi-s3

csi-s3 is a CSI driver that mounts S3 buckets with a FUSE filesystem (geesefs).
A FUSE mount is as alive as its daemon: when the daemon dies, the mount stays
in the mount table as a dead endpoint, and the containers that captured it keep
it. Most of what is hard in this driver is therefore on the node: the RPC
handlers, a supervisor that heals dead mounts, the graft of healed mounts into
running containers, and a watch that keeps a listing cache true to a bucket. All
of them run concurrently, across crashes, on a state only partly theirs (the
mount table). The other half is the controller, whose requests are repeated,
overtaken and interrupted while they remove data. These modules model both.

## 1. Inventory

| part | source | state | operations | hard because |
|---|---|---|---|---|
| node service | `pkg/driver/nodeserver.go` | none of its own: the mount table, the supervisor's records | NodeStage, NodePublish, NodeUnpublish, NodeUnstage | retried by the kubelet, interrupted by crashes, interleaved with the supervisor |
| supervisor | `pkg/driver/supervisor.go` | `vols` (volumes, publish targets, dead devices), `supervisor-state.json` | recordStage, forgetStage, recordPublish, forgetPublish, discover, checkAll, heal | works on copies while the RPCs go on; every step of a heal may fail |
| graft | `pkg/driver/graft.go`, `cmd/nsmount-heal` | the dead devices of each volume | markDead, graftHolders, nsmount-heal | runs in several processes at once, unlocked between its first and last step; device numbers are reused |
| watch | `pkg/driver/watch.go`, `cache.go` | `watches`; per watch `pending`, `flushing`, `dropping`, `dropAgain` | startWatch, stopWatch, run, changed, flush, dropAll, waitDropping | events, bursts, drops and readers in any order; broken and refused streams |
| listener | `pkg/s3/listen.go` | one HTTP stream, a watchdog | Listen | a silent server |
| warm-up | `pkg/driver/cache.go` | `warming` | warm, stopWarm, warmUp | parallel walks that must stop |
| mounters | `pkg/mounter` | processes, systemd units | Mount, FuseUnmount, SystemdUnmount | two lives of a mounter: in the container, or in a unit |
| controller, S3 client | `pkg/driver/controllerserver.go`, `pkg/s3/client.go` | the buckets | CreateVolume, DeleteVolume, removal of objects | listing errors, prefixes of each other |
| COSI bridge | `pkg/driver/cosi.go` | none | resolve a BucketAccess | a gate that is retried |
| identity, driver, main | `identityserver.go`, `driver.go`, `cmd/s3driver` | none | constant answers, wiring | nothing |

How they interact: the kubelet calls the node service. Its handlers and the
supervisor share `supervisor.vols` under `supervisor.mu`, and the mount table
under no lock at all. NodeStage, NodePublish and heal start watches and call
graftHolders; NodeUnstage stops the watch. A watch acts on the staging path with
setxattr only, so it meets the rest of the plugin only in its start and its end:
this is why it has a specification of its own. The controller runs elsewhere and
shares with the node only the volume's id and context, the buckets and the COSI
objects: its specification has the part of NodeStage that decides what is
mounted.

What makes each part correct:

- node service: what is unpublished stays unmounted; a volume that was reported
  staged is recorded, watched and known after a restart; an unstaged one is
  unmounted.
- supervisor and graft: outages end, for the host's mounts and for the
  containers; a dead device is remembered as long as a container holds it;
  every container sees its own volume.
- mounters: a volume in a systemd unit has one daemon and one mount, as long as
  systemd answers.
- watch, listener and warm-up: while the bucket is heard no stale listing goes
  unnoticed, and a read-only volume gets warm again; heard or not, no stale
  listing stays for good; a stopped watch ends its loop, its flushes and its
  drops.
- controller, S3 client and COSI bridge: data goes only with the volume it
  belongs to, and is gone when the volume is said to be; a mount shows its
  volume's data; what was asked for gets done.

`PROJECT.json` lists the hazards of this code line by line, with the properties
that cover them or a note.

## 2. Modules

    NodeState  <-  Graft  <-  NodeServer  <-+
                     ^                      +-  NodePlugin  <-  MCNodePlugin
                     +-----  Supervisor  <--+        ^
                                                     +-- NodePluginProofs <- NodePluginSafety <- NodePluginForgets
                                                                          <- NodePluginUnits
    Watch  <-  MCWatch
           <-  WatchProofs  <-  WatchWarms
    S3Client  <-  Controller  <-  MCController
                      |       <-  ControllerProofs  <-  ControllerRefines
                  VolumeStore  (INSTANCE: what the controller implements)

**NodeState** holds what the processes share. `mnt[p]` is the stack of mounts at
a path (device numbers, or `Bare` for a bind of a plain directory), `live` the
devices with a running daemon, `serves` the volume a device shows, `held` what
each container captured, `dirs` the existing directories. `loaded` are the
volumes whose systemd unit is loaded, `direct` the devices whose daemon runs in
the plugin's container, and `fallbacks`, a history variable, counts the mounts of
a unit's volume that went to the container. `mem` and `disk` are
`supervisor.vols` and the state file, as a record of the known volumes, their
publish targets and their dead devices. `kst` and `kpub` are what the kubelet
believes. The operators are the functions of the code that change these in one
system call or one section under the lock: `lazyUnmount`, `recordStage`,
`markDead`, ... A volume id stands for its staging path as well.

**Graft** is `graftHolders`: snapshot, probes, scan, one nsmount-heal per
holder, final filter. **NodeServer** has the four RPCs, one action per system
call, command or locked section. **Supervisor** has `discover`,
`ensureWatches`, `checkAll`, `heal` and the tick loop. Each process has a
program counter `pc[p]`: one process per staging path (NodeStage, NodeUnstage),
one per target (NodePublish, NodeUnpublish), and the supervisor.
**NodePlugin** composes them with the environment, which is external: the
kubelet (it serialises the mount operations of a volume, lets targets of one
volume be unpublished side by side, repeats what failed and what it lost in a
restart, removes the staging directory after NodeUnstage), containers that
start and stop, mounters that die, and a plugin that crashes. After a crash
memory is reloaded from the state file.

A mounter has one of two lives. In the plugin's container (`--no-systemd`, as in
the shipped `deploy/kubernetes/storageclass-cosi.yaml`) it dies with a crash. A
volume of `UnitVol` has the unit `geesefs-<volume>.service` on the host, which
survives a crash. A second `Mount` finds the unit active and only waits for the
mount (`waitForMount`). When its daemon ends the unit is stopping: systemd runs
ExecStopPost as a step of its own, which detaches whatever is then visible at the
staging path, and only then is the unit gone. Until that step it is loaded,
also if heal or checkMount took the corpse away before, and systemd refuses a
second unit of its name. When systemd.New fails in `Mount` (`MountFallback`, the
fault kind `dbus`) geesefs is started in the container, whatever the unit does:
this stacks a mount on that of an active unit, or leaves one that the ExecStopPost
of a stopping unit takes away. NodeUnstage looks for the process
first (`FindMounter`), then stops the unit over D-Bus (`SystemdUnmount`) and
waits for it. Whether the plugin's process scan sees the host's daemons depends
on `hostPID`, which the Helm chart does not set: both answers are in the model.
A mount that fails may have mounted nothing (`mount`) or too late (`late`).

**Watch** is one watch: writers and readers of the bucket, the loop `run` with
its stream, the flush goroutines of bursts (several may overlap), the runner
of whole drops, and the walks of the warm-up (`walk` is what they have still to
list, of all walks together: stopWarm ends them all). `Silence` is a connection
that dies without a word, and `watchdog` Listen's answer to it. Keys are sequences of names below the mount; a listing is the
set of the next names; `cached` holds the listings geesefs keeps. Timers are
abstract: a sleep ends some time, and `due` says that refusedRefresh has passed
since the last drop. `lost` says that a setxattr or a listing of a walk failed,
which the code logs and does not repeat.

**S3Client** has the object store (buckets, and objects named by bucket, volume
prefix and file) and the calls of `pkg/s3/client.go`, one step per request.
removeObjects lists, then removes what it listed; if a removal fails,
removeObjectsOneByOne lists and removes again. `listErr` is read once, right
after the goroutine that writes it was started, so a failed listing is either
seen or a listing that ends early: both are in the model.

**Controller** has CreateVolume and DeleteVolume as programs of a few request
handlers, with the COSI bridge (a PVC that cannot be read counts as one without
the annotation; BucketAccess, BucketClaim and Secret are read one after
another), requests with BucketInfo, with plain credentials or with no secrets at
all (`refs`: then no client can be made, whenever one is needed), `volumeTarget` of NodeStage, and around them, external, the
provisioner (one request of a volume at a time; it gives up waiting and repeats,
while the handler it gave up on goes on), the pods, and a COSI controller that
makes the bucket, the Secret and the grant. **VolumeStore** is the promise: a
volume's files are added while it is ready, go only when its deletion was asked
for, have gone when it is said to be deleted, and never go from a place that is
lent (a COSI bucket). Controller implements it with `home[v]` the place where
the data of `v` belongs and `data[p]` the files of the place `p`; the handlers,
the listings and the COSI objects are hidden.

### Abstractions, and what they leave out

- A unit has its volume's own id, and so always the staging path it is asked
  for.
- A daemon that mounts and dies before waitForMount looks is a mount that comes
  too late followed by a death, two steps of the model.
- Every system call, command and locked section is one step. nsmount-heal's
  clone and move are one step; so is the scan of `/proc`.
- `IsLikelyNotMountPoint` reports ENOTCONN for a dead endpoint, as checkMount
  expects; on a bind of a plain directory it says "mounted".
- Writing the state file does not fail. Argument checks before the first change
  of state, errors of mkdir and of the process scan, a missing nsmount-heal
  binary, and `CSI_S3_SUPERVISE_INTERVAL=0` are left out.
- geesefs answers a listing at one instant, and setxattr looks the directory up
  on the server again.
- The flag `deaf` of the watch only chooses a log line. `warmParallel` only
  limits how many directories are listed at a time.
- Volume names are those after sanitizeVolumeID; `Covers` says which names begin
  with which. A class names no bucket of a COSI claim or of another volume.
- The store answers consistently; an object named like a prefix does not exist.

## 3. Runs

`tlc -config <run>.cfg <module>`; all bounds are constants of the cfg files.

| run | instance | checks |
|---|---|---|
| `node_rpcs` | one volume, one target, three devices, one failure of any kind, from an empty node | `TypeOK`, `UnpublishedStaysUnmounted`, `KnownAfterRestart`, `StagedIsWatched` |
| `supervisor_heals` | a staged volume, two containers, three failures (deaths, failed grafts) | `ForgottenIsReleased`, `RecoversForGood` |
| `publish_recorded` | a staged volume in a systemd unit whose daemon runs or has died; publish, unpublish and unstage; one restart or unanswered D-Bus call | `UnitMountsOnce`, `PublishGetsRecorded` |
| `volumes` | two volumes: one with its own bucket beside a COSI bucket, two prefixes of one bucket, or two views of a COSI bucket, one without secrets; two handlers, two failures | `TypeOK`, `MountsOwnData`, `KeepsPromise`, `RequestsComplete` |
| `watch_notices` | two directories, one nested, two flushes at a time, credentials that fail | `TypeOK`, `StaleIsNoticed` |
| `watch_drops` | two keys, refused, broken and silent connections, failing and resolving credentials, cancellation | `StaleIsDropped`, `EndedStops` |
| `watch_warms` | a read-only volume with a key two levels down, failing drops and walks | `StaleIsNoticed`, `ColdIsWalked` |

`UnpublishedStaysUnmounted` is the race of heal's re-bind with NodeUnpublish:
it holds because the target directory is removed before the record is, so a
late bind has nothing to bind on. `KnownAfterRestart` and `StagedIsWatched` say
that a crash at any point leaves a supervisor that covers all that was reported
staged. `ForgottenIsReleased` is an action property: a dead device leaves the
records only when no container holds the corpse: one that has the device mounted
has a new mount of that number, alive, or dead at a staging path of a known
volume, where the next round looks. `RecoversForGood` is the
supervisor's purpose: from some time on, every known volume is mounted, every
recorded target shows that mount and no container holds a dead one.
`PublishGetsRecorded` covers NodePublish's early return. `UnitMountsOnce` is the
race of NodePublish's revive with heal: both call Mount, and the second finds
the unit active or stopping. The one way to a second mount is the fallback, and
the property counts it: there are at most as many more mounts as fallbacks, and
without one there is one daemon.
`KeepsPromise` is the refinement of VolumeStore: no delete, repeated, overtaken
by its own retry or gone on after a time-out, takes a file of another volume or
of a COSI bucket, and none that answers leaves one behind. `MountsOwnData` says
that what a node mounts is the volume's data, and with a handle not before the
bucket is ready and the access granted; `RequestsComplete` that every create,
delete and stage that began ends, through races for the bucket and restarts; it
does not speak of the delete of a volume without secrets, which fails every time
and is a finding.
`StaleIsNoticed`
relates every cached listing to the bucket and to the events, bursts and drops
on their way; `StaleIsDropped` says that a stale listing does not stay, through
broken streams, silence and refusals; `EndedStops` that a cancelled watch ends
its loop, its flushes and its drops (the walks are the volume's, not the
watch's: forgetStage, supervisor.go:145, and heal, supervisor.go:421, end them
with stopWarm); `ColdIsWalked` that a directory of a read-only volume that
is out of the cache has a walk or a drop on its way, whichever walks were
stopped.

Five more runs state what a comment or a document says and the code does not do
(each has its finding in `PROJECT.json`, next to six that have no run of their
own because a run above shows them with one constant changed, or the property
says where it does not speak or what it allows):

| run | what TLC shows |
|---|---|
| `failed_remount` | a remount that fails in heal leaves a plain directory: nothing tries again, and the corpse's device is not remembered (`RecoversForGood`) |
| `forgotten_holder` | two graftHolders at once: the later filter drops the device the other one's caller marked (`ForgottenIsReleased`) |
| `device_reuse` | a stale dead device names another volume's new mount, whose container gets the wrong volume (`OwnVolumeOnly`) |
| `unstage_reply` | NodeUnstage replies success with the staging path still mounted (`UnstagedIsUnmounted`) |
| `watch_unresolved` | while the credentials do not resolve nothing is dropped (`StaleIsDropped`) |

Bounds. Device numbers: three let a corpse, a heal and the death of the healed
mount coexist, and a number be reused. Failures are counted (`MaxFaults`),
because a property about recovery needs outages that end; one failure at every
point of every RPC, and three in a row for the supervisor alone, are the cases
a heal distinguishes. `DiscoverEvery = 2` makes rounds with and without
discover. Two flushes at a time and a queue of one event are the smallest
instance in which bursts overlap; `MaxDirs = 1` makes both branches of flush
happen. Two handlers are the smallest instance with a request and its retry, or
two volumes, at once; two failures let a time-out be followed by a failed call
of either handler. The fault kind `listprefix` is left out of `volumes` and
`UnitVol` is empty in `supervisor_heals` because each would show its finding.
`supervisor_heals` sends no RPC, so the supervisor is the only caller of
graftHolders there; `forgotten_holder` has two. `Covers` is empty in `volumes`:
its volume names do not begin each other.
Device numbers and flushers are symmetric in the runs of invariants. Deadlock is
not checked in `volumes`: when all volumes are gone the system rests.
`NodePlugin!StagedInit`, used where the kubelet's staging is not the subject,
is the state NodeStage and NodePublish leave behind; the daemons of some units may
have died in it, so that one failure is enough for a fallback to meet a unit that
stops or that was just started again.

Fairness. On the node, the supervisor's loop, each handler and systemd's
ExecStopPost are weakly fair: goroutines are scheduled, commands and system calls
return. The kubelet, the containers and the failures are not fair. In the
controller the handlers are, and so are the repetition of a request that began
(the sidecar's retry, the kubelet's NodeStage) and the COSI controller; the
start of a request is not. In Watch, the loop, the end of Listen when its
context ends, the answer of volumeTarget (either way), the timers, the watchdog,
the flushes, the runner of drops and the walks are weakly fair; that a stream breaks is not.
`ResolvingSpec` adds strong fairness of the success of volumeTarget: credentials
that can be resolved again and again are resolved in the end.

## 4. Proofs

TLAPS proves every invariant and action property of the passing runs, and the
refinement, for every choice of the constants that the named assumptions and the
hypotheses below allow. TLC evaluates the assumptions, and finds no violation of
the inductive invariants on the instances of the runs.

| theorem | statement | hypotheses |
|---|---|---|
| `NodePluginProofs!TypeCorrect` | `Spec => []TypeOK` | |
| `NodePluginSafety!UnpublishSafe`, `RestartSafe`, `WatchSafe` | the invariants of `node_rpcs` | |
| `NodePluginUnits!UnitsMountOnce` | `Spec => []UnitMountsOnce` | |
| `NodePluginForgets!HoldersReleased` | `StagedSpec => ForgottenIsReleased` | `Alone`, `EnoughDevices` |
| `ControllerProofs!TypeCorrect` | `Spec => []TypeOK` | |
| `ControllerProofs!MountsOwn` | `Spec => []MountsOwnData` | `AnnotationHeard` |
| `ControllerRefines!KeepsVolumeData` | `Spec => KeepsPromise` | `NamesApart`, `ListingsWhole`, `AnnotationHeard` |
| `WatchProofs!TypeCorrect` | `Spec => []TypeOK` | |
| `WatchProofs!NothingStaleUnnoticed` | `Spec => []StaleIsNoticed` | |
| `WatchWarms!NothingColdForgotten` | `Spec => []ColdIsWalked` | |

### The node

The assumptions are `NodeAssumption`, `DiscoverAssumption` and `RpcAssumption`.
`TypeCorrect` has one lemma per action or group of actions that change the same
variables; the mount stacks are sequences, and what the supervisor heals or
adopts is a volume (`CurTypeOK`, needed because heal's steps index by it).

The three invariants of `node_rpcs` are not inductive alone. `SafetyInv` adds:
memory and state file are equal (every section under the lock persists); a
mounted target has its directory, and an unpublished one has none, also in the
last two steps of NodeUnpublish (`TargetInv`: this is the argument why heal's
late bind fails); a volume is known, and watched, from the step of NodeStage that
does so, and only its own NodeUnstage ends it (`KnownInv`, `WatchedInv`, with the
exception of a restarted supervisor in its first ensureWatches).
`SafetyInductive` proves `Spec => [](TypeOK /\ SafetyInv)`, with a lemma for what
graftHolders, the supervisor, the other handlers and the kubelet leave alone and
a lemma per process for the rest.

`UnitMountsOnce` needs `UnitInv`, which ties the mounts to the unit the next
mounter meets. A loaded unit accounts for one mount at the staging path, and each
fallback for one more; without a fallback no daemon of the volume runs in the
container, all of them are one, and there is none once the unit is gone. A step
is one of five kinds. A `Calm` one only ends daemons and takes at most the
visible mount off a staging path. StartTransientUnit adds a mount, and needs that
the unit is not loaded: so none of its daemons is left. `MountFallback` adds a
mount, and counts it. `MountDirect` is not for a unit's volume. And ExecStopPost
gives up the unit: it detaches a mount if there is one, and its guard is that the
unit's daemon does not run. One lemma per process shows which kind its steps are.

`ForgottenIsReleased` is proved for the supervisor as the only caller of
graftHolders and for mounters in the container (`Alone`). Neither can be left
out: beside the RPCs the run `forgotten_holder` refutes it, and with
`UnitVol = {v1}` in `supervisor_heals` TLC finds that ExecStopPost takes the
corpse from the staging path while a container that started on a target's corpse
is not on the scan's list. `EnoughDevices` says that everything can be staged to
begin with. The argument (`ForgetInv`): all dead devices are in graftHolders'
copy when it is made, because nothing else marks any before its filter; a
container that has one of them is on the scan's list, or has got it since
(`HolderInv`). It can have got it only from a target, and a live mount at a
target is the visible one of its staging path (`BoundInv`): heal unbinds the
targets of a dead mount before it mounts, binds the new one only, and every
volume has its own targets (`ListInv`).

### The controller

`MountInv` is inductive for `MountsOwnData`: a delete under way, waited for or
not, is one of a volume whose deletion was asked for, and a create that is waited
for one of a volume that is not ready (`PhaseInv`); a created volume has the
handle its PVC asks for, or credentials that name the bucket (`HandleInv`); a
node works for ready volumes only, and what it has seen of the COSI objects stays
so while it reads the others (`NodeInv`).

`KeepsPromise` needs `DataInv` as well: every object lies in a bucket that exists
and every file in some volume's home (`StoreInv`); what a handler has listed are
files of its own volume, and none that is lent (`LeftOf`); a handler that has
listed a prefix has all of its files before it or knows that a removal failed,
and so a delete that answers has left none (`GoneOf`). For a volume that is a
bucket the store itself refuses to remove what is not empty. Under these,
initial states map to initial states, and every step of the controller is a
stutter of VolumeStore or one of its steps: a write adds a file, a removal takes
one from a volume that is being deleted, an answer changes the phase.

The hypotheses are definitions of `Controller`, and `MCController!Supposed`
makes TLC evaluate them on the run's classes. Each one excludes a case that
`PROJECT.json` lists as a finding or a hazard:

- `NamesApart`: no volume name begins another. A provisioner's names are of one
  length. Otherwise RemovePrefix, which lists by the bare name, takes the other
  volume's objects too.
- `ListingsWhole`: no listing of a prefix ends early unnoticed (the unsynchronised
  `listErr`). Otherwise DeleteVolume answers with files left.
- `AnnotationHeard`: a class that uses an annotated PVC also brings the COSI
  credentials (the shipped `storageclass-cosi.yaml` does), or no secrets at all
  (then a request that misses the annotation fails and is repeated), or the API
  server answers. Otherwise a PVC that cannot be read counts as one without the
  annotation, and the volume gets a bucket of its own.

### The watch

There is no hypothesis beyond `WatchAssumption`. `StaleIsNoticed` speaks of
listings, and that is too coarse to be inductive: a drop that is on its way for
one wrong entry of a listing may find its path past another. `EntryInv` states it
for every wrong entry `e` of a cached directory `c`: a drop is on its way at or
above `c`, or at or below `e`, and that one will not find its way while the cache
is wrong about `e`, and go up to `c`. `HiddenInv` is the other half: a directory
that exists and that a cached listing hides has a drop of its own coming.
`CacheInv` says that a listing has the children of its directory, and `AtInv`
that a flush is at one directory at a time. The proof has one lemma per action;
the facts about paths (prefixes, fronts, `outermost`, the listing of a key set)
are lemmas of their own, since the provers know nothing of sequences of unknown
length.

`ColdIsWalked` follows from `WalkInv` and `HiddenInv`. `WalkInv` covers all that
a walk can reach, directories that exist and those that a cached listing still
shows, because they may be made again before the walk is there; the others are
hidden by a stale listing, and then a drop comes. A directory is covered by a
walk, by a target of a flush, dropped or not yet dropped, or by a drop of the
whole cache, which walks from the root again and so may stop all walks.

### What the proofs changed

- `ForgottenIsReleased` used to ask that the corpse be at the staging path of the
  same volume. The proof did not go through for two volumes, and TLC showed why:
  when a device number is reused, the container's new corpse may be at another
  volume's staging path, which the supervisor finds as well. The property now
  says so; it holds on an instance with two volumes and all kinds of failures.
- `Dir` of Watch did not have the root when there are no keys.

### Only model-checked

Liveness is beyond the prover: `RecoversForGood`, `PublishGetsRecorded`,
`StaleIsDropped`, `EndedStops`, `RequestsComplete`. All else that a passing run
checks is proved; what the five violation runs check is refuted.

## 5. Not modelled, and the plan

Not modelled: identity service, start-up and command line (flag parsing and
constant answers, no state); the command lines of the mounters and their filter
of mount options, the copy of the geesefs binary and of the CA bundle (no
property here depends on them); s3fs and rclone (the same command-and-wait as
geesefs in the container); the signing of the listener's request and the
decoding of its records (the keys they yield are Watch's events);
ValidateVolumeCapabilities (reads only) and the unimplemented RPCs; failures of
writing the state file and of mkdir.

In order:

1. An abstract specification of a staging path as the kubelet and the pods see
   it (mounted, dead, plain directory), and which steps of heal leave it: the
   hazards that have a note in `PROJECT.json` and no property are about it.
2. Pure functions against reference definitions: invalidateNearest,
   listenPrefix, graftFlags, unescapeMount.
3. Which single change of graftHolders makes `ForgottenIsReleased` hold beside
   the RPCs and for units, and `ForgetInv` an invariant there.
