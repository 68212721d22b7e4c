----------------------------- MODULE Supervisor -----------------------------
(***************************************************************************)
(* The supervisor's loop (run): at startup discover, ensureWatches,        *)
(* checkAll, graftHolders; then checkAll and graftHolders at every tick,   *)
(* with discover and ensureWatches before them at every DiscoverEvery-th.  *)
(* checkAll works on copies of the records it takes at its start, and heal *)
(* on the copy it is given, while the RPC handlers go on.                  *)
(***************************************************************************)
EXTENDS Graft

CONSTANT DiscoverEvery  \* ticks between discoveries: 10 in the code

ASSUME DiscoverAssumption == DiscoverEvery \in Nat \ {0}

VARIABLES
    found,   \* scanOwnMounts: the paths that carry a FUSE mount of ours
    sv,      \* the volumes the current loop has still to visit
    st,      \* the targets the current loop has still to visit
    cur,     \* the volume being adopted or healed
    snap,    \* the publishes in checkAll's copy of the records
    ticks    \* n, counted up to DiscoverEvery and from 1 again; 0 at startup

supVars == <<found, sv, st, cur, snap, ticks>>

DiscoverLabel == {"scan", "known", "adopt", "adoptrec", "handles", "adoptpub"}
HealLabel == {"hdevice", "hunbind", "hunstage", "hmount", "hwatch", "hbind", "hmark"}
SupLabel == DiscoverLabel \cup HealLabel \cup GraftLabel
              \cup {"ids", "ensure", "snapshot", "check", "grafted", "tick"}

Advance(from, to) == pc[Sup] = from /\ Goto(Sup, to)
Stay(l) == pc[Sup] = l /\ UNCHANGED pc

(***************************************************************************)
(* discover                                                                *)
(***************************************************************************)
ScanOwnMounts ==
    /\ found' = {p \in Path : Entries(mnt, p) \cap Dev # {}}
    /\ Advance("scan", IF found' = {} THEN "ids" ELSE "known")
    /\ UNCHANGED <<kernelVars, recordVars, watches, kubeVars, faults, dev, graftVars,
                   sv, st, cur, snap, ticks>>

KnownStages ==
    /\ Advance("known", "adopt")
    /\ sv' = (found \cap Vol) \ mem.known
    /\ UNCHANGED <<kernelVars, recordVars, watches, kubeVars, faults, dev, graftVars,
                   found, st, cur, snap, ticks>>

\* A mount whose vol_data.json the kubelet removed, or whose PV or secret the
\* API server does not give, is skipped.
AdoptStage ==
    /\ \/ \E v \in sv :
            /\ sv' = sv \ {v}
            /\ \/ kst[v] # "unstaged" /\ Advance("adopt", "adoptrec") /\ cur' = v /\ UNCHANGED faults
               \/ kst[v] = "unstaged" /\ Stay("adopt") /\ UNCHANGED <<cur, faults>>
               \/ kst[v] # "unstaged" /\ Stay("adopt") /\ Fault("api") /\ UNCHANGED cur
       \/ sv = {} /\ Advance("adopt", "handles") /\ UNCHANGED <<sv, cur, faults>>
    /\ UNCHANGED <<kernelVars, recordVars, watches, kubeVars, dev, graftVars,
                   found, st, snap, ticks>>

AdoptRecord ==
    /\ Advance("adoptrec", "adopt")
    /\ recordStage(cur)
    /\ cur' = NoVol
    /\ UNCHANGED <<kernelVars, watches, kubeVars, faults, dev, graftVars,
                   found, sv, st, snap, ticks>>

KnownHandles ==
    /\ Advance("handles", "adoptpub")
    /\ st' = {t \in found \cap Target : VolOf[t] \in mem.known}
    /\ found' = {}
    /\ UNCHANGED <<kernelVars, recordVars, watches, kubeVars, faults, dev, graftVars,
                   sv, cur, snap, ticks>>

\* Mutant of AdoptPublish: the targets found are not recorded.
AdoptPublishNot ==
    /\ \/ \E t \in st : Stay("adoptpub") /\ st' = st \ {t}
       \/ st = {} /\ Advance("adoptpub", "ids") /\ UNCHANGED st
    /\ UNCHANGED <<kernelVars, recordVars, watches, kubeVars, faults, dev, graftVars,
                   found, sv, cur, snap, ticks>>

AdoptPublish ==
    /\ \/ \E t \in st :
            /\ Stay("adoptpub")
            /\ st' = st \ {t}
            /\ IF kpub[t] # "no" THEN recordPublish(VolOf[t], t) ELSE UNCHANGED recordVars
       \/ st = {} /\ Advance("adoptpub", "ids") /\ UNCHANGED <<st, recordVars>>
    /\ UNCHANGED <<kernelVars, watches, kubeVars, faults, dev, graftVars,
                   found, sv, cur, snap, ticks>>

discover ==
    \/ ScanOwnMounts \/ KnownStages \/ AdoptStage \/ AdoptRecord
    \/ KnownHandles \/ AdoptPublish

(***************************************************************************)
(* ensureWatches                                                           *)
(***************************************************************************)
WatchIds ==
    /\ Advance("ids", "ensure")
    /\ sv' = mem.known
    /\ UNCHANGED <<kernelVars, recordVars, watches, kubeVars, faults, dev, graftVars,
                   found, st, cur, snap, ticks>>

EnsureWatch ==
    /\ \/ \E v \in sv : Stay("ensure") /\ sv' = sv \ {v} /\ ensureWatch(v)
       \/ sv = {} /\ Advance("ensure", "snapshot") /\ UNCHANGED <<sv, watches>>
    /\ UNCHANGED <<kernelVars, recordVars, kubeVars, faults, dev, graftVars,
                   found, st, cur, snap, ticks>>

ensureWatches == WatchIds \/ EnsureWatch

(***************************************************************************)
(* checkAll                                                                *)
(***************************************************************************)
Snapshot ==
    /\ Advance("snapshot", "check")
    /\ sv' = mem.known
    /\ snap' = mem.pubs
    /\ UNCHANGED <<kernelVars, recordVars, watches, kubeVars, faults, dev, graftVars,
                   found, st, cur, ticks>>

\* Only a dead endpoint is healed: a path that is gone, or where statfs
\* succeeds, is passed over.
CheckVolume ==
    /\ \/ \E v \in sv :
            /\ sv' = sv \ {v}
            /\ \/ mountDead(v) /\ Advance("check", "hdevice") /\ cur' = v
               \/ ~mountDead(v) /\ Stay("check") /\ UNCHANGED cur
       \/ sv = {} /\ Advance("check", "graft") /\ UNCHANGED <<sv, cur>>
    /\ UNCHANGED <<kernelVars, recordVars, watches, kubeVars, faults, dev, graftVars,
                   found, st, snap, ticks>>

(***************************************************************************)
(* heal                                                                    *)
(***************************************************************************)
HealDevice ==
    /\ Advance("hdevice", "hunbind")
    /\ dev' = [dev EXCEPT ![Sup] = mountDevice(cur)]
    /\ st' = snap[cur]
    /\ UNCHANGED <<kernelVars, recordVars, watches, kubeVars, faults, graftVars,
                   found, sv, cur, snap, ticks>>

HealUnbind ==
    /\ \/ \E t \in st : Stay("hunbind") /\ st' = st \ {t} /\ lazyUnmount(t)
       \/ st = {} /\ Advance("hunbind", "hunstage") /\ UNCHANGED <<st, kernelVars>>
    /\ UNCHANGED <<recordVars, watches, kubeVars, faults, dev, graftVars,
                   found, sv, cur, snap, ticks>>

HealUnstage ==
    /\ Advance("hunstage", "hmount")
    /\ lazyUnmount(cur)
    /\ UNCHANGED <<recordVars, watches, kubeVars, faults, dev, graftVars, supVars>>

\* A failed remount ends the heal: the corpse is off the table, and its device
\* is not marked.
HealMount ==
    /\ \/ Advance("hmount", "hwatch") /\ MountOk(cur) /\ UNCHANGED <<cur, dev>>
       \/ /\ Advance("hmount", "check") /\ MountFails(cur)
          /\ cur' = NoVol /\ dev' = [dev EXCEPT ![Sup] = NoDev]
    /\ UNCHANGED <<recordVars, watches, kubeVars, graftVars, found, sv, st, snap, ticks>>

HealWatch ==
    /\ Advance("hwatch", "hbind")
    /\ startWatch(cur)
    /\ st' = snap[cur]
    /\ UNCHANGED <<kernelVars, recordVars, kubeVars, faults, dev, graftVars,
                   found, sv, cur, snap, ticks>>

\* A target that cannot be bound again is passed over.
HealBind ==
    /\ \/ \E t \in st :
            Stay("hbind") /\ st' = st \ {t} /\ (BindOk(cur, t) \/ BindFails(cur, t))
       \/ st = {} /\ Advance("hbind", "hmark") /\ UNCHANGED <<st, kernelVars, faults>>
    /\ UNCHANGED <<recordVars, watches, kubeVars, dev, graftVars, found, sv, cur, snap, ticks>>

\* Mutant of HealMark: the corpse's device is not remembered.
HealMarkNot ==
    /\ Advance("hmark", "graft")
    /\ dev' = [dev EXCEPT ![Sup] = NoDev]
    /\ UNCHANGED <<kernelVars, recordVars, watches, kubeVars, faults, graftVars, supVars>>

HealMark ==
    /\ Advance("hmark", "graft")
    /\ markDead(cur, dev[Sup])
    /\ dev' = [dev EXCEPT ![Sup] = NoDev]
    /\ UNCHANGED <<kernelVars, watches, kubeVars, faults, graftVars, supVars>>

heal ==
    \/ HealDevice \/ HealUnbind \/ HealUnstage \/ HealMount
    \/ HealWatch \/ HealBind \/ HealMark

(***************************************************************************)
(* run                                                                     *)
(***************************************************************************)
\* graftHolders returned, to heal (which returns to checkAll) or to run.
Grafted ==
    /\ Advance("grafted", IF cur = NoVol THEN "tick" ELSE "check")
    /\ cur' = NoVol
    /\ UNCHANGED <<kernelVars, recordVars, watches, kubeVars, faults, dev, graftVars,
                   found, sv, st, snap, ticks>>

Tick ==
    /\ ticks' = IF ticks = DiscoverEvery THEN 1 ELSE ticks + 1
    /\ Advance("tick", IF ticks' = DiscoverEvery THEN "scan" ELSE "snapshot")
    /\ UNCHANGED <<kernelVars, recordVars, watches, kubeVars, faults, dev, graftVars,
                   found, sv, st, cur, snap>>

run ==
    \/ discover \/ ensureWatches \/ Snapshot \/ CheckVolume \/ heal
    \/ graftHolders(Sup) /\ UNCHANGED <<kubeVars, supVars>>
    \/ Grafted \/ Tick

SupTypeOK ==
    /\ found \subseteq Path
    /\ sv \subseteq Vol
    /\ st \subseteq Target
    /\ cur \in Vol \cup {NoVol}
    /\ snap \in [Vol -> SUBSET Target]
    /\ ticks \in 0..DiscoverEvery

\* There is a volume to adopt or to heal where one is adopted or healed.
CurTypeOK == pc[Sup] \in HealLabel \cup {"adoptrec"} => cur \in Vol

SupInit ==
    /\ found = {}
    /\ sv = {}
    /\ st = {}
    /\ cur = NoVol
    /\ snap = NoRecords.pubs
    /\ ticks = 0
=============================================================================
