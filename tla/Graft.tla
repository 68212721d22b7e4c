------------------------------- MODULE Graft -------------------------------
(***************************************************************************)
(* graftHolders: bringing a healed mount into the containers that still    *)
(* hold the dead one.  The supervisor calls it after every heal and at the *)
(* end of every round, NodeStageVolume and NodePublishVolume call it after *)
(* they revived a staging mount, and nothing keeps the calls of different  *)
(* processes apart: only the first and the last step hold supervisor.mu.   *)
(***************************************************************************)
EXTENDS NodeState

VARIABLES
    pc,      \* where each process is
    dev,     \* deadDev / dev: the corpse a process means to mark
    gstage,  \* stage: the volume of each device graftHolders works on
    gleft,   \* the devices whose staging it has not probed yet
    gkeep,   \* keep: the devices that stay remembered
    ghold    \* the holders it found and has not treated yet

graftVars == <<gstage, gleft, gkeep, ghold>>

GraftLabel == {"graft", "gprobe", "gscan", "gheal", "gdone"}

Goto(p, l) == pc' = [pc EXCEPT ![p] = l]

\* Where graftHolders' caller goes on: NodeStage replies, NodePublish looks at
\* its target, the supervisor takes the next volume or waits for the next tick.
AfterGraft(p) ==
    IF p \in Vol THEN "ok" ELSE IF p \in Target THEN "tcheck" ELSE "grafted"

NoStage == [d \in Dev |-> NoVol]

\* Each dead device with the staging path of a volume that remembers it (of
\* any such volume: the code ranges over a map, the last one wins).
DeadStages ==
    {f \in [Dev -> Vol \cup {NoVol}] :
       \A d \in Dev :
         LET owners == {v \in mem.known : d \in mem.dead[v]}
         IN IF owners = {} THEN f[d] = NoVol ELSE f[d] \in owners}

\* The snapshot, under the lock; nothing to do without dead devices.
GraftSnapshot(p) ==
    /\ pc[p] = "graft"
    /\ \E f \in DeadStages :
         IF f = NoStage
         THEN Goto(p, AfterGraft(p)) /\ UNCHANGED graftVars
         ELSE /\ gstage' = [gstage EXCEPT ![p] = f]
              /\ gleft' = [gleft EXCEPT ![p] = {d \in Dev : f[d] # NoVol}]
              /\ Goto(p, "gprobe")
              /\ UNCHANGED <<gkeep, ghold>>
    /\ UNCHANGED <<kernelVars, recordVars, watches, faults, dev>>

\* A device whose staging is dead (again) is kept for a later round.
GraftProbe(p) ==
    /\ pc[p] = "gprobe"
    /\ \/ \E d \in gleft[p] :
            /\ gleft' = [gleft EXCEPT ![p] = @ \ {d}]
            /\ gkeep' = [gkeep EXCEPT ![p] =
                           IF mountDead(gstage[p][d]) THEN @ \cup {d} ELSE @]
            /\ UNCHANGED pc
       \/ gleft[p] = {} /\ Goto(p, "gscan") /\ UNCHANGED <<gleft, gkeep>>
    /\ UNCHANGED <<kernelVars, recordVars, watches, faults, dev, gstage, ghold>>

\* findHolders: the containers that hold a FUSE mount of one of the devices.
findHolders(p) ==
    {h \in Container \X Dev : held[h[1]] = h[2] /\ gstage[p][h[2]] # NoVol}

GraftScan(p) ==
    /\ pc[p] = "gscan"
    /\ ghold' = [ghold EXCEPT ![p] = findHolders(p)]
    /\ Goto(p, "gheal")
    /\ UNCHANGED <<kernelVars, recordVars, watches, faults, dev, gstage, gleft, gkeep>>

\* nsmount-heal: clone the staging path, enter the container, detach what it
\* has at the mount point, move the clone there.
HelperGrafts(c, v) ==
    /\ held[c] # "exited" /\ v \in dirs
    /\ SetHeld([held EXCEPT ![c] = Source(v)])
    /\ UNCHANGED <<dirs, serves, unitVars, faults>>

\* It fails where the container is gone or there is nothing to clone, and may
\* fail for reasons of its own before the detach or after it.
HelperFails(c, v) ==
    \/ (held[c] = "exited" \/ v \notin dirs) /\ UNCHANGED <<kernelVars, faults>>
    \/ /\ held[c] # "exited" /\ v \in dirs
       /\ \/ Fault("graft") /\ UNCHANGED kernelVars
          \/ /\ Fault("detached")
             /\ SetHeld([held EXCEPT ![c] = "lost"])
             /\ UNCHANGED <<dirs, serves, unitVars>>

\* Mutant of GraftHolder: the device of a failed graft is not kept.
GraftHolderOnce(p) ==
    /\ pc[p] = "gheal"
    /\ \E h \in ghold[p] :
         /\ ghold' = [ghold EXCEPT ![p] = @ \ {h}]
         /\ \/ h[2] \in gkeep[p] /\ UNCHANGED <<kernelVars, faults>>
            \/ h[2] \notin gkeep[p] /\ HelperGrafts(h[1], gstage[p][h[2]])
            \/ h[2] \notin gkeep[p] /\ HelperFails(h[1], gstage[p][h[2]])
    /\ UNCHANGED <<recordVars, watches, pc, dev, gstage, gleft, gkeep>>

GraftHolder(p) ==
    /\ pc[p] = "gheal"
    /\ \E h \in ghold[p] :
         LET d == h[2]
         IN /\ ghold' = [ghold EXCEPT ![p] = @ \ {h}]
            /\ \/ d \in gkeep[p] /\ UNCHANGED <<kernelVars, faults, gkeep>>
               \/ d \notin gkeep[p] /\ HelperGrafts(h[1], gstage[p][d]) /\ UNCHANGED gkeep
               \/ /\ d \notin gkeep[p]
                  /\ HelperFails(h[1], gstage[p][d])
                  /\ gkeep' = [gkeep EXCEPT ![p] = @ \cup {d}]
    /\ UNCHANGED <<recordVars, watches, pc, dev, gstage, gleft>>

GraftScanned(p) ==
    /\ pc[p] = "gheal" /\ ghold[p] = {}
    /\ Goto(p, "gdone")
    /\ UNCHANGED <<kernelVars, recordVars, watches, faults, dev, graftVars>>

\* Under the lock again: of every volume, only the kept devices stay.
GraftDone(p) ==
    /\ pc[p] = "gdone"
    /\ persist([mem EXCEPT !.dead = [v \in Vol |-> @[v] \cap gkeep[p]]])
    /\ gstage' = [gstage EXCEPT ![p] = NoStage]
    /\ gkeep' = [gkeep EXCEPT ![p] = {}]
    /\ Goto(p, AfterGraft(p))
    /\ UNCHANGED <<kernelVars, watches, faults, dev, gleft, ghold>>

graftHolders(p) ==
    \/ GraftSnapshot(p) \/ GraftProbe(p) \/ GraftScan(p)
    \/ GraftHolder(p) \/ GraftScanned(p) \/ GraftDone(p)

GraftTypeOK ==
    /\ dev \in [Proc -> Dev \cup {NoDev}]
    /\ gstage \in [Proc -> [Dev -> Vol \cup {NoVol}]]
    /\ gleft \in [Proc -> SUBSET Dev]
    /\ gkeep \in [Proc -> SUBSET Dev]
    /\ ghold \in [Proc -> SUBSET (Container \X Dev)]

GraftInit ==
    /\ dev = [p \in Proc |-> NoDev]
    /\ gstage = [p \in Proc |-> NoStage]
    /\ gleft = [p \in Proc |-> {}]
    /\ gkeep = [p \in Proc |-> {}]
    /\ ghold = [p \in Proc |-> {}]
=============================================================================
